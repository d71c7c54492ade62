-------------------------------- MODULE Takeover --------------------------------
(***************************************************************************)
(* What the gateway promises the instances of an access that share a       *)
(* credential: who may register, who has to give way to whom, and that an  *)
(* instance that had to give way does not come back.  A key is a pair of a  *)
(* credential and an instance.                                             *)
(***************************************************************************)
EXTENDS Naturals

CONSTANTS Credentials, Instances

VARIABLES single,  \* the credentials that one instance may use at a time
          turn,    \* of every key that registered: a number, greater for the later
          out,     \* keys that had to give way
          live     \* keys with a live session

takeover == <<single, turn, out, live>>

Init ==
    /\ single \subseteq Credentials
    /\ DOMAIN turn = {} /\ out = {} /\ live = {}

Rivals(keys, c, i) == {k \in keys : k[1] = c /\ k[2] # i}

\* An instance that has not given way registers.  Under single access all others of
\* the credential give way, now and for later.
Join(c, i) ==
    LET key == <<c, i>>
    IN  /\ key \notin out
        /\ DOMAIN turn' = DOMAIN turn \cup {key}
        /\ \A k \in DOMAIN turn :
              turn'[k] = turn[k] /\ (key \notin DOMAIN turn => turn[k] < turn'[key])
        /\ \/ /\ c \in single
              /\ out' = out \cup Rivals(DOMAIN turn, c, i)
              /\ live' = (live \ Rivals(live, c, i)) \cup {key}
           \/ /\ c \notin single
              /\ out' = out
              /\ live' = live \cup {key}
        /\ UNCHANGED single

\* Sessions end.
End ==
    /\ live' \subseteq live
    /\ UNCHANGED <<single, turn, out>>

\* The configuration changes: of the instances that share a credential with single
\* access, the live one that registered last stays; sessions may also end because
\* their user changed.
Newest(key) == \A k \in live : k[1] = key[1] => turn[k] <= turn[key]
Losers(next) ==
    {k \in DOMAIN turn : k[1] \in next /\ \E l \in live : l[1] = k[1] /\ l # k /\ Newest(l)}
Change(next) ==
    /\ single' = next
    /\ out' = out \cup Losers(next)
    /\ live' \subseteq live \ Losers(next)
    /\ UNCHANGED turn

\* A new gateway token starts a new history.
Restart(next) == single' = next /\ DOMAIN turn' = {} /\ out' = {} /\ live' = {}

Next ==
    \/ \E c \in Credentials, i \in Instances : Join(c, i)
    \/ End
    \/ \E next \in SUBSET Credentials : Change(next) \/ Restart(next)

Spec == Init /\ [][Next]_takeover
================================================================================
