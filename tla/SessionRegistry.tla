-------------------------- MODULE SessionRegistry --------------------------
(***************************************************************************)
(* What the sign-in code promises of a session, whoever works on it at the *)
(* same time: it is opened once, for one account; it may be closed, by     *)
(* itself or with others of the same account; and closing is final.        *)
(***************************************************************************)
CONSTANTS Users, Sessions, None

VARIABLES
    owner,   \* the account a session was opened for
    live     \* the sessions that may still be refreshed

Init ==
    /\ owner = [s \in Sessions |-> None]
    /\ live = {}

Open(s, u) ==
    /\ owner[s] = None
    /\ owner' = [owner EXCEPT ![s] = u]
    /\ live' = live \cup {s}

Close(u, S) ==
    /\ \A s \in S : owner[s] = u
    /\ live' = live \ S
    /\ UNCHANGED owner

Next ==
    \E u \in Users :
        \/ \E s \in Sessions : Open(s, u)
        \/ \E S \in SUBSET Sessions : Close(u, S)

Spec == Init /\ [][Next]_<<owner, live>>
=============================================================================
