------------------------------- MODULE Turns -------------------------------
(***************************************************************************)
(* What a family of chains (SyncLocks.ts) promises: of each chain one call  *)
(* runs at a time, in the order in which they joined, whatever becomes of   *)
(* those before it.                                                         *)
(***************************************************************************)
EXTENDS Naturals

CONSTANTS
    Calls, Keys,  \* of the chains
    Out           \* the call is in no chain

VARIABLE place    \* of each call: its chain, those ahead of it, its turn

Init == place = [c \in Calls |-> Out]

\* p stands for place.
In(p, k) == {c \in Calls : p[c] # Out /\ p[c].key = k}

Joined(p, c, k) ==
    [p EXCEPT ![c] = [key |-> k, ahead |-> In(p, k), turn |-> "awaited"]]

MayStart(p, c) == p[c] # Out /\ p[c].turn = "awaited" /\ p[c].ahead = {}

\* The next call does not start in the same step.
Without(p, S) ==
    [c \in Calls |->
        IF c \in S \/ p[c] = Out THEN Out ELSE [p[c] EXCEPT !.ahead = @ \ S]]

\* A call joins, starts, or leaves in its turn; or everyone leaves some chains
\* at once, as their process dies.
Step(old, new) ==
    \/ \E c \in Calls :
          \/ old[c] = Out /\ \E k \in Keys : new = Joined(old, c, k)
          \/ MayStart(old, c) /\ new = [old EXCEPT ![c].turn = "taken"]
          \/ old[c] # Out /\ old[c].turn = "taken" /\ new = Without(old, {c})
    \/ \E K \in SUBSET Keys : new = Without(old, UNION {In(old, k) : k \in K})

Next == LET old == place  new == place' IN new # old /\ Step(old, new)

Spec == Init /\ [][Next]_place
=============================================================================
