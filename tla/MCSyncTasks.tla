---------------------------- MODULE MCSyncTasks ----------------------------
(* A small instance of SyncTasks. *)
EXTENDS SyncTasks

CONSTANTS r1, p1, e2

\* One edit comes to another replica than all other calls.
MCChain == [c \in Calls |-> IF c = e2 THEN <<CHOOSE r \in Replicas : r # r1, p1>>
                            ELSE <<r1, p1>>]
=============================================================================
