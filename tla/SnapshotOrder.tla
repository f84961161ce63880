--------------------------- MODULE SnapshotOrder ---------------------------
(***************************************************************************)
(* The order of the snapshots of a repository (compareSnapshots and         *)
(* latestSnapshot of restic/ResticClient.ts).  Snapshots are numbered in   *)
(* the order of their ids; the clocks of the hosts that push give them      *)
(* their times, in any order, and a time may be missing or unreadable.      *)
(***************************************************************************)
EXTENDS Integers

CONSTANTS
    Snapshots,    \* the ids of the snapshots that may ever be pushed
    Time,         \* the instant of each, when its time can be parsed
    Unreadable    \* a time that parseSnapshotTime answers null to

NoSnapshot == 0

ASSUME SnapshotsAreNumbered == Snapshots \subseteq Nat \ {0}
ASSUME TimesAreInstants ==
    /\ Unreadable \notin Int
    /\ Time \in [Snapshots -> Int \cup {Unreadable}]

\* compareSnapshots(s, t) > 0: s is more recent than t.
MoreRecent(s, t) ==
    \/ Time[s] # Unreadable /\ (Time[t] = Unreadable \/ Time[t] < Time[s])
    \/ Time[s] = Time[t] /\ t < s

\* latestSnapshot of a set that is not empty.
Latest(S) == CHOOSE s \in S : \A t \in S \ {s} : MoreRecent(s, t)
=============================================================================
