------------------------- MODULE MCSnapshotHistory -------------------------
(* Values for the constants of SnapshotHistory on small instances.          *)
EXTENDS SnapshotHistory

CONSTANTS n1, n2, k1, k2, absent, unreadable

\* Two snapshots have the same instant, and the one that is pushed while the
\* dialog is open has no readable time, which puts it last.
MCTime == [s \in Snapshots |-> IF s = 3 THEN unreadable ELSE 5]

Secret(v1, v2) == [k \in Keys |-> IF k = k1 THEN v1 ELSE v2]
Both(d1, d2)   == [n \in Names |-> IF n = n1 THEN d1 ELSE d2]

MCEdited == {Both(Secret(1, 2), NoSecret), Both(Secret(2, absent), Secret(1, 1))}
MCContentOf ==
    [s \in Snapshots |->
        CASE s = 1 -> Both(Secret(1, 1), NoSecret)
          [] s = 2 -> Both(Secret(absent, 2), Secret(1, 1))
          [] OTHER -> Both(NoSecret, Secret(absent, absent))]
MCHash(c) == <<"sha256", c>>
=============================================================================
