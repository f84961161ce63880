---------------------------- MODULE SyncRegister ----------------------------
(***************************************************************************)
(* What the synchronization of a project promises to its users, in atomic  *)
(* steps: a document, an archive of snapshots that never change, the       *)
(* snapshot the document was last synchronized with, and a flag that says  *)
(* whether the document differs from that snapshot.                        *)
(***************************************************************************)
CONSTANTS Clients, Contents, Empty, Corrupt, SnapIds, NoContent, NoSnap

VARIABLES
    exists,    \* the project is there
    doc,       \* its secrets
    base,      \* the snapshot last synchronized, or NoSnap
    dirty,     \* the badge "local changes not pushed"
    archive,   \* the content of each snapshot of the repository
    seen       \* the content each client has read for its operation

vars == <<exists, doc, base, dirty, archive, seen>>

Differs(k, s) == k # IF s = NoSnap THEN Empty ELSE archive[s]

Init ==
    /\ exists = TRUE
    /\ doc = Empty
    /\ base = NoSnap
    /\ dirty = FALSE
    /\ archive = [s \in SnapIds |-> NoContent]
    /\ seen = [c \in Clients |-> NoContent]

\* A client reads the document, as a preview or to push it.
Look(c) ==
    /\ seen' = [seen EXCEPT ![c] = doc]
    /\ UNCHANGED <<exists, doc, base, dirty, archive>>

\* Operations end without effect: refused, failed or lost in a crash.
Drop(cs) ==
    /\ seen' = [c \in Clients |-> IF c \in cs THEN NoContent ELSE seen[c]]
    /\ UNCHANGED <<exists, doc, base, dirty, archive>>

Edit(k) ==
    /\ exists
    /\ doc' = k
    /\ dirty' = Differs(k, base)
    /\ UNCHANGED <<exists, base, archive, seen>>

\* The document becomes the content of s, if it still is what c has seen.
Replace(c, s) ==
    /\ exists
    /\ doc = seen[c]
    /\ doc' = archive[s] /\ doc' \in Contents
    /\ base' = s
    /\ dirty' = FALSE
    /\ seen' = [seen EXCEPT ![c] = NoContent]
    /\ UNCHANGED <<exists, archive>>

\* A snapshot that holds what c read becomes the synchronized one.
Record(c, s) ==
    /\ exists
    /\ archive[s] = seen[c] /\ seen[c] # NoContent
    /\ base' = s
    /\ dirty' = Differs(doc, s)
    /\ seen' = [seen EXCEPT ![c] = NoContent]
    /\ UNCHANGED <<exists, doc, archive>>

Archive(s, k) ==
    /\ archive[s] = NoContent
    /\ archive' = [archive EXCEPT ![s] = k]
    /\ UNCHANGED <<exists, doc, base, dirty>>
    /\ seen' = seen \/ \E c \in Clients : seen' = [seen EXCEPT ![c] = NoContent]

Delete ==
    /\ exists /\ exists' = FALSE
    /\ doc' = Empty /\ base' = NoSnap /\ dirty' = FALSE
    /\ UNCHANGED <<archive, seen>>

Next ==
    \/ \E c \in Clients : \/ Look(c)
                          \/ \E s \in SnapIds : Replace(c, s) \/ Record(c, s)
    \/ \E cs \in SUBSET Clients : Drop(cs)
    \/ \E k \in Contents : Edit(k)
    \/ \E s \in SnapIds, k \in Contents \cup {Corrupt} : Archive(s, k)
    \/ Delete

Spec == Init /\ [][Next]_vars
=============================================================================
