------------------------- MODULE ProjectSyncProofs -------------------------
(***************************************************************************)
(* Proofs about ProjectSync, for every set of clients, replicas, contents  *)
(* and snapshots.  The inductive invariant is built in layers; each layer  *)
(* is proved inductive from the ones before it:                            *)
(*                                                                         *)
(*   Typed     types, and what is known to have been read at each await    *)
(*   Guarded   the decision taken under the write lock still holds when    *)
(*             the transaction commits                                     *)
(*   AllPinned a confirmed pull or restore keeps the snapshot displayed    *)
(*   InTurn    a running sync operation holds the queue of its replica     *)
(*   AllCovered  what a push has not seen of the repository                *)
(*   HashSound   the stored hash is that of the stored content             *)
(*   Traced    what content every snapshot id that is held stands for      *)
(***************************************************************************)
EXTENDS ProjectSync, TLAPS

\* A stored snapshot has a content, and only a stored one.
RepoFilled == \A s \in SnapIds : vis[s] = "none" <=> contentOf[s] = NoContent

\* What a request with the locals q has read when it stands at l.
Known(l, q) ==
    /\ l \in {"queued", "capture", "list"} => q.op \in Replacing \cup {"push"}
    /\ l \in {"write", "commit"} => q.op \in Ops
    /\ l \in {"restore", "current", "previewed"}
          => q.op \in Replacing /\ q.target \in SnapIds
    /\ l \in {"backup", "resolve"} => q.op = "push"
    /\ l \in {"list", "backup", "resolve"} /\ q.op = "push"
          => q.payload \in Contents
    /\ l = "resolve" => q.made \in SnapIds
    /\ l = "current" => q.payload \in Contents
    /\ l \in {"write", "commit"} /\ q.op \in Replacing \cup {"push"}
          => q.target \in SnapIds /\ q.payload \in Contents
    /\ l = "commit" /\ q.op = "edit" => q.payload \in Contents
    /\ l = "commit" /\ q.op \in {"edit", "push"} => q.fresh \in Hashes

Progress == \A c \in Clients : Known(pc[c], req[c])

Typed == TypeOK /\ RepoFilled /\ Progress

-----------------------------------------------------------------------------
(* Types *)

LEMMA BlankIsRequest == Blank \in Request
  BY DEF Blank, Request, NoSnap

LEMMA HashInHashes == \A k \in Contents : Hash(k) \in Hashes
  BY DEF Hashes

\* A request that moves on keeps the shape of the program counters.
LEMMA GotoTyped ==
  ASSUME TypeOK, NEW c \in Clients, NEW l \in PCs, NEW q \in Request,
         Goto(c, l, q)
  PROVE  /\ pc' \in [Clients -> PCs]
         /\ req' \in [Clients -> Request]
         /\ pc'[c] = l /\ req'[c] = q
         /\ \A d \in Clients \ {c} : pc'[d] = pc[d] /\ req'[d] = req[d]
  BY DEF TypeOK, Goto

LEMMA LeaveQueueTyped ==
  ASSUME TypeOK, NEW c \in Clients, LeaveQueue(c)
  PROVE  busy' \in [Replicas -> Clients \cup {NoOne}]
  BY DEF TypeOK, LeaveQueue

LEMMA AnswerTyped ==
  ASSUME TypeOK, NEW c \in Clients, Answer(c)
  PROVE  /\ pc' \in [Clients -> PCs]
         /\ req' \in [Clients -> Request]
         /\ busy' \in [Replicas -> Clients \cup {NoOne}]
         /\ overtaken' \in SUBSET Clients
         /\ pc'[c] = "idle" /\ req'[c] = Blank
         /\ \A d \in Clients \ {c} : pc'[d] = pc[d] /\ req'[d] = req[d]
  <1>1. Goto(c, "idle", Blank) /\ LeaveQueue(c) /\ overtaken' = overtaken \ {c}
    BY DEF Answer
  <1>2. "idle" \in PCs
    BY DEF PCs, Idle
  <1>3. QED
    BY <1>1, <1>2, BlankIsRequest, GotoTyped, LeaveQueueTyped DEF TypeOK

LEMMA GotoProgress ==
  ASSUME TypeOK, Progress, NEW c \in Clients, NEW l \in PCs, NEW q \in Request,
         Goto(c, l, q), Known(l, q)
  PROVE  Progress'
  <1>1. ASSUME NEW d \in Clients PROVE Known(pc'[d], req'[d])
    BY GotoTyped DEF Progress
  <1>2. QED
    BY <1>1 DEF Progress, Known

LEMMA AnswerProgress ==
  ASSUME TypeOK, Progress, NEW c \in Clients, Answer(c)
  PROVE  Progress'
  <1>1. Known("idle", Blank)
    BY DEF Known, Blank
  <1>2. QED
    BY <1>1, BlankIsRequest, GotoProgress DEF Answer, PCs, Idle

\* Storing a snapshot keeps the repository filled.
LEMMA StoreTyped ==
  ASSUME TypeOK, RepoFilled, NEW s \in SnapIds, NEW k \in SnapContents, Store(s, k)
  PROVE  /\ vis' \in [SnapIds -> {"none", "lagging", "listed", "forgotten"}]
         /\ contentOf' \in [SnapIds -> SnapContents \cup {NoContent}]
         /\ RepoFilled'
  BY SentinelsDiffer DEF TypeOK, RepoFilled, Store

-----------------------------------------------------------------------------
(* The first layer: types, and what has been read *)

LEMMA ArriveTyped ==
  ASSUME Typed, NEW c \in Clients, Arrive(c)
  PROVE  Typed'
  <1> USE DEF Typed
  <1>1. RepoFilled'
    BY DEF Arrive, OpenPreview, Confirm, Abandon, RequestPush, RequestWrite,
           RepoFilled, repo
  <1>2. ASSUME NEW r \in Replicas, NEW o \in {"pull", "restore", "discard"},
               NEW s \in SnapIds \cup {NoSnap}, OpenPreview(c, r, o, s)
        PROVE  TypeOK' /\ Progress'
    <2> DEFINE q == [Blank EXCEPT !.op = o, !.at = r, !.preview = TRUE,
                                  !.target = s, !.observed = lastSync]
    <2>1. o \in Ops /\ lastSync \in SnapIds \cup {NoSnap}
      BY DEF Ops, Replacing, TypeOK
    <2>2. q \in Request
      BY <2>1, BlankIsRequest DEF Request
    <2>3. q.op = o /\ o \in Replacing
      BY DEF Blank, Replacing
    <2>4. "queued" \in PCs /\ Known("queued", q)
      BY <2>3 DEF PCs, Known
    <2>5. QED
      BY <1>2, <2>2, <2>4, GotoTyped, GotoProgress DEF OpenPreview, TypeOK, row, repo
  <1>3. ASSUME NEW r \in Replicas, NEW token \in BOOLEAN, Confirm(c, r, token)
        PROVE  TypeOK' /\ Progress'
    <2> DEFINE e == IF token THEN req[c].expected ELSE NoHash
    <2> DEFINE q == [req[c] EXCEPT !.at = r, !.preview = FALSE,
                                   !.observed = lastSync, !.expected = e]
    <2>1. /\ req[c] \in Request /\ lastSync \in SnapIds \cup {NoSnap}
          /\ e \in Hashes \cup {NoHash}
      BY DEF TypeOK, Request
    <2> HIDE DEF e
    <2>2. q \in Request
      BY <2>1 DEF Request
    <2>3. q.op = req[c].op /\ req[c].op \in Replacing
      BY <1>3, <2>1 DEF Confirm, Request, Progress, Known
    <2>4. "queued" \in PCs /\ Known("queued", q)
      BY <2>3 DEF PCs, Known
    <2>5. QED
      BY <1>3, <2>2, <2>4, GotoTyped, GotoProgress DEF Confirm, e, TypeOK, row, repo
  <1>4. ASSUME NEW r \in Replicas, RequestPush(c, r)
        PROVE  TypeOK' /\ Progress'
    <2> DEFINE q == [Blank EXCEPT !.op = "push", !.at = r, !.observed = lastSync]
    <2>1. "push" \in Ops /\ lastSync \in SnapIds \cup {NoSnap}
      BY DEF Ops, TypeOK
    <2>2. q \in Request
      BY <2>1, BlankIsRequest DEF Request
    <2>3. "queued" \in PCs /\ Known("queued", q)
      BY DEF PCs, Known, Blank
    <2>4. QED
      BY <1>4, <2>2, <2>3, GotoTyped, GotoProgress
      DEF RequestPush, TypeOK, row, repo
  <1>5. ASSUME NEW r \in Replicas, NEW o \in {"edit", "delete"},
               RequestWrite(c, r, o)
        PROVE  TypeOK' /\ Progress'
    <2> DEFINE q == [Blank EXCEPT !.op = o, !.at = r]
    <2>1. o \in Ops
      BY DEF Ops
    <2>2. q \in Request
      BY <2>1, BlankIsRequest DEF Request
    <2>3. q.op = o
      BY DEF Blank
    <2>4. "write" \in PCs /\ Known("write", q)
      BY <2>1, <2>3 DEF PCs, Known, Replacing
    <2>5. QED
      BY <1>5, <2>2, <2>4, GotoTyped, GotoProgress
      DEF RequestWrite, TypeOK, row, repo
  <1>6. ASSUME Abandon(c)
        PROVE  TypeOK' /\ Progress'
    <2>1. "idle" \in PCs /\ Known("idle", Blank)
      BY DEF PCs, Idle, Known, Blank
    <2>2. QED
      BY <1>6, <2>1, BlankIsRequest, GotoTyped, GotoProgress
      DEF Abandon, TypeOK, row, repo
  <1>7. QED
    BY <1>1, <1>2, <1>3, <1>4, <1>5, <1>6 DEF Arrive

LEMMA StartSyncTyped ==
  ASSUME Typed, NEW c \in Clients, StartSync(c)
  PROVE  Typed'
  <1> DEFINE o == IF exists THEN lastSync ELSE req[c].observed
  <1> DEFINE t == IF req[c].op = "discard" THEN o ELSE req[c].target
  <1> DEFINE l == IF req[c].op = "push"
                     \/ (~req[c].preview /\ req[c].expected = NoHash)
                  THEN "capture" ELSE "list"
  <1> DEFINE q == [req[c] EXCEPT !.observed = o, !.target = t]
  <1>1. /\ req[c] \in Request /\ o \in SnapIds \cup {NoSnap}
        /\ t \in SnapIds \cup {NoSnap}
    BY DEF Typed, TypeOK, Request
  <1>2. q \in Request
    <2> HIDE DEF o, t
    <2> QED
      BY <1>1 DEF Request
  <1>3. l \in PCs /\ Known(l, q)
    <2>1. q.op = req[c].op /\ req[c].op \in Replacing \cup {"push"}
      BY <1>1 DEF StartSync, Typed, Progress, Known, Request
    <2>2. l \in PCs /\ (q.op = "push" => l = "capture")
      BY <2>1 DEF PCs, Restic
    <2>3. l \in {"capture", "list"}
      OBVIOUS
    <2> HIDE DEF l, q
    <2>4. QED
      BY <2>1, <2>2, <2>3 DEF Known
  <1>4. UNCHANGED <<row, repo, lock, refresh>>
    BY DEF StartSync
  <1>5. CASE Answer(c)
    BY <1>4, <1>5, AnswerTyped, AnswerProgress
    DEF Typed, TypeOK, RepoFilled, row, repo
  <1>6. CASE ~Answer(c)
    <2>1. /\ Goto(c, l, q)
          /\ busy' = [busy EXCEPT ![req[c].at] = c]
          /\ UNCHANGED overtaken
      BY <1>1, <1>6 DEF StartSync, Request
    <2>2. busy' \in [Replicas -> Clients \cup {NoOne}]
      BY <2>1 DEF Typed, TypeOK
    <2> HIDE DEF l, q
    <2>3. QED
      BY <1>2, <1>3, <1>4, <2>1, <2>2, GotoTyped, GotoProgress
      DEF Typed, TypeOK, RepoFilled, row, repo
  <1>7. QED
    BY <1>5, <1>6

LEMMA CaptureTyped ==
  ASSUME Typed, NEW c \in Clients, Capture(c)
  PROVE  Typed'
  <1> DEFINE p == [req[c] EXCEPT !.payload = secrets]
  <1> DEFINE r == [req[c] EXCEPT !.expected = Hash(secrets), !.seen = secrets]
  <1>1. /\ req[c] \in Request /\ secrets \in Contents
        /\ Hash(secrets) \in Hashes
    BY HashInHashes DEF Typed, TypeOK
  <1>2. p \in Request
    BY <1>1 DEF Request
  <1>3. r \in Request
    BY <1>1 DEF Request
  <1>4. /\ "list" \in PCs
        /\ p.payload = secrets /\ p.op = req[c].op /\ r.op = req[c].op
        /\ req[c].op \in Replacing \cup {"push"}
    BY <1>1 DEF PCs, Restic, Request, Capture, Typed, Progress, Known
  <1> HIDE DEF p, r
  <1>5. CASE req[c].op = "push"
    <2>1. Goto(c, "list", p)
      BY <1>5 DEF Capture, p
    <2>2. Known("list", p)
      BY <1>1, <1>4 DEF Known
    <2>3. QED
      BY <1>2, <1>4, <2>1, <2>2, GotoTyped, GotoProgress
      DEF Capture, Typed, TypeOK, RepoFilled, row, repo
  <1>6. CASE req[c].op # "push"
    <2>1. Goto(c, "list", r)
      BY <1>6 DEF Capture, r
    <2>2. Known("list", r)
      BY <1>4, <1>6 DEF Known
    <2>3. QED
      BY <1>3, <1>4, <2>1, <2>2, GotoTyped, GotoProgress
      DEF Capture, Typed, TypeOK, RepoFilled, row, repo
  <1>7. QED
    BY <1>5, <1>6

\* A request that ends touches nothing but the queue.
LEMMA RefusedTyped ==
  ASSUME Typed, NEW c \in Clients, Answer(c),
         UNCHANGED <<row, repo, refresh>>, lock' \in Clients \cup {NoOne}
  PROVE  Typed'
  BY AnswerTyped, AnswerProgress DEF Typed, TypeOK, RepoFilled, row, repo

\* A request that moves on without touching anything shared.
LEMMA AdvanceTyped ==
  ASSUME Typed, NEW c \in Clients, NEW l \in PCs, NEW q \in Request,
         Goto(c, l, q), Known(l, q),
         UNCHANGED <<row, repo, refresh>>, lock' \in Clients \cup {NoOne},
         busy' \in [Replicas -> Clients \cup {NoOne}],
         overtaken' \in SUBSET Clients
  PROVE  Typed'
  BY GotoTyped, GotoProgress DEF Typed, TypeOK, RepoFilled, row, repo

LEMMA ListTyped ==
  ASSUME Typed, NEW c \in Clients, List(c)
  PROVE  Typed'
  <1>1. /\ req[c] \in Request /\ Listed \in SUBSET SnapIds
        /\ UNCHANGED <<row, repo, lock, refresh>>
        /\ lock' \in Clients \cup {NoOne}
    BY DEF List, Listed, Typed, TypeOK
  <1>2. CASE Answer(c)
    BY <1>1, <1>2, RefusedTyped
  <1>3. ASSUME req[c].op = "push", UNCHANGED <<busy, overtaken>>,
               Goto(c, "backup", [req[c] EXCEPT !.known = Listed])
        PROVE  Typed'
    <2> DEFINE q == [req[c] EXCEPT !.known = Listed]
    <2>1. q \in Request
      BY <1>1 DEF Request
    <2>2. "backup" \in PCs /\ Known("backup", q)
      BY <1>1, <1>3 DEF List, PCs, Restic, Known, Typed, Progress, Request
    <2>3. QED
      BY <1>1, <1>3, <2>1, <2>2, AdvanceTyped DEF Typed, TypeOK
  <1>4. ASSUME req[c].op # "push", UNCHANGED <<busy, overtaken>>,
               NEW s \in SnapIds, Goto(c, "restore", [req[c] EXCEPT !.target = s])
        PROVE  Typed'
    <2> DEFINE q == [req[c] EXCEPT !.target = s]
    <2>1. q \in Request
      BY <1>1 DEF Request
    <2>2. q.op = req[c].op /\ q.target = s
      BY <1>1 DEF Request
    <2>3. "restore" \in PCs /\ Known("restore", q)
      BY <1>1, <2>2, <1>4 DEF List, PCs, Restic, Known, Typed, Progress
    <2>4. QED
      BY <1>1, <1>4, <2>1, <2>3, AdvanceTyped DEF Typed, TypeOK
  <1>5. QED
    BY <1>1, <1>2, <1>3, <1>4 DEF List, Selectable

LEMMA RestoreTyped ==
  ASSUME Typed, NEW c \in Clients, Restore(c)
  PROVE  Typed'
  <1> DEFINE k == contentOf[req[c].target]
  <1> DEFINE q == [req[c] EXCEPT !.payload = k]
  <1> DEFINE l == IF req[c].preview THEN "current" ELSE "write"
  <1>1. /\ req[c] \in Request /\ UNCHANGED <<row, repo, lock, refresh>>
        /\ lock' \in Clients \cup {NoOne}
        /\ req[c].op \in Replacing /\ req[c].target \in SnapIds
    BY DEF Restore, Typed, TypeOK, Progress, Known
  <1>2. CASE Answer(c)
    BY <1>1, <1>2, RefusedTyped
  <1>3. CASE ~Answer(c)
    <2>1. /\ Goto(c, l, q) /\ UNCHANGED <<busy, overtaken>>
          /\ vis[req[c].target] = "listed" /\ k # Corrupt
      BY <1>3 DEF Restore
    <2>2. k \in Contents
      <3>1. k # NoContent /\ k \in SnapContents \cup {NoContent}
        BY <1>1, <2>1 DEF Typed, TypeOK, RepoFilled
      <3>2. QED
        BY <2>1, <3>1 DEF SnapContents
    <2>3. q.op = req[c].op /\ q.target = req[c].target /\ q.payload = k
      BY <1>1 DEF Request
    <2> HIDE DEF k
    <2>4. q \in Request
      BY <1>1, <2>2 DEF Request
    <2>5. l \in PCs /\ Known(l, q)
      BY <1>1, <2>2, <2>3 DEF PCs, Known, Ops
    <2> HIDE DEF l, q
    <2>6. QED
      BY <1>1, <2>1, <2>4, <2>5, AdvanceTyped DEF Typed, TypeOK
  <1>4. QED
    BY <1>2, <1>3

LEMMA ReadCurrentTyped ==
  ASSUME Typed, NEW c \in Clients, ReadCurrent(c)
  PROVE  Typed'
  <1> DEFINE q == [Blank EXCEPT !.op = req[c].op, !.target = req[c].target,
                                !.shown = req[c].target,
                                !.expected = Hash(secrets), !.seen = secrets]
  <1>1. /\ req[c].op \in Ops /\ req[c].target \in SnapIds
        /\ req[c].op \in Replacing
        /\ secrets \in Contents /\ Hash(secrets) \in Hashes
        /\ lock' \in Clients \cup {NoOne}
    BY HashInHashes
    DEF ReadCurrent, Typed, TypeOK, Progress, Known, Ops
  <1>2. q \in Request
    BY <1>1, BlankIsRequest DEF Request
  <1>3. "previewed" \in PCs /\ Known("previewed", q)
    BY <1>1 DEF PCs, Idle, Known, Blank
  <1>4. Goto(c, "previewed", q) /\ UNCHANGED <<row, repo, refresh>>
    BY DEF ReadCurrent
  <1> HIDE DEF q
  <1>5. QED
    BY <1>1, <1>2, <1>3, <1>4, LeaveQueueTyped, AdvanceTyped
    DEF ReadCurrent, Typed, TypeOK

LEMMA BackupTyped ==
  ASSUME Typed, NEW c \in Clients, NEW s \in SnapIds, Backup(c, s)
  PROVE  Typed'
  <1>1. PICK named \in BOOLEAN :
          Goto(c, "resolve", [req[c] EXCEPT !.made = s, !.named = named])
    BY DEF Backup
  <1> DEFINE q == [req[c] EXCEPT !.made = s, !.named = named]
  <1>2. /\ req[c] \in Request /\ req[c].op = "push" /\ req[c].payload \in Contents
        /\ Store(s, req[c].payload) /\ UNCHANGED <<row, busy, lock, refresh, overtaken>>
    BY DEF Backup, Typed, TypeOK, Progress, Known
  <1>3. q \in Request
    BY <1>2 DEF Request
  <1>4. q.op = "push" /\ q.payload = req[c].payload /\ q.made = s
    BY <1>2 DEF Request
  <1>5. "resolve" \in PCs /\ Known("resolve", q)
    BY <1>2, <1>4 DEF PCs, Restic, Known
  <1> HIDE DEF q
  <1>6. Goto(c, "resolve", q)
    BY <1>1 DEF q
  <1>7. QED
    BY <1>2, <1>3, <1>5, <1>6, GotoTyped, GotoProgress, StoreTyped
    DEF Typed, TypeOK, SnapContents, row

LEMMA BackupLostTyped ==
  ASSUME Typed, NEW c \in Clients, NEW s \in SnapIds, BackupLost(c, s)
  PROVE  Typed'
  <1>1. req[c].payload \in SnapContents
    BY DEF BackupLost, Typed, Progress, Known, SnapContents
  <1>2. QED
    BY <1>1, AnswerTyped, AnswerProgress, StoreTyped
    DEF BackupLost, Typed, TypeOK, row

LEMMA ResolveTyped ==
  ASSUME Typed, NEW c \in Clients, Resolve(c)
  PROVE  Typed'
  <1>1. /\ req[c] \in Request /\ UNCHANGED <<row, repo, lock, refresh>>
        /\ lock' \in Clients \cup {NoOne}
        /\ req[c].op = "push" /\ req[c].payload \in Contents
    BY DEF Resolve, Typed, TypeOK, Progress, Known
  <1>2. CASE Answer(c)
    BY <1>1, <1>2, RefusedTyped
  <1>3. CASE ~Answer(c)
    <2>1. PICK s \in Resolved(req[c], Listed) :
            Goto(c, "write", [req[c] EXCEPT !.target = s])
      BY <1>3 DEF Resolve
    <2> DEFINE q == [req[c] EXCEPT !.target = s]
    <2>2. s \in SnapIds
      BY <2>1 DEF Resolved, Listed
    <2>3. q \in Request
      BY <1>1, <2>2 DEF Request
    <2>4. q.op = "push" /\ q.payload = req[c].payload /\ q.target = s
      BY <1>1 DEF Request
    <2>5. "write" \in PCs /\ Known("write", q)
      BY <1>1, <2>2, <2>4 DEF PCs, Known, Ops
    <2>6. UNCHANGED <<busy, overtaken>>
      BY <1>3 DEF Resolve
    <2> HIDE DEF q
    <2>7. Goto(c, "write", q)
      BY <2>1 DEF q
    <2>8. QED
      BY <1>1, <2>3, <2>5, <2>6, <2>7, AdvanceTyped DEF Typed, TypeOK
  <1>4. QED
    BY <1>2, <1>3

LEMMA EnterWriteTyped ==
  ASSUME Typed, NEW c \in Clients, NEW k \in Contents, EnterWrite(c, k)
  PROVE  Typed'
  <1> DEFINE e == [req[c] EXCEPT !.payload = k, !.fresh = Hash(k)]
  <1> DEFINE p == [req[c] EXCEPT !.fresh = Hash(secrets)]
  <1>1. /\ req[c] \in Request /\ UNCHANGED <<row, repo, refresh>>
        /\ Hash(k) \in Hashes /\ Hash(secrets) \in Hashes
        /\ "commit" \in PCs /\ req[c].op \in Ops
        /\ Known("write", req[c])
    BY HashInHashes
    DEF EnterWrite, PCs, Typed, TypeOK, Progress, Known
  <1>2. e \in Request
    BY <1>1 DEF Request
  <1>3. p \in Request
    BY <1>1 DEF Request
  <1>4. /\ e.op = req[c].op /\ e.payload = k /\ e.fresh = Hash(k)
        /\ e.target = req[c].target
    BY <1>1 DEF Request
  <1>5. /\ p.op = req[c].op /\ p.payload = req[c].payload
        /\ p.fresh = Hash(secrets) /\ p.target = req[c].target
    BY <1>1 DEF Request
  <1> HIDE DEF e, p
  <1>6. CASE Answer(c)
    BY <1>1, <1>6, RefusedTyped DEF EnterWrite, Typed, TypeOK
  <1>7. CASE ~Answer(c)
    <2>1. /\ lock' = c /\ UNCHANGED <<busy, overtaken>>
          /\ Goto(c, "commit", CASE req[c].op = "edit" -> e
                                 [] req[c].op = "push" -> p
                                 [] OTHER -> req[c])
      BY <1>7 DEF EnterWrite, FreshHash, e, p
    <2>2. \E q \in Request : Goto(c, "commit", q) /\ Known("commit", q)
      <3>1. CASE req[c].op = "edit"
        BY <1>1, <1>2, <1>4, <2>1, <3>1 DEF Known, Replacing
      <3>2. CASE req[c].op = "push"
        BY <1>1, <1>3, <1>5, <2>1, <3>2 DEF Known
      <3>3. CASE req[c].op \notin {"edit", "push"}
        BY <1>1, <2>1, <3>3 DEF Known
      <3>4. QED
        BY <3>1, <3>2, <3>3
    <2>3. QED
      BY <1>1, <2>1, <2>2, AdvanceTyped DEF Typed, TypeOK
  <1>8. QED
    BY <1>6, <1>7

LEMMA CommitTyped ==
  ASSUME Typed, NEW c \in Clients,
         CommitReplace(c) \/ CommitPush(c) \/ CommitEdit(c) \/ CommitDelete(c)
  PROVE  Typed'
  <1>1. EndWrite(c) /\ overtaken' \in SUBSET Clients
    BY DEF CommitReplace, CommitPush, CommitEdit, CommitDelete, Overtakes,
           Typed, TypeOK
  <1>2. /\ lock' \in Clients \cup {NoOne}
        /\ busy' \in [Replicas -> Clients \cup {NoOne}]
        /\ Goto(c, "idle", Blank) /\ UNCHANGED <<repo, refresh>>
    BY <1>1, LeaveQueueTyped DEF EndWrite, Typed, TypeOK
  <1>3. "idle" \in PCs /\ Known("idle", Blank)
    BY DEF PCs, Idle, Known
  <1>4. Known("commit", req[c]) /\ pc[c] = "commit" /\ req[c] \in Request
    BY <1>1 DEF EndWrite, Typed, TypeOK, Progress
  <1>5. /\ exists' \in BOOLEAN /\ secrets' \in Contents
        /\ curHash' \in Hashes \cup {NoHash} /\ lastHash' \in Hashes \cup {NoHash}
        /\ lastSync' \in SnapIds \cup {NoSnap}
    <2>1. CASE CommitReplace(c)
      BY <1>4, <2>1, HashInHashes DEF CommitReplace, Known, Typed, TypeOK
    <2>2. CASE CommitPush(c)
      BY <1>4, <2>2, HashInHashes
      DEF CommitPush, PushedHash, Known, Typed, TypeOK
    <2>3. CASE CommitEdit(c)
      BY <1>4, <2>3 DEF CommitEdit, Known, Typed, TypeOK
    <2>4. CASE CommitDelete(c)
      BY <2>4, EmptyIsContent DEF CommitDelete
    <2>5. QED
      BY <2>1, <2>2, <2>3, <2>4
  <1>6. QED
    BY <1>1, <1>2, <1>3, <1>5, BlankIsRequest, GotoTyped, GotoProgress
    DEF Typed, TypeOK, RepoFilled, repo

LEMMA FailTyped ==
  ASSUME Typed, NEW c \in Clients, Fail(c)
  PROVE  Typed'
  BY RefusedTyped DEF Fail, Typed, TypeOK

LEMMA CrashTyped ==
  ASSUME Typed, NEW r \in Replicas, Crash(r)
  PROVE  Typed'
  <1>1. /\ pc' \in [Clients -> PCs] /\ req' \in [Clients -> Request]
        /\ Progress'
    BY BlankIsRequest
    DEF Crash, Typed, TypeOK, Progress, Known, PCs, Idle, Blank
  <1>2. QED
    BY <1>1 DEF Crash, Typed, TypeOK, RepoFilled, row, repo

LEMMA RepositoryTyped ==
  ASSUME Typed, NEW s \in SnapIds,
         \/ \E k \in SnapContents : ExternalBackup(s, k)
         \/ ExternalForget(s) \/ Settle(s)
  PROVE  Typed'
  <1>1. CASE \E k \in SnapContents : ExternalBackup(s, k)
    BY <1>1, StoreTyped DEF ExternalBackup, Typed, TypeOK, Progress, Known, row
  <1>2. CASE ExternalForget(s)
    BY <1>2 DEF ExternalForget, Typed, TypeOK, RepoFilled, Progress, Known, row
  <1>3. CASE Settle(s)
    BY <1>3 DEF Settle, Typed, TypeOK, RepoFilled, Progress, Known, row
  <1>4. QED
    BY <1>1, <1>2, <1>3

LEMMA RefreshTyped ==
  ASSUME Typed, Refresh
  PROVE  Typed'
  <1>1. CASE RefreshRead
    BY <1>1, HashInHashes
    DEF RefreshRead, Typed, TypeOK, RepoFilled, Progress, Known, row, repo
  <1>2. CASE RefreshWrite
    BY <1>2 DEF RefreshWrite, Typed, TypeOK, RepoFilled, Progress, Known, repo
  <1>3. CASE RefreshLost
    BY <1>3
    DEF RefreshLost, Typed, TypeOK, RepoFilled, Progress, Known, row, repo
  <1>4. QED
    BY <1>1, <1>2, <1>3 DEF Refresh

LEMMA StutterTyped ==
  ASSUME Typed, UNCHANGED vars
  PROVE  Typed'
  BY DEF vars, row, repo, Typed, TypeOK, RepoFilled, Progress, Known

LEMMA InitTyped == Init => Typed
  BY BlankIsRequest, EmptyIsContent, SentinelsDiffer
  DEF Init, Typed, TypeOK, RepoFilled, Progress, Known, PCs, Idle

LEMMA NextTyped == Typed /\ [Next]_vars => Typed'
  <1> SUFFICES ASSUME Typed, [Next]_vars PROVE Typed'
    OBVIOUS
  <1>1. ASSUME NEW c \in Clients, Arrive(c) PROVE Typed'
    BY <1>1, ArriveTyped
  <1>2. ASSUME NEW c \in Clients, Proceed(c) PROVE Typed'
    BY <1>2, StartSyncTyped, CaptureTyped, ListTyped, RestoreTyped,
       ReadCurrentTyped, BackupTyped, BackupLostTyped, ResolveTyped,
       EnterWriteTyped, CommitTyped, FailTyped
    DEF Proceed, Work
  <1>3. CASE Refresh
    BY <1>3, RefreshTyped
  <1>4. CASE Environment
    BY <1>4, CrashTyped, RepositoryTyped DEF Environment
  <1>5. CASE UNCHANGED vars
    BY <1>5, StutterTyped
  <1>6. QED
    BY <1>1, <1>2, <1>3, <1>4, <1>5 DEF Next

\* Every reachable state is well typed, and a request never goes on with a
\* local variable that its handler has not assigned yet.
THEOREM AlwaysTyped == Spec => []Typed
  <1>1. QED
    BY InitTyped, NextTyped, PTL DEF Spec

\* TypeOK holds in every reachable state, for every instance.
THEOREM TypeCorrect == Spec => []TypeOK
  <1>1. Typed => TypeOK
    BY DEF Typed
  <1>2. QED
    BY <1>1, AlwaysTyped, PTL

-----------------------------------------------------------------------------
(* Safety: a second layer of the inductive invariant says that what a request *)
(* decided under the write lock still holds when its transaction commits, and *)
(* what its token stands for.                                                 *)

\* A confirmation token is the hash of the content that the client has seen.
Token(q) ==
    q.expected # NoHash => q.seen \in Contents /\ q.expected = Hash(q.seen)

\* What was checked under the lock.
Decided(q) ==
    /\ exists
    /\ q.op \in Replacing => Hash(secrets) = q.expected
    /\ q.op = "push" => lastSync = q.observed /\ q.fresh = Hash(secrets)
    /\ q.op = "edit" => q.fresh = Hash(q.payload)

Guarded ==
    \A c \in Clients :
        /\ Token(req[c])
        /\ pc[c] = "commit" => lock = c /\ Decided(req[c])

-----------------------------------------------------------------------------
\* What Goto does, whatever the target.
LEMMA GotoEffect ==
  ASSUME TypeOK, NEW c \in Clients, NEW l, NEW q, Goto(c, l, q)
  PROVE  /\ pc'[c] = l /\ req'[c] = q
         /\ \A d \in Clients \ {c} : pc'[d] = pc[d] /\ req'[d] = req[d]
  BY DEF TypeOK, Goto

LEMMA BlankToken == Token(Blank)
  BY DEF Token, Blank

\* A request that moves outside of its write section, or leaves it without
\* a commit, disturbs no decision.
LEMMA MoveGuarded ==
  ASSUME Typed, Guarded, NEW c \in Clients, NEW l, NEW q, Goto(c, l, q),
         l # "commit", Token(q), UNCHANGED row,
         lock' = lock \/ lock = c
  PROVE  Guarded'
  <1> DEFINE Safe(d) ==
        Token(req[d]) /\ (pc[d] = "commit" => lock = d /\ Decided(req[d]))
  <1>1. ASSUME NEW d \in Clients
        PROVE  Safe(d)'
    <2>1. CASE d = c
      <3>1. pc'[d] = l /\ req'[d] = q
        BY <2>1, GotoEffect DEF Typed
      <3>2. QED
        BY <3>1 DEF Token
    <2>2. CASE d # c
      <3>1. /\ pc'[d] = pc[d] /\ req'[d] = req[d]
            /\ lock = d => lock' = d
        BY <2>2, GotoEffect DEF Typed
      <3>2. Safe(d)
        BY DEF Guarded
      <3>3. QED
        BY <3>1, <3>2 DEF Token, Decided, row
    <2>3. QED
      BY <2>1, <2>2
  <1>2. QED
    BY <1>1 DEF Guarded

LEMMA AnswerGuarded ==
  ASSUME Typed, Guarded, NEW c \in Clients, Answer(c), UNCHANGED row,
         lock' = lock \/ lock = c
  PROVE  Guarded'
  BY BlankToken, MoveGuarded DEF Answer

LEMMA ArriveGuarded ==
  ASSUME Typed, Guarded, NEW c \in Clients, Arrive(c)
  PROVE  Guarded'
  <1>1. ASSUME NEW q, Goto(c, "queued", q) \/ Goto(c, "write", q), Token(q),
               UNCHANGED <<row, lock>>
        PROVE  Guarded'
    BY <1>1, MoveGuarded DEF row
  <1>2. ASSUME NEW r \in Replicas, NEW o \in Ops, NEW s \in SnapIds \cup {NoSnap},
               OpenPreview(c, r, o, s)
        PROVE  Guarded'
    <2> DEFINE q == [Blank EXCEPT !.op = o, !.at = r, !.preview = TRUE,
                                  !.target = s, !.observed = lastSync]
    <2>1. Token(q)
      BY DEF Token, Blank
    <2> HIDE DEF q
    <2>2. Goto(c, "queued", q) /\ UNCHANGED <<row, lock>>
      BY <1>2 DEF OpenPreview, q
    <2>3. QED
      BY <1>1, <2>1, <2>2
  <1>3. ASSUME NEW r \in Replicas, NEW token \in BOOLEAN, Confirm(c, r, token)
        PROVE  Guarded'
    <2> DEFINE q == [req[c] EXCEPT !.at = r, !.preview = FALSE, !.observed = lastSync,
                                   !.expected = IF token THEN @ ELSE NoHash]
    <2>1. /\ q.expected = IF token THEN req[c].expected ELSE NoHash
          /\ q.seen = req[c].seen
      BY DEF Typed, TypeOK, Request
    <2>2. Token(req[c])
      BY DEF Guarded
    <2> HIDE DEF q
    <2>3. Token(q)
      BY <2>1, <2>2 DEF Token
    <2>4. Goto(c, "queued", q) /\ UNCHANGED <<row, lock>>
      BY <1>3 DEF Confirm, q
    <2>5. QED
      BY <1>1, <2>3, <2>4
  <1>4. ASSUME NEW r \in Replicas, RequestPush(c, r)
        PROVE  Guarded'
    <2> DEFINE q == [Blank EXCEPT !.op = "push", !.at = r, !.observed = lastSync]
    <2>1. Token(q)
      BY DEF Token, Blank
    <2> HIDE DEF q
    <2>2. Goto(c, "queued", q) /\ UNCHANGED <<row, lock>>
      BY <1>4 DEF RequestPush, q
    <2>3. QED
      BY <1>1, <2>1, <2>2
  <1>5. ASSUME NEW r \in Replicas, NEW o \in Ops, RequestWrite(c, r, o)
        PROVE  Guarded'
    <2> DEFINE q == [Blank EXCEPT !.op = o, !.at = r]
    <2>1. Token(q)
      BY DEF Token, Blank
    <2> HIDE DEF q
    <2>2. Goto(c, "write", q) /\ UNCHANGED <<row, lock>>
      BY <1>5 DEF RequestWrite, q
    <2>3. QED
      BY <1>1, <2>1, <2>2
  <1>6. CASE Abandon(c)
    BY <1>6, BlankToken, MoveGuarded DEF Abandon
  <1>7. QED
    BY <1>2, <1>3, <1>4, <1>5, <1>6 DEF Arrive, Ops, Replacing

\* The steps of a sync operation outside of its write section.
LEMMA QueueGuarded ==
  ASSUME Typed, Guarded, NEW c \in Clients,
         \/ StartSync(c) \/ Capture(c) \/ List(c) \/ Restore(c) \/ ReadCurrent(c)
         \/ Resolve(c) \/ \E s \in SnapIds : Backup(c, s) \/ BackupLost(c, s)
  PROVE  Guarded'
  <1>1. UNCHANGED <<row, lock>>
    BY DEF StartSync, Capture, List, Restore, ReadCurrent, Resolve, Backup,
           BackupLost
  <1>2. req[c] \in Request /\ Token(req[c]) /\ secrets \in Contents
    BY DEF Typed, TypeOK, Guarded
  <1>3. CASE Answer(c)
    BY <1>1, <1>3, AnswerGuarded
  <1>4. CASE \E l \in PCs \ {"commit"} : \E q : Goto(c, l, q) /\ Token(q)
    BY <1>1, <1>4, MoveGuarded
  <1>5. CASE StartSync(c)
    <2> DEFINE o == IF exists THEN lastSync ELSE req[c].observed
    <2> DEFINE q == [req[c] EXCEPT !.observed = o,
                        !.target = IF req[c].op = "discard" THEN o ELSE @]
    <2>1. Token(q)
      BY <1>2 DEF Token, Request
    <2>2. Answer(c) \/ \E l \in {"capture", "list"} : Goto(c, l, q)
      BY <1>2, <1>5 DEF StartSync, Request
    <2> HIDE DEF q
    <2>3. QED
      BY <1>3, <1>4, <2>1, <2>2 DEF PCs, Restic
  <1>6. CASE Capture(c)
    <2> DEFINE p == [req[c] EXCEPT !.payload = secrets]
    <2> DEFINE r == [req[c] EXCEPT !.expected = Hash(secrets), !.seen = secrets]
    <2>1. Token(p) /\ Token(r)
      BY <1>2 DEF Token, Request
    <2>2. Goto(c, "list", p) \/ Goto(c, "list", r)
      BY <1>6 DEF Capture
    <2> HIDE DEF p, r
    <2>3. QED
      BY <1>4, <2>1, <2>2 DEF PCs, Restic
  <1>7. CASE List(c)
    <2> DEFINE p == [req[c] EXCEPT !.known = Listed]
    <2> DEFINE r(s) == [req[c] EXCEPT !.target = s]
    <2>1. Token(p) /\ \A s : Token(r(s))
      BY <1>2 DEF Token, Request
    <2>2. Answer(c) \/ Goto(c, "backup", p) \/ \E s : Goto(c, "restore", r(s))
      BY <1>7 DEF List
    <2> HIDE DEF p, r
    <2>3. QED
      BY <1>3, <1>4, <2>1, <2>2 DEF PCs, Restic
  <1>8. CASE Restore(c)
    <2> DEFINE q == [req[c] EXCEPT !.payload = contentOf[req[c].target]]
    <2>1. Token(q)
      BY <1>2 DEF Token, Request
    <2>2. Answer(c) \/ \E l \in {"current", "write"} : Goto(c, l, q)
      BY <1>8 DEF Restore
    <2> HIDE DEF q
    <2>3. QED
      BY <1>3, <1>4, <2>1, <2>2 DEF PCs
  <1>9. CASE ReadCurrent(c)
    <2> DEFINE q == [Blank EXCEPT !.op = req[c].op, !.target = req[c].target,
                                  !.shown = req[c].target,
                                  !.expected = Hash(secrets), !.seen = secrets]
    <2>1. Token(q)
      BY <1>2 DEF Token, Blank
    <2>2. Goto(c, "previewed", q)
      BY <1>9 DEF ReadCurrent
    <2> HIDE DEF q
    <2>3. QED
      BY <1>4, <2>1, <2>2 DEF PCs, Idle
  <1>10. CASE Resolve(c)
    <2> DEFINE r(s) == [req[c] EXCEPT !.target = s]
    <2>1. \A s : Token(r(s))
      BY <1>2 DEF Token, Request
    <2>2. Answer(c) \/ \E s : Goto(c, "write", r(s))
      BY <1>10 DEF Resolve
    <2> HIDE DEF r
    <2>3. QED
      BY <1>3, <1>4, <2>1, <2>2 DEF PCs
  <1>11. ASSUME NEW s \in SnapIds, Backup(c, s)
         PROVE  Guarded'
    <2> DEFINE r(n) == [req[c] EXCEPT !.made = s, !.named = n]
    <2>1. \A n : Token(r(n))
      BY <1>2 DEF Token, Request
    <2>2. \E n : Goto(c, "resolve", r(n))
      BY <1>11 DEF Backup
    <2> HIDE DEF r
    <2>3. QED
      BY <1>4, <2>1, <2>2 DEF PCs, Restic
  <1>12. ASSUME NEW s \in SnapIds, BackupLost(c, s)
         PROVE  Guarded'
    BY <1>3, <1>12 DEF BackupLost
  <1>13. QED
    BY <1>5, <1>6, <1>7, <1>8, <1>9, <1>10, <1>11, <1>12

\* The section is entered only when nobody is in it, so no other decision
\* is pending; what is decided now is what Admitted checked.
LEMMA EnterWriteGuarded ==
  ASSUME Typed, Guarded, NEW c \in Clients, NEW k \in Contents, EnterWrite(c, k)
  PROVE  Guarded'
  <1> DEFINE e == [req[c] EXCEPT !.payload = k, !.fresh = Hash(k)]
  <1> DEFINE p == [req[c] EXCEPT !.fresh = Hash(secrets)]
  <1>1. /\ req[c] \in Request /\ req[c].op \in Ops /\ Token(req[c])
        /\ UNCHANGED <<row, repo, refresh>>
    BY DEF EnterWrite, Typed, TypeOK, Progress, Known, Guarded
  <1>2. CASE Answer(c) /\ UNCHANGED lock
    BY <1>1, <1>2, AnswerGuarded
  <1>3. CASE ~(Answer(c) /\ UNCHANGED lock)
    <2>1. /\ Admitted(req[c]) /\ lock = NoOne /\ lock' = c
          /\ Goto(c, "commit", CASE req[c].op = "edit" -> e
                                 [] req[c].op = "push" -> p
                                 [] OTHER -> req[c])
      BY <1>3 DEF EnterWrite, FreshHash, WriteSectionFree
    <2>2. /\ e.op = req[c].op /\ e.expected = req[c].expected
          /\ e.seen = req[c].seen /\ e.fresh = Hash(k) /\ e.payload = k
      BY <1>1 DEF Request
    <2>3. /\ p.op = req[c].op /\ p.expected = req[c].expected
          /\ p.seen = req[c].seen /\ p.fresh = Hash(secrets)
          /\ p.observed = req[c].observed
      BY <1>1 DEF Request
    <2> HIDE DEF e, p
    <2>4. ASSUME NEW d \in Clients \ {c}
          PROVE  (Token(req[d]) /\ pc[d] # "commit")'
      BY <2>1, GotoEffect, SentinelsDiffer DEF Guarded, Token, Typed
    <2>5. PICK q : Goto(c, "commit", q) /\ Token(q) /\ Decided(q)
      <3>1. CASE req[c].op = "edit"
        <4>1. Token(e) /\ Decided(e)
          BY <1>1, <2>1, <2>2, <3>1
          DEF Token, Decided, Admitted, StillThere, Replacing
        <4>2. QED
          BY <2>1, <3>1, <4>1
      <3>2. CASE req[c].op = "push"
        <4>1. Token(p) /\ Decided(p)
          BY <1>1, <2>1, <2>3, <3>2
          DEF Token, Decided, Admitted, StillThere, SyncUnmoved, Replacing
        <4>2. QED
          BY <2>1, <3>2, <4>1
      <3>3. CASE req[c].op \notin {"edit", "push"}
        <4>1. Decided(req[c])
          BY <2>1, <3>3 DEF Decided, Admitted, StillThere, TokenMatches
        <4>2. QED
          BY <1>1, <2>1, <3>3, <4>1
      <3>4. QED
        BY <3>1, <3>2, <3>3
    <2>6. (Token(req[c]) /\ lock = c /\ Decided(req[c]))'
      BY <1>1, <2>1, <2>5, GotoEffect DEF Typed, Token, Decided, row
    <2>7. QED
      BY <2>4, <2>6 DEF Guarded
  <1>4. QED
    BY <1>2, <1>3

\* A commit is the only one that can happen, and nobody else is in the
\* section whose decision it could disturb.
LEMMA CommitGuarded ==
  ASSUME Typed, Guarded, NEW c \in Clients,
         CommitReplace(c) \/ CommitPush(c) \/ CommitEdit(c) \/ CommitDelete(c)
  PROVE  Guarded'
  <1>1. EndWrite(c)
    BY DEF CommitReplace, CommitPush, CommitEdit, CommitDelete
  <1>2. lock = c /\ Goto(c, "idle", Blank)
    BY <1>1 DEF EndWrite, Guarded
  <1>3. ASSUME NEW d \in Clients
        PROVE  (Token(req[d]) /\ pc[d] # "commit")'
    BY <1>2, GotoEffect, BlankToken DEF Guarded, Token, Typed
  <1>4. QED
    BY <1>3 DEF Guarded

LEMMA FailGuarded ==
  ASSUME Typed, Guarded, NEW c \in Clients, Fail(c)
  PROVE  Guarded'
  <1>1. Answer(c) /\ UNCHANGED row /\ (lock' = lock \/ lock = c)
    BY DEF Fail
  <1>2. QED
    BY <1>1, AnswerGuarded

LEMMA CrashGuarded ==
  ASSUME Typed, Guarded, NEW r \in Replicas, Crash(r)
  PROVE  Guarded'
  <1> DEFINE lost == {c \in Clients : req[c].at = r /\ pc[c] \notin Idle}
  <1>1. ASSUME NEW d \in Clients
        PROVE  (Token(req[d]) /\ (pc[d] = "commit" => lock = d /\ Decided(req[d])))'
    <2>1. CASE d \in lost
      <3>1. pc'[d] = "idle" /\ req'[d] = Blank
        BY <2>1 DEF Crash
      <3>2. QED
        BY <3>1, BlankToken DEF Token
    <2>2. CASE d \notin lost
      <3>1. /\ pc'[d] = pc[d] /\ req'[d] = req[d] /\ UNCHANGED row
            /\ lock = d => lock' = d
        BY <2>2 DEF Crash
      <3>2. Token(req[d]) /\ (pc[d] = "commit" => lock = d /\ Decided(req[d]))
        BY DEF Guarded
      <3>3. QED
        BY <3>1, <3>2 DEF Token, Decided, row
    <2>3. QED
      BY <2>1, <2>2
  <1>2. QED
    BY <1>1 DEF Guarded

\* Steps that leave the requests, the lock and the row but for its hash.
LEMMA ElsewhereGuarded ==
  ASSUME Guarded, UNCHANGED <<exists, secrets, lastSync, lock, pc, req>>
  PROVE  Guarded'
  BY DEF Guarded, Token, Decided

LEMMA InitGuarded == Init => Guarded
  BY BlankToken DEF Init, Guarded

LEMMA NextGuarded == Typed /\ Guarded /\ [Next]_vars => Guarded'
  <1> SUFFICES ASSUME Typed, Guarded, [Next]_vars PROVE Guarded'
    OBVIOUS
  <1>1. ASSUME NEW c \in Clients, Arrive(c) PROVE Guarded'
    BY <1>1, ArriveGuarded
  <1>2. ASSUME NEW c \in Clients, Proceed(c) PROVE Guarded'
    BY <1>2, QueueGuarded, EnterWriteGuarded, CommitGuarded, FailGuarded
    DEF Proceed, Work
  <1>3. CASE Refresh
    BY <1>3, ElsewhereGuarded
    DEF Refresh, RefreshRead, RefreshWrite, RefreshLost, row
  <1>4. CASE Environment
    <2>1. ASSUME NEW r \in Replicas, Crash(r) PROVE Guarded'
      BY <2>1, CrashGuarded
    <2>2. ASSUME NEW s \in SnapIds,
                 \/ \E k \in SnapContents : ExternalBackup(s, k)
                 \/ ExternalForget(s) \/ Settle(s)
          PROVE  Guarded'
      BY <2>2, ElsewhereGuarded DEF ExternalBackup, ExternalForget, Settle, row
    <2>3. QED
      BY <1>4, <2>1, <2>2 DEF Environment
  <1>5. CASE UNCHANGED vars
    BY <1>5, ElsewhereGuarded DEF vars, row
  <1>6. QED
    BY <1>1, <1>2, <1>3, <1>4, <1>5 DEF Next

LEMMA AlwaysGuarded == Spec => [](Typed /\ Guarded)
  <1>1. Init => Typed /\ Guarded
    BY InitTyped, InitGuarded
  <1>2. (Typed /\ Guarded) /\ [Next]_vars => (Typed /\ Guarded)'
    BY NextTyped, NextGuarded
  <1>3. QED
    BY <1>1, <1>2, PTL DEF Spec

-----------------------------------------------------------------------------
(* Theorems *)

\* Mutual exclusion of the write sections, over all replicas: at most one
\* request of the project stands between its checks and its commit.
THEOREM WriteSectionsExclude ==
  Spec => [](\A c, d \in Clients : pc[c] = "commit" /\ pc[d] = "commit" => c = d)
  <1>1. Guarded => \A c, d \in Clients : pc[c] = "commit" /\ pc[d] = "commit" => c = d
    BY DEF Guarded
  <1>2. QED
    BY <1>1, AlwaysGuarded, PTL

\* A replacement commits only over the content its client has seen.
LEMMA ReplacesWhatWasSeen ==
  ASSUME Typed, Guarded, NEW c \in Clients, CommitReplace(c)
  PROVE  secrets = req[c].seen
  <1>1. /\ Hash(secrets) = req[c].expected /\ Token(req[c]) /\ secrets \in Contents
    BY DEF CommitReplace, EndWrite, Guarded, Decided, Typed, TypeOK
  <1>2. req[c].expected # NoHash
    BY <1>1, HashInHashes, SentinelsDiffer
  <1>3. req[c].seen \in Contents /\ Hash(secrets) = Hash(req[c].seen)
    BY <1>1, <1>2 DEF Token
  <1>4. QED
    BY <1>1, <1>3, HashIsInjective

\* No pull, restore or discard destroys an edit its client has not seen,
\* whatever the repository, the other writers and the crashes do.
THEOREM NeverOverwritesUnseen == Spec => NoUnseenOverwrite
  <1>1. Typed /\ Guarded /\ [Next]_vars
          => [\A c \in Clients : CommitReplace(c) => secrets = req[c].seen]_vars
    BY ReplacesWhatWasSeen
  <1>2. QED
    BY <1>1, AlwaysGuarded, PTL DEF Spec, NoUnseenOverwrite

-----------------------------------------------------------------------------
(* Deletion *)

\* The row and the secrets change in the commits and in an unlocked hash
\* refresh only.
LEMMA RowChanges ==
  ASSUME Typed, [Next]_vars
  PROVE  \/ UNCHANGED row
         \/ RefreshWrite
         \/ \E c \in Clients : \/ CommitReplace(c) \/ CommitPush(c)
                               \/ CommitEdit(c) \/ CommitDelete(c)
  <1>1. ASSUME NEW c \in Clients, Arrive(c) PROVE UNCHANGED row
    BY <1>1 DEF Arrive, OpenPreview, Confirm, RequestPush, RequestWrite, Abandon
  <1>2. ASSUME NEW c \in Clients, Proceed(c)
        PROVE  \/ UNCHANGED row
               \/ CommitReplace(c) \/ CommitPush(c) \/ CommitEdit(c) \/ CommitDelete(c)
    BY <1>2 DEF Proceed, Work, StartSync, Capture, List, Restore, ReadCurrent, Backup,
                BackupLost, Resolve, EnterWrite, Fail
  <1>3. CASE Refresh
    BY <1>3 DEF Refresh, RefreshRead, RefreshLost
  <1>4. CASE Environment
    BY <1>4 DEF Environment, Crash, ExternalBackup, ExternalForget, Settle
  <1>5. CASE UNCHANGED vars
    BY <1>5 DEF vars
  <1>6. QED
    BY <1>1, <1>2, <1>3, <1>4, <1>5 DEF Next

\* What loses the race against a deletion writes nothing.
LEMMA NextDeleted ==
  Typed /\ Guarded /\ DeletedLeavesNothing /\ [Next]_vars => DeletedLeavesNothing'
  <1> SUFFICES ASSUME Typed, Guarded, DeletedLeavesNothing, [Next]_vars
               PROVE  DeletedLeavesNothing'
    OBVIOUS
  <1>1. CASE UNCHANGED row
    BY <1>1 DEF row, DeletedLeavesNothing
  <1>2. CASE RefreshWrite
    BY <1>2 DEF RefreshWrite, DeletedLeavesNothing
  <1>3. ASSUME NEW c \in Clients,
               CommitReplace(c) \/ CommitPush(c) \/ CommitEdit(c)
        PROVE  exists'
    BY <1>3
    DEF CommitReplace, CommitPush, CommitEdit, EndWrite, Guarded, Decided
  <1>4. ASSUME NEW c \in Clients, CommitDelete(c) PROVE DeletedLeavesNothing'
    BY <1>4 DEF CommitDelete, DeletedLeavesNothing
  <1>5. QED
    BY <1>1, <1>2, <1>3, <1>4, RowChanges DEF DeletedLeavesNothing

\* Once the project is deleted, no operation that was in flight brings back
\* a secret or a sync state.
THEOREM DeletionIsFinal == Spec => []DeletedLeavesNothing
  <1>1. Init => DeletedLeavesNothing
    BY DEF Init, DeletedLeavesNothing
  <1>2. QED
    BY <1>1, NextDeleted, AlwaysGuarded, PTL DEF Spec


-----------------------------------------------------------------------------
(* What a confirmation is about: from the preview to the commit, a pull and a *)
(* restore keep the snapshot that was displayed, and what they restored is    *)
(* what it still contains.                                                    *)

PinnedOps == {"pull", "restore"}

\* A request with the locals q that stands at l has been confirmed.
Confirmed(l, q) ==
    /\ q.op \in PinnedOps
    /\ \/ l \in {"write", "commit"}
       \/ l \in {"queued", "capture", "list", "restore"} /\ ~q.preview

Pinned(l, q) ==
    /\ l \in {"restore", "current", "previewed"} => vis[q.target] # "none"
    /\ l = "previewed" => q.shown = q.target
    /\ Confirmed(l, q)
          => q.shown = q.target /\ q.target \in SnapIds /\ vis[q.target] # "none"
    /\ l \in {"write", "commit"} /\ q.op \in PinnedOps
          => q.payload = contentOf[q.target]

AllPinned == \A c \in Clients : Pinned(pc[c], req[c])

\* Nothing changes what a stored snapshot contains.
Kept ==
    \A s \in SnapIds :
        vis[s] # "none" => vis'[s] # "none" /\ contentOf'[s] = contentOf[s]

LEMMA NextKept ==
  ASSUME Typed, [Next]_vars
  PROVE  Kept
  <1>1. ASSUME UNCHANGED repo PROVE Kept
    BY <1>1 DEF repo, Kept
  <1>2. ASSUME NEW s \in SnapIds, NEW k, Store(s, k) PROVE Kept
    BY <1>2 DEF Store, Kept, Typed, TypeOK
  <1>3. ASSUME NEW c \in Clients, Arrive(c) PROVE Kept
    BY <1>1, <1>3
    DEF Arrive, OpenPreview, Confirm, RequestPush, RequestWrite, Abandon
  <1>4. ASSUME NEW c \in Clients, Proceed(c) PROVE Kept
    BY <1>1, <1>2, <1>4
    DEF Proceed, Work, StartSync, Capture, List, Restore, ReadCurrent, Backup,
        BackupLost, Resolve, EnterWrite, CommitReplace, CommitPush, CommitEdit,
        CommitDelete, EndWrite, Fail
  <1>5. CASE Refresh
    BY <1>1, <1>5 DEF Refresh, RefreshRead, RefreshWrite, RefreshLost
  <1>6. ASSUME Environment PROVE Kept
    <2>1. ASSUME NEW r \in Replicas, Crash(r) PROVE Kept
      BY <1>1, <2>1 DEF Crash
    <2>2. ASSUME NEW s \in SnapIds, ExternalForget(s) \/ Settle(s) PROVE Kept
      BY <2>2 DEF ExternalForget, Settle, Kept, Typed, TypeOK
    <2>3. QED
      BY <1>2, <1>6, <2>1, <2>2 DEF Environment, ExternalBackup
  <1>7. CASE UNCHANGED vars
    BY <1>1, <1>7 DEF vars
  <1>8. QED
    BY <1>3, <1>4, <1>5, <1>6, <1>7 DEF Next

\* A request that does not move stays pinned.
LEMMA PinnedStays ==
  ASSUME Kept, NEW l, NEW q \in Request, Known(l, q), Pinned(l, q)
  PROVE  Pinned(l, q)'
  <1>1. l \in {"restore", "current", "previewed"} => vis'[q.target] # "none"
    BY DEF Kept, Pinned, Known
  <1>2. Confirmed(l, q) => vis'[q.target] # "none"
    BY DEF Kept, Pinned
  <1>3. l \in {"write", "commit"} /\ q.op \in PinnedOps
          => q.payload = contentOf'[q.target]
    BY DEF Kept, Pinned, Confirmed
  <1>4. QED
    BY <1>1, <1>2, <1>3 DEF Pinned, Confirmed

LEMMA MovePinned ==
  ASSUME Typed, AllPinned, Kept, NEW c \in Clients, NEW l, NEW q,
         Goto(c, l, q), Pinned(l, q)'
  PROVE  AllPinned'
  <1>1. ASSUME NEW d \in Clients PROVE Pinned(pc[d], req[d])'
    <2>1. CASE d = c
      <3>1. pc'[d] = l /\ req'[d] = q
        BY <2>1, GotoEffect DEF Typed
      <3>2. QED
        BY <3>1 DEF Pinned, Confirmed
    <2>2. CASE d # c
      <3>1. pc'[d] = pc[d] /\ req'[d] = req[d]
        BY <2>2, GotoEffect DEF Typed
      <3>2. ASSUME NEW m, NEW r, m = pc[d], r = req[d]
            PROVE  Pinned(m, r)'
        <4>1. r \in Request /\ Known(m, r) /\ Pinned(m, r)
          BY <3>2 DEF Typed, TypeOK, Progress, AllPinned
        <4>2. QED
          BY <4>1, PinnedStays
      <3>3. QED
        BY <3>1, <3>2 DEF Pinned, Confirmed
    <2>3. QED
      BY <2>1, <2>2
  <1>2. QED
    BY <1>1 DEF AllPinned

\* A request that has no snapshot to keep.
Unpinnable(l, q) ==
    /\ l \notin {"restore", "current", "previewed"}
    /\ q.op \in PinnedOps
          => q.preview /\ l \in {"idle", "queued", "capture", "list"}

LEMMA NothingPinned ==
  ASSUME NEW l, NEW q, Unpinnable(l, q)
  PROVE  Pinned(l, q)'
  BY DEF Unpinnable, Pinned, Confirmed

LEMMA IdlePinned ==
  ASSUME Typed, AllPinned, Kept, NEW c \in Clients, NEW q, Goto(c, "idle", q)
  PROVE  AllPinned'
  <1>1. Pinned("idle", q)'
    BY DEF Pinned, Confirmed
  <1>2. QED
    BY <1>1, MovePinned

LEMMA AnswerPinned ==
  ASSUME Typed, AllPinned, Kept, NEW c \in Clients, Answer(c)
  PROVE  AllPinned'
  BY IdlePinned DEF Answer

LEMMA ArrivePinned ==
  ASSUME Typed, AllPinned, Kept, NEW c \in Clients, Arrive(c)
  PROVE  AllPinned'
  <1>1. ASSUME NEW l, NEW q, Goto(c, l, q), Unpinnable(l, q)
        PROVE  AllPinned'
    BY <1>1, NothingPinned, MovePinned
  <1>2. ASSUME NEW r \in Replicas, NEW o, NEW s, OpenPreview(c, r, o, s)
        PROVE  AllPinned'
    <2>1. PICK q : q = [Blank EXCEPT !.op = o, !.at = r, !.preview = TRUE,
                                     !.target = s, !.observed = lastSync]
      OBVIOUS
    <2>2. q.preview
      BY <2>1 DEF Blank
    <2>3. Goto(c, "queued", q)
      BY <1>2, <2>1 DEF OpenPreview
    <2>4. QED
      BY <1>1, <2>2, <2>3 DEF Unpinnable
  <1>3. ASSUME NEW r \in Replicas, NEW token \in BOOLEAN, Confirm(c, r, token)
        PROVE  AllPinned'
    <2>1. PICK q : q = [req[c] EXCEPT !.at = r, !.preview = FALSE,
                            !.observed = lastSync,
                            !.expected = IF token THEN @ ELSE NoHash]
      OBVIOUS
    <2>2. q.target = req[c].target /\ q.shown = req[c].shown
      BY <2>1 DEF Typed, TypeOK, Request
    <2>3. /\ req[c].shown = req[c].target /\ req[c].target \in SnapIds
          /\ vis[req[c].target] # "none"
      BY <1>3 DEF Confirm, AllPinned, Pinned, Typed, Progress, Known
    <2>4. vis' = vis /\ Goto(c, "queued", q)
      BY <1>3, <2>1 DEF Confirm, repo
    <2>5. Pinned("queued", q)'
      BY <2>2, <2>3, <2>4 DEF Pinned, Confirmed
    <2>6. QED
      BY <2>4, <2>5, MovePinned
  <1>4. ASSUME NEW r \in Replicas, RequestPush(c, r)
        PROVE  AllPinned'
    <2>1. PICK q : q = [Blank EXCEPT !.op = "push", !.at = r, !.observed = lastSync]
      OBVIOUS
    <2>2. q.op = "push" /\ Goto(c, "queued", q)
      BY <1>4, <2>1 DEF RequestPush, Blank
    <2>3. QED
      BY <1>1, <2>2 DEF Unpinnable, PinnedOps
  <1>5. ASSUME NEW r \in Replicas, NEW o \in {"edit", "delete"}, RequestWrite(c, r, o)
        PROVE  AllPinned'
    <2>1. PICK q : q = [Blank EXCEPT !.op = o, !.at = r]
      OBVIOUS
    <2>2. q.op = o /\ Goto(c, "write", q)
      BY <1>5, <2>1 DEF RequestWrite, Blank
    <2>3. QED
      BY <1>1, <2>2 DEF Unpinnable, PinnedOps
  <1>6. CASE Abandon(c)
    BY <1>6, IdlePinned DEF Abandon
  <1>7. QED
    BY <1>2, <1>3, <1>4, <1>5, <1>6 DEF Arrive

\* The target and the snapshot displayed are carried along to the listing.
LEMMA EarlyStepsPinned ==
  ASSUME Typed, AllPinned, Kept, NEW c \in Clients, StartSync(c) \/ Capture(c)
  PROVE  AllPinned'
  <1>1. pc[c] \in {"queued", "capture"} /\ vis' = vis
    BY DEF StartSync, Capture, repo
  <1>2. ASSUME NEW l \in {"capture", "list"}, NEW q, Goto(c, l, q),
               q.op = req[c].op, q.preview = req[c].preview,
               q.shown = req[c].shown,
               q.op \in PinnedOps => q.target = req[c].target
        PROVE  AllPinned'
    <2>1. Pinned(pc[c], req[c])
      BY DEF AllPinned
    <2>2. Pinned(l, q)'
      BY <1>1, <1>2, <2>1 DEF Pinned, Confirmed
    <2>3. QED
      BY <1>2, <2>2, MovePinned
  <1>3. CASE StartSync(c)
    <2> DEFINE o == IF exists THEN lastSync ELSE req[c].observed
    <2>1. PICK q : q = [req[c] EXCEPT !.observed = o,
                          !.target = IF req[c].op = "discard" THEN o ELSE @]
      OBVIOUS
    <2>2. /\ q.op = req[c].op /\ q.preview = req[c].preview
          /\ q.shown = req[c].shown
          /\ q.op # "discard" => q.target = req[c].target
      BY <2>1 DEF Typed, TypeOK, Request
    <2>3. Answer(c) \/ \E l \in {"capture", "list"} : Goto(c, l, q)
      <3>1. req[c] \in Request
        BY DEF Typed, TypeOK
      <3>2. QED
        BY <1>3, <2>1, <3>1 DEF StartSync, Request
    <2>4. QED
      BY <1>2, <2>2, <2>3, AnswerPinned DEF PinnedOps
  <1>4. CASE Capture(c)
    <2>1. PICK q : /\ \/ q = [req[c] EXCEPT !.payload = secrets]
                      \/ q = [req[c] EXCEPT !.expected = Hash(secrets),
                                            !.seen = secrets]
                   /\ Goto(c, "list", q)
      BY <1>4 DEF Capture
    <2>2. /\ q.op = req[c].op /\ q.preview = req[c].preview
          /\ q.shown = req[c].shown /\ q.target = req[c].target
      BY <2>1 DEF Typed, TypeOK, Request
    <2>3. QED
      BY <1>2, <2>1, <2>2
  <1>5. QED
    BY <1>3, <1>4

\* A confirmed operation works on the snapshot it names, or is refused.
LEMMA ListPinned ==
  ASSUME Typed, AllPinned, Kept, NEW c \in Clients, List(c)
  PROVE  AllPinned'
  <1>1. pc[c] = "list" /\ vis' = vis /\ Pinned("list", req[c])
        /\ req[c].op \in Replacing \cup {"push"}
    BY DEF List, repo, AllPinned, Typed, Progress, Known
  <1>2. ASSUME req[c].op = "push", Goto(c, "backup", [req[c] EXCEPT !.known = Listed])
        PROVE  AllPinned'
    <2>1. PICK q : q = [req[c] EXCEPT !.known = Listed]
      OBVIOUS
    <2>2. q.op = "push"
      BY <1>2, <2>1 DEF Typed, TypeOK, Request
    <2>3. Pinned("backup", q)'
      BY <2>2, NothingPinned DEF Unpinnable, PinnedOps
    <2>4. QED
      BY <1>2, <2>1, <2>3, MovePinned
  <1>3. ASSUME NEW s \in Selectable(req[c], Listed),
               Goto(c, "restore", [req[c] EXCEPT !.target = s])
        PROVE  AllPinned'
    <2>1. PICK q : q = [req[c] EXCEPT !.target = s]
      OBVIOUS
    <2>2. /\ q.op = req[c].op /\ q.preview = req[c].preview
          /\ q.shown = req[c].shown /\ q.target = s
      BY <2>1 DEF Typed, TypeOK, Request
    <2>3. s \in SnapIds /\ vis[s] # "none"
      BY DEF Selectable, Listed
    <2>4. req[c].op \in PinnedOps /\ ~req[c].preview => s = req[c].target
      BY DEF Selectable, PinnedOps
    <2>5. Pinned("restore", q)'
      BY <1>1, <2>2, <2>3, <2>4 DEF Pinned, Confirmed
    <2>6. QED
      BY <1>3, <2>1, <2>5, MovePinned
  <1>4. QED
    BY <1>2, <1>3, AnswerPinned DEF List

LEMMA RestorePinned ==
  ASSUME Typed, AllPinned, Kept, NEW c \in Clients, Restore(c)
  PROVE  AllPinned'
  <1>1. /\ UNCHANGED repo /\ Pinned("restore", req[c])
        /\ req[c].target \in SnapIds
    BY DEF Restore, AllPinned, Typed, Progress, Known
  <1>2. CASE Answer(c)
    BY <1>2, AnswerPinned
  <1>3. CASE ~Answer(c)
    <2>1. PICK q : q = [req[c] EXCEPT !.payload = contentOf[req[c].target]]
      OBVIOUS
    <2>2. /\ q.target = req[c].target /\ q.payload = contentOf[req[c].target]
          /\ q.op = req[c].op /\ q.shown = req[c].shown
      BY <2>1 DEF Typed, TypeOK, Request
    <2>3. CASE req[c].preview
      <3>1. Goto(c, "current", q)
        BY <1>3, <2>1, <2>3 DEF Restore
      <3>2. Pinned("current", q)'
        BY <1>1, <2>2 DEF Pinned, Confirmed, repo
      <3>3. QED
        BY <3>1, <3>2, MovePinned
    <2>4. CASE ~req[c].preview
      <3>1. Goto(c, "write", q)
        BY <1>3, <2>1, <2>4 DEF Restore
      <3>2. Pinned("write", q)'
        BY <1>1, <2>2, <2>4 DEF Pinned, Confirmed, repo
      <3>3. QED
        BY <3>1, <3>2, MovePinned
    <2>5. QED
      BY <2>3, <2>4
  <1>4. QED
    BY <1>2, <1>3

LEMMA ReadCurrentPinned ==
  ASSUME Typed, AllPinned, Kept, NEW c \in Clients, ReadCurrent(c)
  PROVE  AllPinned'
  <1>1. PICK q : q = [Blank EXCEPT !.op = req[c].op, !.target = req[c].target,
                                   !.shown = req[c].target,
                                   !.expected = Hash(secrets), !.seen = secrets]
    OBVIOUS
  <1>2. q.target = req[c].target /\ q.shown = req[c].target
    BY <1>1 DEF Blank
  <1>3. vis' = vis /\ Pinned("current", req[c]) /\ Goto(c, "previewed", q)
    BY <1>1 DEF ReadCurrent, repo, AllPinned
  <1>4. Pinned("previewed", q)'
    BY <1>2, <1>3 DEF Pinned, Confirmed
  <1>5. QED
    BY <1>3, <1>4, MovePinned

\* The steps of a push after its listing.
LEMMA PushStepsPinned ==
  ASSUME Typed, AllPinned, Kept, NEW c \in Clients,
         Resolve(c) \/ \E s \in SnapIds : Backup(c, s) \/ BackupLost(c, s)
  PROVE  AllPinned'
  <1>1. req[c].op = "push" /\ req[c] \in Request
    BY DEF Resolve, Backup, BackupLost, Typed, TypeOK, Progress, Known
  <1>2. ASSUME NEW l \in {"resolve", "write"}, NEW q, q.op = "push", Goto(c, l, q)
        PROVE  AllPinned'
    <2>1. Pinned(l, q)'
      BY <1>2, NothingPinned DEF Unpinnable, PinnedOps
    <2>2. QED
      BY <1>2, <2>1, MovePinned
  <1>3. ASSUME NEW s, Goto(c, "write", [req[c] EXCEPT !.target = s])
        PROVE  AllPinned'
    <2>1. PICK q : q = [req[c] EXCEPT !.target = s]
      OBVIOUS
    <2>2. q.op = "push"
      BY <1>1, <2>1 DEF Request
    <2>3. QED
      BY <1>2, <1>3, <2>1, <2>2
  <1>4. ASSUME NEW s, NEW named,
               Goto(c, "resolve", [req[c] EXCEPT !.made = s, !.named = named])
        PROVE  AllPinned'
    <2>1. PICK q : q = [req[c] EXCEPT !.made = s, !.named = named]
      OBVIOUS
    <2>2. q.op = "push"
      BY <1>1, <2>1 DEF Request
    <2>3. QED
      BY <1>2, <1>4, <2>1, <2>2
  <1>5. QED
    BY <1>3, <1>4, AnswerPinned DEF Resolve, Backup, BackupLost

LEMMA EnterWritePinned ==
  ASSUME Typed, AllPinned, Kept, NEW c \in Clients, NEW k \in Contents,
         EnterWrite(c, k)
  PROVE  AllPinned'
  <1>1. UNCHANGED repo /\ Pinned("write", req[c])
    BY DEF EnterWrite, AllPinned
  <1>2. CASE Answer(c)
    BY <1>2, AnswerPinned
  <1>3. CASE ~Answer(c)
    <2>1. PICK q :
            /\ q = CASE req[c].op = "edit"
                          -> [req[c] EXCEPT !.payload = k, !.fresh = Hash(k)]
                     [] req[c].op = "push"
                          -> [req[c] EXCEPT !.fresh = Hash(secrets)]
                     [] OTHER -> req[c]
            /\ Goto(c, "commit", q)
      BY <1>3 DEF EnterWrite, FreshHash
    <2>2. /\ q.op = req[c].op
          /\ q.op \in PinnedOps => q = req[c]
      BY <2>1 DEF Typed, TypeOK, Request, PinnedOps
    <2>3. Pinned("commit", q)'
      BY <1>1, <2>2 DEF Pinned, Confirmed, repo
    <2>4. QED
      BY <2>1, <2>3, MovePinned
  <1>4. QED
    BY <1>2, <1>3

\* Steps that move no request, or only to idle.
LEMMA OthersPinned ==
  ASSUME Typed, AllPinned, Kept,
         \A c \in Clients : \/ pc'[c] = pc[c] /\ req'[c] = req[c]
                            \/ pc'[c] = "idle"
  PROVE  AllPinned'
  <1>1. ASSUME NEW c \in Clients PROVE Pinned(pc[c], req[c])'
    <2>1. CASE pc'[c] = "idle"
      BY <2>1 DEF Pinned, Confirmed
    <2>2. CASE pc'[c] = pc[c] /\ req'[c] = req[c]
      <3>1. ASSUME NEW l, NEW q, l = pc[c], q = req[c] PROVE Pinned(l, q)'
        BY <3>1, PinnedStays DEF Typed, TypeOK, Progress, AllPinned
      <3>2. QED
        BY <2>2, <3>1 DEF Pinned, Confirmed
    <2>3. QED
      BY <2>1, <2>2
  <1>2. QED
    BY <1>1 DEF AllPinned

LEMMA NextPinned == Typed /\ AllPinned /\ [Next]_vars => AllPinned'
  <1> SUFFICES ASSUME Typed, AllPinned, [Next]_vars PROVE AllPinned'
    OBVIOUS
  <1>1. Kept
    BY NextKept
  <1>2. ASSUME NEW c \in Clients, Arrive(c) PROVE AllPinned'
    BY <1>1, <1>2, ArrivePinned
  <1>3. ASSUME NEW c \in Clients, Proceed(c) PROVE AllPinned'
    <2>1. ASSUME CommitReplace(c) \/ CommitPush(c) \/ CommitEdit(c) \/ CommitDelete(c)
          PROVE  AllPinned'
      BY <1>1, <2>1, IdlePinned
      DEF CommitReplace, CommitPush, CommitEdit, CommitDelete, EndWrite
    <2>2. ASSUME Fail(c) PROVE AllPinned'
      BY <1>1, <2>2, AnswerPinned DEF Fail
    <2>3. QED
      BY <1>1, <1>3, <2>1, <2>2, EarlyStepsPinned, ListPinned, RestorePinned,
         ReadCurrentPinned, PushStepsPinned, EnterWritePinned
      DEF Proceed, Work
  <1>4. ASSUME Refresh \/ UNCHANGED vars PROVE AllPinned'
    BY <1>1, <1>4, OthersPinned
    DEF Refresh, RefreshRead, RefreshWrite, RefreshLost, vars
  <1>5. ASSUME Environment PROVE AllPinned'
    BY <1>1, <1>5, OthersPinned
    DEF Environment, Crash, ExternalBackup, ExternalForget, Settle
  <1>6. QED
    BY <1>2, <1>3, <1>4, <1>5 DEF Next

\* Between the preview of a pull or restore and its commit lie the queue, a
\* new listing and the restoration, on any replica and while others push and
\* forget: the project gets the snapshot that was displayed, or nothing.
THEOREM AppliesWhatWasPreviewed == Spec => AppliesPreviewed
  <1>1. Init => AllPinned
    BY DEF Init, AllPinned, Pinned, Confirmed
  <1>2. Spec => [](Typed /\ AllPinned)
    BY <1>1, InitTyped, NextTyped, NextPinned, PTL DEF Spec
  <1>3. Typed /\ AllPinned /\ [Next]_vars
          => [\A c \in Clients :
                 CommitReplace(c) /\ req[c].op \in {"pull", "restore"}
                    => lastSync' = req[c].shown
                       /\ secrets' = contentOf[req[c].shown]]_vars
    BY DEF AllPinned, Pinned, Confirmed, PinnedOps, CommitReplace, EndWrite
  <1>4. QED
    BY <1>2, <1>3, PTL DEF Spec, AppliesPreviewed

-----------------------------------------------------------------------------
(* What the queue of a replica excludes: a sync operation that was started    *)
(* holds the queue of the replica it runs at until it is answered.            *)

\* A request with the locals q that stands at l is inside SyncQueueRun.
Running(l, q) ==
    \/ l \in Restic \cup {"capture", "current"}
    \/ l \in {"write", "commit"} /\ q.op \in Replacing \cup {"push"}

InTurn ==
    \A c \in Clients :
        /\ pc[c] \notin Idle => req[c].at \in Replicas
        /\ Running(pc[c], req[c]) => busy[req[c].at] = c

\* What a step may do to the queues when the request of c moves.
OthersKeepTurn(c) ==
    \A r \in Replicas : busy[r] \in Clients \ {c} => busy'[r] = busy[r]

LEMMA MoveInTurn ==
  ASSUME Typed, InTurn, NEW c \in Clients, NEW l, NEW q, Goto(c, l, q),
         OthersKeepTurn(c), l \notin Idle => q.at \in Replicas,
         Running(l, q) => busy'[q.at] = c
  PROVE  InTurn'
  <1>1. ASSUME NEW d \in Clients
        PROVE  /\ pc'[d] \notin Idle => req'[d].at \in Replicas
               /\ Running(pc[d], req[d])' => busy'[req'[d].at] = d
    <2>1. CASE d = c
      <3>1. pc'[d] = l /\ req'[d] = q
        BY <2>1, GotoEffect DEF Typed
      <3>2. QED
        BY <2>1, <3>1 DEF Running
    <2>2. CASE d # c
      <3>1. pc'[d] = pc[d] /\ req'[d] = req[d]
        BY <2>2, GotoEffect DEF Typed
      <3>2. Running(pc[d], req[d]) => pc[d] \notin Idle
        BY DEF Running, Restic, Idle
      <3>3. Running(pc[d], req[d]) => busy'[req[d].at] = d
        BY <2>2, <3>2 DEF InTurn, OthersKeepTurn
      <3>4. QED
        BY <3>1, <3>3 DEF InTurn, Running
    <2>3. QED
      BY <2>1, <2>2
  <1>2. QED
    BY <1>1 DEF InTurn

LEMMA LeavingKeepsTurn ==
  ASSUME Typed, NEW c \in Clients, LeaveQueue(c)
  PROVE  OthersKeepTurn(c)
  BY DEF LeaveQueue, OthersKeepTurn

LEMMA IdleInTurn ==
  ASSUME Typed, InTurn, NEW c \in Clients, NEW l \in Idle, NEW q, Goto(c, l, q),
         LeaveQueue(c) \/ UNCHANGED busy
  PROVE  InTurn'
  <1>1. OthersKeepTurn(c)
    BY LeavingKeepsTurn DEF OthersKeepTurn
  <1>2. ~Running(l, q)
    BY DEF Idle, Running, Restic
  <1>3. QED
    BY <1>1, <1>2, MoveInTurn

LEMMA AnswerInTurn ==
  ASSUME Typed, InTurn, NEW c \in Clients, Answer(c)
  PROVE  InTurn'
  BY IdleInTurn DEF Answer, Idle

LEMMA ArriveInTurn ==
  ASSUME Typed, InTurn, NEW c \in Clients, Arrive(c)
  PROVE  InTurn'
  <1>1. UNCHANGED busy
    BY DEF Arrive, OpenPreview, Confirm, RequestPush, RequestWrite, Abandon
  <1>2. ASSUME NEW l, NEW q, Goto(c, l, q), q.at \in Replicas, ~Running(l, q)
        PROVE  InTurn'
    BY <1>1, <1>2, MoveInTurn DEF OthersKeepTurn
  <1>3. ASSUME NEW q, Goto(c, "queued", q), q.at \in Replicas PROVE InTurn'
    BY <1>2, <1>3 DEF Running, Restic
  <1>4. ASSUME NEW r \in Replicas, NEW o, NEW s, OpenPreview(c, r, o, s)
        PROVE  InTurn'
    <2>1. PICK q : q = [Blank EXCEPT !.op = o, !.at = r, !.preview = TRUE,
                                     !.target = s, !.observed = lastSync]
      OBVIOUS
    <2>2. q.at = r /\ Goto(c, "queued", q)
      BY <1>4, <2>1 DEF OpenPreview, Blank
    <2>3. QED
      BY <1>3, <2>2
  <1>5. ASSUME NEW r \in Replicas, NEW token \in BOOLEAN, Confirm(c, r, token)
        PROVE  InTurn'
    <2>1. PICK q : q = [req[c] EXCEPT !.at = r, !.preview = FALSE,
                            !.observed = lastSync,
                            !.expected = IF token THEN @ ELSE NoHash]
      OBVIOUS
    <2>2. q.at = r /\ Goto(c, "queued", q)
      BY <1>5, <2>1 DEF Confirm, Typed, TypeOK, Request
    <2>3. QED
      BY <1>3, <2>2
  <1>6. ASSUME NEW r \in Replicas, RequestPush(c, r)
        PROVE  InTurn'
    <2>1. PICK q : q = [Blank EXCEPT !.op = "push", !.at = r, !.observed = lastSync]
      OBVIOUS
    <2>2. q.at = r /\ Goto(c, "queued", q)
      BY <1>6, <2>1 DEF RequestPush, Blank
    <2>3. QED
      BY <1>3, <2>2
  <1>7. ASSUME NEW r \in Replicas, NEW o \in {"edit", "delete"}, RequestWrite(c, r, o)
        PROVE  InTurn'
    <2>1. PICK q : q = [Blank EXCEPT !.op = o, !.at = r]
      OBVIOUS
    <2>2. q.at = r /\ q.op = o /\ Goto(c, "write", q)
      BY <1>7, <2>1 DEF RequestWrite, Blank
    <2>3. QED
      BY <1>2, <2>2 DEF Running, Restic, Replacing
  <1>8. CASE Abandon(c)
    BY <1>1, <1>8, IdleInTurn DEF Abandon, Idle
  <1>9. QED
    BY <1>4, <1>5, <1>6, <1>7, <1>8 DEF Arrive

\* Only here a request takes the queue, and only when nobody has it.
LEMMA StartSyncInTurn ==
  ASSUME Typed, InTurn, NEW c \in Clients, StartSync(c)
  PROVE  InTurn'
  <1>1. CASE Answer(c)
    BY <1>1, AnswerInTurn
  <1>2. CASE ~Answer(c)
    <2> DEFINE o == IF exists THEN lastSync ELSE req[c].observed
    <2>1. PICK q : q = [req[c] EXCEPT !.observed = o,
                          !.target = IF req[c].op = "discard" THEN o ELSE @]
      OBVIOUS
    <2>2. req[c] \in Request
      BY DEF Typed, TypeOK
    <2>3. q.at = req[c].at
      BY <2>1, <2>2 DEF Request
    <2>4. req[c].at \in Replicas
      BY DEF StartSync, InTurn, Idle
    <2>5. /\ \E l \in {"capture", "list"} : Goto(c, l, q)
          /\ busy' = [busy EXCEPT ![req[c].at] = c]
      BY <1>2, <2>1, <2>2 DEF StartSync, Request
    <2>6. busy[req[c].at] = NoOne
      BY DEF StartSync, QueueFree
    <2>7. busy'[q.at] = c /\ OthersKeepTurn(c)
      BY <2>3, <2>4, <2>5, <2>6, SentinelsDiffer DEF Typed, TypeOK, OthersKeepTurn
    <2>8. QED
      BY <2>3, <2>4, <2>5, <2>7, MoveInTurn
  <1>3. QED
    BY <1>1, <1>2

\* A request that goes on inside the queue, or inside its write section.
LEMMA GoOnInTurn ==
  ASSUME Typed, InTurn, NEW c \in Clients, NEW l, NEW q, Goto(c, l, q),
         UNCHANGED busy, pc[c] \notin Idle, q.at = req[c].at,
         Running(l, q) => Running(pc[c], req[c])
  PROVE  InTurn'
  <1>1. req[c].at \in Replicas /\ (Running(l, q) => busy[req[c].at] = c)
    BY DEF InTurn
  <1>2. QED
    BY <1>1, MoveInTurn DEF OthersKeepTurn

LEMMA QueueStepsInTurn ==
  ASSUME Typed, InTurn, NEW c \in Clients,
         \/ Capture(c) \/ List(c) \/ Restore(c) \/ Resolve(c)
         \/ \E s \in SnapIds : Backup(c, s)
  PROVE  InTurn'
  <1>1. req[c] \in Request /\ pc[c] \notin Idle /\ Running(pc[c], req[c])
    BY DEF Capture, List, Restore, Resolve, Backup, Typed, TypeOK, Idle, Running,
           Restic
  <1>2. CASE Answer(c)
    BY <1>2, AnswerInTurn
  <1>3. ASSUME NEW l, NEW q, Goto(c, l, q), UNCHANGED busy, q.at = req[c].at
        PROVE  InTurn'
    BY <1>1, <1>3, GoOnInTurn
  <1>4. ASSUME NEW s, NEW l, Goto(c, l, [req[c] EXCEPT !.target = s]), UNCHANGED busy
        PROVE  InTurn'
    <2>1. PICK q : q = [req[c] EXCEPT !.target = s]
      OBVIOUS
    <2>2. q.at = req[c].at
      BY <1>1, <2>1 DEF Request
    <2>3. QED
      BY <1>3, <1>4, <2>1, <2>2
  <1>5. CASE Capture(c)
    <2>1. PICK q : /\ \/ q = [req[c] EXCEPT !.payload = secrets]
                      \/ q = [req[c] EXCEPT !.expected = Hash(secrets),
                                            !.seen = secrets]
                   /\ Goto(c, "list", q)
      BY <1>5 DEF Capture
    <2>2. q.at = req[c].at /\ UNCHANGED busy
      BY <1>1, <1>5, <2>1 DEF Capture, Request
    <2>3. QED
      BY <1>3, <2>1, <2>2
  <1>6. CASE List(c)
    <2>1. ASSUME Goto(c, "backup", [req[c] EXCEPT !.known = Listed]), UNCHANGED busy
          PROVE  InTurn'
      <3>1. PICK q : q = [req[c] EXCEPT !.known = Listed]
        OBVIOUS
      <3>2. q.at = req[c].at
        BY <1>1, <3>1 DEF Request
      <3>3. QED
        BY <1>3, <2>1, <3>1, <3>2
    <2>2. QED
      BY <1>2, <1>4, <1>6, <2>1 DEF List
  <1>7. CASE Restore(c)
    <2>1. PICK q : q = [req[c] EXCEPT !.payload = contentOf[req[c].target]]
      OBVIOUS
    <2>2. q.at = req[c].at
      BY <1>1, <2>1 DEF Request
    <2>3. Answer(c) \/ (UNCHANGED busy /\ \E l : Goto(c, l, q))
      BY <1>7, <2>1 DEF Restore
    <2>4. QED
      BY <1>2, <1>3, <2>2, <2>3
  <1>8. CASE Resolve(c)
    BY <1>2, <1>4, <1>8 DEF Resolve
  <1>9. ASSUME NEW s \in SnapIds, Backup(c, s)
        PROVE  InTurn'
    <2>1. PICK q : \E named \in BOOLEAN :
                     /\ q = [req[c] EXCEPT !.made = s, !.named = named]
                     /\ Goto(c, "resolve", q)
      BY <1>9 DEF Backup
    <2>2. q.at = req[c].at /\ UNCHANGED busy
      BY <1>1, <1>9, <2>1 DEF Request, Backup
    <2>3. QED
      BY <1>3, <2>1, <2>2
  <1>10. QED
    BY <1>5, <1>6, <1>7, <1>8, <1>9

LEMMA EnterWriteInTurn ==
  ASSUME Typed, InTurn, NEW c \in Clients, NEW k \in Contents, EnterWrite(c, k)
  PROVE  InTurn'
  <1>1. CASE Answer(c)
    BY <1>1, AnswerInTurn
  <1>2. CASE ~Answer(c)
    <2>1. PICK q :
            /\ q = CASE req[c].op = "edit"
                          -> [req[c] EXCEPT !.payload = k, !.fresh = Hash(k)]
                     [] req[c].op = "push"
                          -> [req[c] EXCEPT !.fresh = Hash(secrets)]
                     [] OTHER -> req[c]
            /\ Goto(c, "commit", q)
      BY <1>2 DEF EnterWrite, FreshHash
    <2>2. q.op = req[c].op /\ q.at = req[c].at
      BY <2>1 DEF Typed, TypeOK, Request
    <2>3. UNCHANGED busy /\ pc[c] = "write"
      BY <1>2 DEF EnterWrite
    <2>4. /\ pc[c] \notin Idle
          /\ Running("commit", q) => Running(pc[c], req[c])
      BY <2>2, <2>3 DEF Running, Restic, Idle
    <2>5. QED
      BY <2>1, <2>2, <2>3, <2>4, GoOnInTurn
  <1>3. QED
    BY <1>1, <1>2

LEMMA CrashInTurn ==
  ASSUME Typed, InTurn, NEW r \in Replicas, Crash(r)
  PROVE  InTurn'
  <1>1. ASSUME NEW d \in Clients
        PROVE  /\ pc'[d] \notin Idle => req'[d].at \in Replicas
               /\ Running(pc[d], req[d])' => busy'[req'[d].at] = d
    <2>1. CASE req[d].at = r /\ pc[d] \notin Idle
      <3>1. pc'[d] = "idle"
        BY <2>1 DEF Crash
      <3>2. QED
        BY <3>1 DEF Idle, Running, Restic
    <2>2. CASE ~(req[d].at = r /\ pc[d] \notin Idle)
      <3>1. pc'[d] = pc[d] /\ req'[d] = req[d]
        BY <2>2 DEF Crash
      <3>2. Running(pc[d], req[d]) => pc[d] \notin Idle
        BY DEF Running, Restic, Idle
      <3>3. Running(pc[d], req[d]) => busy'[req[d].at] = d
        BY <2>2, <3>2 DEF InTurn, Crash, Typed, TypeOK
      <3>4. QED
        BY <3>1, <3>3 DEF InTurn, Running
    <2>3. QED
      BY <2>1, <2>2
  <1>2. QED
    BY <1>1 DEF InTurn

LEMMA NextInTurn == Typed /\ InTurn /\ [Next]_vars => InTurn'
  <1> SUFFICES ASSUME Typed, InTurn, [Next]_vars PROVE InTurn'
    OBVIOUS
  <1>1. ASSUME NEW c \in Clients, Arrive(c) PROVE InTurn'
    BY <1>1, ArriveInTurn
  <1>2. ASSUME NEW c \in Clients, Proceed(c) PROVE InTurn'
    <2>1. ASSUME NEW l \in Idle, NEW q, Goto(c, l, q), LeaveQueue(c) PROVE InTurn'
      BY <2>1, IdleInTurn
    <2>2. "idle" \in Idle /\ "previewed" \in Idle
      BY DEF Idle
    <2>3. ASSUME CommitReplace(c) \/ CommitPush(c) \/ CommitEdit(c) \/ CommitDelete(c)
          PROVE  InTurn'
      BY <2>1, <2>2, <2>3
      DEF CommitReplace, CommitPush, CommitEdit, CommitDelete, EndWrite
    <2>4. ASSUME ReadCurrent(c) PROVE InTurn'
      BY <2>1, <2>2, <2>4 DEF ReadCurrent
    <2>5. ASSUME Fail(c) \/ \E s \in SnapIds : BackupLost(c, s) PROVE InTurn'
      BY <2>5, AnswerInTurn DEF Fail, BackupLost
    <2>6. QED
      BY <1>2, <2>3, <2>4, <2>5, StartSyncInTurn, QueueStepsInTurn, EnterWriteInTurn
      DEF Proceed, Work
  <1>3. ASSUME UNCHANGED <<busy, pc, req>> PROVE InTurn'
    BY <1>3 DEF InTurn, Running
  <1>4. CASE Refresh
    BY <1>3, <1>4 DEF Refresh, RefreshRead, RefreshWrite, RefreshLost
  <1>5. CASE Environment
    BY <1>3, <1>5, CrashInTurn
    DEF Environment, ExternalBackup, ExternalForget, Settle
  <1>6. CASE UNCHANGED vars
    BY <1>3, <1>6 DEF vars
  <1>7. QED
    BY <1>1, <1>2, <1>4, <1>5, <1>6 DEF Next

LEMMA AlwaysInTurn == Spec => [](Typed /\ InTurn)
  <1>1. Init => InTurn
    BY DEF Init, InTurn, Running, Restic, Idle
  <1>2. QED
    BY <1>1, InitTyped, NextTyped, NextInTurn, PTL DEF Spec

\* A replica runs at most one sync operation of the project at a time, from
\* the start of the operation to its answer, its write section included.
THEOREM OneSyncPerReplica ==
  Spec => [](\A c, d \in Clients :
                Running(pc[c], req[c]) /\ Running(pc[d], req[d])
                   /\ req[c].at = req[d].at => c = d)
  <1>1. InTurn => \A c, d \in Clients :
                     Running(pc[c], req[c]) /\ Running(pc[d], req[d])
                        /\ req[c].at = req[d].at => c = d
    BY DEF InTurn
  <1>2. QED
    BY <1>1, AlwaysInTurn, PTL

-----------------------------------------------------------------------------
(* What a push has seen of the repository when it is recorded.                *)

\* A push went on because what it listed ended with the snapshot its row
\* named.  Between that listing and its commit nothing appears but its own
\* snapshot, which is the one it resolves.
Covered(l, q) ==
    /\ l = "backup" => Listed \subseteq q.known /\ MayPush(q, q.known)
    /\ l = "resolve" \/ (l \in {"write", "commit"} /\ q.op = "push")
          => Listed \subseteq q.known \cup {q.made} /\ MayPush(q, q.known)
    /\ l \in {"write", "commit"} /\ q.op = "push" => q.target = q.made

AllCovered == \A c \in Clients : Covered(pc[c], req[c])

\* Snapshots are listed when they are stored.
Undelayed == \A s \in SnapIds : vis[s] # "lagging"

\* One server, and nobody else writes to the repository.
Alone == (\A r, s \in Replicas : r = s) /\ ~OtherWriters /\ ~Lags

LEMMA MoveCovered ==
  ASSUME Typed, AllCovered, NEW c \in Clients, NEW l, NEW q, Goto(c, l, q),
         Listed' \subseteq Listed, Covered(l, q)'
  PROVE  AllCovered'
  <1>1. ASSUME NEW d \in Clients PROVE Covered(pc[d], req[d])'
    <2>1. CASE d = c
      <3>1. pc'[d] = l /\ req'[d] = q
        BY <2>1, GotoEffect DEF Typed
      <3>2. QED
        BY <3>1 DEF Covered
    <2>2. CASE d # c
      <3>1. pc'[d] = pc[d] /\ req'[d] = req[d]
        BY <2>2, GotoEffect DEF Typed
      <3>2. QED
        BY <3>1 DEF AllCovered, Covered
    <2>3. QED
      BY <2>1, <2>2
  <1>2. QED
    BY <1>1 DEF AllCovered

\* Steps that add nothing to the list and move no request, or only to idle.
LEMMA OthersCovered ==
  ASSUME AllCovered, Listed' \subseteq Listed,
         \A c \in Clients : \/ pc'[c] = pc[c] /\ req'[c] = req[c]
                            \/ pc'[c] = "idle"
  PROVE  AllCovered'
  BY DEF AllCovered, Covered

\* The push that stores a snapshot is the only operation that runs.
LEMMA BackupCovered ==
  ASSUME Alone, Typed, InTurn, AllCovered, NEW c \in Clients, NEW s \in SnapIds,
         Backup(c, s) \/ BackupLost(c, s)
  PROVE  AllCovered'
  <1>1. /\ req[c] \in Request /\ pc[c] = "backup"
        /\ Listed' \subseteq Listed \cup {s}
    BY DEF Backup, BackupLost, Store, Listed, Typed, TypeOK
  <1>2. ASSUME NEW d \in Clients \ {c}, Running(pc[d], req[d]) PROVE FALSE
    <2>1. Running(pc[c], req[c]) /\ pc[c] \notin Idle
      BY <1>1 DEF Running, Restic, Idle
    <2>2. pc[d] \notin Idle
      BY <1>2 DEF Running, Restic, Idle
    <2>3. req[c].at = req[d].at
      BY <2>1, <2>2 DEF InTurn, Alone
    <2>4. QED
      BY <1>2, <2>1, <2>3 DEF InTurn
  <1>3. ASSUME NEW d \in Clients \ {c} PROVE Covered(pc[d], req[d])'
    <2>1. pc'[d] = pc[d] /\ req'[d] = req[d]
      BY GotoEffect DEF Typed, Backup, BackupLost, Answer
    <2>2. QED
      BY <1>2, <2>1 DEF Covered, Running, Restic
  <1>4. Covered(pc[c], req[c])'
    <2>1. CASE Answer(c)
      BY <2>1, GotoEffect DEF Typed, Answer, Covered
    <2>2. CASE ~Answer(c)
      <3>1. PICK q : \E named \in BOOLEAN :
                       /\ q = [req[c] EXCEPT !.made = s, !.named = named]
                       /\ Goto(c, "resolve", q)
        BY <2>2 DEF Backup, BackupLost
      <3>2. q.made = s /\ q.known = req[c].known /\ q.observed = req[c].observed
        BY <1>1, <3>1 DEF Request
      <3>3. Listed \subseteq req[c].known /\ MayPush(req[c], req[c].known)
        BY <1>1 DEF AllCovered, Covered
      <3>4. pc'[c] = "resolve" /\ req'[c] = q
        BY <3>1, GotoEffect DEF Typed
      <3>5. QED
        BY <1>1, <3>2, <3>3, <3>4 DEF Covered, MayPush, IsLatest
    <2>3. QED
      BY <2>1, <2>2
  <1>5. QED
    BY <1>3, <1>4 DEF AllCovered

LEMMA ListCovered ==
  ASSUME Typed, AllCovered, NEW c \in Clients, List(c)
  PROVE  AllCovered'
  <1>1. Listed' \subseteq Listed
    BY DEF List, repo, Listed
  <1>2. ASSUME NEW l \in {"idle", "restore"}, NEW q, Goto(c, l, q) PROVE AllCovered'
    BY <1>1, <1>2, MoveCovered DEF Covered
  <1>3. ASSUME Goto(c, "backup", [req[c] EXCEPT !.known = Listed]),
               MayPush(req[c], Listed)
        PROVE  AllCovered'
    <2>1. PICK q : q = [req[c] EXCEPT !.known = Listed]
      OBVIOUS
    <2>2. q.known = Listed /\ q.observed = req[c].observed
      BY <2>1 DEF Typed, TypeOK, Request
    <2>3. Covered("backup", q)'
      BY <1>1, <1>3, <2>2 DEF Covered, MayPush, IsLatest
    <2>4. QED
      BY <1>1, <1>3, <2>1, <2>3, MoveCovered
  <1>4. QED
    BY <1>2, <1>3 DEF List, Answer

LEMMA ResolveCovered ==
  ASSUME Typed, AllCovered, NEW c \in Clients, Resolve(c)
  PROVE  AllCovered'
  <1>1. Listed' \subseteq Listed /\ Covered("resolve", req[c])
    BY DEF Resolve, repo, Listed, AllCovered
  <1>2. CASE Answer(c)
    BY <1>1, <1>2, MoveCovered DEF Answer, Covered
  <1>3. ASSUME NEW s \in Resolved(req[c], Listed),
               Goto(c, "write", [req[c] EXCEPT !.target = s])
        PROVE  AllCovered'
    <2>1. PICK q : q = [req[c] EXCEPT !.target = s]
      OBVIOUS
    <2>2. /\ q.known = req[c].known /\ q.made = req[c].made
          /\ q.observed = req[c].observed /\ q.target = s
      BY <2>1 DEF Typed, TypeOK, Request
    <2>3. /\ Listed \subseteq req[c].known \cup {req[c].made}
          /\ MayPush(req[c], req[c].known)
      BY <1>1 DEF Covered
    <2>4. s = req[c].made
      BY <1>3, <2>3 DEF Resolved
    <2>5. Covered("write", q)'
      BY <1>1, <2>2, <2>3, <2>4 DEF Covered, MayPush, IsLatest
    <2>6. QED
      BY <1>1, <1>3, <2>1, <2>5, MoveCovered
  <1>4. QED
    BY <1>2, <1>3 DEF Resolve

LEMMA EnterWriteCovered ==
  ASSUME Typed, AllCovered, NEW c \in Clients, NEW k \in Contents, EnterWrite(c, k)
  PROVE  AllCovered'
  <1>1. Listed' \subseteq Listed /\ Covered("write", req[c])
    BY DEF EnterWrite, repo, Listed, AllCovered
  <1>2. CASE Answer(c)
    BY <1>1, <1>2, MoveCovered DEF Answer, Covered
  <1>3. CASE ~Answer(c)
    <2>1. PICK q :
            /\ q = CASE req[c].op = "edit"
                          -> [req[c] EXCEPT !.payload = k, !.fresh = Hash(k)]
                     [] req[c].op = "push"
                          -> [req[c] EXCEPT !.fresh = Hash(secrets)]
                     [] OTHER -> req[c]
            /\ Goto(c, "commit", q)
      BY <1>3 DEF EnterWrite, FreshHash
    <2>2. /\ q.op = req[c].op /\ q.known = req[c].known /\ q.made = req[c].made
          /\ q.observed = req[c].observed /\ q.target = req[c].target
      BY <2>1 DEF Typed, TypeOK, Request
    <2>3. Covered("commit", q)'
      BY <1>1, <2>2 DEF Covered, MayPush, IsLatest
    <2>4. QED
      BY <1>1, <2>1, <2>3, MoveCovered
  <1>4. QED
    BY <1>2, <1>3

\* The other steps of a request say nothing about the repository.
LEMMA SilentCovered ==
  ASSUME Typed, AllCovered, NEW c \in Clients,
         \/ Arrive(c) \/ StartSync(c) \/ Capture(c) \/ Restore(c) \/ ReadCurrent(c)
         \/ CommitReplace(c) \/ CommitPush(c) \/ CommitEdit(c) \/ CommitDelete(c)
         \/ Fail(c)
  PROVE  AllCovered'
  <1>1. UNCHANGED repo
    BY DEF Arrive, OpenPreview, Confirm, RequestPush, RequestWrite, Abandon,
           StartSync, Capture, Restore, ReadCurrent, CommitReplace, CommitPush,
           CommitEdit, CommitDelete, EndWrite, Fail
  <1>2. Listed' \subseteq Listed
    BY <1>1 DEF repo, Listed
  <1>3. ASSUME NEW l \in {"idle", "previewed", "queued", "capture", "list", "current"},
               NEW q, Goto(c, l, q)
        PROVE  AllCovered'
    BY <1>2, <1>3, MoveCovered DEF Covered
  <1>4. ASSUME NEW q, q.op # "push", Goto(c, "write", q) PROVE AllCovered'
    BY <1>2, <1>4, MoveCovered DEF Covered
  <1>5. CASE Arrive(c)
    <2>1. ASSUME NEW r \in Replicas, NEW o \in {"edit", "delete"},
                 RequestWrite(c, r, o)
          PROVE  AllCovered'
      <3>1. PICK q : q = [Blank EXCEPT !.op = o, !.at = r]
        OBVIOUS
      <3>2. q.op = o /\ Goto(c, "write", q)
        BY <2>1, <3>1 DEF RequestWrite, Blank
      <3>3. QED
        BY <1>4, <3>2
    <2>2. QED
      BY <1>3, <1>5, <2>1 DEF Arrive, OpenPreview, Confirm, RequestPush, Abandon
  <1>6. CASE Restore(c)
    <2>1. PICK q : q = [req[c] EXCEPT !.payload = contentOf[req[c].target]]
      OBVIOUS
    <2>2. q.op # "push"
      BY <1>6, <2>1
      DEF Restore, Typed, TypeOK, Progress, Known, Request, Replacing
    <2>3. Answer(c) \/ Goto(c, "current", q) \/ Goto(c, "write", q)
      BY <1>6, <2>1 DEF Restore
    <2>4. QED
      BY <1>3, <1>4, <2>2, <2>3 DEF Answer
  <1>7. CASE StartSync(c) \/ Capture(c) \/ ReadCurrent(c)
    <2>1. \E l \in {"idle", "previewed", "capture", "list"} : \E q : Goto(c, l, q)
      BY <1>7 DEF StartSync, Capture, ReadCurrent, Answer
    <2>2. QED
      BY <1>3, <2>1
  <1>8. CASE \/ CommitReplace(c) \/ CommitPush(c) \/ CommitEdit(c) \/ CommitDelete(c)
             \/ Fail(c)
    BY <1>3, <1>8
    DEF CommitReplace, CommitPush, CommitEdit, CommitDelete, EndWrite, Fail, Answer
  <1>9. QED
    BY <1>5, <1>6, <1>7, <1>8

LEMMA NextUndelayed ==
  ASSUME ~Lags
  PROVE  Typed /\ Undelayed /\ [Next]_vars => Undelayed'
  <1> SUFFICES ASSUME Typed, Undelayed, [Next]_vars PROVE Undelayed'
    OBVIOUS
  <1>1. ASSUME UNCHANGED vis PROVE Undelayed'
    BY <1>1 DEF Undelayed
  <1>2. ASSUME NEW s \in SnapIds, NEW k, Store(s, k) PROVE Undelayed'
    BY <1>2 DEF Store, Undelayed, Typed, TypeOK
  <1>3. ASSUME NEW c \in Clients, Arrive(c) PROVE Undelayed'
    BY <1>1, <1>3
    DEF Arrive, OpenPreview, Confirm, RequestPush, RequestWrite, Abandon, repo
  <1>4. ASSUME NEW c \in Clients, Proceed(c) PROVE Undelayed'
    BY <1>1, <1>2, <1>4
    DEF Proceed, Work, StartSync, Capture, List, Restore, ReadCurrent, Backup,
        BackupLost, Resolve, EnterWrite, CommitReplace, CommitPush, CommitEdit,
        CommitDelete, EndWrite, Fail, repo
  <1>5. CASE Refresh
    BY <1>1, <1>5 DEF Refresh, RefreshRead, RefreshWrite, RefreshLost, repo
  <1>6. ASSUME Environment PROVE Undelayed'
    <2>1. ASSUME NEW r \in Replicas, Crash(r) PROVE Undelayed'
      BY <1>1, <2>1 DEF Crash, repo
    <2>2. ASSUME NEW s \in SnapIds, ExternalForget(s) \/ Settle(s) PROVE Undelayed'
      BY <2>2 DEF ExternalForget, Settle, Undelayed, Typed, TypeOK
    <2>3. QED
      BY <1>2, <1>6, <2>1, <2>2 DEF Environment, ExternalBackup
  <1>7. CASE UNCHANGED vars
    BY <1>1, <1>7 DEF vars, repo
  <1>8. QED
    BY <1>3, <1>4, <1>5, <1>6, <1>7 DEF Next

LEMMA NextCovered ==
  ASSUME Alone
  PROVE  Typed /\ InTurn /\ Undelayed /\ AllCovered /\ [Next]_vars => AllCovered'
  <1> SUFFICES ASSUME Typed, InTurn, Undelayed, AllCovered, [Next]_vars
               PROVE  AllCovered'
    OBVIOUS
  <1>1. ASSUME NEW c \in Clients, Arrive(c) \/ Proceed(c) PROVE AllCovered'
    BY <1>1, SilentCovered, BackupCovered, ListCovered, ResolveCovered,
       EnterWriteCovered
    DEF Proceed, Work
  <1>2. ASSUME UNCHANGED <<vis, pc, req>> PROVE AllCovered'
    BY <1>2, OthersCovered DEF Listed
  <1>3. CASE Refresh \/ UNCHANGED vars
    BY <1>2, <1>3 DEF Refresh, RefreshRead, RefreshWrite, RefreshLost, vars, repo
  <1>4. CASE Environment
    <2>1. ASSUME NEW r \in Replicas, Crash(r) PROVE AllCovered'
      <3>1. Listed' \subseteq Listed
        BY <2>1 DEF Crash, repo, Listed
      <3>2. QED
        BY <2>1, <3>1, OthersCovered DEF Crash
    <2>2. ASSUME NEW s \in SnapIds, ExternalForget(s) PROVE AllCovered'
      <3>1. Listed' \subseteq Listed
        BY <2>2 DEF ExternalForget, Listed, Typed, TypeOK
      <3>2. QED
        BY <2>2, <3>1, OthersCovered DEF ExternalForget
    <2>3. ASSUME NEW s \in SnapIds, Settle(s) PROVE FALSE
      BY <2>3 DEF Settle, Undelayed
    <2>4. QED
      BY <1>4, <2>1, <2>2, <2>3 DEF Environment, ExternalBackup, Alone
  <1>5. QED
    BY <1>1, <1>3, <1>4 DEF Next

\* The snapshots a push leaves below its own when it commits.
LEMMA PushBuriesNothing ==
  ASSUME Guarded, AllCovered, NEW c \in Clients, CommitPush(c),
         NEW s \in Listed \ {lastSync'}
  PROVE  lastSync # NoSnap /\ s <= lastSync
  <1>1. /\ pc[c] = "commit" /\ req[c].op = "push" /\ lastSync' = req[c].target
    BY DEF CommitPush, EndWrite
  <1>2. lastSync = req[c].observed
    BY <1>1 DEF Guarded, Decided
  <1>3. /\ Listed \subseteq req[c].known \cup {req[c].target}
        /\ MayPush(req[c], req[c].known)
    BY <1>1 DEF AllCovered, Covered
  <1>4. s \in req[c].known
    BY <1>1, <1>3
  <1>5. QED
    BY <1>2, <1>3, <1>4 DEF MayPush, IsLatest

\* With one server and no other writer, a push is recorded above snapshots
\* the project was synchronized with only: it lists what is newer before its
\* backup, and the queue lets nothing else store one between that listing
\* and its commit, lost backups included.
THEOREM OneServerBuriesNothing ==
  ASSUME Alone
  PROVE  Spec => NothingBuried
  <1>1. Init => Undelayed /\ AllCovered
    BY DEF Init, Undelayed, AllCovered, Covered
  <1>2. ~Lags
    BY DEF Alone
  <1>3. Typed /\ Undelayed /\ [Next]_vars => Undelayed'
    BY <1>2, NextUndelayed
  <1>4. Typed /\ InTurn /\ Undelayed /\ AllCovered /\ [Next]_vars => AllCovered'
    BY NextCovered
  <1>5. Spec => []AllCovered
    BY <1>1, <1>3, <1>4, AlwaysInTurn, PTL DEF Spec
  <1>6. Guarded /\ AllCovered /\ [Next]_vars
          => [\A c \in Clients :
                 CommitPush(c) => \A s \in Listed \ {lastSync'} :
                                     lastSync # NoSnap /\ s <= lastSync]_vars
    BY PushBuriesNothing
  <1>7. QED
    BY <1>5, <1>6, AlwaysGuarded, PTL DEF Spec, NothingBuried

-----------------------------------------------------------------------------
(***************************************************************************)
(* ProjectSync implements SyncRegister on a repository that lists what it  *)
(* stores.  Two more layers of the inductive invariant come first: the     *)
(* stored hash belongs to the stored content (HashSound), and every        *)
(* snapshot id a request or the project holds stands for the content it    *)
(* was restored from or backed up as (Traced).  From them follow the       *)
(* truth of the badge and, step by step, the refinement: every step of the *)
(* requests, of the repository and of the crashes is one atomic step of    *)
(* the register or leaves it alone.                                        *)
(***************************************************************************)

\* While a hash refresh without the lock runs nobody uses the project, and
\* what it read is still stored.
Quiet ==
    /\ refresh.pc # "done" => \A c \in Clients : pc[c] \in Idle
    /\ refresh.pc = "read" => refresh.hash = Hash(secrets)

HashSound == Quiet /\ HashMatchesContent

-----------------------------------------------------------------------------
(* The stored hash *)

LEMMA ProceedIsBusy ==
  ASSUME NEW c \in Clients, Proceed(c)
  PROVE  pc[c] \notin Idle /\ UNCHANGED refresh
  BY DEF Proceed, Work, StartSync, Capture, List, Restore, ReadCurrent, Backup,
         BackupLost, Resolve, EnterWrite, CommitReplace, CommitPush, CommitEdit,
         CommitDelete, EndWrite, Fail, Idle

LEMMA NextQuiet ==
  ASSUME ~Early, Typed, Quiet, [Next]_vars
  PROVE  Quiet'
  <1>1. ASSUME NEW c \in Clients, Arrive(c) PROVE Quiet'
    <2>1. CASE Abandon(c)
      BY <2>1 DEF Abandon, Goto, Quiet, Idle, row, Typed, TypeOK
    <2>2. CASE ~Abandon(c)
      <3>1. refresh.pc = "done" /\ UNCHANGED refresh
        BY <1>1, <2>2
        DEF Arrive, OpenPreview, Confirm, RequestPush, RequestWrite, Requestable
      <3>2. QED
        BY <3>1 DEF Quiet
    <2>3. QED
      BY <2>1, <2>2
  <1>2. ASSUME NEW c \in Clients, Proceed(c) PROVE Quiet'
    BY <1>2, ProceedIsBusy DEF Quiet
  <1>3. CASE Refresh
    BY <1>3 DEF Refresh, RefreshRead, RefreshWrite, RefreshLost, Quiet, row
  <1>4. CASE Environment
    <2>1. ASSUME NEW r \in Replicas, Crash(r) PROVE Quiet'
      <3>1. refresh.pc = "done" /\ UNCHANGED refresh
        BY <2>1 DEF Crash, Quiet, Typed, TypeOK
      <3>2. QED
        BY <3>1 DEF Quiet
    <2>2. ASSUME UNCHANGED <<row, pc, refresh>> PROVE Quiet'
      BY <2>2 DEF Quiet, row
    <2>3. QED
      BY <1>4, <2>1, <2>2 DEF Environment, ExternalBackup, ExternalForget, Settle
  <1>5. CASE UNCHANGED vars
    BY <1>5 DEF vars, row, Quiet
  <1>6. QED
    BY <1>1, <1>2, <1>3, <1>4, <1>5 DEF Next

LEMMA NextHashMatches ==
  ASSUME Typed, Guarded, HashSound, [Next]_vars
  PROVE  HashMatchesContent'
  <1>1. CASE UNCHANGED row
    BY <1>1 DEF row, HashSound, HashMatchesContent
  <1>2. CASE RefreshWrite
    BY <1>2 DEF RefreshWrite, HashSound, Quiet, HashMatchesContent
  <1>3. ASSUME NEW c \in Clients,
               \/ CommitReplace(c) \/ CommitPush(c) \/ CommitEdit(c) \/ CommitDelete(c)
        PROVE  HashMatchesContent'
    BY <1>3 DEF CommitReplace, CommitPush, CommitEdit, CommitDelete, EndWrite,
                Guarded, Decided, HashMatchesContent
  <1>4. QED
    BY <1>1, <1>2, <1>3, RowChanges

LEMMA AlwaysHashSound ==
  ASSUME ~Early
  PROVE  Spec => [](Typed /\ Guarded /\ HashSound)
  <1>1. Init => Typed /\ Guarded /\ HashSound
    BY InitTyped, InitGuarded DEF Init, HashSound, Quiet, HashMatchesContent, Idle
  <1>2. (Typed /\ Guarded /\ HashSound) /\ [Next]_vars
          => (Typed /\ Guarded /\ HashSound)'
    BY NextTyped, NextGuarded, NextQuiet, NextHashMatches DEF HashSound
  <1>3. QED
    BY <1>1, <1>2, PTL DEF Spec

\* Whatever edits, pushes and replacements interleave, on any replica, the
\* stored hash is that of the stored secrets, provided that the refreshes
\* without the lock end before the project is used.
THEOREM HashIsCurrent ==
  ASSUME ~Early
  PROVE  Spec => []HashMatchesContent
  <1>1. HashSound => HashMatchesContent
    BY DEF HashSound
  <1>2. QED
    BY <1>1, AlwaysHashSound, PTL

-----------------------------------------------------------------------------
(* What snapshot ids stand for *)

\* A repository without delays and removals: snapshots are listed when they
\* are stored and stay.
Prompt == \A s \in SnapIds : vis[s] \in {"none", "listed"}

\* The snapshots that a request with the locals q holds at l: a push can
\* tell its own snapshot from those it knew, and the payload is what the
\* target contains.
Holding(l, q) ==
    \/ l = "current"
    \/ l \in {"write", "commit"} /\ q.op \in Replacing \cup {"push"}

Filed(l, q) ==
    /\ l = "backup" => \A t \in q.known : vis[t] = "listed"
    /\ l = "resolve" => /\ vis[q.made] = "listed" /\ q.made \notin q.known
                        /\ contentOf[q.made] = q.payload
    /\ l \in {"write", "commit"} /\ q.op = "push" => q.target = q.made
    /\ Holding(l, q)
          => vis[q.target] = "listed" /\ contentOf[q.target] = q.payload

\* The baseline of the project is the content of its snapshot.
Based ==
    exists /\ lastSync # NoSnap =>
        /\ contentOf[lastSync] \in Contents
        /\ lastHash = Hash(contentOf[lastSync])
        /\ curHash # NoHash

Traced == Prompt /\ (\A c \in Clients : Filed(pc[c], req[c])) /\ Based

\* What is listed stays so and never changes.
Grows ==
    \A s \in SnapIds :
        vis[s] = "listed" => vis'[s] = "listed" /\ contentOf'[s] = contentOf[s]

LEMMA NextPrompt ==
  ASSUME ~Lags, ~Forgets, Typed, Prompt, [Next]_vars
  PROVE  Prompt' /\ Grows
  <1>1. ASSUME UNCHANGED repo PROVE Prompt' /\ Grows
    BY <1>1 DEF repo, Prompt, Grows
  <1>2. ASSUME NEW s \in SnapIds, NEW k, Store(s, k) PROVE Prompt' /\ Grows
    BY <1>2 DEF Store, Prompt, Grows, Typed, TypeOK
  <1>3. ASSUME NEW c \in Clients, Arrive(c) PROVE Prompt' /\ Grows
    BY <1>1, <1>3
    DEF Arrive, OpenPreview, Confirm, RequestPush, RequestWrite, Abandon
  <1>4. ASSUME NEW c \in Clients, Proceed(c) PROVE Prompt' /\ Grows
    BY <1>1, <1>2, <1>4
    DEF Proceed, Work, StartSync, Capture, List, Restore, ReadCurrent, Backup,
        BackupLost, Resolve, EnterWrite, CommitReplace, CommitPush, CommitEdit,
        CommitDelete, EndWrite, Fail
  <1>5. CASE Refresh
    BY <1>1, <1>5 DEF Refresh, RefreshRead, RefreshWrite, RefreshLost
  <1>6. ASSUME Environment PROVE Prompt' /\ Grows
    <2>1. ASSUME NEW r \in Replicas, Crash(r) PROVE Prompt' /\ Grows
      BY <1>1, <2>1 DEF Crash
    <2>2. ASSUME NEW s \in SnapIds, Settle(s) PROVE FALSE
      BY <2>2 DEF Settle, Prompt
    <2>3. QED
      BY <1>2, <1>6, <2>1, <2>2 DEF Environment, ExternalBackup, ExternalForget
  <1>7. CASE UNCHANGED vars
    BY <1>1, <1>7 DEF vars
  <1>8. QED
    BY <1>3, <1>4, <1>5, <1>6, <1>7 DEF Next

\* A request that does not move keeps what it holds.
LEMMA FiledStays ==
  ASSUME Grows, NEW l, NEW q \in Request, Known(l, q), Filed(l, q)
  PROVE  Filed(l, q)'
  <1>1. l = "backup" => \A t \in q.known : vis'[t] = "listed"
    BY DEF Grows, Filed, Request
  <1>2. l = "resolve" => /\ vis'[q.made] = "listed" /\ q.made \notin q.known
                         /\ contentOf'[q.made] = q.payload
    BY DEF Grows, Filed, Known
  <1>3. Holding(l, q) => q.target \in SnapIds
    BY DEF Holding, Known
  <1>4. Holding(l, q) => vis'[q.target] = "listed" /\ contentOf'[q.target] = q.payload
    BY <1>3 DEF Grows, Filed
  <1>5. QED
    BY <1>1, <1>2, <1>4 DEF Filed, Holding

LEMMA MoveFiled ==
  ASSUME Typed, Traced, Grows, NEW c \in Clients, NEW l, NEW q,
         Goto(c, l, q), Filed(l, q)'
  PROVE  (\A d \in Clients : Filed(pc[d], req[d]))'
  <1>1. ASSUME NEW d \in Clients PROVE Filed(pc[d], req[d])'
    <2>1. CASE d = c
      <3>1. pc'[d] = l /\ req'[d] = q
        BY <2>1, GotoEffect DEF Typed
      <3>2. QED
        BY <3>1 DEF Filed, Holding
    <2>2. CASE d # c
      <3>1. pc'[d] = pc[d] /\ req'[d] = req[d]
        BY <2>2, GotoEffect DEF Typed
      <3>2. Filed(pc[d], req[d])
        BY DEF Traced
      <3>3. req[d] \in Request /\ Known(pc[d], req[d])
        BY DEF Typed, TypeOK, Progress
      <3>4. \A m, r : m = pc[d] /\ r = req[d] => Filed(m, r)'
        <4>1. SUFFICES ASSUME NEW m, NEW r, m = pc[d], r = req[d]
                       PROVE  Filed(m, r)'
          OBVIOUS
        <4>2. r \in Request /\ Known(m, r) /\ Filed(m, r)
          BY <3>2, <3>3, <4>1
        <4>3. QED
          BY <4>2, FiledStays
      <3>5. QED
        BY <3>1, <3>4 DEF Filed, Holding
    <2>3. QED
      BY <2>1, <2>2
  <1>2. QED
    BY <1>1

AllFiled == \A c \in Clients : Filed(pc[c], req[c])

LEMMA NothingHeld ==
  ASSUME NEW l \in {"idle", "previewed", "queued", "capture", "list", "restore"},
         NEW q
  PROVE  Filed(l, q)'
  BY DEF Filed, Holding

LEMMA AnswerFiled ==
  ASSUME Typed, Traced, Grows, NEW c \in Clients, Answer(c)
  PROVE  AllFiled'
  BY NothingHeld, MoveFiled DEF Answer, AllFiled

LEMMA ArriveFiled ==
  ASSUME Typed, Traced, Grows, NEW c \in Clients, Arrive(c)
  PROVE  AllFiled'
  <1>1. ASSUME NEW l \in {"idle", "queued"}, NEW q, Goto(c, l, q)
        PROVE  AllFiled'
    BY <1>1, NothingHeld, MoveFiled DEF AllFiled
  <1>2. ASSUME NEW r \in Replicas, NEW o \in {"edit", "delete"}, RequestWrite(c, r, o)
        PROVE  AllFiled'
    <2> DEFINE q == [Blank EXCEPT !.op = o, !.at = r]
    <2>1. q.op \in {"edit", "delete"}
      BY DEF Blank
    <2> HIDE DEF q
    <2>2. Filed("write", q)'
      BY <2>1 DEF Filed, Holding, Replacing
    <2>3. Goto(c, "write", q)
      BY <1>2 DEF RequestWrite, q
    <2>4. QED
      BY <2>2, <2>3, MoveFiled DEF AllFiled
  <1>3. QED
    BY <1>1, <1>2 DEF Arrive, OpenPreview, Confirm, RequestPush, Abandon

\* The steps before anything is restored or backed up.
LEMMA EarlyStepsFiled ==
  ASSUME Typed, Traced, Grows, NEW c \in Clients,
         StartSync(c) \/ Capture(c) \/ ReadCurrent(c)
  PROVE  AllFiled'
  <1>1. ASSUME NEW l \in {"capture", "list", "previewed"}, NEW q, Goto(c, l, q)
        PROVE  AllFiled'
    BY <1>1, NothingHeld, MoveFiled DEF AllFiled
  <1>2. QED
    BY <1>1, AnswerFiled DEF StartSync, Capture, ReadCurrent

LEMMA ListFiled ==
  ASSUME Typed, Traced, Grows, NEW c \in Clients, List(c)
  PROVE  AllFiled'
  <1>1. ASSUME NEW q, Goto(c, "restore", q) PROVE AllFiled'
    BY <1>1, NothingHeld, MoveFiled DEF AllFiled
  <1>2. ASSUME Goto(c, "backup", [req[c] EXCEPT !.known = Listed])
        PROVE  AllFiled'
    <2>1. PICK q : q = [req[c] EXCEPT !.known = Listed]
      OBVIOUS
    <2>2. q.known = Listed /\ UNCHANGED vis
      BY <2>1 DEF List, repo, Typed, TypeOK, Request
    <2>3. Filed("backup", q)'
      BY <2>2 DEF Filed, Holding, Listed
    <2>4. QED
      BY <1>2, <2>1, <2>3, MoveFiled DEF AllFiled
  <1>3. QED
    BY <1>1, <1>2, AnswerFiled DEF List

LEMMA RestoreFiled ==
  ASSUME Typed, Traced, Grows, NEW c \in Clients, Restore(c)
  PROVE  AllFiled'
  <1>1. CASE Answer(c)
    BY <1>1, AnswerFiled
  <1>2. CASE ~Answer(c)
    <2>1. PICK q : q = [req[c] EXCEPT !.payload = contentOf[req[c].target]]
      OBVIOUS
    <2>2. PICK l : l = IF req[c].preview THEN "current" ELSE "write"
      OBVIOUS
    <2>3. Goto(c, l, q) /\ vis[req[c].target] = "listed" /\ UNCHANGED repo
      BY <1>2, <2>1, <2>2 DEF Restore
    <2>4. /\ q.target = req[c].target /\ q.payload = contentOf[req[c].target]
          /\ q.op = req[c].op
      BY <2>1 DEF Typed, TypeOK, Request
    <2>5. req[c].op \in Replacing
      BY DEF Restore, Typed, Progress, Known
    <2>6. Filed(l, q)'
      BY <2>2, <2>3, <2>4, <2>5 DEF Filed, repo, Replacing
    <2>7. QED
      BY <2>3, <2>6, MoveFiled DEF AllFiled
  <1>3. QED
    BY <1>1, <1>2

\* The snapshot of a push is not among those listed before it.
LEMMA BackupFiled ==
  ASSUME Typed, Traced, Prompt', Grows, NEW c \in Clients, NEW s \in SnapIds,
         Backup(c, s)
  PROVE  AllFiled'
  <1>1. PICK q : \E named \in BOOLEAN :
                   /\ q = [req[c] EXCEPT !.made = s, !.named = named]
                   /\ Goto(c, "resolve", q)
    BY DEF Backup
  <1>2. q.made = s /\ q.known = req[c].known /\ q.payload = req[c].payload
    BY <1>1 DEF Typed, TypeOK, Request
  <1>3. /\ vis[s] = "none" /\ vis'[s] = "listed"
        /\ contentOf'[s] = req[c].payload
    BY DEF Backup, Store, Prompt, Typed, TypeOK
  <1>4. s \notin req[c].known
    BY <1>3 DEF Backup, Traced, Filed
  <1>5. Filed("resolve", q)'
    BY <1>2, <1>3, <1>4 DEF Filed, Holding
  <1>6. QED
    BY <1>1, <1>5, MoveFiled DEF AllFiled

\* Both ways to resolve a push find its own snapshot.
LEMMA ResolveFiled ==
  ASSUME Typed, Traced, Grows, NEW c \in Clients, Resolve(c)
  PROVE  AllFiled'
  <1>1. CASE Answer(c)
    BY <1>1, AnswerFiled
  <1>2. CASE ~Answer(c)
    <2>1. PICK s \in Resolved(req[c], Listed) :
            Goto(c, "write", [req[c] EXCEPT !.target = s])
      BY <1>2 DEF Resolve
    <2>2. /\ vis[req[c].made] = "listed" /\ req[c].made \notin req[c].known
          /\ contentOf[req[c].made] = req[c].payload
          /\ req[c].made \in SnapIds
      BY DEF Resolve, Traced, Filed, Typed, Progress, Known
    <2>3. s = req[c].made
      BY <2>1, <2>2 DEF Resolved, Listed
    <2>4. PICK q : q = [req[c] EXCEPT !.target = s]
      OBVIOUS
    <2>5. q.target = s /\ q.made = req[c].made /\ q.payload = req[c].payload
      BY <2>4 DEF Typed, TypeOK, Request
    <2>6. Filed("write", q)'
      BY <2>2, <2>3, <2>5 DEF Filed, Resolve, repo
    <2>7. QED
      BY <2>1, <2>4, <2>6, MoveFiled DEF AllFiled
  <1>3. QED
    BY <1>1, <1>2

LEMMA EnterWriteFiled ==
  ASSUME Typed, Traced, Grows, NEW c \in Clients, NEW k \in Contents,
         EnterWrite(c, k)
  PROVE  AllFiled'
  <1>1. UNCHANGED repo /\ Filed("write", req[c])
    BY DEF EnterWrite, Traced
  <1>2. CASE Answer(c)
    BY <1>2, AnswerFiled
  <1>3. CASE ~Answer(c)
    <2>1. PICK q :
            /\ q = CASE req[c].op = "edit"
                          -> [req[c] EXCEPT !.payload = k, !.fresh = Hash(k)]
                     [] req[c].op = "push"
                          -> [req[c] EXCEPT !.fresh = Hash(secrets)]
                     [] OTHER -> req[c]
            /\ Goto(c, "commit", q)
      BY <1>3 DEF EnterWrite, FreshHash
    <2>2. /\ q.op = req[c].op
          /\ q.op # "edit" => /\ q.target = req[c].target /\ q.made = req[c].made
                              /\ q.payload = req[c].payload
      BY <2>1 DEF Typed, TypeOK, Request
    <2>3. Filed("commit", q)'
      BY <1>1, <2>2 DEF Filed, Holding, Replacing, repo
    <2>4. QED
      BY <2>1, <2>3, MoveFiled DEF AllFiled
  <1>4. QED
    BY <1>2, <1>3

LEMMA EndFiled ==
  ASSUME Typed, Traced, Grows, NEW c \in Clients, EndWrite(c) \/ Fail(c)
  PROVE  AllFiled'
  BY NothingHeld, MoveFiled, AnswerFiled DEF EndWrite, Fail, AllFiled

\* Steps that move no request, or only to idle.
LEMMA OthersFiled ==
  ASSUME Typed, Traced, Grows,
         \A c \in Clients : \/ pc'[c] = pc[c] /\ req'[c] = req[c]
                            \/ pc'[c] = "idle"
  PROVE  AllFiled'
  <1>1. ASSUME NEW c \in Clients PROVE Filed(pc[c], req[c])'
    <2>1. CASE pc'[c] = "idle"
      BY <2>1 DEF Filed, Holding
    <2>2. CASE pc'[c] = pc[c] /\ req'[c] = req[c]
      <3>1. ASSUME NEW l, NEW q, l = pc[c], q = req[c] PROVE Filed(l, q)'
        BY <3>1, FiledStays DEF Typed, TypeOK, Progress, Traced
      <3>2. QED
        BY <2>2, <3>1 DEF Filed, Holding
    <2>3. QED
      BY <2>1, <2>2
  <1>2. QED
    BY <1>1 DEF AllFiled

LEMMA NextFiled ==
  ASSUME ~Lags, ~Forgets, Typed, Traced, [Next]_vars
  PROVE  AllFiled'
  <1>1. Prompt' /\ Grows
    BY NextPrompt DEF Traced
  <1>2. ASSUME NEW c \in Clients, Arrive(c) PROVE AllFiled'
    BY <1>1, <1>2, ArriveFiled
  <1>3. ASSUME NEW c \in Clients, Proceed(c) PROVE AllFiled'
    <2>1. ASSUME NEW s \in SnapIds, BackupLost(c, s) PROVE AllFiled'
      BY <1>1, <2>1, AnswerFiled DEF BackupLost
    <2>2. ASSUME CommitReplace(c) \/ CommitPush(c) \/ CommitEdit(c) \/ CommitDelete(c)
          PROVE  AllFiled'
      BY <1>1, <2>2, EndFiled
      DEF CommitReplace, CommitPush, CommitEdit, CommitDelete
    <2>3. QED
      BY <1>1, <1>3, <2>1, <2>2, EarlyStepsFiled, ListFiled, RestoreFiled,
         BackupFiled, ResolveFiled, EnterWriteFiled, EndFiled
      DEF Proceed, Work
  <1>4. ASSUME Refresh \/ UNCHANGED vars PROVE AllFiled'
    BY <1>1, <1>4, OthersFiled
    DEF Refresh, RefreshRead, RefreshWrite, RefreshLost, vars
  <1>5. ASSUME Environment PROVE AllFiled'
    BY <1>1, <1>5, OthersFiled
    DEF Environment, Crash, ExternalBackup, ExternalForget, Settle
  <1>6. QED
    BY <1>2, <1>3, <1>4, <1>5 DEF Next

\* A content that is stored belongs to a listed snapshot.
LEMMA StoredIsListed ==
  ASSUME Typed, Prompt, NEW s \in SnapIds, contentOf[s] \in Contents
  PROVE  vis[s] = "listed"
  BY SentinelsDiffer DEF Typed, RepoFilled, Prompt, SnapContents

LEMMA NextBased ==
  ASSUME ~Lags, ~Forgets, Typed, Guarded, Quiet, Traced, [Next]_vars
  PROVE  Based'
  <1>1. Grows
    BY NextPrompt DEF Traced
  <1>2. ASSUME NEW s \in SnapIds, contentOf[s] \in Contents
        PROVE  contentOf'[s] = contentOf[s]
    BY <1>1, <1>2, StoredIsListed DEF Grows, Traced
  <1>3. CASE UNCHANGED row
    BY <1>2, <1>3 DEF row, Traced, Based, Typed, TypeOK
  <1>4. CASE RefreshWrite
    <2>1. refresh.hash # NoHash
      BY <1>4, HashInHashes, SentinelsDiffer DEF RefreshWrite, Quiet, Typed, TypeOK
    <2>2. QED
      BY <1>4, <2>1 DEF RefreshWrite, Traced, Based, repo
  <1>5. ASSUME NEW c \in Clients,
               \/ CommitReplace(c) \/ CommitPush(c) \/ CommitEdit(c) \/ CommitDelete(c)
        PROVE  Based'
    <2>1. /\ UNCHANGED repo /\ Filed("commit", req[c]) /\ Known("commit", req[c])
      BY <1>5 DEF CommitReplace, CommitPush, CommitEdit, CommitDelete, EndWrite,
                  Traced, Typed, Progress
    <2>2. NoHash \notin Hashes
      BY SentinelsDiffer
    <2>3. CASE CommitReplace(c)
      BY <2>1, <2>2, <2>3, HashInHashes
      DEF CommitReplace, Filed, Holding, Known, Based, repo
    <2>4. CASE CommitPush(c)
      BY <2>1, <2>2, <2>4
      DEF CommitPush, PushedHash, Filed, Holding, Known, Based, repo
    <2>5. CASE CommitEdit(c)
      BY <2>1, <2>2, <2>5 DEF CommitEdit, Known, Traced, Based, repo
    <2>6. CASE CommitDelete(c)
      BY <2>6 DEF CommitDelete, Based
    <2>7. QED
      BY <1>5, <2>3, <2>4, <2>5, <2>6
  <1>6. QED
    BY <1>3, <1>4, <1>5, RowChanges

LEMMA InitTraced == Init => Traced
  BY DEF Init, Traced, Prompt, Filed, Holding, Based

Sound == Typed /\ Guarded /\ HashSound /\ Traced

LEMMA NextSound ==
  ASSUME ~Lags, ~Forgets, ~Early
  PROVE  Sound /\ [Next]_vars => Sound'
  <1> SUFFICES ASSUME Sound, [Next]_vars PROVE Sound'
    OBVIOUS
  <1>1. Typed' /\ Guarded' /\ HashSound'
    BY NextTyped, NextGuarded, NextQuiet, NextHashMatches DEF Sound, HashSound
  <1>2. Traced'
    BY NextPrompt, NextFiled, NextBased DEF Sound, HashSound, Traced, AllFiled
  <1>3. QED
    BY <1>1, <1>2 DEF Sound

\* The inductive invariant of the synchronization.
THEOREM AlwaysSound ==
  ASSUME ~Lags, ~Forgets, ~Early
  PROVE  Spec => []Sound
  <1>1. Init => Sound
    BY InitTyped, InitGuarded, InitTraced
    DEF Init, Sound, HashSound, Quiet, HashMatchesContent, Idle
  <1>2. QED
    BY <1>1, NextSound, PTL DEF Spec

LEMMA SoundBadge == Sound => BadgeIsTruthful
  <1> SUFFICES ASSUME Sound, exists, lastSync # NoSnap
               PROVE  HasLocalChanges <=> secrets # contentOf[lastSync]
    BY DEF BadgeIsTruthful
  <1>1. /\ contentOf[lastSync] \in Contents /\ secrets \in Contents
        /\ lastHash = Hash(contentOf[lastSync]) /\ curHash = Hash(secrets)
        /\ curHash # NoHash
    BY DEF Sound, Traced, Based, HashSound, HashMatchesContent, Typed, TypeOK
  <1>2. lastHash # NoHash
    BY <1>1, HashInHashes, SentinelsDiffer
  <1>3. HasLocalChanges <=> lastHash # curHash
    BY <1>1, <1>2 DEF HasLocalChanges
  <1>4. QED
    BY <1>1, <1>3, HashIsInjective

\* The badge never hides an edit that the recorded snapshot does not hold,
\* and never reports one that is not there.
THEOREM BadgeNeverLies ==
  ASSUME ~Lags, ~Forgets, ~Early
  PROVE  Spec => []BadgeIsTruthful
  <1>1. QED
    BY AlwaysSound, SoundBadge, PTL

\* On a repository that lists every snapshot as soon as it is stored, a push
\* records its own snapshot, even when another writer pushes at that moment
\* or restic does not report an id.
THEOREM PushRecordsItsOwn ==
  ASSUME ~Lags, ~Forgets, ~Early
  PROVE  Spec => PushRecordsOwn
  <1>1. Sound /\ [Next]_vars
          => [\A c \in Clients : CommitPush(c) => lastSync' = req[c].made]_vars
    BY DEF Sound, Traced, Filed, CommitPush, EndWrite
  <1>2. QED
    BY <1>1, AlwaysSound, PTL DEF Spec, PushRecordsOwn

-----------------------------------------------------------------------------
(* The refinement *)

LEMMA BlankSeen == SeenBy(Blank) = NoContent
  BY DEF SeenBy, Blank, Replacing

\* What the clients have seen, as the register shows it.
Seen == [d \in Clients |-> SeenBy(req[d])]

LEMMA MoveSeen ==
  ASSUME Typed, NEW c \in Clients, NEW l, NEW q, Goto(c, l, q)
  PROVE  /\ Seen' = [Seen EXCEPT ![c] = SeenBy(q)]
         /\ Seen' = [d \in Clients |-> IF d \in {c} THEN SeenBy(q) ELSE Seen[d]]
         /\ SeenBy(q) = Seen[c] => Seen' = Seen
  <1>1. \A d \in Clients : SeenBy(req'[d]) = IF d = c THEN SeenBy(q) ELSE SeenBy(req[d])
    BY GotoEffect DEF Typed
  <1>2. Seen' = [d \in Clients |-> SeenBy(req'[d])]
    BY DEF Seen, SeenBy
  <1>3. \A d \in Clients : Seen[d] = SeenBy(req[d])
    BY DEF Seen
  <1>4. QED
    BY <1>1, <1>2, <1>3 DEF Seen

\* The badge follows the row.
LEMMA BadgeStays ==
  ASSUME UNCHANGED row
  PROVE  HasLocalChanges' = HasLocalChanges
  BY DEF row, HasLocalChanges

LEMMA DropStep ==
  ASSUME Typed, NEW c \in Clients, NEW l, NEW q, Goto(c, l, q),
         SeenBy(q) = NoContent, UNCHANGED <<row, contentOf>>
  PROVE  Register!Drop({c})
  <1>1. Seen' = [d \in Clients |-> IF d \in {c} THEN NoContent ELSE Seen[d]]
    BY MoveSeen
  <1>2. QED
    BY <1>1, BadgeStays DEF Register!Drop, row, Seen

LEMMA AnswerStep ==
  ASSUME Typed, NEW c \in Clients, Answer(c), UNCHANGED <<row, contentOf>>
  PROVE  Register!Drop({c})
  BY BlankSeen, DropStep DEF Answer

LEMMA QuietStep ==
  ASSUME Typed, NEW c \in Clients, NEW l, NEW q, Goto(c, l, q),
         SeenBy(q) = SeenBy(req[c]), UNCHANGED <<row, contentOf>>
  PROVE  UNCHANGED Register!vars
  BY MoveSeen, BadgeStays DEF Register!vars, row, Seen

LEMMA LookStep ==
  ASSUME Typed, NEW c \in Clients, NEW l, NEW q, Goto(c, l, q),
         SeenBy(q) = secrets, UNCHANGED <<row, contentOf>>
  PROVE  Register!Look(c)
  BY MoveSeen, BadgeStays DEF Register!Look, row, Seen

\* What a step of the implementation is for the register.
Simulated == [Register!Next]_(Register!vars)

LEMMA ArriveSimulated ==
  ASSUME Typed, NEW c \in Clients, Arrive(c)
  PROVE  Simulated
  <1>1. UNCHANGED <<row, contentOf>>
    BY DEF Arrive, OpenPreview, Confirm, RequestPush, RequestWrite, Abandon, repo
  <1>2. ASSUME NEW l, NEW q, Goto(c, l, q), SeenBy(q) = NoContent
        PROVE  Simulated
    BY <1>1, <1>2, DropStep DEF Simulated, Register!Next
  <1>3. ASSUME NEW r \in Replicas, NEW o \in Ops, NEW s, OpenPreview(c, r, o, s)
        PROVE  Simulated
    <2>1. PICK q : /\ Goto(c, "queued", q)
                   /\ q = [Blank EXCEPT !.op = o, !.at = r, !.preview = TRUE,
                                        !.target = s, !.observed = lastSync]
      BY <1>3 DEF OpenPreview
    <2>2. SeenBy(q) = NoContent
      BY <2>1 DEF SeenBy, Blank
    <2>3. QED
      BY <1>2, <2>1, <2>2
  <1>4. ASSUME NEW r \in Replicas, NEW token \in BOOLEAN, Confirm(c, r, token)
        PROVE  Simulated
    <2>1. PICK q : /\ Goto(c, "queued", q)
                   /\ q = [req[c] EXCEPT !.at = r, !.preview = FALSE,
                             !.observed = lastSync,
                             !.expected = IF token THEN @ ELSE NoHash]
      BY <1>4 DEF Confirm
    <2>2. SeenBy(q) = SeenBy(req[c])
      BY <2>1 DEF SeenBy, Typed, TypeOK, Request
    <2>3. QED
      BY <1>1, <2>1, <2>2, QuietStep DEF Simulated
  <1>5. ASSUME NEW r \in Replicas, RequestPush(c, r)
        PROVE  Simulated
    <2>1. PICK q : /\ Goto(c, "queued", q)
                   /\ q = [Blank EXCEPT !.op = "push", !.at = r,
                                        !.observed = lastSync]
      BY <1>5 DEF RequestPush
    <2>2. SeenBy(q) = NoContent
      BY <2>1 DEF SeenBy, Blank
    <2>3. QED
      BY <1>2, <2>1, <2>2
  <1>6. ASSUME NEW r \in Replicas, NEW o \in Ops, RequestWrite(c, r, o)
        PROVE  Simulated
    <2>1. PICK q : Goto(c, "write", q) /\ q = [Blank EXCEPT !.op = o, !.at = r]
      BY <1>6 DEF RequestWrite
    <2>2. SeenBy(q) = NoContent
      BY <2>1 DEF SeenBy, Blank
    <2>3. QED
      BY <1>2, <2>1, <2>2
  <1>7. CASE Abandon(c)
    BY <1>2, <1>7, BlankSeen DEF Abandon
  <1>8. QED
    BY <1>3, <1>4, <1>5, <1>6, <1>7 DEF Arrive, Ops, Replacing

\* The steps of a sync operation that write nothing shared: the two that read
\* the secrets are a Look of the register.
LEMMA QueueSimulated ==
  ASSUME Typed, NEW c \in Clients,
         \/ StartSync(c) \/ Capture(c) \/ List(c) \/ Restore(c) \/ ReadCurrent(c)
         \/ Resolve(c) \/ (\E k \in Contents : EnterWrite(c, k)) \/ Fail(c)
  PROVE  Simulated
  <1>1. UNCHANGED <<row, contentOf>>
    BY DEF StartSync, Capture, List, Restore, ReadCurrent, Resolve, EnterWrite,
           Fail, repo
  <1>2. CASE Answer(c)
    BY <1>1, <1>2, AnswerStep DEF Simulated, Register!Next
  <1>3. ASSUME NEW l, NEW q, Goto(c, l, q), SeenBy(q) = SeenBy(req[c])
        PROVE  Simulated
    BY <1>1, <1>3, QuietStep DEF Simulated
  <1>4. ASSUME NEW l, NEW q, Goto(c, l, q), SeenBy(q) = secrets
        PROVE  Simulated
    BY <1>1, <1>4, LookStep DEF Simulated, Register!Next
  <1>5. req[c] \in Request
    BY DEF Typed, TypeOK
  <1>6. CASE StartSync(c)
    <2>1. CASE ~Answer(c)
      <3>1. PICK q : /\ \E l : Goto(c, l, q)
                     /\ q = [[req[c] EXCEPT !.observed =
                                IF exists THEN lastSync ELSE req[c].observed]
                              EXCEPT !.target = IF req[c].op = "discard"
                                                THEN IF exists THEN lastSync
                                                     ELSE req[c].observed
                                                ELSE req[c].target]
        BY <1>6, <2>1, <1>5 DEF StartSync, Request
      <3>2. SeenBy(q) = SeenBy(req[c])
        BY <1>5, <3>1 DEF SeenBy, Request
      <3>3. QED
        BY <1>3, <3>1, <3>2
    <2>2. QED
      BY <1>2, <2>1
  <1>7. CASE Capture(c)
    <2>1. req[c].op \in Replacing \cup {"push"}
      BY <1>7 DEF Capture, Typed, Progress, Known
    <2>2. PICK q :
            /\ Goto(c, "list", q)
            /\ q = IF req[c].op = "push" THEN [req[c] EXCEPT !.payload = secrets]
                   ELSE [req[c] EXCEPT !.expected = Hash(secrets), !.seen = secrets]
      BY <1>7 DEF Capture
    <2>3. SeenBy(q) = secrets
      BY <1>5, <2>1, <2>2 DEF SeenBy, Request
    <2>4. QED
      BY <1>4, <2>2, <2>3
  <1>8. CASE List(c)
    <2>1. ASSUME NEW q, NEW k, NEW t, NEW l, Goto(c, l, q),
                 \/ q = [req[c] EXCEPT !.known = k]
                 \/ q = [req[c] EXCEPT !.target = t]
          PROVE  Simulated
      <3>1. SeenBy(q) = SeenBy(req[c])
        BY <1>5, <2>1 DEF SeenBy, Request
      <3>2. QED
        BY <1>3, <2>1, <3>1
    <2>2. QED
      BY <1>2, <1>8, <2>1 DEF List
  <1>9. CASE Restore(c)
    <2>1. CASE ~Answer(c)
      <3>1. PICK l, q, k : Goto(c, l, q) /\ q = [req[c] EXCEPT !.payload = k]
        BY <1>9, <2>1 DEF Restore
      <3>2. req[c].op \in Replacing
        BY <1>9 DEF Restore, Typed, Progress, Known
      <3>3. SeenBy(q) = SeenBy(req[c])
        BY <1>5, <3>1, <3>2 DEF SeenBy, Request, Replacing
      <3>4. QED
        BY <1>3, <3>1, <3>3
    <2>2. QED
      BY <1>2, <2>1
  <1>10. CASE ReadCurrent(c)
    <2>1. req[c].op \in Replacing
      BY <1>10 DEF ReadCurrent, Typed, Progress, Known
    <2>2. PICK q :
            /\ Goto(c, "previewed", q)
            /\ q = [Blank EXCEPT !.op = req[c].op, !.target = req[c].target,
                                 !.shown = req[c].target,
                                 !.expected = Hash(secrets), !.seen = secrets]
      BY <1>10 DEF ReadCurrent
    <2>3. SeenBy(q) = secrets
      BY <2>1, <2>2 DEF SeenBy, Blank, Replacing
    <2>4. QED
      BY <1>4, <2>2, <2>3
  <1>11. CASE Resolve(c)
    <2>1. CASE ~Answer(c)
      <3>1. PICK q, t : Goto(c, "write", q) /\ q = [req[c] EXCEPT !.target = t]
        BY <1>11, <2>1 DEF Resolve
      <3>2. SeenBy(q) = SeenBy(req[c])
        BY <1>5, <3>1 DEF SeenBy, Request
      <3>3. QED
        BY <1>3, <3>1, <3>2
    <2>2. QED
      BY <1>2, <2>1
  <1>12. ASSUME NEW k \in Contents, EnterWrite(c, k) PROVE Simulated
    <2>1. CASE ~Answer(c)
      <3>1. PICK q :
              /\ Goto(c, "commit", q)
              /\ q = CASE req[c].op = "edit"
                            -> [req[c] EXCEPT !.payload = k, !.fresh = Hash(k)]
                       [] req[c].op = "push"
                            -> [req[c] EXCEPT !.fresh = Hash(secrets)]
                       [] OTHER -> req[c]
        BY <1>12, <2>1 DEF EnterWrite, FreshHash
      <3>2. SeenBy(q) = SeenBy(req[c])
        BY <1>5, <3>1 DEF SeenBy, Request, Replacing
      <3>3. QED
        BY <1>3, <3>1, <3>2
    <2>2. QED
      BY <1>2, <2>1
  <1>13. CASE Fail(c)
    BY <1>2, <1>13 DEF Fail
  <1>14. QED
    BY <1>6, <1>7, <1>8, <1>9, <1>10, <1>11, <1>12, <1>13

-----------------------------------------------------------------------------
(* The commits *)

\* A request that commits: its locals are gone.
LEMMA EndSeen ==
  ASSUME Typed, NEW c \in Clients, EndWrite(c)
  PROVE  /\ Seen' = [Seen EXCEPT ![c] = NoContent]
         /\ Seen[c] = NoContent => Seen' = Seen
         /\ Seen[c] = SeenBy(req[c])
         /\ UNCHANGED contentOf
         /\ Known("commit", req[c])
  <1>1. Goto(c, "idle", Blank)
    BY DEF EndWrite
  <1>2. QED
    BY <1>1, MoveSeen, BlankSeen DEF EndWrite, repo, Seen, Typed, Progress

\* The badge of a project whose hash columns are j and k.
LEMMA BadgeOf ==
  ASSUME NEW s \in SnapIds, NEW j \in Contents, NEW k \in Contents,
         lastSync' = s, lastHash' = Hash(j), curHash' = Hash(k)
  PROVE  HasLocalChanges' <=> j # k
  <1>1. s # NoSnap /\ Hash(j) # NoHash /\ Hash(k) # NoHash
    BY HashInHashes, SnapIdsAreOrdered, SentinelsDiffer DEF NoSnap
  <1>2. Hash(j) = Hash(k) <=> j = k
    BY HashIsInjective
  <1>3. QED
    BY <1>1, <1>2 DEF HasLocalChanges

LEMMA ReplaceSimulated ==
  ASSUME Sound, NEW c \in Clients, CommitReplace(c)
  PROVE  Register!Replace(c, req[c].target)
  <1>1. /\ Typed /\ Guarded /\ EndWrite(c) /\ req[c].op \in Replacing
        /\ req[c].target \in SnapIds /\ req[c].payload \in Contents
    BY EndSeen DEF Sound, CommitReplace, Known
  <1>2. exists /\ secrets = Seen[c]
    BY <1>1, EndSeen, ReplacesWhatWasSeen
    DEF SeenBy, Replacing, Guarded, Decided, EndWrite
  <1>3. contentOf[req[c].target] = req[c].payload
    BY <1>1 DEF Sound, Traced, Filed, Holding, EndWrite
  <1>4. ~HasLocalChanges'
    BY <1>1, BadgeOf DEF CommitReplace
  <1>5. HasLocalChanges' = FALSE
    BY <1>4 DEF HasLocalChanges
  <1>6. Seen' = [Seen EXCEPT ![c] = NoContent] /\ UNCHANGED contentOf
    BY <1>1, EndSeen
  <1>7. QED
    BY <1>1, <1>2, <1>3, <1>5, <1>6 DEF Register!Replace, CommitReplace, Seen

LEMMA RecordSimulated ==
  ASSUME Sound, NEW c \in Clients, CommitPush(c)
  PROVE  Register!Record(c, req[c].target)
  <1>1. /\ Typed /\ EndWrite(c) /\ req[c].op = "push"
        /\ req[c].target \in SnapIds /\ req[c].payload \in Contents
        /\ secrets \in Contents
    BY EndSeen DEF Sound, CommitPush, Known, Typed, TypeOK
  <1>2. /\ exists /\ Seen[c] = req[c].payload
        /\ req[c].fresh = Hash(secrets)
    BY <1>1, EndSeen DEF SeenBy, Sound, Guarded, Decided, EndWrite
  <1>3. contentOf[req[c].target] = req[c].payload
    BY <1>1 DEF Sound, Traced, Filed, Holding, EndWrite
  <1>4. HasLocalChanges' <=> secrets # req[c].payload
    BY <1>1, <1>2, BadgeOf DEF CommitPush, PushedHash
  <1>5. req[c].target # NoSnap /\ req[c].payload # NoContent
    BY <1>1, SnapIdsAreOrdered, SentinelsDiffer DEF NoSnap, SnapContents
  <1>6. HasLocalChanges' = Register!Differs(secrets, req[c].target)
    BY <1>3, <1>4, <1>5 DEF Register!Differs, HasLocalChanges
  <1>7. Seen' = [Seen EXCEPT ![c] = NoContent] /\ UNCHANGED contentOf
    BY <1>1, EndSeen
  <1>8. QED
    BY <1>2, <1>3, <1>5, <1>6, <1>7 DEF Register!Record, CommitPush, Seen

LEMMA EditSimulated ==
  ASSUME Sound, NEW c \in Clients, CommitEdit(c)
  PROVE  Register!Edit(req[c].payload) /\ req[c].payload \in Contents
  <1>1. /\ Typed /\ EndWrite(c) /\ req[c].op = "edit"
        /\ req[c].payload \in Contents /\ secrets \in Contents
        /\ lastSync \in SnapIds \cup {NoSnap}
    BY EndSeen DEF Sound, CommitEdit, Known, Typed, TypeOK
  <1>2. exists /\ req[c].fresh = Hash(req[c].payload)
    BY <1>1 DEF Sound, Guarded, Decided, EndWrite
  <1>3. HasLocalChanges' <=> Register!Differs(req[c].payload, lastSync)
    <2>1. CASE lastSync = NoSnap
      BY <2>1 DEF CommitEdit, HasLocalChanges, Register!Differs
    <2>2. CASE lastSync # NoSnap
      <3>1. contentOf[lastSync] \in Contents /\ lastHash = Hash(contentOf[lastSync])
        BY <1>2, <2>2 DEF Sound, Traced, Based
      <3>2. HasLocalChanges' <=> contentOf[lastSync] # req[c].payload
        BY <1>1, <1>2, <2>2, <3>1, BadgeOf DEF CommitEdit
      <3>3. QED
        BY <2>2, <3>2 DEF Register!Differs
    <2>3. QED
      BY <2>1, <2>2
  <1>4. HasLocalChanges' = Register!Differs(req[c].payload, lastSync)
    BY <1>3 DEF HasLocalChanges, Register!Differs
  <1>5. Seen' = Seen /\ UNCHANGED contentOf
    BY <1>1, EndSeen DEF SeenBy, Replacing
  <1>6. QED
    BY <1>1, <1>2, <1>4, <1>5 DEF Register!Edit, CommitEdit, Seen

LEMMA DeleteSimulated ==
  ASSUME Sound, NEW c \in Clients, CommitDelete(c)
  PROVE  Register!Delete
  <1>1. Typed /\ EndWrite(c) /\ req[c].op = "delete"
    BY DEF Sound, CommitDelete
  <1>2. exists
    BY <1>1 DEF Sound, Guarded, Decided, EndWrite
  <1>3. HasLocalChanges' = FALSE
    BY DEF CommitDelete, HasLocalChanges
  <1>4. Seen' = Seen /\ UNCHANGED contentOf
    BY <1>1, EndSeen DEF SeenBy, Replacing
  <1>5. QED
    BY <1>2, <1>3, <1>4 DEF Register!Delete, CommitDelete, Seen

LEMMA CommitSimulated ==
  ASSUME Sound, NEW c \in Clients,
         CommitReplace(c) \/ CommitPush(c) \/ CommitEdit(c) \/ CommitDelete(c)
  PROVE  Simulated
  <1>1. CASE CommitReplace(c)
    <2>1. req[c].target \in SnapIds
      BY <1>1, EndSeen DEF Sound, CommitReplace, Known
    <2>2. QED
      BY <1>1, <2>1, ReplaceSimulated DEF Simulated, Register!Next
  <1>2. CASE CommitPush(c)
    <2>1. req[c].target \in SnapIds
      BY <1>2, EndSeen DEF Sound, CommitPush, Known
    <2>2. QED
      BY <1>2, <2>1, RecordSimulated DEF Simulated, Register!Next
  <1>3. CASE CommitEdit(c)
    BY <1>3, EditSimulated DEF Simulated, Register!Next
  <1>4. CASE CommitDelete(c)
    BY <1>4, DeleteSimulated DEF Simulated, Register!Next
  <1>5. QED
    BY <1>1, <1>2, <1>3, <1>4

-----------------------------------------------------------------------------
(* The repository, the crashes and the unlocked refresh *)

LEMMA StoreSimulated ==
  ASSUME Typed, NEW s \in SnapIds, NEW k \in SnapContents, Store(s, k),
         UNCHANGED row,
         Seen' = Seen \/ \E c \in Clients : Seen' = [Seen EXCEPT ![c] = NoContent]
  PROVE  Simulated
  <1>1. Register!Archive(s, k)
    BY BadgeStays DEF Store, Typed, RepoFilled, Register!Archive, row, Seen
  <1>2. QED
    BY <1>1 DEF Simulated, Register!Next, SnapContents

LEMMA BackupSimulated ==
  ASSUME Typed, NEW c \in Clients, NEW s \in SnapIds, Backup(c, s) \/ BackupLost(c, s)
  PROVE  Simulated
  <1>1. /\ Store(s, req[c].payload) /\ UNCHANGED row
        /\ req[c].op = "push" /\ req[c].payload \in SnapContents
        /\ req[c] \in Request
    BY DEF Backup, BackupLost, Typed, TypeOK, Progress, Known, SnapContents
  <1>2. CASE Backup(c, s)
    <2>1. PICK q, n : /\ Goto(c, "resolve", q)
                      /\ q = [req[c] EXCEPT !.made = s, !.named = n]
      BY <1>2 DEF Backup
    <2>2. SeenBy(q) = SeenBy(req[c]) /\ Seen[c] = SeenBy(req[c])
      BY <1>1, <2>1 DEF SeenBy, Request, Seen
    <2>3. QED
      BY <1>1, <2>1, <2>2, MoveSeen, StoreSimulated
  <1>3. CASE BackupLost(c, s)
    BY <1>1, <1>3, BlankSeen, MoveSeen, StoreSimulated DEF BackupLost, Answer
  <1>4. QED
    BY <1>2, <1>3

LEMMA CrashSimulated ==
  ASSUME Typed, NEW r \in Replicas, Crash(r)
  PROVE  Simulated
  <1> DEFINE lost == {c \in Clients : req[c].at = r /\ pc[c] \notin Idle}
  <1>1. Seen' = [c \in Clients |-> IF c \in lost THEN NoContent ELSE Seen[c]]
    <2>1. \A c \in Clients :
            SeenBy(req'[c]) = IF c \in lost THEN NoContent ELSE SeenBy(req[c])
      BY BlankSeen DEF Crash
    <2>2. Seen' = [c \in Clients |-> SeenBy(req'[c])]
      BY DEF Seen, SeenBy
    <2> HIDE DEF lost
    <2>3. QED
      BY <2>1, <2>2 DEF Seen
  <1>2. lost \in SUBSET Clients /\ UNCHANGED <<row, contentOf>>
    BY DEF Crash, repo
  <1> HIDE DEF lost
  <1>3. Register!Drop(lost)
    BY <1>1, <1>2, BadgeStays DEF Register!Drop, row, Seen
  <1>4. QED
    BY <1>2, <1>3 DEF Simulated, Register!Next

LEMMA IdleSimulated ==
  ASSUME UNCHANGED <<row, contentOf, req>>
  PROVE  Simulated
  BY BadgeStays DEF Simulated, Register!vars, row, SeenBy

\* A refresh rewrites the hash that is there, or one that no baseline is
\* compared with.
LEMMA RefreshSimulated ==
  ASSUME Sound, Refresh
  PROVE  Simulated
  <1>1. CASE RefreshWrite
    <2>1. HasLocalChanges' <=> HasLocalChanges
      <3>1. CASE lastSync = NoSnap
        BY <1>1, <3>1 DEF RefreshWrite, HasLocalChanges
      <3>2. CASE ~exists
        BY <1>1, <3>2 DEF RefreshWrite, HasLocalChanges
      <3>3. CASE exists /\ lastSync # NoSnap
        <4>1. curHash = Hash(secrets) /\ refresh.hash = Hash(secrets)
          BY <1>1, <3>3
          DEF Sound, HashSound, Quiet, HashMatchesContent, Traced, Based,
              RefreshWrite
        <4>2. QED
          BY <1>1, <3>3, <4>1 DEF RefreshWrite, HasLocalChanges
      <3>4. QED
        BY <3>1, <3>2, <3>3
    <2>2. HasLocalChanges' = HasLocalChanges
      BY <2>1 DEF HasLocalChanges
    <2>3. QED
      BY <1>1, <2>2 DEF RefreshWrite, repo, Simulated, Register!vars, SeenBy
  <1>2. CASE RefreshRead \/ RefreshLost
    BY <1>2, IdleSimulated DEF RefreshRead, RefreshLost, repo
  <1>3. QED
    BY <1>1, <1>2 DEF Refresh

-----------------------------------------------------------------------------
LEMMA InitSimulated == Init => Register!Init
  BY DEF Init, Register!Init, HasLocalChanges, SeenBy, Blank, Replacing

LEMMA NextSimulated == Sound /\ [Next]_vars => Simulated
  <1> SUFFICES ASSUME Sound, [Next]_vars PROVE Simulated
    OBVIOUS
  <1>1. Typed
    BY DEF Sound
  <1>2. ASSUME NEW c \in Clients, Arrive(c) PROVE Simulated
    BY <1>1, <1>2, ArriveSimulated
  <1>3. ASSUME NEW c \in Clients, Proceed(c) PROVE Simulated
    BY <1>1, <1>3, QueueSimulated, BackupSimulated, CommitSimulated DEF Proceed, Work
  <1>4. CASE Refresh
    BY <1>4, RefreshSimulated
  <1>5. ASSUME Environment PROVE Simulated
    <2>1. ASSUME NEW r \in Replicas, Crash(r) PROVE Simulated
      BY <1>1, <2>1, CrashSimulated
    <2>2. ASSUME NEW s \in SnapIds, NEW k \in SnapContents, ExternalBackup(s, k)
          PROVE  Simulated
      BY <1>1, <2>2, StoreSimulated DEF ExternalBackup, Seen, SeenBy
    <2>3. ASSUME NEW s \in SnapIds, ExternalForget(s) \/ Settle(s)
          PROVE  Simulated
      BY <2>3, IdleSimulated DEF ExternalForget, Settle
    <2>4. QED
      BY <1>5, <2>1, <2>2, <2>3 DEF Environment
  <1>6. CASE UNCHANGED vars
    BY <1>6, IdleSimulated DEF vars, repo
  <1>7. QED
    BY <1>2, <1>3, <1>4, <1>5, <1>6 DEF Next

\* On a repository that lists what it stores and keeps it, the whole
\* synchronization behaves as the atomic register.
THEOREM ImplementsRegister ==
  ASSUME ~Lags, ~Forgets, ~Early
  PROVE  Spec => RefinesRegister
  <1>1. Sound /\ [Next]_vars => [Register!Next]_(Register!vars)
    BY NextSimulated DEF Simulated
  <1>2. QED
    BY <1>1, InitSimulated, AlwaysSound, PTL DEF Spec, RefinesRegister, Register!Spec
=============================================================================
