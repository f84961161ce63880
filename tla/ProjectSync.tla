---------------------------- MODULE ProjectSync ----------------------------
(***************************************************************************)
(* The synchronization of ONE project with its restic repository, by any   *)
(* number of server replicas that share the database: pull, push, restore, *)
(* discard, their previews, secret edits and the deletion of the project   *)
(* (restic/SyncService.ts, SyncPreview.ts, SyncLocks.ts, the routes that   *)
(* call them, and the writes of ProjectsData.ts and SecretsData.ts).       *)
(*                                                                         *)
(* A client is a browser session or an API caller with at most one request *)
(* in flight; its program counter stands at an await of the handler.       *)
(* Every action is the code between two awaits that matter.  The content   *)
(* of the secrets and of a snapshot is one abstract value; rows, versions  *)
(* and names are the subject of other modules.                             *)
(***************************************************************************)
EXTENDS Naturals, FiniteSets

CONSTANTS
    Clients,     \* browser sessions and API callers
    Replicas,    \* server processes that share the database
    Contents,    \* what the secrets of the project can be
    Empty,       \* the content without any secret
    Corrupt,     \* snapshot content that readSnapshotSecrets answers 422 to
    SnapIds,     \* snapshot ids, numbered in the order of compareSnapshots
    Hash(_),     \* computeSecretsHash: SHA-256 of the canonical content
    NoHash,      \* the empty string in a hash column
    NoContent,   \* no payload read yet
    NoOne,       \* nobody holds a lock or a queue
    OtherWriters,\* other deployments push to the same repository
    Forgets,     \* somebody runs "restic forget" on the repository
    Lags,        \* a snapshot may be stored and not listed yet
    Early        \* the project is used while an unlocked hash refresh runs

NoSnap == 0
SnapContents == Contents \cup {Corrupt}
Hashes == {Hash(k) : k \in Contents}

ASSUME SnapIdsAreOrdered == SnapIds \subseteq Nat \ {0}
ASSUME EmptyIsContent == Empty \in Contents
ASSUME SentinelsDiffer ==
    /\ Corrupt \notin Contents
    /\ NoContent \notin SnapContents
    /\ NoHash \notin Hashes
    /\ NoOne \notin Clients
\* SHA-256 has no collision that anybody will meet.
ASSUME HashIsInjective ==
    \A j, k \in Contents : Hash(j) = Hash(k) => j = k
ASSUME EnvironmentIsBoolean ==
    {OtherWriters, Forgets, Lags, Early} \subseteq BOOLEAN

VARIABLES
    (* the database: the row of the project and its secrets *)
    exists,      \* the project row is there
    secrets,     \* content of the secrets table for the project
    curHash,     \* projects.currentContentHash
    lastSync,    \* projects.lastSyncSnapshotId
    lastHash,    \* projects.lastSyncContentHash
    (* the restic repository *)
    vis,         \* each snapshot: none, lagging, listed or forgotten
    contentOf,   \* what each snapshot holds
    (* the serialization of the requests *)
    busy,        \* SyncQueueRun: the operation each replica is running
    lock,        \* ProjectWriteLocksRun: who is in the write section
    (* the requests *)
    pc,          \* where the request of each client stands
    req,         \* its local variables
    refresh,     \* an unlocked SecretsHashRefreshForProject or backfill
    overtaken    \* history: pushes during which another sync completed

row  == <<exists, secrets, curHash, lastSync, lastHash>>
repo == <<vis, contentOf>>
vars == <<row, repo, busy, lock, pc, req, refresh, overtaken>>

Replacing == {"pull", "restore", "discard"}
Ops == Replacing \cup {"push", "edit", "delete"}

(***************************************************************************)
(* Locals of a request.  target: the snapshot to apply, or the one a push  *)
(* resolved; expected: the confirmation token; seen and shown: the content *)
(* of the project and the snapshot that the token stands for (history);    *)
(* payload: the secrets restored or backed up; observed: the lastSync read *)
(* when the operation started; known: the ids listed before a backup;      *)
(* made: the snapshot the backup created; named: restic reported its id;   *)
(* fresh: the hash written at the end of a write section.                  *)
(***************************************************************************)
Request ==
    [op : Ops \cup {"none"}, at : Replicas \cup {NoOne}, preview : BOOLEAN,
     target : SnapIds \cup {NoSnap}, shown : SnapIds \cup {NoSnap},
     expected : Hashes \cup {NoHash}, seen : Contents \cup {NoContent},
     payload : Contents \cup {NoContent}, observed : SnapIds \cup {NoSnap},
     known : SUBSET SnapIds, made : SnapIds \cup {NoSnap}, named : BOOLEAN,
     fresh : Hashes \cup {NoHash}]

Blank ==
    [op |-> "none", at |-> NoOne, preview |-> FALSE, target |-> NoSnap,
     shown |-> NoSnap, expected |-> NoHash, seen |-> NoContent,
     payload |-> NoContent, observed |-> NoSnap, known |-> {},
     made |-> NoSnap, named |-> FALSE, fresh |-> NoHash]

Idle == {"idle", "previewed"}
Restic == {"list", "restore", "backup", "resolve"}
PCs == Idle \cup Restic \cup {"queued", "capture", "current", "write", "commit"}

TypeOK ==
    /\ exists \in BOOLEAN
    /\ secrets \in Contents
    /\ curHash \in Hashes \cup {NoHash}
    /\ lastSync \in SnapIds \cup {NoSnap}
    /\ lastHash \in Hashes \cup {NoHash}
    /\ vis \in [SnapIds -> {"none", "lagging", "listed", "forgotten"}]
    /\ contentOf \in [SnapIds -> SnapContents \cup {NoContent}]
    /\ busy \in [Replicas -> Clients \cup {NoOne}]
    /\ lock \in Clients \cup {NoOne}
    /\ pc \in [Clients -> PCs]
    /\ req \in [Clients -> Request]
    /\ refresh \in [pc : {"due", "read", "done"}, hash : Hashes \cup {NoHash}]
    /\ overtaken \in SUBSET Clients

\* A project that was just created: its row is inserted, without secrets
\* and with empty hash columns, and the creation still has to store the hash.
Init ==
    /\ exists = TRUE
    /\ secrets = Empty
    /\ curHash = NoHash
    /\ lastSync = NoSnap
    /\ lastHash = NoHash
    /\ vis = [s \in SnapIds |-> "none"]
    /\ contentOf = [s \in SnapIds |-> NoContent]
    /\ busy = [r \in Replicas |-> NoOne]
    /\ lock = NoOne
    /\ pc = [c \in Clients |-> "idle"]
    /\ req = [c \in Clients |-> Blank]
    /\ refresh = [pc |-> "due", hash |-> NoHash]
    /\ overtaken = {}

-----------------------------------------------------------------------------
(* Helpers *)

Listed == {s \in SnapIds : vis[s] = "listed"}
IsLatest(s, S) == s \in S /\ \A t \in S : t <= s

\* A request stops waiting at an await: it goes on at l with the locals q.
Goto(c, l, q) ==
    /\ pc' = [pc EXCEPT ![c] = l]
    /\ req' = [req EXCEPT ![c] = q]

\* Mutant: a rejected task never lets the next one start.
ChainBroken(c) == UNCHANGED busy

\* The promise of the operation settles, which starts the next queued one.
LeaveQueue(c) ==
    busy' = [r \in Replicas |-> IF busy[r] = c THEN NoOne ELSE busy[r]]

\* The request of c is answered (or lost): its locals are gone.
Answer(c) ==
    /\ Goto(c, "idle", Blank)
    /\ LeaveQueue(c)
    /\ overtaken' = overtaken \ {c}

Requestable == exists /\ (refresh.pc = "done" \/ Early)

-----------------------------------------------------------------------------
(* Requests arrive *)

\* A preview is asked for: the route answers 404 without the project.
\* s is the snapshot of the history a restore is about.
OpenPreview(c, r, o, s) ==
    /\ pc[c] = "idle" /\ Requestable
    /\ s # NoSnap <=> o = "restore"
    /\ Goto(c, "queued", [Blank EXCEPT !.op = o, !.at = r, !.preview = TRUE,
                                       !.target = s, !.observed = lastSync])
    /\ UNCHANGED <<row, repo, busy, lock, refresh, overtaken>>

\* The operation of a preview is confirmed, on any replica; clients that do
\* not echo the token make the handler capture the content itself.  A call
\* without any preview behaves as a preview (which changes nothing) that is
\* confirmed without the token.
Confirm(c, r, token) ==
    /\ pc[c] = "previewed" /\ Requestable
    /\ Goto(c, "queued",
            [req[c] EXCEPT !.at = r, !.preview = FALSE, !.observed = lastSync,
                           !.expected = IF token THEN @ ELSE NoHash])
    /\ UNCHANGED <<row, repo, busy, lock, refresh, overtaken>>

Abandon(c) ==
    /\ pc[c] = "previewed"
    /\ Goto(c, "idle", Blank)
    /\ UNCHANGED <<row, repo, busy, lock, refresh, overtaken>>

RequestPush(c, r) ==
    /\ pc[c] = "idle" /\ Requestable
    /\ Goto(c, "queued", [Blank EXCEPT !.op = "push", !.at = r,
                                       !.observed = lastSync])
    /\ UNCHANGED <<row, repo, busy, lock, refresh, overtaken>>

\* A secret edit or the deletion of the project: no sync queue.
RequestWrite(c, r, o) ==
    /\ pc[c] = "idle" /\ Requestable
    /\ Goto(c, "write", [Blank EXCEPT !.op = o, !.at = r])
    /\ UNCHANGED <<row, repo, busy, lock, refresh, overtaken>>

-----------------------------------------------------------------------------
(* A sync operation inside SyncQueueRun *)

\* Mutant: operations are not queued.
Unqueued(r) == TRUE

\* The replica runs one sync operation of the project at a time.
QueueFree(r) == busy[r] = NoOne

\* The project is read again at the head of the queue; the row the route
\* read stands in for it when the project is gone.
StartSync(c) ==
    LET q == [req[c] EXCEPT !.observed = IF exists THEN lastSync ELSE @]
        toDiscard == q.op = "discard"
        captures == q.op = "push" \/ (~q.preview /\ q.expected = NoHash)
    IN  /\ pc[c] = "queued" /\ QueueFree(req[c].at)
        /\ \/ /\ toDiscard /\ q.observed = NoSnap      \* 409 never synchronized
              /\ Answer(c)
           \/ /\ ~(toDiscard /\ q.observed = NoSnap)
              /\ Goto(c, IF captures THEN "capture" ELSE "list",
                      [q EXCEPT !.target = IF toDiscard THEN q.observed ELSE @])
              /\ busy' = [busy EXCEPT ![q.at] = c]
              /\ UNCHANGED overtaken
        /\ UNCHANGED <<row, repo, lock, refresh>>

\* A push lists the secrets it will back up; a replacement that was
\* confirmed without a token takes the current content for it.
Capture(c) ==
    /\ pc[c] = "capture"
    /\ Goto(c, "list",
            IF req[c].op = "push"
            THEN [req[c] EXCEPT !.payload = secrets]
            ELSE [req[c] EXCEPT !.expected = Hash(secrets), !.seen = secrets])
    /\ UNCHANGED <<row, repo, busy, lock, refresh, overtaken>>

\* Mutant: a push does not look for newer snapshots.
PushAlways(q, S) == TRUE

\* ensureNoNewerSnapshot, on a repository that lists S.
MayPush(q, S) == S = {} \/ (q.observed # NoSnap /\ IsLatest(q.observed, S))

\* Mutant: a pull resolves "latest" again instead of checking its pin.
Unpinned(q, S) ==
    {s \in S : IF q.op = "pull" THEN IsLatest(s, S) ELSE s = q.target}

\* The snapshots the operation q may work on when the repository lists S:
\* a pull preview takes the latest one, a pull needs its own still to be it.
Selectable(q, S) ==
    {s \in S : IF q.op = "pull"
               THEN IsLatest(s, S) /\ (q.preview \/ s = q.target)
               ELSE s = q.target}

\* "restic snapshots"
List(c) ==
    LET q == req[c] IN
    /\ pc[c] = "list"
    /\ \/ /\ q.op = "push" /\ MayPush(q, Listed)
          /\ Goto(c, "backup", [q EXCEPT !.known = Listed])
          /\ UNCHANGED <<busy, overtaken>>
       \/ /\ q.op # "push"
          /\ \E s \in Selectable(q, Listed) :
                Goto(c, "restore", [q EXCEPT !.target = s])
          /\ UNCHANGED <<busy, overtaken>>
       \/ /\ \/ q.op = "push" /\ ~MayPush(q, Listed)            \* 409
             \/ q.op # "push" /\ Selectable(q, Listed) = {}     \* 404 or 409
          /\ Answer(c)
    /\ UNCHANGED <<row, repo, lock, refresh>>

\* "restic restore", then readSnapshotSecrets.
Restore(c) ==
    LET s == req[c].target
        readable == vis[s] = "listed" /\ contentOf[s] # Corrupt
    IN  /\ pc[c] = "restore"
        /\ \/ /\ readable
              /\ Goto(c, IF req[c].preview THEN "current" ELSE "write",
                      [req[c] EXCEPT !.payload = contentOf[s]])
              /\ UNCHANGED <<busy, overtaken>>
           \/ ~readable /\ Answer(c)                            \* 422 or 500
        /\ UNCHANGED <<row, repo, lock, refresh>>

\* A preview ends: the current secrets are compared with the restored ones
\* and the client gets the snapshot id and the hash of the current content.
ReadCurrent(c) ==
    /\ pc[c] = "current"
    /\ Goto(c, "previewed",
            [Blank EXCEPT !.op = req[c].op, !.target = req[c].target,
                          !.shown = req[c].target,
                          !.expected = Hash(secrets), !.seen = secrets])
    /\ LeaveQueue(c)
    /\ UNCHANGED <<row, repo, lock, refresh, overtaken>>

-----------------------------------------------------------------------------
(* The repository side of a push *)

\* A new snapshot that holds k appears; with Lags it may be listed later.
\* Clocks differ, so it can sort before snapshots that were there.
Store(s, k) ==
    /\ vis[s] = "none"
    /\ \E v \in {"listed"} \cup (IF Lags THEN {"lagging"} ELSE {}) :
          vis' = [vis EXCEPT ![s] = v]
    /\ contentOf' = [contentOf EXCEPT ![s] = k]

\* "restic backup"; its summary line with the id may be missing.
Backup(c, s) ==
    /\ pc[c] = "backup"
    /\ Store(s, req[c].payload)
    /\ \E named \in BOOLEAN :
          Goto(c, "resolve", [req[c] EXCEPT !.made = s, !.named = named])
    /\ UNCHANGED <<row, busy, lock, refresh, overtaken>>

\* The backup is killed (abort, timeout, lost answer) after its snapshot
\* was stored: the push fails.
BackupLost(c, s) ==
    /\ pc[c] = "backup"
    /\ Store(s, req[c].payload)
    /\ Answer(c)
    /\ UNCHANGED <<row, lock, refresh>>

\* Mutant: without the reported id, the latest snapshot is taken for it.
ResolvedAsLatest(q, S) ==
    IF q.named /\ q.made \in S THEN {q.made} ELSE {s \in S : IsLatest(s, S)}

\* resolveCreatedSnapshot: the reported id when it is listed, otherwise the
\* single id that was not known before the backup.
Resolved(q, S) ==
    IF q.named /\ q.made \in S THEN {q.made}
    ELSE {s \in S : S \ q.known = {s}}

Resolve(c) ==
    /\ pc[c] = "resolve"
    /\ \/ /\ \E s \in Resolved(req[c], Listed) :
                Goto(c, "write", [req[c] EXCEPT !.target = s])
          /\ UNCHANGED <<busy, overtaken>>
       \/ Resolved(req[c], Listed) = {} /\ Answer(c)            \* 500
    /\ UNCHANGED <<row, repo, lock, refresh>>

-----------------------------------------------------------------------------
(* The write section: ProjectWriteLocksRun *)

\* Mutant: the sections of different requests interleave.
Unlocked == TRUE

WriteSectionFree == lock = NoOne

\* Mutant: the confirmation token is not compared.
TokenIgnored(q) == TRUE

\* The compare-and-swap checks of each operation, made under the lock.
TokenMatches(q) == Hash(secrets) = q.expected
SyncUnmoved(q) == lastSync = q.observed

\* Mutant: the project is not read again under the lock.
TakenForGranted == TRUE

StillThere == exists

Admitted(q) ==
    /\ StillThere
    /\ q.op \in Replacing => TokenMatches(q)
    /\ q.op = "push" => SyncUnmoved(q)

\* Mutant: a push marks the project clean, whatever was edited meanwhile.
FreshAsPushed(q) == Hash(q.payload)

\* The current hash a push records next to the pushed one.
FreshHash(q) == Hash(secrets)

\* The lock is taken and the project and its secrets are read again.  An
\* edit is validated and applied in memory: k is the content it asks for.
EnterWrite(c, k) ==
    LET q == req[c] IN
    /\ pc[c] = "write" /\ WriteSectionFree
    /\ q.op # "edit" => k = Empty
    /\ \/ /\ Admitted(q)
          /\ Goto(c, "commit",
                  CASE q.op = "edit" -> [q EXCEPT !.payload = k, !.fresh = Hash(k)]
                    [] q.op = "push" -> [q EXCEPT !.fresh = FreshHash(q)]
                    [] OTHER -> q)
          /\ lock' = c
          /\ UNCHANGED <<busy, overtaken>>
       \/ ~Admitted(q) /\ Answer(c) /\ UNCHANGED lock           \* 404 or 409
    /\ UNCHANGED <<row, repo, refresh>>

\* The transaction commits, the lock is released, the request is answered.
EndWrite(c) ==
    /\ pc[c] = "commit"
    /\ Goto(c, "idle", Blank)
    /\ LeaveQueue(c)
    /\ lock' = IF lock = c THEN NoOne ELSE lock
    /\ UNCHANGED <<repo, refresh>>

\* History: the other pushes in progress have now been overtaken.
Overtakes(c) ==
    overtaken' = {d \in Clients \ {c} :
                     \/ d \in overtaken
                     \/ /\ req[d].op = "push"
                        /\ pc[d] \notin Idle \cup {"queued"}}

\* SecretsDataReplaceForProject with the sync state.
CommitReplace(c) ==
    LET q == req[c] IN
    /\ q.op \in Replacing
    /\ EndWrite(c) /\ Overtakes(c)
    /\ secrets' = q.payload
    /\ curHash' = Hash(q.payload)
    /\ lastSync' = q.target
    /\ lastHash' = Hash(q.payload)
    /\ UNCHANGED exists

\* Mutants: the baseline is taken after the backup, or is not a hash.
PushedAsFresh(q) == q.fresh
PushedUnhashed(q) == q.payload

\* The baseline a push records: the hash of what it backed up.
PushedHash(q) == Hash(q.payload)

\* ProjectsDataUpdateSyncState.
CommitPush(c) ==
    LET q == req[c] IN
    /\ q.op = "push"
    /\ EndWrite(c) /\ Overtakes(c)
    /\ curHash' = q.fresh
    /\ lastSync' = q.target
    /\ lastHash' = PushedHash(q)
    /\ UNCHANGED <<exists, secrets>>

\* SecretsDataAdd, SecretsDataUpdate or SecretsDataDelete, with the hash of
\* the list the handler changed in memory.
CommitEdit(c) ==
    LET q == req[c] IN
    /\ q.op = "edit"
    /\ EndWrite(c)
    /\ secrets' = q.payload
    /\ curHash' = q.fresh
    /\ UNCHANGED <<exists, lastSync, lastHash, overtaken>>

\* ProjectsDataDeleteCascade: no row is left.
CommitDelete(c) ==
    /\ req[c].op = "delete"
    /\ EndWrite(c)
    /\ exists' = FALSE
    /\ secrets' = Empty
    /\ curHash' = NoHash /\ lastSync' = NoSnap /\ lastHash' = NoHash
    /\ UNCHANGED overtaken

-----------------------------------------------------------------------------
(* Failures, the rest of the world, and the hash refresh without the lock *)

\* Mutant: a request that fails in its write section keeps the lock.
FailKeepingLock(c) ==
    /\ pc[c] \notin Idle \cup {"queued"}
    /\ Answer(c)
    /\ UNCHANGED <<row, repo, lock, refresh>>

\* Restic fails, times out or is aborted by a disconnect, a query fails, or
\* the transaction is rolled back: the finally blocks and the chains
\* release everything.
Fail(c) ==
    /\ pc[c] \notin Idle \cup {"queued"}
    /\ Answer(c)
    /\ lock' = IF lock = c THEN NoOne ELSE lock
    /\ UNCHANGED <<row, repo, refresh>>

\* A replica dies: its requests are lost, its advisory lock and its queue
\* with it.  Clients keep the previews they were shown.
Crash(r) ==
    LET lost == {c \in Clients : req[c].at = r /\ pc[c] \notin Idle} IN
    /\ lost # {}
    /\ pc' = [c \in Clients |-> IF c \in lost THEN "idle" ELSE pc[c]]
    /\ req' = [c \in Clients |-> IF c \in lost THEN Blank ELSE req[c]]
    /\ busy' = [busy EXCEPT ![r] = NoOne]
    /\ lock' = IF lock \in lost THEN NoOne ELSE lock
    /\ overtaken' = overtaken \ lost
    /\ UNCHANGED <<row, repo, refresh>>

ExternalBackup(s, k) ==
    /\ OtherWriters
    /\ Store(s, k)
    /\ UNCHANGED <<row, busy, lock, pc, req, refresh, overtaken>>

ExternalForget(s) ==
    /\ Forgets /\ vis[s] = "listed"
    /\ vis' = [vis EXCEPT ![s] = "forgotten"]
    /\ UNCHANGED <<row, contentOf, busy, lock, pc, req, refresh, overtaken>>

Settle(s) ==
    /\ vis[s] = "lagging"
    /\ vis' = [vis EXCEPT ![s] = "listed"]
    /\ UNCHANGED <<row, contentOf, busy, lock, pc, req, refresh, overtaken>>

\* SecretsHashRefreshForProject at the end of a creation ("due") and
\* SecretsHashBackfillAll when a replica starts and the column is empty:
\* the secrets are listed and the hash written later, without the lock.
RefreshRead ==
    /\ \/ refresh.pc = "due"
       \/ refresh.pc = "done" /\ exists /\ curHash = NoHash
    /\ Early \/ \A c \in Clients : pc[c] \in Idle
    /\ refresh' = [pc |-> "read", hash |-> Hash(secrets)]
    /\ UNCHANGED <<row, repo, busy, lock, pc, req, overtaken>>

RefreshWrite ==
    /\ refresh.pc = "read"
    /\ curHash' = IF exists THEN refresh.hash ELSE curHash
    /\ refresh' = [pc |-> "done", hash |-> NoHash]
    /\ UNCHANGED <<exists, secrets, lastSync, lastHash, repo, busy, lock,
                   pc, req, overtaken>>

\* The replica that creates the project or starts up dies in between.
RefreshLost ==
    /\ refresh.pc # "done"
    /\ refresh' = [pc |-> "done", hash |-> NoHash]
    /\ UNCHANGED <<row, repo, busy, lock, pc, req, overtaken>>

-----------------------------------------------------------------------------
Arrive(c) ==
    \/ \E r \in Replicas :
          \/ \E o \in {"pull", "discard"} : OpenPreview(c, r, o, NoSnap)
          \/ \E s \in SnapIds : vis[s] # "none" /\ OpenPreview(c, r, "restore", s)
          \/ \E token \in BOOLEAN : Confirm(c, r, token)
          \/ RequestPush(c, r)
          \/ \E o \in {"edit", "delete"} : RequestWrite(c, r, o)
    \/ Abandon(c)

\* The handler of c goes on, or stops with an answer of its own.
Work(c) ==
    \/ StartSync(c) \/ Capture(c) \/ List(c) \/ Restore(c) \/ ReadCurrent(c)
    \/ \E s \in SnapIds : Backup(c, s) \/ BackupLost(c, s)
    \/ Resolve(c)
    \/ \E k \in Contents : EnterWrite(c, k)
    \/ CommitReplace(c) \/ CommitPush(c) \/ CommitEdit(c) \/ CommitDelete(c)

Proceed(c) == Work(c) \/ Fail(c)

Refresh == RefreshRead \/ RefreshWrite \/ RefreshLost

Environment ==
    \/ \E r \in Replicas : Crash(r)
    \/ \E s \in SnapIds : \/ \E k \in SnapContents : ExternalBackup(s, k)
                          \/ ExternalForget(s)
                          \/ Settle(s)

Next ==
    \/ \E c \in Clients : Arrive(c) \/ Proceed(c)
    \/ Refresh
    \/ Environment

Spec == Init /\ [][Next]_vars

\* A restic command that does not end is killed at its timeout.  Nothing
\* bounds the wait for the queue or for the write lock: a request that waits
\* there fails only if the environment makes it fail.
TimesOut(c) == pc[c] \in Restic /\ Fail(c)

\* The event loop takes every enabled step of a request that is running, and
\* both promise chains and the advisory lock are first come, first served.
Fairness ==
    /\ \A c \in Clients : SF_vars(Work(c) \/ TimesOut(c))
    /\ WF_vars(Refresh)

FairSpec == Spec /\ Fairness

-----------------------------------------------------------------------------
(* What the system promises, as atomic steps *)

\* The content that the client of the request q has read for its operation.
SeenBy(q) ==
    IF q.op = "push" THEN q.payload
    ELSE IF q.op \in Replacing THEN q.seen ELSE NoContent

-----------------------------------------------------------------------------
(* Properties *)

\* computeHasLocalChanges
HasLocalChanges ==
    IF lastSync = NoSnap THEN secrets # Empty
    ELSE lastHash # NoHash /\ (curHash = NoHash \/ lastHash # curHash)

\* The stored content hash is never that of another content than the one
\* stored: no interleaving of edits, pushes and replacements on any replica
\* leaves a hash behind.
HashMatchesContent == exists => curHash \in {NoHash, Hash(secrets)}

\* The badge "local changes not pushed" tells the truth about the snapshot
\* recorded as synchronized: an edit made during a push shows, and a project
\* that equals its snapshot is never reported as changed.
BadgeIsTruthful ==
    exists /\ lastSync # NoSnap =>
        (HasLocalChanges <=> secrets # contentOf[lastSync])

\* An operation that lost the race against the deletion of its project
\* leaves no secret and no sync state behind.
DeletedLeavesNothing ==
    ~exists => /\ secrets = Empty
               /\ lastSync = NoSnap
               /\ curHash = NoHash /\ lastHash = NoHash

\* A pull, restore or discard replaces exactly the secrets that were in
\* force when its token was taken: no edit that arrived in between, on any
\* replica, is destroyed.
NoUnseenOverwrite ==
    [][\A c \in Clients : CommitReplace(c) => secrets = req[c].seen]_vars

\* A confirmed pull or restore brings the project to the content of the
\* snapshot its preview displayed.
AppliesPreviewed ==
    [][\A c \in Clients :
          CommitReplace(c) /\ req[c].op \in {"pull", "restore"}
             => lastSync' = req[c].shown /\ secrets' = contentOf[req[c].shown]]_vars

\* The same for a discard, whose confirmation carries no snapshot id.
DiscardAppliesPreviewed ==
    [][\A c \in Clients :
          CommitReplace(c) /\ req[c].op = "discard"
             => lastSync' = req[c].shown]_vars

\* A push records the snapshot of its own backup, never another writer's.
PushRecordsOwn ==
    [][\A c \in Clients : CommitPush(c) => lastSync' = req[c].made]_vars

\* A push never overwrites the sync state of a synchronization that
\* completed while it ran.
PushNotOvertaken ==
    [][\A c \in Clients : CommitPush(c) => c \notin overtaken]_vars

\* When a push is recorded, every other snapshot the repository lists is the
\* one the project was synchronized with, or an older one: the content of a
\* newer snapshot, such as the one of a push that failed after its backup, is
\* not buried below the recorded one before somebody pulled or restored it.
NothingBuried ==
    [][\A c \in Clients :
          CommitPush(c) => \A s \in Listed \ {lastSync'} :
                              lastSync # NoSnap /\ s <= lastSync]_vars

\* A deletion does not interleave with a push: no backup of a project that
\* is gone reaches its repository.
NoBackupAfterDeletion ==
    [][\A c \in Clients, s \in SnapIds : Backup(c, s) => exists]_vars

\* Every step of every interleaving is one atomic step of SyncRegister, or
\* none: replacements compare and set, a push records a snapshot that holds
\* what it read, and the badge follows the document.
Register ==
    INSTANCE SyncRegister WITH doc <- secrets, base <- lastSync,
        dirty <- HasLocalChanges, archive <- contentOf,
        seen <- [c \in Clients |-> SeenBy(req[c])]

RefinesRegister == Register!Spec

\* Every request is answered although nothing ends a wait for the queue or
\* for the write lock: neither is ever left taken, whatever fails, and they
\* cannot block each other.
EveryRequestAnswered ==
    \A c \in Clients : pc[c] \in {"queued", "write"} ~> pc[c] \in Idle

=============================================================================
