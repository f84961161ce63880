# A verification of restic-secrets-manager in TLA+

restic-secrets-manager keeps the secrets of a project in a database and
synchronizes them with a restic repository: *push* backs them up as a
snapshot, *pull*, *restore* and *discard* replace them by what a snapshot
holds. Several replicas of the server may share one PostgreSQL database, and
other deployments may write to the same repository. This directory holds TLA+
modules of that system, the TLC configurations that check them on small
instances, and proofs, checked by TLAPS, that the main properties hold for
every instance.

Paths below are relative to `restic-secrets-manager-server/src/` unless they
start with `web/` (`restic-secrets-manager-web/`) or `docs/`.

## The system: inventory

| Component | State | Operations | What makes it correct |
|---|---|---|---|
| Synchronization: `restic/SyncService.ts`, routes in `projects/ProjectsRoutes.ts` | row of the project (`lastSyncSnapshotId`, `lastSyncContentHash`, `currentContentHash`), locals of each handler | pull, push, restore, discard, status | no edit is destroyed unseen; the recorded snapshot holds what was pushed; the badge is true |
| Previews: `restic/SyncPreview.ts`, `web/components/SyncPreviewModal.vue` | the token (snapshot id, content hash) the browser echoes | preview pull / push / discard / restore, confirm | what is applied is what was displayed |
| Queue and lock: `restic/SyncLocks.ts` | a promise chain per project and process, a PostgreSQL advisory lock | `SyncQueueRun`, `ProjectWriteLocksRun` | mutual exclusion, first come first served, survives rejections |
| Restic client: `restic/ResticClient.ts` | one child process per command | init, snapshots, snapshot, backup, restore; timeouts, kill, abort | a result is settled once; nothing lingers |
| Secret editing: `secrets/SecretsRoutes.ts`, `SecretsData.ts`, `SecretsHash.ts`, `web/utils/secret-draft.ts` | `secrets` rows with versions, the content hash | create, update (compare-and-swap on the version), key update with three attempts, delete, hash refresh and backfill | no lost update; the hash follows the content |
| Status cache: `restic/SyncStatusCache.ts` | cached results, generations, running computations, slots and waiters | Get, Invalidate, abort | at most three runs, no slot lost, nothing stale is stored |
| Project lifecycle: `projects/ProjectsData.ts`, `ProjectScopes.ts`, `users/ProjectAccess.ts` | rows, the scope catalogue, the scopes of each user | create, delete, refresh, prune | unique repository targets, catalogue converges |
| Snapshot order and history: `ResticClient.ts:276`, `restic/SnapshotHistory.ts` | none (pure) | compare, latest, paginate | total order, pages neither skip nor repeat |
| Diff, .env: `secrets/SecretsDiff.ts`, `SecretEnv.ts`, `web/utils/secret-import.ts` | none (pure) | diff, serialize, parse | a preview says what happens; an exported file comes back as it was |
| Browser: `web/pages/projects/[id].vue`, `web/pages/index.vue`, `web/components/SnapshotHistoryModal.vue` | token of all tabs, user of each; editor, drafts; cards and their statuses; timeline, preview | open, save, conflict, re-login, mount, restore; load, check; page, confirm | no edit is lost unseen; nothing stays in "Checking" or "Restoring"; drafts keep their owner |
| Work directories, notifications, configuration, start-up, proxy | files, settings | | |

How they interact: a route reads the project row, then calls a sync operation,
which waits in the queue of its replica, reads the row again, runs restic
(seconds, during which anything may happen), and finally enters the write
section. There the row and the secrets are read once more, a compare-and-swap
condition is checked and one transaction writes. Edits and deletions use the
write section only. The queue does not reach across replicas
(`SyncLocks.ts:9-12`, although `docs/specs/SECRETS.md:82` says that syncs are
serialized by the advisory lock), so what protects replicas from one another
is the conditions checked under the lock. The hard behaviours are therefore
interleavings around each restic call, requests that die in the middle, and a
repository that changes or lags by itself. `PROJECT.json` lists them, each at
its line, under "hazards".

## Modules

| Module | Role |
|---|---|
| `ProjectSync` | the synchronization of one project, step by step |
| `SyncRegister` | what it promises: the same operations in atomic steps |
| `SecretEditing` | the secrets of one project, edited from browser tabs through the routes |
| `SecretRows` | what the routes promise: each call takes effect at one moment or not at all |
| `SyncTasks` | promise chains, advisory lock and restic processes of the calls |
| `Turns` | what a family of chains promises: first come, first served |
| `StatusCache` | the cache of synchronization statuses of one process |
| `ProjectLifecycle` | creation, deletion, scope catalogues and user scopes on several replicas |
| `SnapshotOrder`, `SecretsDiff` | the order of snapshots, the differences a preview displays |
| `SnapshotHistory` | the pages of the history and the restoration dialog |
| `EnvText` | the .env file of a secret, written and read |
| `HomePage` | the cards of the home page, and their statuses from the rows and repositories through the cache |
| `MC*` | values for the constants, symmetry |
| `ProjectSyncProofs` | the layers `Typed`, `Guarded`, `AllPinned`, `InTurn` and `AllCovered`: mutual exclusion, no unseen overwrite, deletion, previews, no buried snapshot; the layers `HashSound` and `Traced`: hash, badge, own snapshot; `ProjectSync` implements `SyncRegister` |
| `SecretEditingProofs` | types, drafts, hash, informed saves; `SecretEditing` implements `SecretRows` |
| `SyncTasksProofs` | types, exclusion, processes, the chains; `SyncTasks` implements `Turns` twice |
| `StatusCacheProofs`, `ProjectLifecycleProofs`, `SnapshotHistoryProofs`, `HomePageProofs` | the properties of those modules |
| `EnvTextProofs` | escapes, lines and keys of a file are found again: an exported file comes back |

How they fit together: `ProjectSync` takes a queue and a lock for granted,
which `SyncTasks` builds from promises and shows to be `Turns`; it has one
abstract content, which `SecretEditing` resolves into rows, versions and the
routes that write them; its pull, restore and push reappear as single steps
(`Replace` of `SecretEditing`, the server steps of `SnapshotHistory`, `Record`
and `Store` of `HomePage`), which `SyncRegister` justifies. `StatusCache` and
`HomePage` look at one cache from two sides: the first has the slots, the waiters
and the aborts of its runs, the second what a run computes from which row, and
who gets to see it. `HomePage` allows each run to begin at once and to fail at
any moment, which covers what `StatusCache` makes of it.

### ProjectSync

A client is a browser session or an API caller with one request in flight;
`pc` is the await its handler stands at and `req` holds the handler's locals.
The actions follow the handlers:

| pc | next action | code |
|---|---|---|
| `idle` | `OpenPreview`, `RequestPush`, `RequestWrite` | the routes, up to the queue |
| `previewed` | `Confirm`, `Abandon` | the confirmation dialog; the execution routes |
| `queued` | `StartSync` | head of the queue: the row is read again |
| `capture` | `Capture` | a push lists the secrets; an operation without token hashes them |
| `list` | `List` | `restic snapshots`, and the checks on its answer (409, 404) |
| `restore` | `Restore` | `restic restore`, `readSnapshotSecrets` (422) |
| `current` | `ReadCurrent` | a preview compares with the current secrets and answers |
| `backup` | `Backup`, `BackupLost` | `restic backup`; its answer may lack the id or be lost |
| `resolve` | `Resolve` | `resolveCreatedSnapshot` |
| `write` | `EnterWrite` | the lock is taken, everything is read again and checked |
| `commit` | `CommitReplace`, `CommitPush`, `CommitEdit`, `CommitDelete` | the transaction |

`Fail` ends a request at any await (restic error, timeout, abort, failed
query, rollback); `Crash` kills a replica with all its requests, its queue and
its lock; `ExternalBackup`, `ExternalForget` and `Settle` are the repository
changing by itself; `RefreshRead`, `RefreshWrite`, `RefreshLost` are the one
writer without the lock, the hash refresh of a creation and of a start-up.

Abstractions:

* The secrets and the content of a snapshot are one value of `Contents`. A
  hash is an injective function of it. `Corrupt` stands for a snapshot that
  `readSnapshotSecrets` refuses.
* Snapshot ids are numbers in the order of `compareSnapshots`. A new snapshot
  takes any free number: clocks of different writers differ, so it may sort
  before one that was there.
* The text of answers, notifications, the diff of a preview and the status
  cache are left out. A call that pulls, restores or discards without a
  preview is a preview followed by a confirmation without the token, since a
  preview changes nothing. A push preview leaves no trace and has no action.
* Between the write lock being taken and the commit nothing reads the project
  but the request itself, and the unlocked refresh; `EnterWrite` and the commit
  are therefore two actions, with crashes and failures in between.
* With SQLite there is no database lock, and a single replica; the write chain
  inside the process then plays the part of `lock`. The runs with one replica
  cover it.
* The rewrite of a baseline by `SecretsHashBackfillAll` for databases older
  than the hash columns is left out; the pruning of user scopes inside a
  deletion is in `ProjectLifecycle`.

Environment constants say what the world does: `OtherWriters`, `Forgets`,
`Lags`, and `Early` (the project is used while the unlocked refresh of its
creation or of a start-up is still running).

`overtaken`, and the fields `seen`, `shown` and `made` of a request, are
history: no guard of the model reads `overtaken`, `seen` or `shown`, and `made`
is read only as the id restic reported (`named`).

### SyncRegister

A document, its base snapshot, a dirty flag, an archive that never changes,
and for each client the content it has read. `Replace` compares and sets;
`Record` makes a snapshot with the content that was read the base; `dirty` is
at every moment whether the document differs from its base. `ProjectSync`
implements it with `dirty <- HasLocalChanges` and
`seen <- [c \in Clients |-> SeenBy(req[c])]`: every step of a handler but one
is invisible or a `Look`, `Drop` or `Archive`, and the commit is the atomic
operation.

### StatusCache

A status costs a restic process, so `SyncStatusCache.ts` shares, limits, queues
and caches them. A caller is one call of `SyncStatusCacheGet`; the status page
of all projects is one caller per project. A run object is waiting for a slot,
running, or refused (the queue was full, or it was cancelled in the queue).

| Action | Code |
|---|---|
| `GetStale` | a stale entry is served and a background run started |
| `GetJoins`, `GetStarts` | no entry: the caller joins the run in flight, or starts one |
| `Disconnect` | the abort signal of the caller: it is rejected, and the last one to go aborts a foreground run |
| `Deadline` | `withDeadline` of the status page answers without this project |
| `Finish`, `Refuse` | the `finally` block of `startRun`: the slot goes to the next waiter, the entry in `inFlight` is cleared, the callers are settled |
| `Expire`, `Invalidate` | time to live; `SyncStatusCacheInvalidate` |

Abstractions:

* JavaScript runs a callback to its end, so each action is what happens
  between two awaits. The promise reactions that follow the end of a run
  (settling its callers, resuming the granted run) are part of that step: they
  run before any input or timer, and nothing else reads what they write.
* A fresh entry is served without any change and needs no action.
* An aborted run that was running keeps its slot until its process has ended;
  only then is it out of `inFlight`. `Finish` may still be a success, because
  restic may have ended before the signal reached it.
* A result is represented by the generation its run started with. What it says,
  and from which row, is in `HomePage`, where a run that starts after an
  invalidation may compute from a row read before it.
* An ended run object is used again, as an unused one cannot be told apart.
  `MaxGeneration` bounds the invalidations of a project.

### SecretEditing and SecretRows

A tab (`web/pages/projects/[id].vue`) has a user in memory (`session`), an
editor, a draft in its `sessionStorage` and at most one request in flight, while
its user goes on typing. The token that its requests send is in `localStorage`,
which all tabs share. A request takes the project write lock (`Enter`), lists
the secrets (`Reread`), then writes one row if its version is still the one of
that list, and with it the content hash computed from that list (`Insert`,
`Update`, `Remove`). An update of a key has `Attempts` such rounds; a save, a
rename and a duplicate compare names; `Fail` rolls back and answers an error. An
answer may be that the session has ended (`Unauthorized`; `Unsigned` if another
tab has removed the token): the edits are then kept as a draft (`Captured`), the
token is removed for all tabs, and the draft is offered after the next login in
this tab (`Login`, `RestoreDraftEdits`). A login or a logout in one tab changes
the token of all, but neither the user nor the draft that another tab has in
memory, until a page of that tab is mounted (`Mount`: `authStore.init()`, also
of the login page), which takes over the user of the token and leaves the drafts
as they are, or the browser reloads it (`Reload`). Two writers come from
elsewhere: `Replace`, the write of a sync operation, under the lock, and
`OldReplicaWrites`, a replica of an older version that writes a row and the hash
without the lock; the condition on the version and the attempts exist for it.

`SecretRows` has the rows and, per caller, one call that is pending, done or
refused. `Apply` is the whole effect: create, save or rename at the version
that was read, set one key of whatever the secret holds then, delete. The
refinement is not trivial because the code computes a whole row (name and
data) and the hash of the whole project from a list it has read before.

Abstractions: `computeSecretsHash` is the set of names and data; ids and
versions are not in it, as in the code. The project exists throughout (deletions
are in `ProjectSync`), and it starts without secrets. A page lists the secrets
when it opens an editor; the age of the list displayed beside it is left out, as
no request is made of it. A handler goes on after its client has disconnected:
for the tab that is an answer it never sees, which `Fail` and the next request
cover. The copy of a draft in memory has the same time to live as the one in
storage, whose expiry is `DraftExpires`. A page is mounted when nothing is
edited or awaited: leaving an editor asks first (`Close`), and an answer that
arrives after its page was left is one its client never sees. The user that
`localStorage` keeps beside the token changes with it. The server ignores the
version that a key update sends (`SecretsRoutes.ts:320`), so the model does not
send one. `known` and `restored` are history, read by properties alone.

### SyncTasks and Turns

A call is one `SyncQueueRun` (a synchronization, whose write section is a
`ProjectWriteLocksRun` inside) or one `ProjectWriteLocksRun` by itself (an
edit). `Request` chains it to the tail promise of its replica and project and
becomes the tail; `Start` is its turn; `Released` deletes the entry of the map
if it is still its own. `EnterWriteChain`, `StartWrite`, `Lock`, `EndWrite`
are the same for the write chain with the advisory lock inside, which may fail
(`LockFails`) and which a `Crash` of the replica frees. `Spawn` to `Settle` are
one restic process: its timeout and kill timer, the abort by a disconnected
client, the output limit of a listing, its exit by itself, by a signal or with
an error, and the one result its call gets.

`Turns` knows for each call the key it queues for and who is ahead of it: a
call joins behind all that are there, runs when nobody is ahead, and leaves.
Both families of chains implement it: a call's place is its chain, whether it
has its turn, and the calls ahead of it (`Ahead`, the least set that holds whom
it waits for and is closed under waiting). The processes of a crashed replica
are no longer looked after: the container ends with them.

### ProjectLifecycle

A creation takes the advisory lock `project_create`, reads names, then targets,
inserts the row and announces the project to the catalogue of its replica; a
deletion takes the write lock of the project, deletes the row, removes it from
the catalogue, lists the users and writes each record that had the scope
(`PruneUser`). A refresh of a catalogue notes the local revision, reads the
table and installs the list only if the revision has not moved. `Restart`
loses the memory and the requests of a replica. An administrator may change the
scopes of a user at any time (`UpdateUser`).

Abstractions: a target is what `repoTargetKey` makes of a name and a prefix, with
the slashes and spaces around the prefix gone; a bucket name has no slash, so
equal targets are equal strings. The unique index on names
(`sql/`) is only a safety net behind the check and is left out, so
`TargetsAreUnique` does not rest on it. The check of a scope at each request
(`ProjectAccess.ts`) only reads.

### SnapshotHistory, SnapshotOrder, SecretsDiff

`MoreRecent` is `compareSnapshots`: readable times first, ties by id, in
descending order. `Listing` is the sequence of a set in that order, of which
there is one as the order is strict and total. `PageAfter` is
`paginateSnapshotHistory`, `Merged` is `mergeSnapshotPages`; that a page holds
nothing displayed already, so that its filter drops nothing, is proved. The
dialog holds the timeline it has loaded, a confirmation, the preview displayed
below it, the requests for previews (their answers arrive in any order), and one
restoration with its retry: a restoration that is refused because the secrets
changed asks for the preview again and stays for the user to look at
(`reviewing`). `SecretsDiff` is what the preview says of each secret and key;
`Describes` is the independent reading of it, in terms of what was there before
and is there after.

What a request does in the server is one step here: between its reads,
`ProjectSync` checks. The hash is injective. `Inherited` are the keys that every
JavaScript object has; the run and the theorems take it to be empty (see Known
limits).

### EnvText

A text is a sequence of characters, one for each class that
`secretDataToEnvContent` or `parseEnvImport` tells apart; a name and the word
`export` count as one. `Arrange` is what people do to such a file: `export`
prefixes, Windows line ends, indentation, comments, repeated keys. The import
looks at the places where a line begins (`Starts`, `LineAt`); between the two
characters of a Windows line end that gives one empty line more than the code
sees, which is passed over as all empty lines are. That a file is divided at
line ends before anything is unquoted, and at the first sign of equality, is
kept. The JSON form of export and import is `JSON.stringify` and `JSON.parse`
and is left out.

### HomePage

A flow is one run of a handler of `web/pages/index.vue` (the page is opened, a
dialog reports that it has changed something, a push, a creation or a deletion
with the reload after it). It reloads the rows, then checks the statuses; the
page lets several overlap, and nothing orders their answers. `GET /projects` is
`ListProjects`; `GET /projects/status` is `ReadRows`, then one call of
`SyncStatusCacheGet` per project with the row that was read:

| Action | Code |
|---|---|
| `GetCached` | an entry of any age is served; a stale one may start a background run from the row of this caller |
| `GetJoins` | no entry, and a run in flight: the caller joins it, whatever row it has |
| `GetStarts` | neither: a run is started with the row of this caller |
| `ListSnapshots` | `ResticSyncStatus`: the repository is listed and compared with the row of the run |
| `RunEnds`, `RunFails` | the result is cached, unless the run was invalidated, and given to the callers |
| `Invalidate` | a sync operation through this server drops the entry and the run in flight |

Meanwhile others push (`Store`), forget snapshots (`Forget`), record them by a
push, pull, restore or discard (`Record`), create and delete projects. A snapshot
that was forgotten does not come back: ids are hashes. The server may answer
without the statuses that are missing (`Check`), or the request may fail
(`CheckFails`).

`was` and `held` are history: what has been the case since a row was read, and
whether the status computed from it was among that. No guard reads them.

Left out: the flag for local changes, which compares a row with a count read
after it (see Known limits; its definition is in `ProjectSync`); slots, waiters
and aborts, which are in `StatusCache`; disabled buttons, which only allows
more; the dialog that creates a project and its connection test.

## Runs

| Run | Instance | Checks | Shows |
|---|---|---|---|
| `shared` | 2 clients, 2 replicas, 2 contents, 2 snapshots, other writers | `TypeOK`, `BadgeIsTruthful`, `RefinesRegister`, `PushRecordsOwn` | on a repository that lists and keeps its snapshots the system is the atomic register, crashes and races included |
| `unreliable` | the same without other writers, lagging lists | `HashMatchesContent`, `DeletedLeavesNothing`, `NoUnseenOverwrite`, `AppliesPreviewed` | what must hold even when the repository lists its snapshots late |
| `solo` | 2 clients, 1 replica, 1 content, 2 snapshots, forgotten snapshots; fair | `NothingBuried`, `EveryRequestAnswered` | one replica without other writers never buries a snapshot that the project was not synchronized with; every request is answered although nothing bounds its wait for the queue or the lock |
| `overtaken` | 2 clients, 2 replicas, 2 snapshots | `PushNotOvertaken`, violated | the finding below |
| `editing` | 2 tabs, 2 users, 2 ids, 2 names, 1 key, 2 attempts, versions to 3, 3 gestures, 1 foreign write | `TypeOK`, `HashMatchesRows`, `DraftsStayWithTheirOwner`, `RefinesTable`, `SavesAreInformed` | every call takes effect at one moment; saves are informed; a draft is offered to its owner, unless a page takes over the token of somebody else meanwhile; the hash follows the rows |
| `queue` | 2 synchronizations, 2 edits, 2 replicas, 1 project, 1 restic command; fair | `TypeOK`, `ChainsAreKept`, `SectionsExclude`, `NoProcessLeftBehind`, `CallsTakeTurns`, `EveryCallEnds` | both families of chains take turns; no process outlives its call; every call ends although restic may hang |
| `cache` | 2 projects, 2 callers, 3 runs, 1 slot, 1 place in the queue, 1 invalidation per project; fair | `TypeOK`, `SlotsAreHeld`, `NoSlotIdle`, `OneRunPerProject`, `CacheIsCurrent`, `NoOrphanRun`, `EveryCallerAnswered` | slots, places and shared runs survive aborts, refusals and invalidations |
| `lifecycle` | 2 requests, 2 replicas, 1 user, 2 ids, 2 names, 2 prefixes, 1 event | `TargetsAreUnique`, `LocalChangesStay`, `OnlyRacesChangeScopes` | creations, deletions, prunes and refreshes overlap without undoing each other |
| `converge` | 2 requests, 2 replicas, 1 name and prefix, no users, 1 restart; fair | `CataloguesConverge` | the catalogue of each replica becomes the set of projects |
| `history` | 3 snapshots with equal and unreadable times, pages of 1, 2 secrets, 2 keys, 2 asks, 2 foreign events; fair | `HistoryIsOrdered`, `NothingSkipped`, `RestoresAsPreviewed`, `RestorationEnds` | pages neither repeat nor skip; a restoration does what its preview says |
| `env` | all values of up to 3 of 18 characters, some that look like escapes, a second key, a key that cannot be exported | `ImportRestores` | an exported file, arranged by hand or not, is imported as it was |
| `cards` | 1 project, 3 snapshots, 2 flows, 1 run object, 2 events | `TypeOK`, `RemoteStatusWasTrue`, `CheckingIsAsked` | a remote status was true at one moment since the row of its run was read, or a snapshot was forgotten since; no card checks for ever |

Why the bounds are enough. Two clients, tabs or requests are enough for every
race of the list: each is between one request in the middle of its awaits and
one that changes what it has read; the environment adds a third actor. Two
snapshots let one be recorded and another one be newer, older or foreign; the
history needs three for a page between two pages. Two contents distinguish
before and after. Two replicas give two queues, and either of them may crash. In
`cache` three runs are one that executes, one that waits and one that is
refused. In `queue` two synchronizations share a chain, and of the two edits one
shares their replica and one only the lock. In `editing` one key is enough to
tell a lost update from a kept one, as `rename` changes what a key update must
keep; three gestures are two editors and a request, an editor and two requests,
or an editor, the end of its session and a request; the save of a restored draft
is not counted, so that an editor, a session that ends twice and the save are
within the bound; `MaxOthers` is one foreign write per run, between any two
steps. In `cards` three snapshots are one in the row that was read, one recorded
since and one listed or forgotten; two events are a push of two steps, or one
that moves the row and one that moves the repository; with one run object the
two flows share a run, or meet its entry or one after the other. The proofs
remove these bounds where they reach.

Named bounds: `SnapIds`/`Snapshots` (ever stored; a backup without a free id can
only fail), `MaxVersion`, `MaxGestures` (editors opened, requests sent, sessions
ended), `MaxOthers`, `MaxEvents`, `MaxCommands`, `MaxGeneration`, `Asks`. The
numbers of requests and crashes in `ProjectSync`, and of flows that follow each
other in `HomePage`, are not bounded.

Deadlock is checked in `cache` and `cards`. In the others a bound is used up, or
nothing remains to be done: after the deletion of the project, after the last
gesture, when all calls have ended.

Symmetry is used in runs of safety properties only, over actors and names that
the specification and the properties treat alike. `RefinesRegister` and
`RefinesTable` are `Init` and a step formula, without liveness. Snapshots and
characters are not permuted.

### Fairness

* `solo`: strong fairness of what the handler of a request does (`Work`) or of
  the timeout of the restic command that it awaits (`TimesOut`,
  `ResticTimeouts.ts`), because the chains and the advisory lock are first come,
  first served. `SyncLocks.ts` has no timeout on a wait for the queue or for the
  write lock, so `Fail` at these awaits belongs to the environment and is in no
  fairness condition: a lock that is kept, or a queue and a lock that wait for
  each other, would leave a request unanswered for ever. Also weak fairness of
  the unlocked refresh. Weak fairness of the steps would not do: a queued
  request is disabled each time another one runs before it, and the queue's
  order, which `Turns` states, excludes starvation. A user need not ever confirm
  a preview.
* `queue`: weak fairness of the callbacks that are due, of the timers, of the
  code between two awaits, and of the end of a process that has received
  SIGKILL. A restic process alone need never end and may ignore SIGTERM.
* `cache`: weak fairness of the end of each run, which is what `queue` shows. No
  caller is assumed to disconnect, no entry to expire.
* `converge`: weak fairness of the steps of a request and of the interval that
  starts refreshes; strong fairness of the two reads of a refresh, as the
  database does not fail all of them.
* `history`: weak fairness of each answer, or of its loss, and of the handler
  that awaits it. Nobody has to click.

## Proofs

All theorems hold for every value of the constants that satisfies the named
assumptions of the modules: that the special values (`NoRow`, `Absent`, ...) are
none of the ordinary ones, that bounds are natural numbers, that the hash is
injective and snapshot numbers positive. Assumptions about the world are written
in the theorems that need them.

**ProjectSync.** `Typed` is inductive: the type invariant, that a snapshot is
stored exactly when it has a content, and that a request has read what its place
in the handler says; without the last part a commit could not be typed.
`Guarded`: what was decided under the write lock is still so when the
transaction commits. The lock holder is the only request at `commit`
(`WriteSectionsExclude`), a replacement there has its token equal to the hash
of the secrets, a push its observed snapshot id, an edit its hash.
`NeverOverwritesUnseen` follows with the injectivity of the hash, and
`DeletionIsFinal` with the invariant that an admitted request implies that the
project exists.

Three layers are about what a request knew when it was decided. `AllPinned`:
once a pull or a restore is confirmed, its target is the snapshot that was
displayed, and from its restoration on its payload is what that snapshot
contains, which nothing changes (`Kept`); `AppliesWhatWasPreviewed` follows
without any assumption about the repository. `InTurn`: an operation inside its
queue is the one for which its replica is busy (`OneSyncPerReplica`).
`AllCovered`: between its listing and its record a push knows all that is listed
but its own snapshot, and none of that is newer than the snapshot that the
project was synchronized with (`MayPush`, the check for newer snapshots). The
recorded snapshot is still the one of that check when the push commits
(`Guarded`), so whatever else is listed then is the recorded snapshot or an older
one (`PushBuriesNothing`). That holds only if a single server writes to the
repository and snapshots are listed when they are stored (`Alone`, written in
the theorem: one replica, `~OtherWriters`, `~Lags`; snapshots may be forgotten),
since `InTurn` then says that the push is the only one to store anything;
`OneServerBuriesNothing` follows. With two replicas it is false, which is the
finding below.

`HashSound`: with `~Early` the unlocked refresh runs alone
(`Quiet`), so the stored hash is current (`HashIsCurrent`). `Traced`: with
`~Lags` and `~Forgets` stored snapshots are listed (`Prompt`), a push that
resolves its snapshot finds its own (`Filed`), and the recorded snapshot holds
the content whose hash is the baseline (`Based`). `BadgeNeverLies` and
`PushRecordsItsOwn` follow, and `ImplementsRegister`: the initial state and
every step map to `SyncRegister`.

**SecretEditing.** `Typed` is `TypeOK` with `Progress`: a request between its
reads and its write holds the lock and has read the row it changes, one that is
not answered has not been applied, and a request belongs to a session. Every
step is then one of three kinds: a handler's (`HandlerEffect`: it moves on,
reads, commits one row or declines), another writer's (`OthersStep`) or a page's
(`PageStep`, which leaves the server alone). `DraftsAreOffered` looks at the
pages: a login takes the stored draft for its user only, a logout and a 401 drop
the one in memory, and what remains is `Mount`, the exception that the property
names. `OneTabKeepsDrafts` does without it in a browser with one tab: its user
is then at every moment the one of the token (`OneUser`), so a mounted page
changes nothing. `HashesDescribeRows` needs `HashInv`: while no old replica
writes, the list a lock holder has read is the table, so the hash computed from
it is the hash of the rows after the write. `SavesReplaceWhatWasShown` needs
`Shown`: the version an editor saves from is the one its user last saw.
`TableIsRefined` needs `VersionInv`: the row that a handler has read is a former
state of that row, an id is never used twice and versions only grow, so an equal
version means an equal row and the write changes what `SecretRows` changes, even
with old replicas in between. It is then shown action by action.

**SyncTasks.** `HoldersAreRight`: a call that writes holds the advisory lock of
its project, which gives `WritesExcludeEachOther` without any appeal to the
order of the chains; a process exists only while its call awaits it.

`ChainsHold` says what a family of chains is: a call waits only for one of its
own chain that is not done, and the tail of a chain is its last call, with all
others ahead of it. It is inductive and gives `EntriesAreKept`: an
entry is deleted by the call that finds itself at the tail, and then nobody is
left. The refinement maps a step to `Turns` by what it does to the sets of calls
ahead, which are closures: joining at the tail puts the new call behind the tail
and all those ahead of it; a call that nobody is ahead of drops out of the sets
of the others when it ends, and no other set changes; a crash empties whole
chains. `WritesExcludeEachOther` does not need the chains and `Turns` does not
need the lock: the two defences of `SyncLocks.ts` are shown apart.

**StatusCache.** None of the properties is inductive alone. `Inv` adds that a
run that was not aborted is the one in `inFlight` of its project (`Connected`)
and has the project's generation (`Current`), that the queue is exactly the
waiting runs, each once (`Queued`), and that a free slot and a waiter never
coexist (`Counted`). The proof needs the effect of `RemoveAt` of the community
modules, which is stated and proved as a lemma, and counts runs with the
theorems on finite sets.

**ProjectLifecycle.** `CreationsAreChecked`: what a creation has compared in its
section under `createLock` is still so when it inserts, since other creations
wait and deletions only free names. `PrunesAreFresh`: what a prune writes is
what the record still holds, unless that user is `raced`; with `IdsAreFresh`
(nothing has met an id before its project) and `DeletedIsGone` this gives
`PrunesTakeOnlyTheDeleted`. `Sound`: a list that a refresh may still install was
read after the last local change, which gives `RefreshesKeepLocalChanges`.

**SnapshotHistory.** The order of snapshots is strict and total. Hence the
listing of a finite set is well defined and complete (`ListingIsOrdered`: the
place of a snapshot is the number of those that are not less recent, which is an
injection into as many places and so a bijection). A page continues its cursor
(`PagesContinue`): it is ordered, after the cursor, and leaves out only what its
own cursor leads to. `TimelineIsSound` carries that along: what is displayed is
ordered and ends at the cursor, an answer in flight goes on from there, and
after both nothing of the first listing is missing. It holds however many
snapshots are pushed or forgotten between two pages, also when the cursor itself
is forgotten, since `MoreRecent` compares with a snapshot that is gone as well;
`TimelineIsOrdered` and `PagesSkipNothing` follow.
`TypesAreKept` rests on it: what is confirmed or about to be restored is
displayed, since a page adds and never replaces.

A preview describes the change of one content into the other, and says "No
change" only of equal ones. `PreviewsAreSound` (each preview, in the dialog, in
a request or in an answer, compares its snapshot with the content its hash is
of) then gives `RestorationsDoAsPreviewed`. The theorems about previews assume
that `Inherited` is empty.

**HomePage.** `Typed` is `TypeOK` with `Linked`: a run in flight is one of its
project. `CheckingIsAsked` is inductive with it. For `StatusesWereTrue` the row
and the repository are read at different moments, so the status compares states
that need never have been together. `Grounded` says so much of each row that was
read, by a flow or for a run (`Sound`), and of each result of a run, entry of the
cache and answer (`Truthful`). `Witnessed` is its core, what must have been seen
since the row was read, by what is the case now: there was something to pull at
some moment, or nothing listed is newer than the base that was read and the row
still has that base; there was nothing to pull at some moment, or something is
newer than that base now. So whatever the repository is listed to hold, the
result has its witness, and it keeps it in the cache and in answers of any age.
A repository without a latest snapshot (`~Topped`: it is empty, or the set of
snapshots is infinite) is kept apart. The argument needs that ids do not come
back (a base is one of the ids that are or were listed) and that nothing was
forgotten since: `Sound` claims `Witnessed` only until then.

**EnvText.** `ImportRestores` is about texts of any length and any number of
keys. The library's induction theorems take an operator, so induction is stated
over sets instead (`Induction`: a set that holds 0 and the successor of each of
its members holds every natural number), and proved from the least element that
every set of naturals has. With it the two recursions are shown to be defined,
step by step: `FlattenSteps` for the concatenation of lines or escapes,
`UnescapedSteps` for the pass over a quoted text. From the first follows where
each piece of a text is (`Places`), which replaces all further inductions about
texts.

`EscapesComeBack`: at the place where the escape of a character begins, the pass
reads that escape and goes on at the next one (`EscapeIsRead`; an escaped
backslash is consumed whole, which is why a single pass matters), so the value
comes back; and no line end is left in it. `ValueIsRead` adds the quotes, and
the values written without them, which must not begin or end with a blank
(`LosesBlanks` is the exception that `ImportRestores` names). A line is divided
at the sign after its key whatever its value holds, with `export` before it or
blanks around it (`PlainIsRead`, `PrefixedIsRead`, `IndentedIsRead`).
`LinesAreFound`: with either line end after each of them, the lines of a file
are those that were joined, and what begins elsewhere is empty. `ImportIs`: if
each line is passed over or gives a key of the data, and each key has a line with
its value after which it is no longer mentioned, the import gives the data: the
repeated keys of a file that was edited by hand come before. `FileInv` is the
inductive invariant, that what was copied is one of the forms of the file and
what the editor has was read in it; `ExportsComeBack` follows.

**Only model-checked.** Liveness (`EveryRequestAnswered`, `EveryCallerAnswered`,
`EveryCallEnds`, `CataloguesConverge`, `RestorationEnds`), which is out of the
prover's reach. All other properties of the passing runs are stated by a
theorem.

## Findings

`overtaken`: a push compares only the id of the recorded snapshot with the one
it started from. On another replica a discard or restore of that same snapshot
may complete meanwhile; its sync state is overwritten although
`docs/specs/SECRETS.md:39` promises a 409. The badge stays true: the register is
implemented all the same.

## Known limits

Each of these is a definition that is known not to hold, or holds only with the
constant given. They are stated beside the properties that do hold, so that a
cfg with the definition shows the behaviour.

* `PushRecordsOwn` with `Lags = TRUE` and `OtherWriters = TRUE`: if the id
  restic reported is not listed yet (or missing), the only new snapshot of the
  list is taken for the push's own (`docs/specs/SECRETS.md:37`, `:38`).
* `DiscardAppliesPreviewed`: a discard takes the snapshot recorded when it runs,
  not the one its preview displayed (`docs/specs/USER_INTERFACE.md:40`). The
  content hash in the token does not help when a push of the same secrets came
  in between.
* `HashMatchesContent` with `Early = TRUE`: the creation stores the first hash
  without the write lock; an edit in between leaves a stale hash
  (`SecretsHash.ts:75`).
* `NoBackupAfterDeletion`: a backup may follow the deletion of its project
  (`docs/specs/PROJECTS.md:52`); nothing is left in the database.
* `AbortedOnlyUnwanted`: an aborted status run stays in `inFlight` until its
  process has ended; a client that reloads the page within that time joins it
  and is answered with the abort of its former request
  (`SyncStatusCache.ts:246`, `docs/specs/SECRETS.md:75`).
* `AnswersKeepEdits`: what the user types while a save is in flight is lost when
  the answer closes the editor (`web/pages/projects/[id].vue:957`).
* `RestoredSavesAreInformed`: a draft keeps no version, so a restored one takes
  the version of the secret as it is then, and saving it replaces changes its
  user never saw (`[id].vue:816`).
* `RestoresWhatIsShown`: if two previews are answered in the other order, the
  first one is displayed below the other snapshot, which is the one restored
  (`SnapshotHistoryModal.vue:178`, `docs/specs/USER_INTERFACE.md:40`).
* `DraftsAreNeverOfferedToOthers` with two tabs: the token is shared by tabs,
  and `authStore.init()` (`web/stores/auth.ts:64-78`), which each page calls
  when it is mounted, takes a tab over to the user of the token, while neither
  it nor `offerDraftRestore` (`[id].vue:790-796`) compares the user of the draft
  that the tab holds. A user whose session has ended over an open editor logs in
  again and is offered the draft; somebody else logs in in another tab; the next
  page that is mounted in the first tab offers the draft to them, unlike
  `docs/specs/USER_INTERFACE.md:25`, `docs/specs/SECRETS.md:27` and
  `secret-draft.ts:17` say. `DraftsStayWithTheirOwner` excepts this step and no
  other; with one tab there is no exception (`OneTabKeepsDrafts`).
* `ForgottenStatusesWereTrue`: a row is read while a newer snapshot than its own
  is listed, an older one is restored, the newest is forgotten; the run then
  finds the snapshot of that row to be the latest and nothing to pull, which was
  so at no moment. `RemoteStatusWasTrue` excepts snapshots forgotten since the
  row was read.
* A remote status may be older than the request it answers, and a
  synchronization by another replica does not invalidate it
  (`docs/specs/SECRETS.md:76`, `SyncStatusCache.ts:305-316`):
  `RemoteStatusWasTrue` looks back to the moment when the row of its run was
  read.
* The flag for local changes on a card: `GET /projects` reads a row that was
  never synchronized, a pull commits, and the count that is read next finds its
  secrets; local changes are announced that were there at no moment
  (`ProjectsRoutes.ts:82-83`). No module has the two reads.
* `RestoresAsPreviewed` with a key in `Inherited`: `key in data` is true of
  `constructor` and the like, so such a key is shown as changed when it is added
  and not at all when it is removed (`SecretsDiff.ts:106`).
* `ImportRestoresAll`: a no-break space at the end of a value is exported
  without quotes and trimmed by the import (`docs/specs/SECRETS.md:90`).
* Backup and restore look at the exit code alone: one that ended with 0 before
  the signal for too much output reached it is taken for complete
  (`ResticClient.ts:223`, `Result` of `SyncTasks`).

## Plan

Done: `ProjectSync` with `SyncRegister`, `StatusCache`, `SecretEditing` with
`SecretRows`, `SyncTasks` with `Turns`, `ProjectLifecycle`, `SnapshotHistory`,
`EnvText`, `HomePage`, and the proofs above.

Next: the database as a component that may answer late, below
`ProjectLifecycle`.

## Not modelled

* Notifications (fire and forget), temporary work directories, configuration,
  headers, the proxy and deployments: I/O or settings, no state that a property
  could relate to another.
* The pages of users and tokens and the form that creates a project, with its
  connection test (an answer may arrive after the form was edited,
  `web/pages/index.vue:455`): forms over single requests.
* The rewrite of a legacy baseline by `SecretsHashBackfillAll`, once per
  database.
* The flag for local changes as a card shows it (`HomePage`), error texts, the
  parsing of restic's output, the JSON form of a secret.
