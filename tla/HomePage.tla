------------------------------ MODULE HomePage ------------------------------
(***************************************************************************)
(* The home page (pages/index.vue) and the two answers its cards are made   *)
(* of: the rows of GET /projects, and the remote statuses of GET            *)
(* /projects/status (resticSyncStatus), which come from the cache of the    *)
(* server (SyncStatusCache.ts): an entry of any age or a run that callers   *)
(* share.  The flag for local changes is left to ProjectSync.               *)
(*                                                                         *)
(* The handlers of the page are flows: each may await an operation, then    *)
(* reloads the rows and then checks the statuses.  The page lets several    *)
(* run at once, and nothing orders their answers.  The server reads the     *)
(* rows and the repositories one after the other, while others push, pull   *)
(* and forget in atomic steps (those of SyncRegister).                      *)
(* How runs wait for a slot and when they are aborted is in StatusCache.    *)
(***************************************************************************)
EXTENDS Naturals

CONSTANTS
    Projects,
    Snapshots,      \* ids, numbered in the order of compareSnapshots
    Flows,          \* handlers of the page that are running
    Runs,           \* run objects of the server; an ended one is used again
    NoRun,          \* none is in flight
    Absent,         \* no row, card, status, answer, entry or run
    Deleted,        \* the row of a project that is gone
    MaxEvents       \* bound: what others do to the projects

NoSnap == 0

ASSUME SnapshotsAreOrdered == Snapshots \subseteq Nat \ {NoSnap}
ASSUME EventsAreBounded == MaxEvents \in Nat

VARIABLES
    row,        \* projects: the lastSyncSnapshotId of each
    listed,     \* snapshots of its repository
    forgotten,  \* snapshots that it had: their ids do not come back
    cache,      \* SyncStatusCache: the entry of each project
    inFlight,   \* the run that callers join
    run,        \* the run objects
    flow,       \* where each flow is, with the ids it captured
    read,       \* rows the server has read for a flow and not yet used
    answer,     \* what it will answer to the flow, per project
    cards,      \* projects.value: the projects displayed
    statuses,   \* statuses.value
    events

server == <<row, listed, forgotten, events>>
caching == <<cache, inFlight, run>>
page == <<cards, statuses>>
vars == <<server, caching, flow, read, answer, page>>

\* A request is sent, then its rows are read.
Flow ==
    [pc : {"idle", "load", "loaded", "check", "runs"},
     checks : BOOLEAN, ids : SUBSET Projects]

Bases == Snapshots \cup {NoSnap}
Statuses == {"pull", "current"}

\* A row that was read; was is history: what has been the case since.
View == [base : Bases, was : SUBSET (Statuses \cup {"forgotten"})]

\* A status; held is history: was it the case at one moment between the
\* reading of its row and the listing of the snapshots, or else was a snapshot
\* forgotten in between?
Answer == [says : Statuses, held : BOOLEAN]

\* The run of a project, with the row that its first caller has read; it has
\* a result when restic has listed the snapshots.
Run == [project : Projects, view : View \cup {Absent},
        result : Answer \cup {Absent}, callers : SUBSET Flows]

ASSUME SentinelsDiffer ==
    /\ Absent \notin Bases /\ Absent \notin View /\ Absent \notin Answer
    /\ Absent \notin Run /\ Absent \notin Statuses \cup {"checking"}
    /\ Deleted \notin Bases /\ Deleted # Absent
    /\ NoRun \notin Runs

TypeOK ==
    /\ row \in [Projects -> Bases \cup {Absent, Deleted}]
    /\ listed \in [Projects -> SUBSET Snapshots]
    /\ forgotten \in [Projects -> SUBSET Snapshots]
    /\ cache \in [Projects -> Answer \cup {Absent}]
    /\ inFlight \in [Projects -> Runs \cup {NoRun}]
    /\ run \in [Runs -> Run \cup {Absent}]
    /\ flow \in [Flows -> Flow]
    /\ read \in [Flows -> [Projects -> View \cup {Absent}]]
    /\ answer \in [Flows -> [Projects -> Answer \cup {Absent}]]
    /\ cards \in SUBSET Projects
    /\ statuses \in [Projects -> Statuses \cup {"checking", "failed", Absent}]
    /\ events \in 0 .. MaxEvents

Nothing == [p \in Projects |-> Absent]
Idle == [pc |-> "idle", checks |-> FALSE, ids |-> {}]

Exists(p) == row[p] \in Bases

\* Projects that were synchronized or never, with a snapshot that may have
\* been forgotten; the server has just started and nothing is displayed yet.
Init ==
    /\ listed \in [Projects -> SUBSET Snapshots]
    /\ row \in [Projects -> Bases \cup {Absent}]
    /\ forgotten = [p \in Projects |-> {row[p]} \ (listed[p] \cup {NoSnap, Absent})]
    /\ cache = Nothing
    /\ inFlight = [p \in Projects |-> NoRun]
    /\ run = [r \in Runs |-> Absent]
    /\ flow = [f \in Flows |-> Idle]
    /\ read = [f \in Flows |-> Nothing]
    /\ answer = [f \in Flows |-> Nothing]
    /\ cards = {} /\ statuses = Nothing
    /\ events = 0

-----------------------------------------------------------------------------
(* The statuses *)

\* Mutant: a project that was never synchronized has nothing to pull.
NeedsPullOnceSynced(b, S) ==
    b # NoSnap /\ \E s \in S : s # b /\ \A t \in S : t <= s

\* needsPull of resticSyncStatus: the latest snapshot is not the recorded one.
NeedsPull(b, S) == \E s \in S : s # b /\ \A t \in S : t <= s

Status(needsPull) == IF needsPull THEN "pull" ELSE "current"

\* History: what is the case of a project that exists.
Is(p) ==
    IF Exists(p)
    THEN {Status(~\A s \in listed[p] :
                     s = row[p] \/ \E t \in listed[p] : t > s)}
    ELSE {}

-----------------------------------------------------------------------------
(* What others do, and the operations of the page themselves *)

\* What a step brings about for each project.
Happened ==
    [p \in Projects |->
        Is(p)' \cup IF listed[p] \subseteq listed'[p] THEN {} ELSE {"forgotten"}]

\* What was read sees one more state of the projects.
Later(v, p) ==
    IF v = Absent THEN Absent ELSE [v EXCEPT !.was = @ \cup Happened[p]]

Observed ==
    /\ read' = [f \in Flows |-> [p \in Projects |-> Later(read[f][p], p)]]
    /\ run' = [r \in Runs |->
           IF run[r] = Absent THEN Absent
           ELSE [run[r] EXCEPT !.view = Later(@, run[r].project)]]

Event ==
    /\ events < MaxEvents /\ events' = events + 1
    /\ Observed
    /\ UNCHANGED <<cache, inFlight, flow, answer, page>>

\* A snapshot appears: the backup of a push, from here or elsewhere.
Store(p, s) ==
    /\ s \notin listed[p] \cup forgotten[p]
    /\ listed' = [listed EXCEPT ![p] = @ \cup {s}]
    /\ UNCHANGED <<row, forgotten>>
    /\ Event

\* restic forget, by the owner of the repository.
Forget(p, s) ==
    /\ s \in listed[p]
    /\ listed' = [listed EXCEPT ![p] = @ \ {s}]
    /\ forgotten' = [forgotten EXCEPT ![p] = @ \cup {s}]
    /\ UNCHANGED row
    /\ Event

\* A pull, restore, discard or push records a snapshot.
Record(p, s) ==
    /\ Exists(p) /\ s \in listed[p]
    /\ row' = [row EXCEPT ![p] = s]
    /\ UNCHANGED <<listed, forgotten>>
    /\ Event

Create(p) ==
    /\ row[p] = Absent
    /\ row' = [row EXCEPT ![p] = NoSnap]
    /\ UNCHANGED <<listed, forgotten>>
    /\ Event

Delete(p) ==
    /\ Exists(p)
    /\ row' = [row EXCEPT ![p] = Deleted]
    /\ UNCHANGED <<listed, forgotten>>
    /\ Event

-----------------------------------------------------------------------------
(* The handlers of the page *)

Goto(f, pc, ids) == flow' = [flow EXCEPT ![f].pc = pc, ![f].ids = ids]

\* The page is opened, a preview or the history reports what it has done, or a
\* push has succeeded, which are followed by a check; or a creation or a
\* deletion has.  The operation itself is one of the steps above.
Reload(f, checks) ==
    /\ flow[f].pc = "idle"
    /\ flow' = [flow EXCEPT ![f] = [Idle EXCEPT !.pc = "load", !.checks = checks]]
    /\ UNCHANGED <<server, caching, read, answer, page>>

\* Mutant: projects that were deleted are still listed.
RowsKept == [p \in Projects |->
    IF row[p] = Absent THEN Absent ELSE [base |-> row[p], was |-> Is(p)]]

\* ProjectsDataList: the projects that are there.
RowsRead == [p \in Projects |->
    IF Exists(p) THEN [base |-> row[p], was |-> Is(p)] ELSE Absent]

\* GET /projects.
ListProjects(f) ==
    /\ flow[f].pc = "load"
    /\ Goto(f, "loaded", {p \in Projects : RowsRead[p] # Absent})
    /\ UNCHANGED <<server, caching, read, answer, page>>

\* GET /projects/status begins.
ReadRows(f) ==
    /\ flow[f].pc = "check"
    /\ flow' = [flow EXCEPT ![f].pc = "runs"]
    /\ read' = [read EXCEPT ![f] = RowsRead]
    /\ UNCHANGED <<server, caching, answer, page>>

\* SyncStatusCacheGet is called with the row of a project.
Get(f, p) ==
    /\ flow[f].pc = "runs" /\ read[f][p] # Absent
    /\ read' = [read EXCEPT ![f][p] = Absent]
    /\ UNCHANGED <<server, cache, flow, page>>

\* startRun.
StartRun(r, p, v, callers) ==
    /\ run[r] = Absent /\ inFlight[p] = NoRun
    /\ run' = [run EXCEPT ![r] =
           [project |-> p, view |-> v, result |-> Absent, callers |-> callers]]
    /\ inFlight' = [inFlight EXCEPT ![p] = r]

\* An entry is served, whatever its age; a stale one starts a background run.
GetCached(f, p) ==
    /\ Get(f, p) /\ cache[p] # Absent
    /\ answer' = [answer EXCEPT ![f][p] = cache[p]]
    /\ \/ UNCHANGED <<inFlight, run>>
       \/ \E r \in Runs : StartRun(r, p, read[f][p], {})

\* Without an entry the caller joins the run of another one, or starts one.
GetJoins(f, p) ==
    /\ Get(f, p) /\ cache[p] = Absent /\ inFlight[p] # NoRun
    /\ run' = [run EXCEPT ![inFlight[p]].callers = @ \cup {f}]
    /\ UNCHANGED <<answer, inFlight>>

GetStarts(f, p, r) ==
    /\ Get(f, p) /\ cache[p] = Absent
    /\ StartRun(r, p, read[f][p], {f})
    /\ UNCHANGED answer

\* The result of a run, and what becomes of its history.
Judged(status, v) ==
    [says |-> status,
     held |-> status \in v.was \/ "forgotten" \in v.was]

\* ResticSyncStatus: restic lists the snapshots.
ListSnapshots(r) ==
    LET v == run[r].view IN
    /\ run[r] # Absent /\ v # Absent
    /\ run' = [run EXCEPT ![r].view = Absent, ![r].result =
           Judged(Status(NeedsPull(v.base, listed[run[r].project])), v)]
    /\ UNCHANGED <<server, cache, inFlight, flow, read, answer, page>>

\* A run that has ended is in flight no more, if it still was.
Cleared(r) ==
    [p \in Projects |-> IF inFlight[p] = r THEN NoRun ELSE inFlight[p]]

\* It is cached unless it was invalidated, and its callers have their answer.
RunEnds(r) ==
    /\ run[r] # Absent /\ run[r].view = Absent
    /\ cache' = [p \in Projects |->
           IF inFlight[p] = r THEN run[r].result ELSE cache[p]]
    /\ answer' = [f \in Flows |->
           IF f \in run[r].callers
           THEN [answer[f] EXCEPT ![run[r].project] = run[r].result] ELSE answer[f]]
    /\ inFlight' = Cleared(r)
    /\ run' = [run EXCEPT ![r] = Absent]
    /\ UNCHANGED <<server, flow, read, page>>

\* It is refused a slot, aborted, or restic fails: its callers get an error.
RunFails(r) ==
    /\ run[r] # Absent
    /\ inFlight' = Cleared(r)
    /\ run' = [run EXCEPT ![r] = Absent]
    /\ UNCHANGED <<server, cache, flow, read, answer, page>>

\* SyncStatusCacheInvalidate, after an operation through this server: the run
\* in flight is aborted, and may have its result all the same.
Invalidate(p) ==
    /\ cache[p] # Absent \/ inFlight[p] # NoRun
    /\ cache' = [cache EXCEPT ![p] = Absent]
    /\ inFlight' = [inFlight EXCEPT ![p] = NoRun]
    /\ UNCHANGED <<server, run, flow, read, answer, page>>

\* The request of f is answered, and none of its answers is waited for.
Served(f) ==
    /\ read' = [read EXCEPT ![f] = Nothing]
    /\ answer' = [answer EXCEPT ![f] = Nothing]
    /\ run' = [r \in Runs |->
           IF run[r] = Absent THEN Absent
           ELSE [run[r] EXCEPT !.callers = @ \ {f}]]
    /\ UNCHANGED <<server, cache, inFlight>>

\* What the answer to f says of each project.
Said(f) ==
    [p \in Projects |-> IF answer[f][p] = Absent THEN Absent ELSE answer[f][p].says]

\* checkStatuses, up to its await.
Checking(ids) == [p \in Projects |-> IF p \in ids THEN "checking" ELSE statuses[p]]

\* The rest of loadProjects: the cards are replaced, or stay if it failed;
\* then the statuses of those that are displayed are asked for.
LoadEnds(f, shown) ==
    /\ cards' = shown
    /\ IF flow[f].checks
       THEN Goto(f, "check", shown) /\ statuses' = Checking(shown)
       ELSE flow' = [flow EXCEPT ![f] = Idle] /\ UNCHANGED statuses
    /\ Served(f)

Load(f) == flow[f].pc = "loaded" /\ LoadEnds(f, flow[f].ids)

LoadFails(f) == flow[f].pc \in {"load", "loaded"} /\ LoadEnds(f, cards)

\* Mutant: the answer is merged into what is displayed.
StatusesMerged(f, found) ==
    [p \in Projects |-> IF found[p] # Absent THEN found[p] ELSE statuses[p]]

\* checkStatuses, after its await: found has the statuses that arrived
\* without an error, and every other one asked for is failed.
StatusesOf(f, found) ==
    [p \in Projects |->
        CASE p \notin flow[f].ids -> Absent
          [] p \in flow[f].ids /\ found[p] # Absent -> found[p]
          [] OTHER -> "failed"]

CheckEnds(f, found) ==
    /\ statuses' = StatusesOf(f, found)
    /\ flow' = [flow EXCEPT ![f] = Idle]
    /\ UNCHANGED cards
    /\ Served(f)

\* Runs that failed or missed the deadline have no answer.
Check(f) == flow[f].pc = "runs" /\ CheckEnds(f, Said(f))

CheckFails(f) == flow[f].pc \in {"check", "runs"} /\ CheckEnds(f, Nothing)

-----------------------------------------------------------------------------
Others ==
    \E p \in Projects :
        \/ \E s \in Snapshots : Store(p, s) \/ Forget(p, s) \/ Record(p, s)
        \/ Create(p) \/ Delete(p)

EndOf(f) == Load(f) \/ LoadFails(f) \/ Check(f) \/ CheckFails(f)

Next ==
    \/ Others
    \/ \E f \in Flows :
          \/ \E checks \in BOOLEAN : Reload(f, checks)
          \/ ListProjects(f) \/ ReadRows(f)
          \/ \E p \in Projects : \/ GetCached(f, p) \/ GetJoins(f, p)
                                 \/ \E r \in Runs : GetStarts(f, p, r)
          \/ EndOf(f)
    \/ \E r \in Runs : ListSnapshots(r) \/ RunEnds(r) \/ RunFails(r)
    \/ \E p \in Projects : Invalidate(p)

Spec == Init /\ [][Next]_vars

-----------------------------------------------------------------------------
(* Properties *)

\* A card that says that there are remote changes to pull, or that there are
\* none, says what was the case at one moment since its run's row was read,
\* unless a snapshot was forgotten since: the row and the repository are read
\* apart, while others push, pull and restore.  The moment may be before the
\* request, by as long as the entry is old or the run that was joined.
RemoteStatusWasTrue ==
    \A f \in Flows, p \in Projects :
        flow[f].pc = "runs" /\ answer[f][p] # Absent /\ Exists(p)
            => answer[f][p].held

\* The same without the exception: what a run would find now was the case at
\* one moment since its row was read.
ForgottenStatusesWereTrue ==
    \A r \in Runs :
        run[r] # Absent /\ run[r].view # Absent /\ Exists(run[r].project)
            => Status(NeedsPull(run[r].view.base, listed[run[r].project]))
                   \in run[r].view.was

\* A card says "Checking remote" only while a request for the statuses is in
\* flight, whatever fails and whichever flows overlap: none says so for ever.
CheckingIsAsked ==
    \A p \in Projects :
        statuses[p] = "checking" => \E f \in Flows : flow[f].pc \in {"check", "runs"}
=============================================================================
