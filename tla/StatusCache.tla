---------------------------- MODULE StatusCache ----------------------------
(***************************************************************************)
(* The cache of synchronization statuses of one server process             *)
(* (restic/SyncStatusCache.ts).  A status costs a restic process, so        *)
(* callers of one project share a run, a bounded number of runs execute,   *)
(* the next ones wait in a bounded queue, and a stale status is served     *)
(* while a background run refreshes it.                                    *)
(*                                                                         *)
(* A caller is one call of SyncStatusCacheGet; the status page of all      *)
(* projects is one caller per project.  JavaScript runs each action to     *)
(* its end; the actions are what the event loop interleaves.               *)
(***************************************************************************)
EXTENDS Naturals, FiniteSets, Sequences, SequencesExt

CONSTANTS
    Projects,
    Callers,         \* calls of SyncStatusCacheGet in flight
    Runs,            \* run objects; an ended one is used again
    NoRun,           \* no run of the project is in flight
    NoProject,       \* an unused run object has none
    NoGeneration,    \* undefined
    MaxConcurrent,   \* MAX_CONCURRENT
    MaxWaiters,      \* SYNC_STATUS_MAX_WAITERS
    MaxGeneration    \* bound: how often a project is invalidated

ASSUME RunsAreFinite == IsFiniteSet(Runs) /\ NoRun \notin Runs
ASSUME LimitsArePositive ==
    MaxConcurrent \in Nat \ {0} /\ MaxWaiters \in Nat \ {0}
ASSUME GenerationsAreBounded ==
    MaxGeneration \in Nat /\ NoGeneration \notin Nat

VARIABLES
    generations,     \* of each project; NoGeneration until it is invalidated
    cache,           \* entry of each project, with the generation of its run
    inFlight,        \* the run that new callers of a project join
    run,             \* the run objects
    activeRuns,      \* slots taken
    waiters,         \* runs that wait for a slot, first come, first served
    answering        \* callers whose response is still open

vars == <<generations, cache, inFlight, run, activeRuns, waiters, answering>>

Generations == 0 .. MaxGeneration

\* pc: waiting for a slot; running restic; refused a slot, or cancelled
\* while it waited; none when the object is unused.
Run ==
    [pc : {"none", "waiting", "running", "refused"},
     project : Projects \cup {NoProject}, background : BOOLEAN,
     generation : Generations, aborted : BOOLEAN, tokens : SUBSET Callers]

Unused ==
    [pc |-> "none", project |-> NoProject, background |-> FALSE,
     generation |-> 0, aborted |-> FALSE, tokens |-> {}]

TypeOK ==
    /\ generations \in [Projects -> Generations \cup {NoGeneration}]
    /\ cache \in [Projects -> [state : {"none", "fresh", "stale"},
                               generation : Generations]]
    /\ inFlight \in [Projects -> Runs \cup {NoRun}]
    /\ run \in [Runs -> Run]
    /\ activeRuns \in Nat
    /\ waiters \in Seq(Runs)
    /\ answering \in SUBSET Callers

NoEntry == [state |-> "none", generation |-> 0]

Init ==
    /\ generations = [p \in Projects |-> NoGeneration]
    /\ cache = [p \in Projects |-> NoEntry]
    /\ inFlight = [p \in Projects |-> NoRun]
    /\ run = [r \in Runs |-> Unused]
    /\ activeRuns = 0
    /\ waiters = <<>>
    /\ answering = {}

Joined(c) == \E r \in Runs : c \in run[r].tokens
Used(r) == run[r].pc # "none"

-----------------------------------------------------------------------------
(* Runs *)

\* Mutant: the generation of a project that was never invalidated.
GenerationAsStored(p) == generations[p]

GenerationOf(p) == IF generations[p] = NoGeneration THEN 0 ELSE generations[p]

\* startRun, up to its first await: the run takes a slot, waits for one, or
\* is refused because the queue is full.
StartRun(r, p, background, tokens) ==
    LET started(pc) ==
            run' = [run EXCEPT ![r] =
                [pc |-> pc, project |-> p, background |-> background,
                 generation |-> GenerationOf(p), aborted |-> FALSE,
                 tokens |-> tokens]]
    IN  /\ ~Used(r)
        /\ inFlight' = [inFlight EXCEPT ![p] = r]
        /\ \/ /\ activeRuns < MaxConcurrent
              /\ started("running")
              /\ activeRuns' = activeRuns + 1
              /\ UNCHANGED waiters
           \/ /\ activeRuns >= MaxConcurrent
              /\ Len(waiters) < MaxWaiters
              /\ started("waiting")
              /\ waiters' = Append(waiters, r)
              /\ UNCHANGED activeRuns
           \/ /\ activeRuns >= MaxConcurrent
              /\ Len(waiters) >= MaxWaiters
              /\ started("refused")
              /\ UNCHANGED <<waiters, activeRuns>>

\* Mutant: a cancelled waiter stays in the queue.
StayInQueue(r) == waiters

\* Waiter.cancel: the run leaves the queue.
LeaveQueue(r) ==
    IF \E i \in 1 .. Len(waiters) : waiters[i] = r
    THEN RemoveAt(waiters, CHOOSE i \in 1 .. Len(waiters) : waiters[i] = r)
    ELSE waiters

\* Mutant: a cancelled waiter is not rejected.
AbortedSilently(q) == [q EXCEPT !.aborted = TRUE]

\* controller.abort(): a waiting run is cancelled, a running one gets the
\* signal and goes on until its process has ended.
Aborted(q) ==
    [q EXCEPT !.aborted = TRUE,
              !.pc = IF @ = "waiting" THEN "refused" ELSE @]

\* Mutant: a run that ends clears the entry of its project, whosever it is.
ClearedAlways(r) == [inFlight EXCEPT ![run[r].project] = NoRun]

\* The finally block clears the entry only if it is still its own.
Cleared(r) ==
    [p \in Projects |-> IF p = run[r].project /\ inFlight[p] = r
                        THEN NoRun ELSE inFlight[p]]

\* Mutant: a granted waiter is not counted again.
ReleaseUncounted(r) ==
    /\ activeRuns' = activeRuns - 1
    /\ waiters' = IF waiters = <<>> THEN waiters ELSE Tail(waiters)
    /\ run' = [q \in Runs |->
                   IF q = r THEN Unused
                   ELSE IF waiters # <<>> /\ q = Head(waiters)
                   THEN [run[q] EXCEPT !.pc = "running"] ELSE run[q]]

\* releaseSlot by a run that has ended: the next waiter is granted the slot.
ReleaseSlot(r) ==
    \/ /\ waiters = <<>>
       /\ activeRuns' = activeRuns - 1
       /\ run' = [run EXCEPT ![r] = Unused]
       /\ UNCHANGED waiters
    \/ /\ waiters # <<>>
       /\ waiters' = Tail(waiters)
       /\ run' = [run EXCEPT ![r] = Unused, ![Head(waiters)].pc = "running"]
       /\ UNCHANGED activeRuns

-----------------------------------------------------------------------------
(* Callers: SyncStatusCacheGet *)

\* A fresh entry is served; nothing changes.  A stale one is served too and
\* a background run refreshes it unless a run is in flight.
GetStale(p, r) ==
    /\ cache[p].state = "stale"
    /\ inFlight[p] = NoRun
    /\ StartRun(r, p, TRUE, {})
    /\ UNCHANGED <<generations, cache, answering>>

\* Without an entry the caller joins the run in flight.
GetJoins(c, p) ==
    /\ cache[p].state = "none" /\ ~Joined(c)
    /\ inFlight[p] # NoRun
    /\ run' = [run EXCEPT ![inFlight[p]].tokens = @ \cup {c}]
    /\ answering' = answering \cup {c}
    /\ UNCHANGED <<generations, cache, inFlight, activeRuns, waiters>>

GetStarts(c, p, r) ==
    /\ cache[p].state = "none" /\ ~Joined(c)
    /\ inFlight[p] = NoRun
    /\ StartRun(r, p, FALSE, {c})
    /\ answering' = answering \cup {c}
    /\ UNCHANGED <<generations, cache>>

\* Mutant: a run nobody waits for goes on.
Forgotten(q) == FALSE

\* The last interested caller has gone from a foreground run.
Unwanted(q) == q.tokens = {} /\ ~q.background

\* The client disconnects: its caller is rejected, and the run is aborted
\* when no other caller is interested.
Disconnect(c, r) ==
    LET left == [run[r] EXCEPT !.tokens = @ \ {c}] IN
    /\ c \in answering /\ c \in run[r].tokens
    /\ answering' = answering \ {c}
    /\ run' = [run EXCEPT ![r] = IF Unwanted(left) THEN Aborted(left) ELSE left]
    /\ waiters' = IF Unwanted(left) /\ run[r].pc = "waiting"
                  THEN LeaveQueue(r) ELSE waiters
    /\ UNCHANGED <<generations, cache, inFlight, activeRuns>>

\* The deadline of the status page: the response is sent without this
\* project.  Its caller stays interested and can no longer disconnect.  (A
\* caller for the status of one project has no deadline and skips this.)
Deadline(c) ==
    /\ c \in answering /\ Joined(c)
    /\ answering' = answering \ {c}
    /\ UNCHANGED <<generations, cache, inFlight, run, activeRuns, waiters>>

-----------------------------------------------------------------------------
(* The ends of a run, time, and the sync operations *)

\* Mutant: whatever a run computed is stored.
StorableAlways(r) == TRUE

\* Never an aborted run, nor one invalidated while in flight.
Storable(r) ==
    /\ ~run[r].aborted
    /\ run[r].generation = GenerationOf(run[r].project)

\* Restic and the count of the secrets succeeded (which an abort does not
\* always prevent), or one of them failed.
Finish(r, ok) ==
    /\ run[r].pc = "running"
    /\ cache' = [cache EXCEPT ![run[r].project] =
                    IF ok /\ Storable(r)
                    THEN [state |-> "fresh", generation |-> run[r].generation]
                    ELSE @]
    /\ ReleaseSlot(r)
    /\ inFlight' = Cleared(r)
    /\ answering' = answering \ run[r].tokens
    /\ UNCHANGED generations

\* acquireSlot rejected: the run never had a slot.
Refuse(r) ==
    /\ run[r].pc = "refused"
    /\ run' = [run EXCEPT ![r] = Unused]
    /\ inFlight' = Cleared(r)
    /\ answering' = answering \ run[r].tokens
    /\ UNCHANGED <<generations, cache, activeRuns, waiters>>

Expire(p) ==
    /\ cache[p].state = "fresh"
    /\ cache' = [cache EXCEPT ![p].state = "stale"]
    /\ UNCHANGED <<generations, inFlight, run, activeRuns, waiters, answering>>

\* SyncStatusCacheInvalidate, after a sync operation.
Invalidate(p) ==
    LET r == inFlight[p] IN
    /\ GenerationOf(p) # MaxGeneration
    /\ cache' = [cache EXCEPT ![p] = NoEntry]
    /\ generations' = [generations EXCEPT ![p] = GenerationOf(p) + 1]
    /\ inFlight' = [inFlight EXCEPT ![p] = NoRun]
    /\ \/ r = NoRun /\ UNCHANGED <<run, waiters>>
       \/ /\ r # NoRun
          /\ run' = [run EXCEPT ![r] = Aborted(@)]
          /\ waiters' = IF run[r].pc = "waiting" THEN LeaveQueue(r) ELSE waiters
    /\ UNCHANGED <<activeRuns, answering>>

Next ==
    \/ \E p \in Projects :
          \/ \E r \in Runs : \/ GetStale(p, r)
                             \/ \E c \in Callers : GetStarts(c, p, r)
          \/ \E c \in Callers : GetJoins(c, p)
          \/ Expire(p) \/ Invalidate(p)
    \/ \E c \in Callers : Deadline(c) \/ \E r \in Runs : Disconnect(c, r)
    \/ \E r \in Runs : Refuse(r) \/ \E ok \in BOOLEAN : Finish(r, ok)

Spec == Init /\ [][Next]_vars

\* Restic ends, by itself or by its timeout, and a rejection is delivered.
Fairness ==
    \A r \in Runs : WF_vars(Refuse(r)) /\ WF_vars(\E ok \in BOOLEAN : Finish(r, ok))

FairSpec == Spec /\ Fairness

-----------------------------------------------------------------------------
(* Properties *)

Running == {r \in Runs : run[r].pc = "running"}

\* Every slot that is counted is held by one run, whatever was aborted,
\* refused or failed, and the limit is kept when a slot changes hands.
SlotsAreHeld == activeRuns = Cardinality(Running) /\ activeRuns <= MaxConcurrent

\* Exactly the waiting runs are queued, once each, and none of them waits
\* while there is a free slot.
NoSlotIdle ==
    /\ {waiters[i] : i \in DOMAIN waiters} = {r \in Runs : run[r].pc = "waiting"}
    /\ IsInjective(waiters)
    /\ waiters # <<>> => activeRuns = MaxConcurrent

\* Callers of one project share one run: two runs of a project never both
\* count, not even when an aborted one ends after its successor started.
OneRunPerProject ==
    \A q, r \in Runs :
        /\ Used(q) /\ ~run[q].aborted
        /\ Used(r) /\ ~run[r].aborted
        /\ run[q].project = run[r].project
        => q = r

\* A status computed by a run that began before the last invalidation is
\* never cached.
CacheIsCurrent ==
    \A p \in Projects :
        cache[p].state # "none" => cache[p].generation = GenerationOf(p)

\* A run that nobody waits for and that refreshes nothing does not go on.
NoOrphanRun ==
    \A r \in Runs :
        Used(r) /\ ~run[r].aborted => run[r].background \/ run[r].tokens # {}

\* A run is aborted only when no interested caller remains, so the abort of
\* one client is never the answer of another one.
AbortedOnlyUnwanted ==
    \A r \in Runs : Used(r) /\ run[r].aborted => run[r].tokens = {}

\* Every caller is answered: no slot, place in the queue or shared run is
\* lost on the way.
EveryCallerAnswered == \A c \in Callers : Joined(c) ~> ~Joined(c)
=============================================================================
