----------------------------- MODULE SyncTasks -----------------------------
(***************************************************************************)
(* How one synchronization waits for the others and for restic: the promise *)
(* chains and the write lock of SyncLocks.ts, and the runner of             *)
(* ResticClient.ts that starts restic processes and stops them on a timeout,*)
(* on a disconnect of the client or on too much output.                     *)
(*                                                                         *)
(* A synchronization is ordered in its replica (SyncQueueRun), runs restic  *)
(* commands, and writes in a section that is ordered in its replica and     *)
(* exclusive over all replicas (ProjectWriteLocksRun).  A secret edit is    *)
(* only such a section.  ProjectSync takes both for granted.                *)
(***************************************************************************)
EXTENDS Naturals

CONSTANTS
    Calls,        \* of SyncQueueRun (operations) and ProjectWriteLocksRun (edits)
    Edits,        \* those of ProjectWriteLocksRun alone
    Replicas, Projects,
    Chain,        \* the replica and the project of each call
    NoCall, NoProcess,
    MaxCommands   \* bound: restic commands of one operation

Chains == Replicas \X Projects

ASSUME CallsAreGiven == Edits \subseteq Calls /\ Chain \in [Calls -> Chains]
ASSUME Nulls == NoCall \notin Calls /\ MaxCommands \in Nat

VARIABLES
    syncChains,   \* call whose tail promise is in the map, per replica and project
    writeChains,
    dbLock,       \* call that holds the advisory lock, per project
    call,
    process       \* the restic process of a call

vars == <<syncChains, writeChains, dbLock, call, process>>

\* pc: not made; waiting for its turn; its code runs; awaiting restic; waiting
\* for its turn in the write chain; waiting for the advisory lock; writing;
\* ended.  syncBehind and writeBehind: the call whose tail it was chained to.
Call ==
    [pc : {"idle", "queued", "running", "restic", "write_queued", "locking",
           "writing", "ended"},
     syncBehind : Calls \cup {NoCall}, writeBehind : Calls \cup {NoCall},
     wrote : BOOLEAN, connected : BOOLEAN, commands : 0 .. MaxCommands]

\* listing: a command whose output is read in full (snapshots), the others are
\* backup and restore.  code is that of the exit, NoCode before it.
Process ==
    [listing : BOOLEAN, code : {"none", "zero", "other", "signal"},
     terminated : BOOLEAN, killTimer : {"unset", "set", "fired"},
     timedOut : BOOLEAN, aborted : BOOLEAN, truncated : BOOLEAN]

ASSUME NoProcessIsNone == NoProcess \notin Process
ASSUME NoCallIsNoPlace ==
    NoCall \notin [key : Chains, ahead : SUBSET Calls, turn : {"awaited", "taken"}]

\* A call that has not begun, and one of which nothing matters any more.
NewCall == [pc |-> "idle", syncBehind |-> NoCall, writeBehind |-> NoCall,
            wrote |-> FALSE, connected |-> TRUE, commands |-> 0]

Ended == [NewCall EXCEPT !.pc = "ended"]

TypeOK ==
    /\ syncChains \in [Chains -> Calls \cup {NoCall}]
    /\ writeChains \in [Chains -> Calls \cup {NoCall}]
    /\ dbLock \in [Projects -> Calls \cup {NoCall}]
    /\ call \in [Calls -> Call]
    /\ process \in [Calls -> Process \cup {NoProcess}]
    /\ \A c \in Calls :
          /\ call[c].pc = "restic" => process[c] # NoProcess
          /\ c \in Edits => call[c].pc \notin {"queued", "running", "restic"}

Init ==
    /\ syncChains = [k \in Chains |-> NoCall]
    /\ writeChains = [k \in Chains |-> NoCall]
    /\ dbLock = [p \in Projects |-> NoCall]
    /\ call = [c \in Calls |-> NewCall]
    /\ process = [c \in Calls |-> NoProcess]

At(c, pc) == call[c].pc = pc

Goto(c, pc) == call' = [call EXCEPT ![c].pc = pc]

-----------------------------------------------------------------------------
(* runInChain *)

\* Mutant: the entry is deleted without looking whose tail it is.
Dropped(chains, c) == [chains EXCEPT ![Chain[c]] = NoCall]

\* Mutant: the entry is never deleted.
Kept(chains, c) == chains

\* The tail of c has resolved: its entry goes unless it has been replaced.
Released(chains, c) ==
    [chains EXCEPT ![Chain[c]] = IF @ = c THEN NoCall ELSE @]

\* SyncQueueRun, of an operation; an edit begins with its write section.
Request(c) ==
    /\ At(c, "idle")
    /\ \/ /\ c \notin Edits
          /\ call' = [call EXCEPT ![c].pc = "queued",
                                  ![c].syncBehind = syncChains[Chain[c]]]
          /\ syncChains' = [syncChains EXCEPT ![Chain[c]] = c]
          /\ UNCHANGED writeChains
       \/ /\ c \in Edits
          /\ call' = [call EXCEPT ![c].pc = "write_queued",
                                  ![c].writeBehind = writeChains[Chain[c]]]
          /\ writeChains' = [writeChains EXCEPT ![Chain[c]] = c]
          /\ UNCHANGED syncChains
    /\ UNCHANGED <<dbLock, process>>

\* Mutant: the next operation starts when the last has written.
SyncTailWrote(c) == c # NoCall => (call[c].wrote \/ At(c, "ended"))

\* A tail resolves when its call has ended, however it did.
SyncTailDone(c) == c # NoCall => At(c, "ended")

WriteTailDone(c) == c # NoCall => (call[c].wrote \/ At(c, "ended"))

Start(c) ==
    /\ At(c, "queued") /\ SyncTailDone(call[c].syncBehind)
    /\ call' = [call EXCEPT ![c].pc = "running", ![c].syncBehind = NoCall]
    /\ UNCHANGED <<syncChains, writeChains, dbLock, process>>

\* The operation returns or throws.
End(c) ==
    /\ At(c, "running")
    /\ call' = [call EXCEPT ![c] = Ended]
    /\ syncChains' = Released(syncChains, c)
    /\ UNCHANGED <<writeChains, dbLock, process>>

-----------------------------------------------------------------------------
(* ProjectWriteLocksRun *)

EnterWriteChain(c) ==
    /\ At(c, "running") /\ ~call[c].wrote
    /\ call' = [call EXCEPT ![c].pc = "write_queued",
                            ![c].writeBehind = writeChains[Chain[c]]]
    /\ writeChains' = [writeChains EXCEPT ![Chain[c]] = c]
    /\ UNCHANGED <<syncChains, dbLock, process>>

StartWrite(c) ==
    /\ At(c, "write_queued") /\ WriteTailDone(call[c].writeBehind)
    /\ call' = [call EXCEPT ![c].pc = "locking", ![c].writeBehind = NoCall]
    /\ UNCHANGED <<syncChains, writeChains, dbLock, process>>

Project(c) == Chain[c][2]

\* Mutant: the callback runs directly.
LockedAlways(p) == TRUE

DbLockFree(p) == dbLock[p] = NoCall

Lock(c) ==
    /\ At(c, "locking") /\ DbLockFree(Project(c))
    /\ dbLock' = [dbLock EXCEPT ![Project(c)] = c]
    /\ Goto(c, "writing")
    /\ UNCHANGED <<syncChains, writeChains, process>>

\* Mutant: an edit goes on as if it were an operation.
AfterAnyWrite(c) == [call[c] EXCEPT !.pc = "running", !.wrote = TRUE]

AfterWrite(c) ==
    IF c \in Edits THEN Ended
    ELSE [call[c] EXCEPT !.pc = "running", !.wrote = TRUE]

\* The section is over, or was rejected; an operation goes on.
LeaveWrite(c) ==
    /\ call' = [call EXCEPT ![c] = AfterWrite(c)]
    /\ writeChains' = Released(writeChains, c)
    /\ UNCHANGED <<syncChains, process>>

LockFails(c) ==
    /\ At(c, "locking")
    /\ LeaveWrite(c)
    /\ UNCHANGED dbLock

EndWrite(c) ==
    /\ At(c, "writing")
    /\ dbLock' = [dbLock EXCEPT ![Project(c)] = NoCall]
    /\ LeaveWrite(c)

-----------------------------------------------------------------------------
(* defaultResticRunner *)

Alive(p) == p.code = "none"

\* Mutant: SIGTERM alone.
Asked(p) == IF Alive(p) THEN [p EXCEPT !.terminated = TRUE] ELSE p

\* terminate: SIGTERM, and the timer for SIGKILL unless there is one.
Terminate(p) ==
    IF ~Alive(p) THEN p
    ELSE [p EXCEPT !.terminated = TRUE,
                   !.killTimer = IF @ = "unset" THEN "set" ELSE @]

OnAbort(p) == Terminate([p EXCEPT !.aborted = TRUE])

\* A signal that has been aborted already stops the new process at once.
Spawn(c) ==
    /\ At(c, "running") /\ ~call[c].wrote /\ call[c].commands < MaxCommands
    /\ call' = [call EXCEPT ![c].pc = "restic", ![c].commands = @ + 1]
    /\ \E listing \in BOOLEAN :
          LET p == [listing |-> listing, code |-> "none", terminated |-> FALSE,
                    killTimer |-> "unset", timedOut |-> FALSE,
                    aborted |-> FALSE, truncated |-> FALSE]
          IN  process' = [process EXCEPT ![c] =
                  IF call[c].connected THEN p ELSE OnAbort(p)]
    /\ UNCHANGED <<syncChains, writeChains, dbLock>>

\* RequestAbortSignal: the connection closes before the answer is complete.
Disconnect(c) ==
    /\ ~At(c, "idle") /\ ~At(c, "ended") /\ call[c].connected /\ c \notin Edits
    /\ call' = [call EXCEPT ![c].connected = FALSE]
    /\ process' = [process EXCEPT ![c] = IF At(c, "restic") THEN OnAbort(@) ELSE @]
    /\ UNCHANGED <<syncChains, writeChains, dbLock>>

Runs(c) == At(c, "restic")

SetProcess(c, p) ==
    /\ process' = [process EXCEPT ![c] = p]
    /\ UNCHANGED <<syncChains, writeChains, dbLock, call>>

Timeout(c) ==
    /\ Runs(c) /\ ~process[c].timedOut
    /\ SetProcess(c, Terminate([process[c] EXCEPT !.timedOut = TRUE]))

KillTimer(c) ==
    /\ Runs(c) /\ process[c].killTimer = "set"
    /\ SetProcess(c, [process[c] EXCEPT !.killTimer = "fired"])

\* More output than maxOutputBytes; it may be read after the exit.
TooMuchOutput(c) ==
    /\ Runs(c) /\ ~process[c].truncated
    /\ SetProcess(c, Terminate([process[c] EXCEPT !.truncated = TRUE]))

\* The process ends by itself, or by a signal it was sent.
Exit(c, code) ==
    /\ process[c] # NoProcess /\ Alive(process[c])
    /\ code = "signal" => process[c].terminated
    /\ SetProcess(c, [process[c] EXCEPT !.code = code])

\* Mutant: the promise is settled as soon as the process has been told to end.
Signalled(p) == ~Alive(p) \/ p.terminated

\* settle: when the process has ended and its pipes are closed.
Closed(p) == ~Alive(p)

\* runOperation and its callers: what is thrown; backup and restore look at
\* the exit code alone, also when what they read was cut off.
Result(p) ==
    CASE p.timedOut -> "timeout"
      [] p.aborted /\ ~p.timedOut -> "cancelled"
      [] ~p.aborted /\ ~p.timedOut /\ p.truncated /\ p.listing -> "limit"
      [] OTHER -> IF p.code = "zero" THEN "ok" ELSE "failed"

\* A failed command need not end the operation: the repository may be new.
Settle(c) ==
    /\ Runs(c) /\ Closed(process[c])
    /\ process' = [process EXCEPT ![c] = IF Alive(@) THEN @ ELSE NoProcess]
    /\ \/ /\ Result(process[c]) \in {"ok", "failed"}
          /\ Goto(c, "running")
          /\ UNCHANGED syncChains
       \/ /\ Result(process[c]) # "ok"
          /\ call' = [call EXCEPT ![c] = Ended]
          /\ syncChains' = Released(syncChains, c)
    /\ UNCHANGED <<writeChains, dbLock>>

-----------------------------------------------------------------------------
\* A replica dies: its chains go with it, the database ends its sessions.  Its
\* restic processes are no longer looked after.
Crash(r) ==
    LET dead == {c \in Calls : Chain[c][1] = r /\ ~At(c, "idle")
                               /\ ~At(c, "ended")}
    IN
    /\ dead # {}
    /\ syncChains' = [k \in Chains |-> IF k[1] = r THEN NoCall ELSE syncChains[k]]
    /\ writeChains' = [k \in Chains |-> IF k[1] = r THEN NoCall ELSE writeChains[k]]
    /\ dbLock' = [p \in Projects |-> IF dbLock[p] \in dead THEN NoCall ELSE dbLock[p]]
    /\ call' = [c \in Calls |->
           IF c \in dead THEN Ended ELSE call[c]]
    /\ process' = [c \in Calls |-> IF c \in dead THEN NoProcess ELSE process[c]]

Proceed(c) == EnterWriteChain(c) \/ End(c)

Next ==
    \/ \E c \in Calls :
          \/ Request(c) \/ Start(c) \/ End(c)
          \/ EnterWriteChain(c) \/ StartWrite(c) \/ Lock(c) \/ LockFails(c)
          \/ EndWrite(c)
          \/ Spawn(c) \/ Disconnect(c) \/ Timeout(c) \/ KillTimer(c)
          \/ TooMuchOutput(c) \/ Settle(c)
          \/ \E code \in {"zero", "other", "signal"} : Exit(c, code)
    \/ \E r \in Replicas : Crash(r)

Spec == Init /\ [][Next]_vars

\* The event loop runs what is due, timers fire, a killed process ends, and
\* the code between two awaits and a database section come to their end.  A
\* restic process alone need never end.
KilledEnds(c) ==
    process[c] # NoProcess /\ process[c].killTimer = "fired" /\ Exit(c, "signal")

Fairness ==
    \A c \in Calls :
        /\ WF_vars(Start(c)) /\ WF_vars(Proceed(c))
        /\ WF_vars(StartWrite(c)) /\ WF_vars(Lock(c)) /\ WF_vars(EndWrite(c))
        /\ WF_vars(Timeout(c)) /\ WF_vars(KillTimer(c))
        /\ WF_vars(KilledEnds(c)) /\ WF_vars(Settle(c))

FairSpec == Spec /\ Fairness

-----------------------------------------------------------------------------
(* Properties *)

InQueue(c) == c \notin Edits /\ ~At(c, "idle") /\ ~At(c, "ended")
InWrite(c) == call[c].pc \in {"write_queued", "locking", "writing"}

\* The call that each call still waits for, if any.
SyncWaits ==
    [c \in Calls |-> IF SyncTailDone(call[c].syncBehind) THEN NoCall
                    ELSE call[c].syncBehind]

WriteWaits ==
    [c \in Calls |-> IF WriteTailDone(call[c].writeBehind) THEN NoCall
                    ELSE call[c].writeBehind]

\* S holds whom c waits for, whom that call waits for, and so on.
HoldsAhead(waits, c, S) ==
    \A e \in S \cup {c} : waits[e] # NoCall => waits[e] \in S

Ahead(waits, c) ==
    {d \in Calls : \A S \in SUBSET Calls : HoldsAhead(waits, c, S) => d \in S}

PlaceOf(waits, members, running) ==
    [c \in Calls |->
        IF c \in members
        THEN [key |-> Chain[c], ahead |-> Ahead(waits, c),
              turn |-> IF c \in running THEN "taken" ELSE "awaited"]
        ELSE NoCall]

Queued == {c \in Calls : InQueue(c)}
QueueRunning == {c \in Queued : ~At(c, "queued")}
Writers == {c \in Calls : InWrite(c)}
WritersRunning == {c \in Writers : ~At(c, "write_queued")}

SyncPlace == PlaceOf(SyncWaits, Queued, QueueRunning)
WritePlace == PlaceOf(WriteWaits, Writers, WritersRunning)

Queue == INSTANCE Turns WITH Keys <- Chains, Out <- NoCall, place <- SyncPlace
Sections == INSTANCE Turns WITH Keys <- Chains, Out <- NoCall, place <- WritePlace

\* The operations of a project on one replica run one at a time in the order
\* of their requests, through rejections, timeouts, disconnects and crashes
\* of that or of another replica.  So do the write sections, which join from
\* inside queued operations and from edits.
CallsTakeTurns == Queue!Spec /\ Sections!Spec

\* An entry of the maps is there exactly while a call of its chain is not
\* done: none is deleted under a waiting call and none stays behind.
ChainsAreKept ==
    \A k \in Chains :
        /\ (syncChains[k] # NoCall) = (\E c \in Calls : InQueue(c) /\ Chain[c] = k)
        /\ (writeChains[k] # NoCall) = (\E c \in Calls : InWrite(c) /\ Chain[c] = k)

\* Write sections of a project exclude each other over all replicas.
SectionsExclude ==
    \A c, d \in Calls :
        c # d /\ At(c, "writing") /\ At(d, "writing") => Project(c) # Project(d)

\* No restic process runs without an operation that waits for it, so never two
\* of them for one project on one replica.
NoProcessLeftBehind ==
    \A c \in Calls : process[c] # NoProcess /\ Alive(process[c]) => At(c, "restic")

\* Every call ends, although restic may hang and ignore SIGTERM.
EveryCallEnds == \A c \in Calls : ~At(c, "idle") ~> At(c, "ended")
=============================================================================
