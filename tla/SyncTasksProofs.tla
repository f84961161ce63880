-------------------------- MODULE SyncTasksProofs --------------------------
(***************************************************************************)
(* Proofs about SyncTasks: its states are well typed; the call that writes  *)
(* holds the advisory lock of its project, so that two write sections of a  *)
(* project exclude each other; a restic process is there only while its     *)
(* call waits for it; and the two families of promise chains implement      *)
(* Turns.  For the last one a family is described by whom each call waits   *)
(* for, who runs and the tails (ChainsHold), and the effects of a call that *)
(* joins, starts, leaves or dies on it are shown once for both families.    *)
(***************************************************************************)
EXTENDS SyncTasks, TLAPS

-----------------------------------------------------------------------------
(* Types *)

LEMMA ChainsAreTyped ==
  ASSUME NEW c \in Calls
  PROVE  Chain[c] \in Chains /\ Chain[c][1] \in Replicas /\ Project(c) \in Projects
BY CallsAreGiven DEF Chains, Project

LEMMA EndedIsTyped == Ended \in Call /\ Ended.pc = "ended"
<1>1. NewCall \in Call
  BY Nulls DEF NewCall, Call
<1> QED
  BY <1>1 DEF Ended, Call

LEMMA ReleasedIsTyped ==
  ASSUME NEW chains \in [Chains -> Calls \cup {NoCall}], NEW c \in Calls
  PROVE  Released(chains, c) \in [Chains -> Calls \cup {NoCall}]
BY ChainsAreTyped DEF Released

LEMMA TerminateIsTyped ==
  ASSUME NEW p \in Process
  PROVE  Terminate(p) \in Process /\ OnAbort(p) \in Process
<1>1. ASSUME NEW q \in Process PROVE Terminate(q) \in Process
  BY DEF Terminate, Process
<1>2. [p EXCEPT !.aborted = TRUE] \in Process
  BY DEF Process
<1> QED
  BY <1>1, <1>2 DEF OnAbort

LEMMA InitIsTyped == Init => TypeOK
BY Nulls DEF Init, TypeOK, Call, Chains, NewCall

LEMMA QueueIsTyped ==
  ASSUME TypeOK, NEW c \in Calls,
         Request(c) \/ Start(c) \/ End(c) \/ EnterWriteChain(c)
  PROVE  TypeOK'
<1>1. Chain[c] \in Chains /\ call[c] \in Call
  BY ChainsAreTyped DEF TypeOK
<1>2. ASSUME NEW n \in Call, call' = [call EXCEPT ![c] = n], n.pc # "restic",
             c \in Edits => n.pc \notin {"queued", "running", "restic"},
             UNCHANGED <<dbLock, process>>,
             syncChains' \in [Chains -> Calls \cup {NoCall}],
             writeChains' \in [Chains -> Calls \cup {NoCall}]
      PROVE  TypeOK'
  BY <1>2 DEF TypeOK
<1>3. CASE Request(c)
  <2>1. CASE c \notin Edits
    <3>1. [call[c] EXCEPT !.pc = "queued", !.syncBehind = syncChains[Chain[c]]] \in Call
      BY <1>1 DEF TypeOK, Call
    <3> QED
      BY <1>1, <1>2, <1>3, <2>1, <3>1 DEF Request, TypeOK, Call
  <2>2. CASE c \in Edits
    <3>1. [call[c] EXCEPT !.pc = "write_queued", !.writeBehind = writeChains[Chain[c]]] \in Call
      BY <1>1 DEF TypeOK, Call
    <3> QED
      BY <1>1, <1>2, <1>3, <2>2, <3>1 DEF Request, TypeOK, Call
  <2> QED
    BY <2>1, <2>2
<1>4. CASE Start(c)
  <2>1. [call[c] EXCEPT !.pc = "running", !.syncBehind = NoCall] \in Call
    BY <1>1 DEF TypeOK, Call
  <2> QED
    BY <1>1, <1>2, <1>4, <2>1 DEF Start, At, TypeOK, Call
<1>5. CASE End(c)
  BY <1>2, <1>5, EndedIsTyped, ReleasedIsTyped DEF End, TypeOK
<1>6. CASE EnterWriteChain(c)
  <2>1. [call[c] EXCEPT !.pc = "write_queued", !.writeBehind = writeChains[Chain[c]]] \in Call
    BY <1>1 DEF TypeOK, Call
  <2> QED
    BY <1>1, <1>2, <1>6, <2>1 DEF EnterWriteChain, TypeOK, Call
<1> QED
  BY <1>3, <1>4, <1>5, <1>6

LEMMA AfterWriteIsTyped ==
  ASSUME TypeOK, NEW c \in Calls
  PROVE  /\ AfterWrite(c) \in Call
         /\ AfterWrite(c).pc = IF c \in Edits THEN "ended" ELSE "running"
<1>1. call[c] \in Call
  BY DEF TypeOK
<1> QED
  BY <1>1, EndedIsTyped DEF AfterWrite, Call

LEMMA WriteIsTyped ==
  ASSUME TypeOK, NEW c \in Calls,
         StartWrite(c) \/ Lock(c) \/ LockFails(c) \/ EndWrite(c)
  PROVE  TypeOK'
<1>1. Chain[c] \in Chains /\ Project(c) \in Projects /\ call[c] \in Call
  BY ChainsAreTyped DEF TypeOK
<1>2. ASSUME NEW n \in Call, call' = [call EXCEPT ![c] = n], n.pc # "restic",
             c \in Edits => n.pc \notin {"queued", "running", "restic"},
             UNCHANGED <<syncChains, process>>,
             dbLock' \in [Projects -> Calls \cup {NoCall}],
             writeChains' \in [Chains -> Calls \cup {NoCall}]
      PROVE  TypeOK'
  BY <1>2 DEF TypeOK
<1>3. CASE StartWrite(c)
  <2>1. [call[c] EXCEPT !.pc = "locking", !.writeBehind = NoCall] \in Call
    BY <1>1 DEF Call
  <2> QED
    BY <1>1, <1>2, <1>3, <2>1 DEF StartWrite, TypeOK, Call
<1>4. CASE Lock(c)
  <2>1. [call[c] EXCEPT !.pc = "writing"] \in Call
    BY <1>1 DEF Call
  <2>2. dbLock' \in [Projects -> Calls \cup {NoCall}]
    BY <1>1, <1>4 DEF Lock, TypeOK
  <2> QED
    BY <1>1, <1>2, <1>4, <2>1, <2>2 DEF Lock, Goto, TypeOK, Call
<1>5. CASE LockFails(c)
  BY <1>2, <1>5, AfterWriteIsTyped, ReleasedIsTyped DEF LockFails, LeaveWrite, TypeOK
<1>6. CASE EndWrite(c)
  <2>1. dbLock' \in [Projects -> Calls \cup {NoCall}]
    BY <1>1, <1>6 DEF EndWrite, TypeOK
  <2> QED
    BY <1>2, <1>6, <2>1, AfterWriteIsTyped, ReleasedIsTyped DEF EndWrite, LeaveWrite, TypeOK
<1> QED
  BY <1>3, <1>4, <1>5, <1>6

LEMMA ProcessIsTyped ==
  ASSUME TypeOK, NEW c \in Calls,
         \/ Disconnect(c) \/ Timeout(c) \/ KillTimer(c) \/ TooMuchOutput(c)
         \/ \E code \in {"zero", "other", "signal"} : Exit(c, code)
  PROVE  TypeOK'
<1>1. process[c] # NoProcess => process[c] \in Process
  BY DEF TypeOK
<1>2. Runs(c) => process[c] \in Process
  BY <1>1 DEF Runs, At, TypeOK
<1>3. ASSUME NEW p \in Process, SetProcess(c, p)
      PROVE  TypeOK'
  BY <1>3, NoProcessIsNone DEF SetProcess, TypeOK
<1>4. CASE Disconnect(c)
  <2>1. [call[c] EXCEPT !.connected = FALSE] \in Call
        /\ [call[c] EXCEPT !.connected = FALSE].pc = call[c].pc
    BY DEF TypeOK, Call
  <2>2. call' = [call EXCEPT ![c] = [call[c] EXCEPT !.connected = FALSE]]
    BY <1>4 DEF Disconnect
  <2>3. \A d \in Calls : call'[d] \in Call /\ call'[d].pc = call[d].pc
    BY <2>1, <2>2 DEF TypeOK
  <2>4. CASE At(c, "restic")
    <3>1. OnAbort(process[c]) \in Process
      BY <1>2, <2>4, TerminateIsTyped DEF Runs
    <3>2. process' = [process EXCEPT ![c] = OnAbort(process[c])]
      BY <1>4, <2>4 DEF Disconnect
    <3> QED
      BY <1>4, <2>2, <2>3, <3>1, <3>2, NoProcessIsNone DEF Disconnect, TypeOK
  <2>5. CASE ~At(c, "restic")
    <3>1. process' = process
      BY <1>4, <2>5 DEF Disconnect, TypeOK
    <3> QED
      BY <1>4, <2>2, <2>3, <3>1 DEF Disconnect, TypeOK
  <2> QED
    BY <2>4, <2>5
<1>5. CASE Timeout(c)
  <2>1. [process[c] EXCEPT !.timedOut = TRUE] \in Process
    BY <1>2, <1>5 DEF Timeout, Process
  <2> QED
    BY <1>3, <1>5, <2>1, TerminateIsTyped DEF Timeout
<1>6. CASE KillTimer(c)
  <2>1. [process[c] EXCEPT !.killTimer = "fired"] \in Process
    BY <1>2, <1>6 DEF KillTimer, Process
  <2> QED
    BY <1>3, <1>6, <2>1 DEF KillTimer
<1>7. CASE TooMuchOutput(c)
  <2>1. [process[c] EXCEPT !.truncated = TRUE] \in Process
    BY <1>2, <1>7 DEF TooMuchOutput, Process
  <2> QED
    BY <1>3, <1>7, <2>1, TerminateIsTyped DEF TooMuchOutput
<1>8. ASSUME NEW code \in {"zero", "other", "signal"}, Exit(c, code)
      PROVE  TypeOK'
  <2>1. [process[c] EXCEPT !.code = code] \in Process
    BY <1>1, <1>8 DEF Exit, Process
  <2> QED
    BY <1>3, <1>8, <2>1 DEF Exit
<1> QED
  BY <1>4, <1>5, <1>6, <1>7, <1>8

LEMMA ResticIsTyped ==
  ASSUME TypeOK, NEW c \in Calls, Spawn(c) \/ Settle(c)
  PROVE  TypeOK'
<1>1. call[c] \in Call
  BY DEF TypeOK
<1>2. CASE Spawn(c)
  <2> DEFINE p(listing) ==
               [listing |-> listing, code |-> "none", terminated |-> FALSE,
                killTimer |-> "unset", timedOut |-> FALSE,
                aborted |-> FALSE, truncated |-> FALSE]
             n == [call[c] EXCEPT !.pc = "restic", !.commands = @ + 1]
  <2>1. \A listing \in BOOLEAN : p(listing) \in Process
    BY DEF Process
  <2>2. \A listing \in BOOLEAN : OnAbort(p(listing)) \in Process
    BY <2>1, TerminateIsTyped
  <2>3. n \in Call
    <3>1. call[c].commands + 1 \in 0 .. MaxCommands
      BY <1>1, <1>2, Nulls DEF Spawn, Call
    <3> QED
      BY <1>1, <3>1 DEF Call
  <2>4. call' = [call EXCEPT ![c] = n] /\ UNCHANGED <<syncChains, writeChains, dbLock>>
    BY <1>2 DEF Spawn
  <2>5. c \notin Edits
    BY <1>2 DEF Spawn, At, TypeOK
  <2>6. \A d \in Calls : call'[d] \in Call
    BY <2>3, <2>4 DEF TypeOK
  <2>7. PICK q \in Process : process' = [process EXCEPT ![c] = q]
    <3>1. \E listing \in BOOLEAN :
             process' = [process EXCEPT ![c] =
                            IF call[c].connected THEN p(listing) ELSE OnAbort(p(listing))]
      BY <1>2, Zenon DEF Spawn
    <3> HIDE DEF p
    <3> QED
      BY <2>1, <2>2, <3>1
  <2>8. /\ process' \in [Calls -> Process \cup {NoProcess}]
        /\ process'[c] # NoProcess /\ \A d \in Calls \ {c} : process'[d] = process[d]
    BY <2>7, NoProcessIsNone DEF TypeOK
  <2> QED
    BY <2>4, <2>5, <2>6, <2>8 DEF TypeOK
<1>3. CASE Settle(c)
  <2>1. ~Alive(process[c]) /\ process' = [process EXCEPT ![c] = NoProcess]
        /\ c \notin Edits /\ UNCHANGED <<writeChains, dbLock>>
    BY <1>3 DEF Settle, Closed, Runs, At, TypeOK
  <2>2. CASE Goto(c, "running") /\ UNCHANGED syncChains
    <3>1. [call[c] EXCEPT !.pc = "running"] \in Call
      BY <1>1 DEF Call
    <3> QED
      BY <1>1, <2>1, <2>2, <3>1 DEF Goto, TypeOK, Call
  <2>3. CASE call' = [call EXCEPT ![c] = Ended] /\ syncChains' = Released(syncChains, c)
    BY <2>1, <2>3, EndedIsTyped, ReleasedIsTyped DEF TypeOK
  <2> QED
    BY <1>3, <2>2, <2>3 DEF Settle
<1> QED
  BY <1>2, <1>3

LEMMA CrashIsTyped ==
  ASSUME TypeOK, NEW r \in Replicas, Crash(r)
  PROVE  TypeOK'
<1>1. /\ syncChains' \in [Chains -> Calls \cup {NoCall}]
      /\ writeChains' \in [Chains -> Calls \cup {NoCall}]
      /\ dbLock' \in [Projects -> Calls \cup {NoCall}]
      /\ process' \in [Calls -> Process \cup {NoProcess}]
  BY DEF Crash, TypeOK
<1>2. ASSUME NEW c \in Calls
      PROVE  \/ call'[c] = Ended
             \/ call'[c] = call[c] /\ process'[c] = process[c]
  BY DEF Crash
<1>3. call' \in [Calls -> Call]
  <2>1. \A c \in Calls : call'[c] \in Call
    BY <1>2, EndedIsTyped DEF TypeOK
  <2> QED
    BY <2>1 DEF Crash
<1> QED
  BY <1>1, <1>2, <1>3, EndedIsTyped DEF TypeOK

\* Every state is well typed; a call that awaits restic has a process, and an
\* edit never runs restic.
THEOREM TypesAreKept == Spec => []TypeOK
<1>1. TypeOK /\ [Next]_vars => TypeOK'
  <2> SUFFICES ASSUME TypeOK, [Next]_vars PROVE TypeOK'
    OBVIOUS
  <2>1. CASE UNCHANGED vars
    BY <2>1 DEF vars, TypeOK
  <2> QED
    BY <2>1, QueueIsTyped, WriteIsTyped, ProcessIsTyped, ResticIsTyped, CrashIsTyped DEF Next
<1> QED
  BY <1>1, InitIsTyped, PTL DEF Spec

-----------------------------------------------------------------------------
(* The write section and the process *)

\* Who writes holds the lock; who has a process waits for it.
HoldersAreRight ==
    \A c \in Calls :
        /\ At(c, "writing") => dbLock[Project(c)] = c
        /\ process[c] # NoProcess => At(c, "restic")

LEMMA StepsKeepHolders ==
  ASSUME TypeOK, TypeOK', HoldersAreRight, [Next]_vars
  PROVE  HoldersAreRight'
<1>1. \A c \in Calls : Project(c) \in Projects
  BY ChainsAreTyped
<1>2. ASSUME NEW c \in Calls,
             \A d \in Calls \ {c} : call'[d] = call[d] /\ process'[d] = process[d],
             At(c, "writing")' => dbLock'[Project(c)] = c,
             process'[c] # NoProcess => At(c, "restic")',
             \A p \in Projects : dbLock'[p] = dbLock[p] \/ dbLock[p] \in {c, NoCall}
      PROVE  HoldersAreRight'
  BY <1>1, <1>2, Nulls DEF HoldersAreRight, At
<1>3. ASSUME NEW c \in Calls,
             Request(c) \/ Start(c) \/ End(c) \/ EnterWriteChain(c) \/ StartWrite(c)
      PROVE  HoldersAreRight'
  <2>1. process[c] = NoProcess
    BY <1>3 DEF HoldersAreRight, Request, Start, End, EnterWriteChain, StartWrite, At
  <2>2. call'[c].pc \in {"queued", "write_queued", "running", "ended", "locking"}
    BY <1>3, EndedIsTyped
       DEF Request, Start, End, EnterWriteChain, StartWrite, TypeOK, Call
  <2> QED
    BY <1>2, <1>3, <2>1, <2>2
       DEF Request, Start, End, EnterWriteChain, StartWrite, At, TypeOK
<1>4. ASSUME NEW c \in Calls, Lock(c)
      PROVE  HoldersAreRight'
  <2>1. process[c] = NoProcess
    BY <1>4 DEF HoldersAreRight, Lock, At
  <2> QED
    BY <1>1, <1>2, <1>4, <2>1 DEF Lock, DbLockFree, Goto, At, TypeOK
<1>5. ASSUME NEW c \in Calls, LockFails(c) \/ EndWrite(c)
      PROVE  HoldersAreRight'
  <2>1. process[c] = NoProcess
    BY <1>5 DEF HoldersAreRight, LockFails, EndWrite, At
  <2>2. call'[c].pc \in {"running", "ended"}
    BY <1>5, AfterWriteIsTyped DEF LockFails, EndWrite, LeaveWrite, TypeOK
  <2>3. \A p \in Projects : dbLock'[p] = dbLock[p] \/ dbLock[p] = c
    BY <1>1, <1>5 DEF LockFails, EndWrite, HoldersAreRight, TypeOK
  <2> QED
    BY <1>2, <1>5, <2>1, <2>2, <2>3 DEF LockFails, EndWrite, LeaveWrite, At, TypeOK
<1>6. ASSUME NEW c \in Calls, Spawn(c) \/ Settle(c)
      PROVE  HoldersAreRight'
  <2>1. CASE Spawn(c)
    <3>1. call'[c].pc = "restic" /\ \A d \in Calls \ {c} : call'[d] = call[d]
      BY <2>1 DEF Spawn, TypeOK, Call
    <3>2. \A d \in Calls \ {c} : process'[d] = process[d]
      BY <2>1 DEF Spawn, TypeOK
    <3> QED
      BY <1>2, <2>1, <3>1, <3>2 DEF Spawn, At
  <2>2. CASE Settle(c)
    <3>1. call'[c].pc \in {"running", "ended"} /\ \A d \in Calls \ {c} : call'[d] = call[d]
      BY <2>2, EndedIsTyped DEF Settle, Goto, TypeOK, Call
    <3>2. process'[c] = NoProcess /\ \A d \in Calls \ {c} : process'[d] = process[d]
      BY <2>2 DEF Settle, Closed, TypeOK
    <3> QED
      BY <1>2, <2>2, <3>1, <3>2 DEF Settle, At
  <2> QED
    BY <1>6, <2>1, <2>2
<1>7. ASSUME NEW c \in Calls, Disconnect(c)
      PROVE  HoldersAreRight'
  <2>1. call'[c].pc = call[c].pc /\ \A d \in Calls \ {c} : call'[d] = call[d]
    BY <1>7 DEF Disconnect, TypeOK, Call
  <2>2. At(c, "restic") \/ process'[c] = process[c]
    BY <1>7 DEF Disconnect, TypeOK
  <2> QED
    BY <1>2, <1>7, <2>1, <2>2 DEF Disconnect, At, HoldersAreRight, TypeOK
<1>8. ASSUME NEW c \in Calls,
             \/ Timeout(c) \/ KillTimer(c) \/ TooMuchOutput(c)
             \/ \E code \in {"zero", "other", "signal"} : Exit(c, code)
      PROVE  HoldersAreRight'
  <2>1. At(c, "restic")
    BY <1>8 DEF Timeout, KillTimer, TooMuchOutput, Exit, Runs, HoldersAreRight
  <2>2. UNCHANGED <<call, dbLock>> /\ \A d \in Calls \ {c} : process'[d] = process[d]
    BY <1>8 DEF Timeout, KillTimer, TooMuchOutput, Exit, SetProcess, TypeOK
  <2> QED
    BY <1>2, <2>1, <2>2 DEF At, HoldersAreRight
<1>9. ASSUME NEW r \in Replicas, Crash(r)
      PROVE  HoldersAreRight'
  <2> DEFINE dead == {c \in Calls : Chain[c][1] = r /\ ~At(c, "idle") /\ ~At(c, "ended")}
  <2>1. \A c \in Calls : /\ c \in dead => call'[c] = Ended /\ process'[c] = NoProcess
                         /\ c \notin dead => call'[c] = call[c] /\ process'[c] = process[c]
    BY <1>9 DEF Crash
  <2>2. \A p \in Projects : dbLock[p] \notin dead => dbLock'[p] = dbLock[p]
    BY <1>9 DEF Crash
  <2> QED
    BY <1>1, <2>1, <2>2, EndedIsTyped DEF HoldersAreRight, At
<1>10. CASE UNCHANGED vars
  BY <1>10 DEF vars, HoldersAreRight, At
<1> QED
  BY <1>3, <1>4, <1>5, <1>6, <1>7, <1>8, <1>9, <1>10 DEF Next

LEMMA HoldersAlwaysRight == Spec => []HoldersAreRight
<1>1. Init => HoldersAreRight
  <2> SUFFICES ASSUME Init, NEW c \in Calls
               PROVE  ~At(c, "writing") /\ process[c] = NoProcess
    BY DEF HoldersAreRight
  <2>1. call[c] = NewCall /\ process[c] = NoProcess
    BY DEF Init
  <2>2. NewCall.pc = "idle"
    BY DEF NewCall
  <2> QED
    BY <2>1, <2>2 DEF At
<1> QED
  BY <1>1, StepsKeepHolders, TypesAreKept, PTL DEF Spec

\* Two calls never write to one project at once, on whatever replicas they are
\* (SectionsExclude): each of them would hold the advisory lock.
THEOREM WritesExcludeEachOther == Spec => []SectionsExclude
<1>1. HoldersAreRight => SectionsExclude
  BY DEF HoldersAreRight, SectionsExclude
<1> QED
  BY <1>1, HoldersAlwaysRight, PTL

\* No restic process runs without the call that waits for it
\* (NoProcessLeftBehind): every way in which a call ends goes through Settle.
THEOREM ProcessesHaveTheirCall == Spec => []NoProcessLeftBehind
<1>1. HoldersAreRight => NoProcessLeftBehind
  BY DEF HoldersAreRight, NoProcessLeftBehind
<1> QED
  BY <1>1, HoldersAlwaysRight, PTL

-----------------------------------------------------------------------------
(* Who is ahead of a call *)

Waits == [Calls -> Calls \cup {NoCall}]

\* The calls ahead are the least set that holds whom the call waits for and
\* whom those wait for.
LEMMA AheadIsLeast ==
  ASSUME NEW b \in Waits, NEW c \in Calls
  PROVE  /\ Ahead(b, c) \in SUBSET Calls
         /\ HoldsAhead(b, c, Ahead(b, c))
         /\ \A S \in SUBSET Calls : HoldsAhead(b, c, S) => Ahead(b, c) \subseteq S
<1>1. HoldsAhead(b, c, Ahead(b, c))
  <2> SUFFICES ASSUME NEW e \in Ahead(b, c) \cup {c}, b[e] # NoCall
               PROVE  b[e] \in Ahead(b, c)
    BY DEF HoldsAhead
  <2>1. b[e] \in Calls
    BY DEF Ahead, Waits
  <2>2. ASSUME NEW S \in SUBSET Calls, HoldsAhead(b, c, S)
        PROVE  b[e] \in S
    <3>1. e \in S \cup {c}
      BY <2>2 DEF Ahead
    <3> QED
      BY <2>2, <3>1 DEF HoldsAhead
  <2> QED
    BY <2>1, <2>2 DEF Ahead
<1> QED
  BY <1>1 DEF Ahead

LEMMA NobodyAhead ==
  ASSUME NEW b \in Waits, NEW c \in Calls, b[c] = NoCall
  PROVE  Ahead(b, c) = {}
<1>1. HoldsAhead(b, c, {})
  BY DEF HoldsAhead
<1> QED
  BY <1>1, AheadIsLeast

LEMMA AheadOfTheNext ==
  ASSUME NEW b \in Waits, NEW c \in Calls, NEW x \in Calls, b[c] = x
  PROVE  Ahead(b, c) = {x} \cup Ahead(b, x)
<1>1. x # NoCall
  BY Nulls
<1>2. HoldsAhead(b, c, {x} \cup Ahead(b, x)) /\ {x} \cup Ahead(b, x) \in SUBSET Calls
  BY AheadIsLeast DEF HoldsAhead
<1>3. x \in Ahead(b, c) /\ HoldsAhead(b, x, Ahead(b, c)) /\ Ahead(b, c) \in SUBSET Calls
  BY <1>1, AheadIsLeast DEF HoldsAhead
<1>4. Ahead(b, c) \subseteq {x} \cup Ahead(b, x)
  BY <1>2, AheadIsLeast
<1>5. Ahead(b, x) \subseteq Ahead(b, c)
  BY <1>3, AheadIsLeast
<1> QED
  BY <1>3, <1>4, <1>5

\* When a call that waits for nobody leaves, it is no longer ahead of anyone.
LEMMA LeavingIsAhead ==
  ASSUME NEW b \in Waits, NEW c \in Calls, b[c] = NoCall, NEW b1 \in Waits,
         \A d \in Calls : b1[d] = IF b[d] = c THEN NoCall ELSE b[d],
         NEW e \in Calls
  PROVE  Ahead(b1, e) = Ahead(b, e) \ {c}
<1>1. HoldsAhead(b1, e, Ahead(b, e) \ {c}) /\ Ahead(b, e) \ {c} \in SUBSET Calls
  BY AheadIsLeast DEF HoldsAhead
<1>2. HoldsAhead(b, e, Ahead(b1, e) \cup {c}) /\ Ahead(b1, e) \cup {c} \in SUBSET Calls
  BY AheadIsLeast DEF HoldsAhead
<1>3. Ahead(b1, e) \subseteq Ahead(b, e) \ {c}
  BY <1>1, AheadIsLeast
<1>4. Ahead(b, e) \subseteq Ahead(b1, e) \cup {c}
  BY <1>2, AheadIsLeast
<1> QED
  BY <1>3, <1>4

\* What calls in D wait for is no matter to a call outside of it that waits,
\* as all those ahead of it do, for nobody in D.
LEMMA AheadOutside ==
  ASSUME NEW b \in Waits, NEW b1 \in Waits, NEW D \in SUBSET Calls,
         \A d \in Calls \ D : b1[d] = b[d] /\ b[d] \notin D,
         NEW e \in Calls \ D
  PROVE  Ahead(b1, e) = Ahead(b, e) /\ Ahead(b, e) \cap D = {}
<1>1. ASSUME NEW w \in Waits, \A d \in Calls \ D : w[d] \notin D
      PROVE  Ahead(w, e) \cap D = {} /\ Ahead(w, e) \in SUBSET Calls
                 /\ HoldsAhead(w, e, Ahead(w, e))
  <2>1. HoldsAhead(w, e, Calls \ D)
    BY <1>1 DEF HoldsAhead, Waits
  <2>2. Ahead(w, e) \subseteq Calls \ D
    BY <2>1, AheadIsLeast
  <2> QED
    BY <2>2, AheadIsLeast
<1>2. Ahead(b, e) \cap D = {} /\ Ahead(b, e) \in SUBSET Calls
          /\ HoldsAhead(b, e, Ahead(b, e))
  BY <1>1
<1>3. Ahead(b1, e) \cap D = {} /\ Ahead(b1, e) \in SUBSET Calls
          /\ HoldsAhead(b1, e, Ahead(b1, e))
  BY <1>1
<1>4. HoldsAhead(b1, e, Ahead(b, e)) /\ HoldsAhead(b, e, Ahead(b1, e))
  BY <1>2, <1>3 DEF HoldsAhead
<1> QED
  BY <1>2, <1>3, <1>4, AheadIsLeast

-----------------------------------------------------------------------------
(* A family of chains *)

\* Calls wait within their chain for one that is not done; the tail is the
\* last of its chain, so that all others are ahead of it.
ChainsHold(b, members, running, tails) ==
    /\ \A c \in Calls : b[c] # NoCall =>
          /\ c \in members \ running
          /\ b[c] \in members /\ Chain[b[c]] = Chain[c]
    /\ \A c \in members :
          /\ tails[Chain[c]] # NoCall
          /\ c = tails[Chain[c]] \/ c \in Ahead(b, tails[Chain[c]])
    /\ \A k \in Chains : tails[k] # NoCall => tails[k] \in members /\ Chain[tails[k]] = k

LEMMA AheadIsInTheChain ==
  ASSUME NEW b \in Waits, NEW c \in Calls, NEW members \in SUBSET Calls,
         \A d \in Calls : b[d] # NoCall => b[d] \in members /\ Chain[b[d]] = Chain[d]
  PROVE  Ahead(b, c) \subseteq {d \in members : Chain[d] = Chain[c]}
<1>1. HoldsAhead(b, c, {d \in members : Chain[d] = Chain[c]})
  BY DEF HoldsAhead
<1> QED
  BY <1>1, AheadIsLeast

\* The members of a chain are its tail and those ahead of the tail.
LEMMA MembersOfAChain ==
  ASSUME NEW b \in Waits, NEW members \in SUBSET Calls, NEW running,
         NEW tails \in [Chains -> Calls \cup {NoCall}],
         ChainsHold(b, members, running, tails), NEW k \in Chains
  PROVE  {c \in members : Chain[c] = k} =
             IF tails[k] = NoCall THEN {} ELSE {tails[k]} \cup Ahead(b, tails[k])
<1>1. CASE tails[k] = NoCall
  BY <1>1 DEF ChainsHold
<1>2. CASE tails[k] # NoCall
  <2>1. tails[k] \in members /\ Chain[tails[k]] = k
    BY <1>2 DEF ChainsHold
  <2>2. Ahead(b, tails[k]) \subseteq {c \in members : Chain[c] = k}
    BY <2>1, AheadIsInTheChain DEF ChainsHold
  <2>3. \A c \in members : Chain[c] = k => c \in {tails[k]} \cup Ahead(b, tails[k])
    BY DEF ChainsHold
  <2> QED
    BY <1>2, <2>1, <2>2, <2>3
<1> QED
  BY <1>1, <1>2

LEMMA ExceptIsPointwise ==
  ASSUME NEW S, NEW f, f = [d \in S |-> f[d]], NEW g, g = [d \in S |-> g[d]],
         NEW c \in S, NEW v, g[c] = v, \A d \in S \ {c} : g[d] = f[d]
  PROVE  g = [f EXCEPT ![c] = v]
OBVIOUS

PlaceIn(b, running, c) ==
    [key |-> Chain[c], ahead |-> Ahead(b, c),
     turn |-> IF c \in running THEN "taken" ELSE "awaited"]

LEMMA PlacesAreTyped ==
  ASSUME NEW b \in Waits, NEW members \in SUBSET Calls, NEW running \in SUBSET Calls,
         NEW c \in Calls
  PROVE  /\ PlaceOf(b, members, running)[c] =
               IF c \in members THEN PlaceIn(b, running, c) ELSE NoCall
         /\ PlaceIn(b, running, c) # NoCall
         /\ PlaceIn(b, running, c).key = Chain[c]
         /\ PlaceIn(b, running, c).ahead = Ahead(b, c)
         /\ PlaceIn(b, running, c).turn = IF c \in running THEN "taken" ELSE "awaited"
<1>1. PlaceIn(b, running, c) \in
          [key : Chains, ahead : SUBSET Calls, turn : {"awaited", "taken"}]
  BY AheadIsLeast, ChainsAreTyped DEF PlaceIn
<1>2. PlaceOf(b, members, running)[c] =
          IF c \in members THEN PlaceIn(b, running, c) ELSE NoCall
  BY DEF PlaceOf, PlaceIn
<1>3. /\ PlaceIn(b, running, c).key = Chain[c]
      /\ PlaceIn(b, running, c).ahead = Ahead(b, c)
      /\ PlaceIn(b, running, c).turn = IF c \in running THEN "taken" ELSE "awaited"
  BY DEF PlaceIn
<1> QED
  BY <1>1, <1>2, <1>3, NoCallIsNoPlace

\* A call joins behind the tail of its chain.
LEMMA JoinKeepsChains ==
  ASSUME NEW b \in Waits, NEW members \in SUBSET Calls, NEW running \in SUBSET members,
         NEW tails \in [Chains -> Calls \cup {NoCall}],
         ChainsHold(b, members, running, tails),
         NEW c \in Calls \ members, NEW b1 \in Waits, NEW tails1,
         b1[c] = tails[Chain[c]], \A d \in Calls \ {c} : b1[d] = b[d],
         tails1[Chain[c]] = c, \A j \in Chains \ {Chain[c]} : tails1[j] = tails[j]
  PROVE  /\ ChainsHold(b1, members \cup {c}, running, tails1)
         /\ Queue!Step(PlaceOf(b, members, running), PlaceOf(b1, members \cup {c}, running))
<1> DEFINE k == Chain[c]  old == PlaceOf(b, members, running)
           new == PlaceOf(b1, members \cup {c}, running)
<1>1. k \in Chains
  BY ChainsAreTyped
<1>2. \A d \in Calls \ {c} : b1[d] = b[d] /\ b[d] \notin {c}
  BY Nulls DEF Waits, ChainsHold
<1>3. ASSUME NEW d \in Calls \ {c}
      PROVE  Ahead(b1, d) = Ahead(b, d)
  <2> DEFINE D == {c}
  <2>1. D \in SUBSET Calls /\ d \in Calls \ D
        /\ \A e \in Calls \ D : b1[e] = b[e] /\ b[e] \notin D
    BY <1>2
  <2> HIDE DEF D
  <2> QED
    BY <2>1, AheadOutside
<1>4. Ahead(b1, c) = {d \in members : Chain[d] = k}
  <2>1. CASE tails[k] = NoCall
    BY <1>1, <2>1, NobodyAhead, MembersOfAChain
  <2>2. CASE tails[k] # NoCall
    <3>1. tails[k] \in Calls \ {c} /\ tails[k] \in members
      BY <1>1, <2>2 DEF ChainsHold
    <3>2. Ahead(b1, c) = {tails[k]} \cup Ahead(b1, tails[k])
      BY <3>1, AheadOfTheNext
    <3>3. {d \in members : Chain[d] = k} = {tails[k]} \cup Ahead(b, tails[k])
      BY <1>1, <2>2, MembersOfAChain
    <3> QED
      BY <1>3, <3>1, <3>2, <3>3
  <2> QED
    BY <2>1, <2>2
<1>5. ChainsHold(b1, members \cup {c}, running, tails1)
  <2>1. ASSUME NEW d \in Calls, b1[d] # NoCall
        PROVE  /\ d \in (members \cup {c}) \ running
               /\ b1[d] \in members \cup {c} /\ Chain[b1[d]] = Chain[d]
    <3>1. CASE d = c
      BY <1>1, <2>1, <3>1 DEF ChainsHold
    <3>2. CASE d # c
      BY <2>1, <3>2 DEF ChainsHold
    <3> QED
      BY <3>1, <3>2
  <2>2. ASSUME NEW d \in members \cup {c}
        PROVE  /\ tails1[Chain[d]] # NoCall
               /\ d = tails1[Chain[d]] \/ d \in Ahead(b1, tails1[Chain[d]])
    <3>1. CASE d = c
      BY <3>1, Nulls
    <3>2. CASE d # c /\ Chain[d] = k
      BY <1>4, <3>2, Nulls
    <3>3. CASE d # c /\ Chain[d] # k
      <4>1. d \in members /\ Chain[d] \in Chains /\ tails1[Chain[d]] = tails[Chain[d]]
        BY <3>3, ChainsAreTyped
      <4>2. tails[Chain[d]] # NoCall /\ tails[Chain[d]] \in Calls \ {c}
        BY <4>1 DEF ChainsHold
      <4>3. Ahead(b1, tails[Chain[d]]) = Ahead(b, tails[Chain[d]])
        BY <1>3, <4>2
      <4> QED
        BY <4>1, <4>2, <4>3 DEF ChainsHold
    <3> QED
      BY <3>1, <3>2, <3>3
  <2>3. ASSUME NEW j \in Chains, tails1[j] # NoCall
        PROVE  tails1[j] \in members \cup {c} /\ Chain[tails1[j]] = j
    BY <2>3 DEF ChainsHold
  <2> QED
    BY <2>1, <2>2, <2>3 DEF ChainsHold
<1>6. old[c] = NoCall /\ new = Queue!Joined(old, c, k)
  <2>1. members \cup {c} \in SUBSET Calls /\ running \in SUBSET Calls
    OBVIOUS
  <2>2. old = [d \in Calls |-> old[d]] /\ new = [d \in Calls |-> new[d]]
    BY DEF PlaceOf
  <2> HIDE DEF k
  <2>3. ASSUME NEW d \in Calls
        PROVE  /\ d \notin members => old[d] = NoCall
               /\ d \in members => old[d] # NoCall /\ old[d].key = Chain[d]
    BY <2>1, PlacesAreTyped
  <2>4. new[c] = [key |-> k, ahead |-> {d \in members : Chain[d] = k}, turn |-> "awaited"]
    BY <1>4, <2>1, PlacesAreTyped DEF PlaceIn, k
  <2>5. ASSUME NEW d \in Calls \ {c} PROVE new[d] = old[d]
    <3>1. d \in members <=> d \in members \cup {c}
      OBVIOUS
    <3>2. PlaceIn(b1, running, d) = PlaceIn(b, running, d)
      BY <1>3 DEF PlaceIn
    <3> QED
      BY <2>1, <3>1, <3>2, PlacesAreTyped
  <2> HIDE DEF new, old
  <2>6. Queue!In(old, k) = {d \in members : Chain[d] = k}
    BY <2>3 DEF Queue!In
  <2> DEFINE v == [key |-> k, ahead |-> Queue!In(old, k), turn |-> "awaited"]
  <2>7. new[c] = v
    BY <2>4, <2>6
  <2>8. \A d \in Calls \ {c} : new[d] = old[d]
    BY <2>5
  <2>9. new = [old EXCEPT ![c] = v]
    <3> HIDE DEF v
    <3> QED
      BY <2>2, <2>7, <2>8, ExceptIsPointwise
  <2> QED
    BY <2>3, <2>9 DEF Queue!Joined
<1>7. Queue!Step(old, new)
  <2> HIDE DEF old, new, k
  <2> QED
    BY <1>1, <1>6 DEF Queue!Step
<1> QED
  BY <1>5, <1>7

\* A call starts that waits for nobody.
LEMMA StartKeepsChains ==
  ASSUME NEW b \in Waits, NEW members \in SUBSET Calls, NEW running \in SUBSET members,
         NEW tails \in [Chains -> Calls \cup {NoCall}],
         ChainsHold(b, members, running, tails),
         NEW c \in members \ running, b[c] = NoCall
  PROVE  /\ ChainsHold(b, members, running \cup {c}, tails)
         /\ Queue!Step(PlaceOf(b, members, running), PlaceOf(b, members, running \cup {c}))
<1> DEFINE old == PlaceOf(b, members, running)
           new == PlaceOf(b, members, running \cup {c})
<1>1. ChainsHold(b, members, running \cup {c}, tails)
  BY DEF ChainsHold
<1>2. Ahead(b, c) = {}
  BY NobodyAhead
<1> DEFINE running1 == running \cup {c}
<1>3. /\ running \in SUBSET Calls /\ running1 \in SUBSET Calls /\ c \in Calls
      /\ c \in running1 /\ \A d \in Calls \ {c} : d \in running1 <=> d \in running
  OBVIOUS
<1> HIDE DEF running1
<1>4. /\ old[c] = PlaceIn(b, running, c) /\ old[c] # NoCall
      /\ new[c] = PlaceIn(b, running1, c)
  BY <1>3, PlacesAreTyped DEF running1
<1>5. /\ old[c] = [key |-> Chain[c], ahead |-> {}, turn |-> "awaited"]
      /\ new[c] = [key |-> Chain[c], ahead |-> {}, turn |-> "taken"]
  BY <1>2, <1>3, <1>4 DEF PlaceIn
<1>6. \A d \in Calls \ {c} : new[d] = old[d]
  <2> TAKE d \in Calls \ {c}
  <2>1. PlaceIn(b, running1, d) = PlaceIn(b, running, d)
    BY <1>3 DEF PlaceIn
  <2> QED
    BY <1>3, <2>1, PlacesAreTyped DEF running1
<1>7. new = [d \in Calls |-> new[d]] /\ old = [d \in Calls |-> old[d]]
  BY DEF PlaceOf
<1> HIDE DEF new, old
<1>8. new = [old EXCEPT ![c].turn = "taken"]
  <2> DEFINE v == [old[c] EXCEPT !.turn = "taken"]
  <2>1. new[c] = v
    BY <1>5
  <2> HIDE DEF v
  <2>2. new = [old EXCEPT ![c] = v]
    BY <1>3, <1>6, <1>7, <2>1, ExceptIsPointwise
  <2> QED
    BY <2>2 DEF v
<1>9. Queue!MayStart(old, c)
  BY <1>4, <1>5 DEF Queue!MayStart
<1>10. Queue!Step(old, new)
  BY <1>3, <1>8, <1>9, Zenon DEF Queue!Step
<1> QED
  BY <1>1, <1>10 DEF new, old

\* A running call ends: its entry goes unless it has been replaced.
LEMMA LeaveKeepsChains ==
  ASSUME NEW b \in Waits, NEW members \in SUBSET Calls, NEW running \in SUBSET members,
         NEW tails \in [Chains -> Calls \cup {NoCall}],
         ChainsHold(b, members, running, tails),
         NEW c \in running, NEW b1 \in Waits,
         \A d \in Calls : b1[d] = IF b[d] = c THEN NoCall ELSE b[d]
  PROVE  /\ ChainsHold(b1, members \ {c}, running \ {c}, Released(tails, c))
         /\ Queue!Step(PlaceOf(b, members, running),
                       PlaceOf(b1, members \ {c}, running \ {c}))
<1> DEFINE old == PlaceOf(b, members, running)  tails1 == Released(tails, c)
           new == PlaceOf(b1, members \ {c}, running \ {c})
<1>1. c \in Calls /\ b[c] = NoCall /\ Chain[c] \in Chains
  BY ChainsAreTyped DEF ChainsHold
<1>2. ASSUME NEW d \in Calls PROVE Ahead(b1, d) = Ahead(b, d) \ {c}
  BY <1>1, LeavingIsAhead
<1>3. \A j \in Chains : tails1[j] = IF tails[j] = c THEN NoCall ELSE tails[j]
  BY <1>1 DEF Released, ChainsHold
<1> HIDE DEF tails1
<1>4. ChainsHold(b1, members \ {c}, running \ {c}, tails1)
  <2>1. ASSUME NEW d \in Calls, b1[d] # NoCall
        PROVE  /\ d \in (members \ {c}) \ (running \ {c})
               /\ b1[d] \in members \ {c} /\ Chain[b1[d]] = Chain[d]
    BY <1>1, <2>1 DEF ChainsHold
  <2>2. ASSUME NEW d \in members \ {c}
        PROVE  /\ tails1[Chain[d]] # NoCall
               /\ d = tails1[Chain[d]] \/ d \in Ahead(b1, tails1[Chain[d]])
    <3>1. Chain[d] \in Chains /\ tails[Chain[d]] # NoCall /\ tails[Chain[d]] \in Calls
          /\ (d = tails[Chain[d]] \/ d \in Ahead(b, tails[Chain[d]]))
      BY ChainsAreTyped DEF ChainsHold
    <3>2. Ahead(b, c) = {}
      BY <1>1, NobodyAhead
    <3>3. tails[Chain[d]] # c
      BY <3>1, <3>2
    <3>4. Ahead(b1, tails[Chain[d]]) = Ahead(b, tails[Chain[d]]) \ {c}
      BY <1>2, <3>1
    <3> QED
      BY <1>3, <3>1, <3>3, <3>4
  <2>3. ASSUME NEW j \in Chains, tails1[j] # NoCall
        PROVE  tails1[j] \in members \ {c} /\ Chain[tails1[j]] = j
    BY <1>3, <2>3 DEF ChainsHold
  <2> QED
    BY <2>1, <2>2, <2>3 DEF ChainsHold
<1>5. running \in SUBSET Calls /\ running \ {c} \in SUBSET Calls
      /\ members \ {c} \in SUBSET Calls
  OBVIOUS
<1>6. old[c] # NoCall /\ old[c].turn = "taken"
  BY <1>1, <1>5, PlacesAreTyped
<1>7. new = Queue!Without(old, {c})
  <2>1. ASSUME NEW d \in members \ {c}
        PROVE  old[d] # NoCall /\ new[d] = [old[d] EXCEPT !.ahead = @ \ {c}]
    <3>1. old[d] # NoCall /\ old[d] = PlaceIn(b, running, d)
      BY <1>5, PlacesAreTyped
    <3>2. new[d] = PlaceIn(b1, running \ {c}, d)
      BY <1>5, PlacesAreTyped
    <3>3. Ahead(b1, d) = Ahead(b, d) \ {c} /\ (d \in running <=> d \in running \ {c})
      BY <1>2
    <3> HIDE DEF old, new
    <3> QED
      BY <3>1, <3>2, <3>3 DEF PlaceIn
  <2>2. ASSUME NEW d \in Calls, d \notin members \ {c}
        PROVE  new[d] = NoCall /\ (d = c \/ old[d] = NoCall)
    BY <1>5, <2>2, PlacesAreTyped
  <2>3. new = [d \in Calls |-> new[d]]
    BY DEF PlaceOf
  <2> HIDE DEF new, old
  <2> QED
    BY <2>1, <2>2, <2>3 DEF Queue!Without
<1> HIDE DEF new, old
<1>8. Queue!Step(old, new)
  BY <1>1, <1>6, <1>7, Zenon DEF Queue!Step
<1> QED
  BY <1>4, <1>8 DEF tails1, new, old

\* Nothing is left of the calls D of replica r, nor of its chains.
Forgets(r, D, b, b1, tails, tails1) ==
    /\ \A c \in Calls : c \in D <=> Chain[c][1] = r
    /\ \A d \in Calls : b1[d] = IF d \in D THEN NoCall ELSE b[d]
    /\ \A k \in Chains : tails1[k] = IF k[1] = r THEN NoCall ELSE tails[k]

\* The process of a replica dies, and its chains with it.
LEMMA DeathKeepsChains ==
  ASSUME NEW b \in Waits, NEW members \in SUBSET Calls, NEW running \in SUBSET members,
         NEW tails \in [Chains -> Calls \cup {NoCall}],
         ChainsHold(b, members, running, tails),
         NEW r \in Replicas, NEW D \in SUBSET Calls,
         NEW b1 \in Waits, NEW tails1, Forgets(r, D, b, b1, tails, tails1)
  PROVE  /\ ChainsHold(b1, members \ D, running \ D, tails1)
         /\ Queue!Step(PlaceOf(b, members, running),
                       PlaceOf(b1, members \ D, running \ D))
<1> DEFINE old == PlaceOf(b, members, running)
           new == PlaceOf(b1, members \ D, running \ D)
           K == {k \in Chains : k[1] = r}
           gone == UNION {Queue!In(old, k) : k \in K}
<1> USE DEF Forgets
<1>1. \A d \in Calls \ D : b1[d] = b[d] /\ b[d] \notin D
  <2> TAKE d \in Calls \ D
  <2>1. CASE b[d] = NoCall
    BY <2>1, Nulls
  <2>2. CASE b[d] # NoCall
    <3>1. b[d] \in Calls /\ Chain[b[d]] = Chain[d]
      BY <2>2 DEF ChainsHold
    <3> QED
      BY <3>1
  <2> QED
    BY <2>1, <2>2
<1>2. ASSUME NEW d \in Calls \ D
      PROVE  Ahead(b1, d) = Ahead(b, d) /\ Ahead(b, d) \cap D = {}
  BY <1>1, AheadOutside
<1>3. ChainsHold(b1, members \ D, running \ D, tails1)
  <2>1. ASSUME NEW d \in Calls, b1[d] # NoCall
        PROVE  /\ d \in (members \ D) \ (running \ D)
               /\ b1[d] \in members \ D /\ Chain[b1[d]] = Chain[d]
    <3>1. d \notin D /\ b1[d] = b[d] /\ b[d] \notin D
      BY <1>1, <2>1
    <3> QED
      BY <2>1, <3>1 DEF ChainsHold
  <2>2. ASSUME NEW d \in members \ D
        PROVE  /\ tails1[Chain[d]] # NoCall
               /\ d = tails1[Chain[d]] \/ d \in Ahead(b1, tails1[Chain[d]])
    <3>1. Chain[d] \in Chains /\ tails1[Chain[d]] = tails[Chain[d]]
      BY ChainsAreTyped
    <3>2. tails[Chain[d]] # NoCall /\ Chain[tails[Chain[d]]] = Chain[d]
          /\ tails[Chain[d]] \in Calls
      BY <3>1 DEF ChainsHold
    <3>3. tails[Chain[d]] \in Calls \ D
      BY <3>2
    <3>4. Ahead(b1, tails[Chain[d]]) = Ahead(b, tails[Chain[d]])
      BY <1>2, <3>3
    <3> QED
      BY <3>1, <3>2, <3>4 DEF ChainsHold
  <2>3. ASSUME NEW j \in Chains, tails1[j] # NoCall
        PROVE  tails1[j] \in members \ D /\ Chain[tails1[j]] = j
    BY <2>3 DEF ChainsHold
  <2> QED
    BY <2>1, <2>2, <2>3 DEF ChainsHold
<1>4. running \in SUBSET Calls /\ running \ D \in SUBSET Calls
      /\ members \ D \in SUBSET Calls
  OBVIOUS
<1>5. gone = members \cap D
  <2>1. ASSUME NEW d \in Calls
        PROVE  /\ d \in members <=> old[d] # NoCall
               /\ d \in members => old[d].key = Chain[d]
    BY <1>4, PlacesAreTyped
  <2> HIDE DEF old
  <2>2. \A k \in K : Queue!In(old, k) = {d \in members : Chain[d] = k}
    BY <2>1 DEF Queue!In
  <2>3. \A d \in members \cap D : Chain[d] \in K
    BY ChainsAreTyped
  <2> HIDE DEF K
  <2>4. \A d \in members \cap D : d \in Queue!In(old, Chain[d]) /\ Chain[d] \in K
    BY <2>2, <2>3
  <2>5. \A k \in K : k[1] = r
    BY DEF K
  <2>6. members \cap D \subseteq gone
    BY <2>4
  <2>7. gone \subseteq members \cap D
    BY <2>2, <2>5
  <2> QED
    BY <2>6, <2>7
<1>6. new = Queue!Without(old, gone)
  <2>1. ASSUME NEW d \in members \ D
        PROVE  old[d] # NoCall /\ new[d] = [old[d] EXCEPT !.ahead = @ \ (members \cap D)]
    <3>1. old[d] # NoCall /\ old[d] = PlaceIn(b, running, d)
      BY <1>4, PlacesAreTyped
    <3>2. new[d] = PlaceIn(b1, running \ D, d)
      BY <1>4, PlacesAreTyped
    <3> DEFINE left == Ahead(b, d) \ (members \cap D)
    <3>3. Ahead(b1, d) = left /\ (d \in running <=> d \in running \ D)
      BY <1>2
    <3>4. PlaceIn(b1, running \ D, d) =
             [key |-> Chain[d], ahead |-> left,
              turn |-> IF d \in running THEN "taken" ELSE "awaited"]
      BY <3>3 DEF PlaceIn
    <3>5. PlaceIn(b1, running \ D, d) = [PlaceIn(b, running, d) EXCEPT !.ahead = left]
      <4> HIDE DEF left
      <4> QED
        BY <3>4 DEF PlaceIn
    <3>6. PlaceIn(b, running, d).ahead = Ahead(b, d)
      BY DEF PlaceIn
    <3> HIDE DEF old, new
    <3> QED
      BY <3>1, <3>2, <3>5, <3>6
  <2>2. ASSUME NEW d \in Calls, d \notin members \ D
        PROVE  new[d] = NoCall /\ (d \in members \cap D \/ old[d] = NoCall)
    BY <1>4, <2>2, PlacesAreTyped
  <2>3. new = [d \in Calls |-> new[d]]
    BY DEF PlaceOf
  <2> HIDE DEF new, old, gone
  <2> QED
    BY <1>5, <2>1, <2>2, <2>3 DEF Queue!Without
<1>7. Queue!Step(old, new)
  <2>1. K \in SUBSET Chains
    OBVIOUS
  <2> HIDE DEF old, new, K
  <2> QED
    BY <1>6, <2>1, Zenon DEF Queue!Step
<1> QED
  BY <1>3, <1>7
-----------------------------------------------------------------------------
(* The two families *)

SyncHolds == ChainsHold(SyncWaits, Queued, QueueRunning, syncChains)
WriteHolds == ChainsHold(WriteWaits, Writers, WritersRunning, writeChains)

\* Nobody has written that has yet to begin or still writes.
WritesOnce == \A c \in Calls : At(c, "idle") \/ InWrite(c) => ~call[c].wrote

SyncMoves ==
    SyncHolds' /\ (SyncPlace' # SyncPlace => Queue!Step(SyncPlace, SyncPlace'))
WriteMoves ==
    WriteHolds' /\ (WritePlace' # WritePlace => Queue!Step(WritePlace, WritePlace'))

LEMMA WaitsAreTyped == TypeOK => SyncWaits \in Waits /\ WriteWaits \in Waits
BY DEF TypeOK, Call, SyncWaits, WriteWaits, Waits

LEMMA WaitsAreTypedNext == TypeOK' => SyncWaits' \in Waits /\ WriteWaits' \in Waits
BY DEF TypeOK, Call, SyncWaits, WriteWaits, Waits

\* The call of which nothing matters in a family any more stays out of it.
LEMMA SyncStays ==
  ASSUME TypeOK, TypeOK', SyncHolds, syncChains' = syncChains,
         \A d \in Calls :
            /\ InQueue(d)' <=> InQueue(d)
            /\ At(d, "queued")' <=> At(d, "queued")
            /\ At(d, "ended") => At(d, "ended")'
            /\ call'[d].syncBehind \in {call[d].syncBehind, NoCall}
            /\ InQueue(d) => call'[d].syncBehind = call[d].syncBehind
  PROVE  SyncMoves
<1>1. Queued' = Queued /\ QueueRunning' = QueueRunning
  BY DEF Queued, QueueRunning
<1>2. ASSUME NEW d \in Calls PROVE SyncWaits'[d] = SyncWaits[d]
  <2>1. SyncWaits[d] # NoCall => InQueue(d) /\ InQueue(SyncWaits[d]) /\ SyncWaits[d] \in Calls
    BY DEF SyncHolds, ChainsHold, Queued
  <2>2. /\ SyncWaits[d] = IF SyncTailDone(call[d].syncBehind) THEN NoCall
                          ELSE call[d].syncBehind
        /\ SyncWaits'[d] = IF call'[d].syncBehind # NoCall => call'[call'[d].syncBehind].pc = "ended"
                           THEN NoCall ELSE call'[d].syncBehind
    BY DEF SyncWaits, SyncTailDone, At
  <2>3. call[d].syncBehind \in Calls \cup {NoCall}
    BY DEF TypeOK, Call
  <2>4. CASE SyncWaits[d] # NoCall
    <3>1. SyncWaits[d] = call[d].syncBehind /\ call'[d].syncBehind = call[d].syncBehind
      BY <2>1, <2>2, <2>4
    <3>2. \A e \in Calls : InQueue(e) => call'[e].pc # "ended"
      BY DEF InQueue, At
    <3>3. call'[call[d].syncBehind].pc # "ended"
      BY <2>1, <2>4, <3>1, <3>2
    <3> QED
      BY <2>2, <2>4, <3>1, <3>3
  <2>5. CASE SyncWaits[d] = NoCall
    <3>1. CASE call[d].syncBehind = NoCall
      BY <2>2, <2>5, <3>1
    <3>2. CASE call[d].syncBehind # NoCall
      <4>1. call[d].syncBehind \in Calls /\ At(call[d].syncBehind, "ended")
        BY <2>2, <2>3, <2>5, <3>2, Nulls DEF SyncTailDone
      <4>2. call'[call[d].syncBehind].pc = "ended"
        BY <4>1 DEF At
      <4> QED
        BY <2>2, <2>5, <4>2
    <3> QED
      BY <3>1, <3>2
  <2> QED
    BY <2>4, <2>5
<1>3. SyncWaits' = SyncWaits
  BY <1>2 DEF SyncWaits
<1> QED
  BY <1>1, <1>3 DEF SyncMoves, SyncHolds, SyncPlace, PlaceOf, ChainsHold

LEMMA WriteStays ==
  ASSUME TypeOK, TypeOK', WriteHolds, writeChains' = writeChains,
         \A d \in Calls :
            /\ InWrite(d)' <=> InWrite(d)
            /\ At(d, "write_queued")' <=> At(d, "write_queued")
            /\ call[d].wrote \/ At(d, "ended") => call'[d].wrote \/ At(d, "ended")'
            /\ InWrite(d) => call'[d].wrote = call[d].wrote
            /\ call'[d].writeBehind \in {call[d].writeBehind, NoCall}
            /\ InWrite(d) => call'[d].writeBehind = call[d].writeBehind
  PROVE  WriteMoves
<1>1. Writers' = Writers /\ WritersRunning' = WritersRunning
  BY DEF Writers, WritersRunning
<1>2. ASSUME NEW d \in Calls PROVE WriteWaits'[d] = WriteWaits[d]
  <2>1. WriteWaits[d] # NoCall =>
            InWrite(d) /\ InWrite(WriteWaits[d]) /\ WriteWaits[d] \in Calls
    BY DEF WriteHolds, ChainsHold, Writers
  <2>2. /\ WriteWaits[d] = IF WriteTailDone(call[d].writeBehind) THEN NoCall
                           ELSE call[d].writeBehind
        /\ WriteWaits'[d] = IF call'[d].writeBehind # NoCall =>
                                  \/ call'[call'[d].writeBehind].wrote
                                  \/ call'[call'[d].writeBehind].pc = "ended"
                            THEN NoCall ELSE call'[d].writeBehind
    BY DEF WriteWaits, WriteTailDone, At
  <2>3. call[d].writeBehind \in Calls \cup {NoCall}
    BY DEF TypeOK, Call
  <2>4. CASE WriteWaits[d] # NoCall
    <3>1. WriteWaits[d] = call[d].writeBehind /\ call'[d].writeBehind = call[d].writeBehind
          /\ ~call[call[d].writeBehind].wrote
      BY <2>1, <2>2, <2>4 DEF WriteTailDone
    <3>2. \A e \in Calls : InWrite(e) =>
              call'[e].pc # "ended" /\ call'[e].wrote = call[e].wrote
      BY DEF InWrite, At
    <3>3. call'[call[d].writeBehind].pc # "ended" /\ ~call'[call[d].writeBehind].wrote
      BY <2>1, <2>4, <3>1, <3>2
    <3> QED
      BY <2>2, <2>4, <3>1, <3>3
  <2>5. CASE WriteWaits[d] = NoCall
    <3>1. CASE call[d].writeBehind = NoCall
      BY <2>2, <2>5, <3>1
    <3>2. CASE call[d].writeBehind # NoCall
      <4>1. call[d].writeBehind \in Calls
            /\ (call[call[d].writeBehind].wrote \/ At(call[d].writeBehind, "ended"))
        BY <2>2, <2>3, <2>5, <3>2, Nulls DEF WriteTailDone
      <4>2. call'[call[d].writeBehind].wrote \/ call'[call[d].writeBehind].pc = "ended"
        BY <4>1 DEF At
      <4> QED
        BY <2>2, <2>5, <4>2
    <3> QED
      BY <3>1, <3>2
  <2> QED
    BY <2>4, <2>5
<1>3. WriteWaits' = WriteWaits
  BY <1>2 DEF WriteWaits
<1> QED
  BY <1>1, <1>3 DEF WriteMoves, WriteHolds, WritePlace, PlaceOf, ChainsHold

\* An operation asks for its turn, and one begins its write section.
LEMMA SyncJoins ==
  ASSUME TypeOK, TypeOK', SyncHolds, NEW c \in Calls, c \notin Edits, Request(c)
  PROVE  SyncMoves
<1>1. call[c] \in Call /\ Chain[c] \in Chains /\ call[c].pc = "idle"
  BY ChainsAreTyped DEF TypeOK, Request, At
<1>2. /\ call'[c].pc = "queued" /\ call'[c].syncBehind = syncChains[Chain[c]]
      /\ \A d \in Calls \ {c} : call'[d] = call[d]
  BY <1>1 DEF Request, TypeOK, Call
<1>3. /\ syncChains'[Chain[c]] = c
      /\ \A j \in Chains \ {Chain[c]} : syncChains'[j] = syncChains[j]
  BY <1>1 DEF Request, TypeOK
<1>4. c \notin Queued /\ Queued' = Queued \cup {c} /\ QueueRunning' = QueueRunning
  BY <1>1, <1>2 DEF Queued, QueueRunning, InQueue, At
<1>5. SyncWaits'[c] = syncChains[Chain[c]]
  <2>1. SyncWaits'[c] = IF syncChains[Chain[c]] # NoCall =>
                               call'[syncChains[Chain[c]]].pc = "ended"
                        THEN NoCall ELSE syncChains[Chain[c]]
    BY <1>2 DEF SyncWaits, SyncTailDone, At
  <2>2. syncChains[Chain[c]] # NoCall => syncChains[Chain[c]] \in Queued
    BY <1>1 DEF SyncHolds, ChainsHold
  <2>3. \A e \in Queued : call'[e].pc # "ended"
    BY <1>2, <1>4 DEF Queued, InQueue, At
  <2> QED
    BY <2>1, <2>2, <2>3
<1>6. ASSUME NEW d \in Calls \ {c} PROVE SyncWaits'[d] = SyncWaits[d]
  <2>1. \A e \in Calls : call'[e].pc = "ended" <=> call[e].pc = "ended"
    BY <1>1, <1>2
  <2>2. call'[d].syncBehind = call[d].syncBehind
        /\ call[d].syncBehind \in Calls \cup {NoCall}
    BY <1>2 DEF TypeOK, Call
  <2> QED
    BY <2>1, <2>2 DEF SyncWaits, SyncTailDone, At
<1>7. QueueRunning \in SUBSET Queued /\ Queued \in SUBSET Calls /\ c \in Calls \ Queued
  BY <1>4 DEF Queued, QueueRunning
<1>8. SyncWaits \in Waits /\ SyncWaits' \in Waits
      /\ syncChains \in [Chains -> Calls \cup {NoCall}]
  BY WaitsAreTyped, WaitsAreTypedNext DEF TypeOK
<1> DEFINE b == SyncWaits  b1 == SyncWaits'  tails1 == syncChains'
<1>9. ChainsHold(b1, Queued \cup {c}, QueueRunning, tails1)
      /\ Queue!Step(PlaceOf(b, Queued, QueueRunning), PlaceOf(b1, Queued \cup {c}, QueueRunning))
  <2>1. \A d \in Calls \ {c} : b1[d] = b[d]
    BY <1>6
  <2>2. b1[c] = syncChains[Chain[c]]
    BY <1>5
  <2>3. tails1[Chain[c]] = c /\ \A j \in Chains \ {Chain[c]} : tails1[j] = syncChains[j]
    BY <1>3
  <2>4. b \in Waits /\ b1 \in Waits /\ ChainsHold(b, Queued, QueueRunning, syncChains)
    BY <1>8 DEF SyncHolds
  <2> HIDE DEF b, b1, tails1
  <2> QED
    BY <1>7, <1>8, <2>1, <2>2, <2>3, <2>4, JoinKeepsChains
<1> QED
  BY <1>4, <1>9 DEF SyncMoves, SyncHolds, SyncPlace, ChainsHold, PlaceOf

LEMMA WriteJoins ==
  ASSUME TypeOK, TypeOK', WriteHolds, WritesOnce, WritesOnce', NEW c \in Calls,
         (c \in Edits /\ Request(c)) \/ EnterWriteChain(c)
  PROVE  WriteMoves
<1>1. call[c] \in Call /\ Chain[c] \in Chains /\ call[c].pc \in {"idle", "running"}
  BY ChainsAreTyped DEF TypeOK, Request, EnterWriteChain, At
<1>2. /\ call'[c].pc = "write_queued" /\ call'[c].writeBehind = writeChains[Chain[c]]
      /\ call'[c].wrote = call[c].wrote
      /\ \A d \in Calls \ {c} : call'[d] = call[d]
  BY <1>1 DEF Request, EnterWriteChain, TypeOK, Call
<1>3. /\ writeChains'[Chain[c]] = c
      /\ \A j \in Chains \ {Chain[c]} : writeChains'[j] = writeChains[j]
  BY <1>1 DEF Request, EnterWriteChain, TypeOK
<1>4. c \notin Writers /\ Writers' = Writers \cup {c} /\ WritersRunning' = WritersRunning
  BY <1>1, <1>2 DEF Writers, WritersRunning, InWrite, At
<1>5. WriteWaits'[c] = writeChains[Chain[c]]
  <2>1. WriteWaits'[c] = IF writeChains[Chain[c]] # NoCall =>
                               \/ call'[writeChains[Chain[c]]].wrote
                               \/ call'[writeChains[Chain[c]]].pc = "ended"
                        THEN NoCall ELSE writeChains[Chain[c]]
    BY <1>2 DEF WriteWaits, WriteTailDone, At
  <2>2. writeChains[Chain[c]] # NoCall => writeChains[Chain[c]] \in Writers
    BY <1>1 DEF WriteHolds, ChainsHold
  <2>3. \A e \in Writers : call'[e].pc # "ended" /\ ~call'[e].wrote
    BY <1>2, <1>4 DEF Writers, InWrite, At, WritesOnce
  <2> QED
    BY <2>1, <2>2, <2>3
<1>6. ASSUME NEW d \in Calls \ {c} PROVE WriteWaits'[d] = WriteWaits[d]
  <2>1. \A e \in Calls : /\ call'[e].pc = "ended" <=> call[e].pc = "ended"
                         /\ call'[e].wrote = call[e].wrote
    BY <1>1, <1>2
  <2>2. call'[d].writeBehind = call[d].writeBehind
        /\ call[d].writeBehind \in Calls \cup {NoCall}
    BY <1>2 DEF TypeOK, Call
  <2> QED
    BY <2>1, <2>2 DEF WriteWaits, WriteTailDone, At
<1>7. WritersRunning \in SUBSET Writers /\ Writers \in SUBSET Calls /\ c \in Calls \ Writers
  BY <1>4 DEF Writers, WritersRunning
<1>8. WriteWaits \in Waits /\ WriteWaits' \in Waits
      /\ writeChains \in [Chains -> Calls \cup {NoCall}]
  BY WaitsAreTyped, WaitsAreTypedNext DEF TypeOK
<1> DEFINE b == WriteWaits  b1 == WriteWaits'  tails1 == writeChains'
<1>9. ChainsHold(b1, Writers \cup {c}, WritersRunning, tails1)
      /\ Queue!Step(PlaceOf(b, Writers, WritersRunning),
                    PlaceOf(b1, Writers \cup {c}, WritersRunning))
  <2>1. \A d \in Calls \ {c} : b1[d] = b[d]
    BY <1>6
  <2>2. b1[c] = writeChains[Chain[c]]
    BY <1>5
  <2>3. tails1[Chain[c]] = c /\ \A j \in Chains \ {Chain[c]} : tails1[j] = writeChains[j]
    BY <1>3
  <2>4. b \in Waits /\ b1 \in Waits /\ ChainsHold(b, Writers, WritersRunning, writeChains)
    BY <1>8 DEF WriteHolds
  <2> HIDE DEF b, b1, tails1
  <2> QED
    BY <1>7, <1>8, <2>1, <2>2, <2>3, <2>4, JoinKeepsChains
<1> QED
  BY <1>4, <1>9 DEF WriteMoves, WriteHolds, WritePlace, ChainsHold, PlaceOf

\* A call starts whose predecessor is done.
LEMMA SyncStarts ==
  ASSUME TypeOK, TypeOK', SyncHolds, NEW c \in Calls, Start(c)
  PROVE  SyncMoves
<1>1. /\ call[c] \in Call /\ call[c].pc = "queued" /\ c \notin Edits
      /\ SyncTailDone(call[c].syncBehind)
  BY DEF TypeOK, Start, At
<1>2. /\ call'[c].pc = "running" /\ call'[c].syncBehind = NoCall
      /\ \A d \in Calls \ {c} : call'[d] = call[d]
  BY <1>1 DEF Start, TypeOK, Call
<1>3. SyncWaits[c] = NoCall /\ SyncWaits'[c] = NoCall
  BY <1>1, <1>2 DEF SyncWaits, SyncTailDone
<1>4. ASSUME NEW d \in Calls \ {c} PROVE SyncWaits'[d] = SyncWaits[d]
  <2>1. \A e \in Calls : call'[e].pc = "ended" <=> call[e].pc = "ended"
    BY <1>1, <1>2
  <2>2. call'[d].syncBehind = call[d].syncBehind
        /\ call[d].syncBehind \in Calls \cup {NoCall}
    BY <1>2 DEF TypeOK, Call
  <2> QED
    BY <2>1, <2>2 DEF SyncWaits, SyncTailDone, At
<1>5. SyncWaits' = SyncWaits
  BY <1>3, <1>4 DEF SyncWaits
<1>6. Queued' = Queued /\ QueueRunning' = QueueRunning \cup {c} /\ c \in Queued \ QueueRunning
  BY <1>1, <1>2 DEF Queued, QueueRunning, InQueue, At
<1>7. /\ QueueRunning \in SUBSET Queued /\ Queued \in SUBSET Calls
      /\ syncChains \in [Chains -> Calls \cup {NoCall}] /\ SyncWaits \in Waits
  BY WaitsAreTyped DEF Queued, QueueRunning, TypeOK
<1>8. ChainsHold(SyncWaits, Queued, QueueRunning \cup {c}, syncChains)
      /\ Queue!Step(PlaceOf(SyncWaits, Queued, QueueRunning),
                    PlaceOf(SyncWaits, Queued, QueueRunning \cup {c}))
  BY <1>3, <1>6, <1>7, StartKeepsChains DEF SyncHolds
<1>9. syncChains' = syncChains
  BY DEF Start
<1> QED
  BY <1>5, <1>6, <1>8, <1>9 DEF SyncMoves, SyncHolds, SyncPlace, ChainsHold, PlaceOf

LEMMA WriteStarts ==
  ASSUME TypeOK, TypeOK', WriteHolds, NEW c \in Calls, StartWrite(c)
  PROVE  WriteMoves
<1>1. /\ call[c] \in Call /\ call[c].pc = "write_queued"
      /\ WriteTailDone(call[c].writeBehind)
  BY DEF TypeOK, StartWrite, At
<1>2. /\ call'[c].pc = "locking" /\ call'[c].writeBehind = NoCall
      /\ call'[c].wrote = call[c].wrote
      /\ \A d \in Calls \ {c} : call'[d] = call[d]
  BY <1>1 DEF StartWrite, TypeOK, Call
<1>3. WriteWaits[c] = NoCall /\ WriteWaits'[c] = NoCall
  BY <1>1, <1>2 DEF WriteWaits, WriteTailDone
<1>4. ASSUME NEW d \in Calls \ {c} PROVE WriteWaits'[d] = WriteWaits[d]
  <2>1. \A e \in Calls : /\ call'[e].pc = "ended" <=> call[e].pc = "ended"
                         /\ call'[e].wrote = call[e].wrote
    BY <1>1, <1>2
  <2>2. call'[d].writeBehind = call[d].writeBehind
        /\ call[d].writeBehind \in Calls \cup {NoCall}
    BY <1>2 DEF TypeOK, Call
  <2> QED
    BY <2>1, <2>2 DEF WriteWaits, WriteTailDone, At
<1>5. WriteWaits' = WriteWaits
  BY <1>3, <1>4 DEF WriteWaits
<1>6. /\ Writers' = Writers /\ WritersRunning' = WritersRunning \cup {c}
      /\ c \in Writers \ WritersRunning
  BY <1>1, <1>2 DEF Writers, WritersRunning, InWrite, At
<1>7. /\ WritersRunning \in SUBSET Writers /\ Writers \in SUBSET Calls
      /\ writeChains \in [Chains -> Calls \cup {NoCall}] /\ WriteWaits \in Waits
  BY WaitsAreTyped DEF Writers, WritersRunning, TypeOK
<1>8. ChainsHold(WriteWaits, Writers, WritersRunning \cup {c}, writeChains)
      /\ Queue!Step(PlaceOf(WriteWaits, Writers, WritersRunning),
                    PlaceOf(WriteWaits, Writers, WritersRunning \cup {c}))
  BY <1>3, <1>6, <1>7, StartKeepsChains DEF WriteHolds
<1>9. writeChains' = writeChains
  BY DEF StartWrite
<1> QED
  BY <1>5, <1>6, <1>8, <1>9 DEF WriteMoves, WriteHolds, WritePlace, ChainsHold, PlaceOf

\* An operation ends, or a write section does.
LEMMA SyncLeaves ==
  ASSUME TypeOK, TypeOK', SyncHolds, NEW c \in Calls, c \notin Edits,
         call[c].pc \in {"running", "restic"},
         call' = [call EXCEPT ![c] = Ended], syncChains' = Released(syncChains, c)
  PROVE  SyncMoves
<1>1. /\ call'[c].pc = "ended" /\ call'[c].syncBehind = NoCall
      /\ \A d \in Calls \ {c} : call'[d] = call[d]
  BY DEF TypeOK, Ended, NewCall
<1>2. c \in QueueRunning /\ Queued' = Queued \ {c} /\ QueueRunning' = QueueRunning \ {c}
  BY <1>1 DEF Queued, QueueRunning, InQueue, At
<1>3. SyncWaits[c] = NoCall
  BY <1>2 DEF SyncHolds, ChainsHold
<1>4. ASSUME NEW d \in Calls
      PROVE  SyncWaits'[d] = IF SyncWaits[d] = c THEN NoCall ELSE SyncWaits[d]
  <2>1. CASE d = c
    BY <1>1, <1>3, <2>1, Nulls DEF SyncWaits, SyncTailDone
  <2>2. CASE d # c
    <3>1. call'[d].syncBehind = call[d].syncBehind
          /\ call[d].syncBehind \in Calls \cup {NoCall}
      BY <1>1, <2>2 DEF TypeOK, Call
    <3>2. call[c].pc # "ended"
      OBVIOUS
    <3>3. SyncWaits'[d] = IF call[d].syncBehind # NoCall =>
                               call'[call[d].syncBehind].pc = "ended"
                          THEN NoCall ELSE call[d].syncBehind
      BY <3>1 DEF SyncWaits, SyncTailDone, At
    <3>4. SyncWaits[d] = IF call[d].syncBehind # NoCall =>
                               call[call[d].syncBehind].pc = "ended"
                         THEN NoCall ELSE call[d].syncBehind
      BY DEF SyncWaits, SyncTailDone, At
    <3>5. CASE call[d].syncBehind = c
      BY <1>1, <3>2, <3>3, <3>4, <3>5, Nulls
    <3>6. CASE call[d].syncBehind # c
      BY <1>1, <3>1, <3>3, <3>4, <3>6, Nulls
    <3> QED
      BY <3>5, <3>6
  <2> QED
    BY <2>1, <2>2
<1>5. /\ QueueRunning \in SUBSET Queued /\ Queued \in SUBSET Calls
      /\ syncChains \in [Chains -> Calls \cup {NoCall}]
      /\ SyncWaits \in Waits /\ SyncWaits' \in Waits
  BY WaitsAreTyped, WaitsAreTypedNext DEF Queued, QueueRunning, TypeOK
<1> DEFINE b == SyncWaits  b1 == SyncWaits'
<1>6. /\ ChainsHold(b1, Queued \ {c}, QueueRunning \ {c}, Released(syncChains, c))
      /\ Queue!Step(PlaceOf(b, Queued, QueueRunning),
                    PlaceOf(b1, Queued \ {c}, QueueRunning \ {c}))
  <2>1. \A d \in Calls : b1[d] = IF b[d] = c THEN NoCall ELSE b[d]
    BY <1>4
  <2>2. b \in Waits /\ b1 \in Waits /\ ChainsHold(b, Queued, QueueRunning, syncChains)
    BY <1>5 DEF SyncHolds
  <2> HIDE DEF b, b1
  <2> QED
    BY <1>2, <1>5, <2>1, <2>2, LeaveKeepsChains
<1> QED
  BY <1>2, <1>6 DEF SyncMoves, SyncHolds, SyncPlace, ChainsHold, PlaceOf

LEMMA WriteLeaves ==
  ASSUME TypeOK, TypeOK', WriteHolds, WritesOnce, NEW c \in Calls,
         call[c].pc \in {"locking", "writing"}, LeaveWrite(c)
  PROVE  WriteMoves
<1>1. /\ call'[c].pc \in {"running", "ended"}
      /\ call'[c].wrote \/ call'[c].pc = "ended"
      /\ call'[c].writeBehind \in {NoCall, call[c].writeBehind}
      /\ \A d \in Calls \ {c} : call'[d] = call[d]
  <2>1. call[c] \in Call
    BY DEF TypeOK
  <2> QED
    BY <2>1, EndedIsTyped DEF LeaveWrite, AfterWrite, TypeOK, Ended, NewCall, Call
<1>2. c \in WritersRunning /\ Writers' = Writers \ {c} /\ WritersRunning' = WritersRunning \ {c}
  BY <1>1 DEF Writers, WritersRunning, InWrite, At
<1>3. WriteWaits[c] = NoCall /\ ~call[c].wrote /\ call[c].pc # "ended"
  BY <1>2 DEF WriteHolds, ChainsHold, WritesOnce, InWrite
<1>4. ASSUME NEW d \in Calls
      PROVE  WriteWaits'[d] = IF WriteWaits[d] = c THEN NoCall ELSE WriteWaits[d]
  <2> DEFINE x == call[d].writeBehind
  <2>1. x \in Calls \cup {NoCall} /\ call'[d].writeBehind \in {NoCall, x}
        /\ (d # c => call'[d].writeBehind = x)
    BY <1>1 DEF TypeOK, Call
  <2>2. WriteWaits'[d] = IF call'[d].writeBehind # NoCall =>
                              \/ call'[call'[d].writeBehind].wrote
                              \/ call'[call'[d].writeBehind].pc = "ended"
                         THEN NoCall ELSE call'[d].writeBehind
    BY DEF WriteWaits, WriteTailDone, At
  <2>3. WriteWaits[d] = IF x # NoCall => call[x].wrote \/ call[x].pc = "ended"
                        THEN NoCall ELSE x
    BY DEF WriteWaits, WriteTailDone, At
  <2> HIDE DEF x
  <2>4. CASE x = c
    <3>1. WriteWaits'[d] = NoCall
      BY <1>1, <2>1, <2>2, <2>4, Nulls
    <3> QED
      BY <1>3, <2>3, <2>4, <3>1, Nulls
  <2>5. CASE x # c /\ d # c
    BY <1>1, <2>1, <2>2, <2>3, <2>5, Nulls
  <2>6. CASE x # c /\ d = c
    <3>1. x # NoCall => call[x].wrote \/ call[x].pc = "ended"
      BY <1>3, <2>1, <2>3, <2>6
    <3>2. x # NoCall => call'[x] = call[x]
      BY <1>1, <2>1, <2>6
    <3> QED
      BY <1>3, <2>1, <2>2, <2>6, <3>1, <3>2, Nulls
  <2> QED
    BY <2>4, <2>5, <2>6
<1>5. /\ WritersRunning \in SUBSET Writers /\ Writers \in SUBSET Calls
      /\ writeChains \in [Chains -> Calls \cup {NoCall}]
      /\ WriteWaits \in Waits /\ WriteWaits' \in Waits
  BY WaitsAreTyped, WaitsAreTypedNext DEF Writers, WritersRunning, TypeOK
<1> DEFINE b == WriteWaits  b1 == WriteWaits'
<1>6. /\ ChainsHold(b1, Writers \ {c}, WritersRunning \ {c}, Released(writeChains, c))
      /\ Queue!Step(PlaceOf(b, Writers, WritersRunning),
                    PlaceOf(b1, Writers \ {c}, WritersRunning \ {c}))
  <2>1. \A d \in Calls : b1[d] = IF b[d] = c THEN NoCall ELSE b[d]
    BY <1>4
  <2>2. b \in Waits /\ b1 \in Waits /\ ChainsHold(b, Writers, WritersRunning, writeChains)
    BY <1>5 DEF WriteHolds
  <2> HIDE DEF b, b1
  <2> QED
    BY <1>2, <1>5, <2>1, <2>2, LeaveKeepsChains
<1>7. writeChains' = Released(writeChains, c)
  BY DEF LeaveWrite
<1> QED
  BY <1>2, <1>6, <1>7 DEF WriteMoves, WriteHolds, WritePlace, ChainsHold, PlaceOf

\* A replica dies: its calls leave both families.
LEMMA ReplicaDies ==
  ASSUME TypeOK, TypeOK', SyncHolds, WriteHolds, WritesOnce, NEW r \in Replicas, Crash(r)
  PROVE  SyncMoves /\ WriteMoves
<1> DEFINE D == {c \in Calls : Chain[c][1] = r}
           b == SyncWaits  b1 == SyncWaits'  w == WriteWaits  w1 == WriteWaits'
           syncTails1 == syncChains'  writeTails1 == writeChains'
<1>1. ASSUME NEW c \in Calls
      PROVE  /\ c \notin D => call'[c] = call[c]
             /\ c \in D => call'[c] = call[c] \/ call'[c] = Ended
             /\ c \in D => call'[c].pc \in {"idle", "ended"}
             /\ call[c].pc = "ended" => call'[c].pc = "ended"
             /\ call[c].wrote => call'[c].wrote \/ call'[c].pc = "ended"
  <2>1. call'[c] = IF Chain[c][1] = r /\ ~At(c, "idle") /\ ~At(c, "ended")
                   THEN Ended ELSE call[c]
    BY DEF Crash
  <2> QED
    BY <2>1, EndedIsTyped DEF At
<1>2. Ended.pc = "ended" /\ Ended.syncBehind = NoCall /\ Ended.writeBehind = NoCall
  BY DEF Ended, NewCall
<1>3. /\ Queued' = Queued \ D /\ QueueRunning' = QueueRunning \ D
      /\ Writers' = Writers \ D /\ WritersRunning' = WritersRunning \ D
  <2>1. \A c \in Calls : /\ c \notin D => call'[c] = call[c]
                         /\ c \in D => call'[c].pc \in {"idle", "ended"}
    BY <1>1
  <2> HIDE DEF D
  <2> QED
    BY <2>1 DEF Queued, QueueRunning, Writers, WritersRunning, InQueue, InWrite, At
<1>4. ASSUME NEW d \in Calls
      PROVE  /\ b1[d] = IF d \in D THEN NoCall ELSE b[d]
             /\ w1[d] = IF d \in D THEN NoCall ELSE w[d]
  <2> DEFINE x == call[d].syncBehind  y == call[d].writeBehind
  <2>1. x \in Calls \cup {NoCall} /\ y \in Calls \cup {NoCall}
    BY DEF TypeOK, Call
  <2>2. /\ b1[d] = IF call'[d].syncBehind # NoCall => call'[call'[d].syncBehind].pc = "ended"
                   THEN NoCall ELSE call'[d].syncBehind
        /\ b[d] = IF x # NoCall => call[x].pc = "ended" THEN NoCall ELSE x
    BY DEF SyncWaits, SyncTailDone, At
  <2>3. /\ w1[d] = IF call'[d].writeBehind # NoCall =>
                         \/ call'[call'[d].writeBehind].wrote
                         \/ call'[call'[d].writeBehind].pc = "ended"
                   THEN NoCall ELSE call'[d].writeBehind
        /\ w[d] = IF y # NoCall => call[y].wrote \/ call[y].pc = "ended" THEN NoCall ELSE y
    BY DEF WriteWaits, WriteTailDone, At
  <2>4. /\ b[d] # NoCall => d \in Queued \ QueueRunning /\ b[d] \in Queued
                            /\ Chain[b[d]] = Chain[d]
        /\ w[d] # NoCall => d \in Writers \ WritersRunning /\ w[d] \in Writers
                            /\ Chain[w[d]] = Chain[d]
    BY DEF SyncHolds, WriteHolds, ChainsHold
  <2>5. CASE d \notin D
    <3>1. call'[d] = call[d]
      BY <1>1, <2>5
    <3>2. b1[d] = b[d]
      <4>1. CASE b[d] = NoCall
        <5>1. x # NoCall => call[x].pc = "ended" /\ x \in Calls
          BY <2>1, <2>2, <4>1
        <5>2. x # NoCall => call'[x].pc = "ended"
          BY <1>1, <5>1
        <5> QED
          BY <2>2, <3>1, <4>1, <5>2
      <4>2. CASE b[d] # NoCall
        <5>1. b[d] = x /\ x \in Calls \ D /\ call[x].pc # "ended"
          BY <2>1, <2>2, <2>4, <2>5, <4>2
        <5>2. call'[x] = call[x]
          BY <1>1, <5>1
        <5> QED
          BY <2>2, <3>1, <4>2, <5>1, <5>2
      <4> QED
        BY <4>1, <4>2
    <3>3. w1[d] = w[d]
      <4>1. CASE w[d] = NoCall
        <5>1. y # NoCall => (call[y].wrote \/ call[y].pc = "ended") /\ y \in Calls
          BY <2>1, <2>3, <4>1
        <5>2. y # NoCall => call'[y].wrote \/ call'[y].pc = "ended"
          BY <1>1, <5>1
        <5> QED
          BY <2>3, <3>1, <4>1, <5>2
      <4>2. CASE w[d] # NoCall
        <5>1. w[d] = y /\ y \in Calls \ D /\ call[y].pc # "ended" /\ ~call[y].wrote
          BY <2>1, <2>3, <2>4, <2>5, <4>2
        <5>2. call'[y] = call[y]
          BY <1>1, <5>1
        <5> QED
          BY <2>3, <3>1, <4>2, <5>1, <5>2
      <4> QED
        BY <4>1, <4>2
    <3> QED
      BY <2>5, <3>2, <3>3
  <2>6. CASE d \in D
    <3>1. CASE call'[d] = Ended
      BY <1>2, <2>2, <2>3, <2>6, <3>1
    <3>2. CASE call'[d] = call[d]
      <4>1. call[d].pc \in {"idle", "ended"}
        BY <1>1, <2>6, <3>2
      <4>2. d \notin Queued /\ d \notin Writers
        BY <4>1 DEF Queued, Writers, InQueue, InWrite, At
      <4>3. b[d] = NoCall /\ w[d] = NoCall
        BY <2>4, <4>2
      <4>4. /\ x # NoCall => call[x].pc = "ended" /\ x \in Calls
            /\ y # NoCall => (call[y].wrote \/ call[y].pc = "ended") /\ y \in Calls
        BY <2>1, <2>2, <2>3, <4>3
      <4>5. /\ x # NoCall => call'[x].pc = "ended"
            /\ y # NoCall => call'[y].wrote \/ call'[y].pc = "ended"
        BY <1>1, <4>4
      <4> QED
        BY <2>2, <2>3, <2>6, <3>2, <4>5
    <3> QED
      BY <1>1, <2>6, <3>1, <3>2
  <2> QED
    BY <2>5, <2>6
<1>5. /\ \A k \in Chains : syncTails1[k] = IF k[1] = r THEN NoCall ELSE syncChains[k]
      /\ \A k \in Chains : writeTails1[k] = IF k[1] = r THEN NoCall ELSE writeChains[k]
  BY DEF Crash
<1>6. /\ QueueRunning \in SUBSET Queued /\ Queued \in SUBSET Calls
      /\ WritersRunning \in SUBSET Writers /\ Writers \in SUBSET Calls
      /\ syncChains \in [Chains -> Calls \cup {NoCall}]
      /\ writeChains \in [Chains -> Calls \cup {NoCall}]
  BY DEF Queued, QueueRunning, Writers, WritersRunning, TypeOK
<1>7. D \in SUBSET Calls /\ \A c \in Calls : c \in D <=> Chain[c][1] = r
  OBVIOUS
<1>8. /\ b \in Waits /\ b1 \in Waits /\ ChainsHold(b, Queued, QueueRunning, syncChains)
      /\ w \in Waits /\ w1 \in Waits /\ ChainsHold(w, Writers, WritersRunning, writeChains)
  BY WaitsAreTyped, WaitsAreTypedNext DEF SyncHolds, WriteHolds
<1>9. /\ ChainsHold(b1, Queued \ D, QueueRunning \ D, syncTails1)
      /\ Queue!Step(PlaceOf(b, Queued, QueueRunning),
                    PlaceOf(b1, Queued \ D, QueueRunning \ D))
  <2>1. \A d \in Calls : b1[d] = IF d \in D THEN NoCall ELSE b[d]
    BY <1>4
  <2> HIDE DEF D, b, b1, syncTails1
  <2>2. Forgets(r, D, b, b1, syncChains, syncTails1)
    BY <1>5, <1>7, <2>1 DEF Forgets
  <2> QED
    BY <1>6, <1>7, <1>8, <2>2, DeathKeepsChains
<1>10. /\ ChainsHold(w1, Writers \ D, WritersRunning \ D, writeTails1)
       /\ Queue!Step(PlaceOf(w, Writers, WritersRunning),
                     PlaceOf(w1, Writers \ D, WritersRunning \ D))
  <2>1. \A d \in Calls : w1[d] = IF d \in D THEN NoCall ELSE w[d]
    BY <1>4
  <2> HIDE DEF D, w, w1, writeTails1
  <2>2. Forgets(r, D, w, w1, writeChains, writeTails1)
    BY <1>5, <1>7, <2>1 DEF Forgets
  <2> QED
    BY <1>6, <1>7, <1>8, <2>2, DeathKeepsChains
<1> HIDE DEF D
<1>11. SyncMoves
  BY <1>3, <1>9 DEF SyncMoves, SyncHolds, SyncPlace, ChainsHold, PlaceOf
<1>12. WriteMoves
  BY <1>3, <1>10 DEF WriteMoves, WriteHolds, WritePlace, ChainsHold, PlaceOf
<1> QED
  BY <1>11, <1>12

LEMMA StepsKeepWritesOnce ==
  ASSUME TypeOK, WritesOnce, [Next]_vars
  PROVE  WritesOnce'
<1>1. Ended.pc = "ended"
  BY DEF Ended, NewCall
<1>2. ASSUME NEW c \in Calls,
             \A d \in Calls \ {c} : call'[d] = call[d],
             \/ call'[c].pc \in {"queued", "running", "restic", "ended"}
             \/ /\ call'[c].wrote = call[c].wrote
                /\ \/ call[c].pc \in {"idle", "write_queued", "locking", "writing"}
                   \/ ~call[c].wrote \/ call'[c].pc = call[c].pc
      PROVE  WritesOnce'
  BY <1>2 DEF WritesOnce, At, InWrite
<1>3. ASSUME NEW c \in Calls, Request(c) \/ Start(c) \/ End(c) \/ EnterWriteChain(c)
      PROVE  WritesOnce'
  <2>1. call[c] \in Call
    BY DEF TypeOK
  <2> QED
    BY <1>1, <1>2, <1>3, <2>1 DEF Request, Start, End, EnterWriteChain, At, TypeOK, Call
<1>4. ASSUME NEW c \in Calls, StartWrite(c) \/ Lock(c)
      PROVE  WritesOnce'
  BY <1>2, <1>4 DEF StartWrite, Lock, Goto, At, TypeOK, Call
<1>5. ASSUME NEW c \in Calls, LockFails(c) \/ EndWrite(c)
      PROVE  WritesOnce'
  <2>1. call'[c].pc \in {"running", "ended"} /\ \A d \in Calls \ {c} : call'[d] = call[d]
    BY <1>5, AfterWriteIsTyped DEF LockFails, EndWrite, LeaveWrite, TypeOK
  <2> QED
    BY <1>2, <2>1
<1>6. ASSUME NEW c \in Calls, Spawn(c) \/ Settle(c)
      PROVE  WritesOnce'
  <2>1. call'[c].pc \in {"running", "restic", "ended"}
        /\ \A d \in Calls \ {c} : call'[d] = call[d]
    BY <1>1, <1>6 DEF Spawn, Settle, Goto, TypeOK, Call
  <2> QED
    BY <1>2, <2>1
<1>7. ASSUME NEW c \in Calls, Disconnect(c)
      PROVE  WritesOnce'
  BY <1>2, <1>7 DEF Disconnect, TypeOK, Call
<1>8. ASSUME NEW c \in Calls,
             \/ Timeout(c) \/ KillTimer(c) \/ TooMuchOutput(c)
             \/ \E code \in {"zero", "other", "signal"} : Exit(c, code)
      PROVE  WritesOnce'
  BY <1>8 DEF Timeout, KillTimer, TooMuchOutput, Exit, SetProcess, WritesOnce, At, InWrite
<1>9. ASSUME NEW r \in Replicas, Crash(r)
      PROVE  WritesOnce'
  <2>1. \A c \in Calls : call'[c] = Ended \/ call'[c] = call[c]
    BY <1>9 DEF Crash
  <2> QED
    BY <1>1, <2>1 DEF WritesOnce, At, InWrite
<1>10. CASE UNCHANGED vars
  BY <1>10 DEF vars, WritesOnce, At, InWrite
<1> QED
  BY <1>3, <1>4, <1>5, <1>6, <1>7, <1>8, <1>9, <1>10 DEF Next

\* What restic does, the lock, and a disconnect leave both families alone.
LEMMA QuietSteps ==
  ASSUME TypeOK, TypeOK', SyncHolds, WriteHolds, UNCHANGED <<syncChains, writeChains>>,
         \A c \in Calls :
            /\ \/ call'[c].pc = call[c].pc
               \/ {call[c].pc, call'[c].pc} \subseteq {"running", "restic"}
               \/ {call[c].pc, call'[c].pc} \subseteq {"locking", "writing"}
            /\ call'[c].syncBehind = call[c].syncBehind
            /\ call'[c].writeBehind = call[c].writeBehind
            /\ call'[c].wrote = call[c].wrote
  PROVE  SyncMoves /\ WriteMoves
<1>1. \A c \in Calls :
         /\ InQueue(c)' <=> InQueue(c)
         /\ InWrite(c)' <=> InWrite(c)
         /\ At(c, "queued")' <=> At(c, "queued")
         /\ At(c, "write_queued")' <=> At(c, "write_queued")
         /\ At(c, "ended")' <=> At(c, "ended")
  BY DEF InQueue, InWrite, At
<1>2. SyncMoves
  BY <1>1, SyncStays
<1>3. WriteMoves
  BY <1>1, WriteStays
<1> QED
  BY <1>2, <1>3

-----------------------------------------------------------------------------
(* Calls take turns *)

FamiliesHold == SyncHolds /\ WriteHolds /\ WritesOnce

LEMMA InitHolds == Init => FamiliesHold
<1> SUFFICES ASSUME Init PROVE FamiliesHold
  OBVIOUS
<1>1. \A c \in Calls : /\ call[c].pc = "idle" /\ ~call[c].wrote
                       /\ call[c].syncBehind = NoCall /\ call[c].writeBehind = NoCall
  BY DEF Init, NewCall
<1>2. \A k \in Chains : syncChains[k] = NoCall /\ writeChains[k] = NoCall
  BY DEF Init
<1>3. Queued = {} /\ Writers = {}
  BY <1>1 DEF Queued, Writers, InQueue, InWrite, At
<1>4. \A c \in Calls : SyncWaits[c] = NoCall /\ WriteWaits[c] = NoCall
  BY <1>1 DEF SyncWaits, WriteWaits, SyncTailDone, WriteTailDone
<1> QED
  BY <1>1, <1>2, <1>3, <1>4
     DEF FamiliesHold, SyncHolds, WriteHolds, WritesOnce, ChainsHold, At, InWrite

LEMMA QueueMoves ==
  ASSUME TypeOK, TypeOK', FamiliesHold, WritesOnce', NEW c \in Calls,
         Request(c) \/ Start(c) \/ End(c) \/ EnterWriteChain(c)
  PROVE  SyncMoves /\ WriteMoves
<1>1. call[c] \in Call /\ SyncHolds /\ WriteHolds /\ WritesOnce
  BY DEF TypeOK, FamiliesHold
<1>2. CASE Request(c) /\ c \notin Edits
  <2>1. \A d \in Calls :
           /\ InWrite(d)' <=> InWrite(d)
           /\ At(d, "write_queued")' <=> At(d, "write_queued")
           /\ call[d].wrote \/ At(d, "ended") => call'[d].wrote \/ At(d, "ended")'
           /\ InWrite(d) => call'[d].wrote = call[d].wrote
           /\ call'[d].writeBehind \in {call[d].writeBehind, NoCall}
           /\ InWrite(d) => call'[d].writeBehind = call[d].writeBehind
    <3>1. /\ call[c].pc = "idle" /\ call'[c].pc = "queued"
          /\ call'[c].writeBehind = call[c].writeBehind /\ call'[c].wrote = call[c].wrote
          /\ \A d \in Calls \ {c} : call'[d] = call[d]
      BY <1>1, <1>2 DEF Request, At, TypeOK, Call
    <3> QED
      BY <3>1 DEF InWrite, At
  <2>2. WriteMoves
    BY <1>1, <1>2, <2>1, WriteStays DEF Request
  <2> QED
    BY <1>1, <1>2, <2>2, SyncJoins
<1>3. CASE (Request(c) /\ c \in Edits) \/ EnterWriteChain(c)
  <2>1. \A d \in Calls :
           /\ InQueue(d)' <=> InQueue(d)
           /\ At(d, "queued")' <=> At(d, "queued")
           /\ At(d, "ended") => At(d, "ended")'
           /\ call'[d].syncBehind \in {call[d].syncBehind, NoCall}
           /\ InQueue(d) => call'[d].syncBehind = call[d].syncBehind
    <3>1. /\ call[c].pc \in {"idle", "running"} /\ call'[c].pc = "write_queued"
          /\ call[c].pc = "idle" => c \in Edits
          /\ call'[c].syncBehind = call[c].syncBehind
          /\ \A d \in Calls \ {c} : call'[d] = call[d]
      BY <1>1, <1>3 DEF Request, EnterWriteChain, At, TypeOK, Call
    <3>2. call[c].pc = "running" => c \notin Edits
      BY DEF TypeOK, At
    <3> QED
      BY <3>1 DEF InQueue, At
  <2>2. SyncMoves
    BY <1>1, <1>3, <2>1, SyncStays DEF Request, EnterWriteChain
  <2> QED
    BY <1>1, <1>3, <2>2, WriteJoins
<1>4. CASE Start(c)
  <2>1. \A d \in Calls :
           /\ InWrite(d)' <=> InWrite(d)
           /\ At(d, "write_queued")' <=> At(d, "write_queued")
           /\ call[d].wrote \/ At(d, "ended") => call'[d].wrote \/ At(d, "ended")'
           /\ InWrite(d) => call'[d].wrote = call[d].wrote
           /\ call'[d].writeBehind \in {call[d].writeBehind, NoCall}
           /\ InWrite(d) => call'[d].writeBehind = call[d].writeBehind
    <3>1. /\ call[c].pc = "queued" /\ call'[c].pc = "running"
          /\ call'[c].writeBehind = call[c].writeBehind /\ call'[c].wrote = call[c].wrote
          /\ \A d \in Calls \ {c} : call'[d] = call[d]
      BY <1>1, <1>4 DEF Start, At, TypeOK, Call
    <3> QED
      BY <3>1 DEF InWrite, At
  <2>2. WriteMoves
    BY <1>1, <1>4, <2>1, WriteStays DEF Start
  <2> QED
    BY <1>1, <1>4, <2>2, SyncStarts
<1>5. CASE End(c)
  <2>1. c \notin Edits /\ call[c].pc = "running" /\ call' = [call EXCEPT ![c] = Ended]
        /\ syncChains' = Released(syncChains, c) /\ writeChains' = writeChains
    BY <1>5 DEF End, At, TypeOK
  <2>2. \A d \in Calls :
           /\ InWrite(d)' <=> InWrite(d)
           /\ At(d, "write_queued")' <=> At(d, "write_queued")
           /\ call[d].wrote \/ At(d, "ended") => call'[d].wrote \/ At(d, "ended")'
           /\ InWrite(d) => call'[d].wrote = call[d].wrote
           /\ call'[d].writeBehind \in {call[d].writeBehind, NoCall}
           /\ InWrite(d) => call'[d].writeBehind = call[d].writeBehind
    <3>1. /\ call'[c].pc = "ended" /\ call'[c].writeBehind = NoCall
          /\ \A d \in Calls \ {c} : call'[d] = call[d]
      BY <2>1 DEF Ended, NewCall, TypeOK
    <3> QED
      BY <2>1, <3>1 DEF InWrite, At
  <2>3. WriteMoves
    BY <1>1, <2>1, <2>2, WriteStays
  <2> QED
    BY <1>1, <2>1, <2>3, SyncLeaves
<1> QED
  BY <1>2, <1>3, <1>4, <1>5

LEMMA WriteSectionMoves ==
  ASSUME TypeOK, TypeOK', FamiliesHold, NEW c \in Calls,
         StartWrite(c) \/ Lock(c) \/ LockFails(c) \/ EndWrite(c)
  PROVE  SyncMoves /\ WriteMoves
<1>1. call[c] \in Call /\ SyncHolds /\ WriteHolds /\ WritesOnce
  BY DEF TypeOK, FamiliesHold
<1>2. CASE Lock(c)
  <2>1. /\ call[c].pc = "locking" /\ call'[c] = [call[c] EXCEPT !.pc = "writing"]
        /\ \A d \in Calls \ {c} : call'[d] = call[d]
        /\ UNCHANGED <<syncChains, writeChains>>
    BY <1>2 DEF Lock, Goto, At, TypeOK
  <2>2. [call[c] EXCEPT !.pc = "writing"] \in Call
    BY <1>1 DEF Call
  <2>3. /\ call'[c].pc = "writing" /\ call'[c].syncBehind = call[c].syncBehind
        /\ call'[c].writeBehind = call[c].writeBehind /\ call'[c].wrote = call[c].wrote
    BY <1>1, <2>1 DEF Call
  <2> QED
    BY <1>1, <2>1, <2>3, QuietSteps
<1>3. ASSUME call[c].pc \in {"write_queued", "locking", "writing"},
             \/ call'[c].pc \in {"locking", "running"} /\ call'[c].syncBehind = call[c].syncBehind
                /\ (call'[c].pc = "running" => c \notin Edits)
             \/ call'[c] = Ended /\ c \in Edits,
             \A d \in Calls \ {c} : call'[d] = call[d], syncChains' = syncChains
      PROVE  SyncMoves
  <2>1. \A d \in Calls :
           /\ InQueue(d)' <=> InQueue(d)
           /\ At(d, "queued")' <=> At(d, "queued")
           /\ At(d, "ended") => At(d, "ended")'
           /\ call'[d].syncBehind \in {call[d].syncBehind, NoCall}
           /\ InQueue(d) => call'[d].syncBehind = call[d].syncBehind
    <3>1. Ended.pc = "ended" /\ Ended.syncBehind = NoCall
      BY DEF Ended, NewCall
    <3> QED
      BY <1>3, <3>1 DEF InQueue, At
  <2> QED
    BY <1>1, <1>3, <2>1, SyncStays
<1>4. CASE StartWrite(c)
  <2>1. /\ call[c].pc = "write_queued" /\ call'[c].pc = "locking"
        /\ call'[c].syncBehind = call[c].syncBehind
        /\ \A d \in Calls \ {c} : call'[d] = call[d]
        /\ syncChains' = syncChains
    BY <1>1, <1>4 DEF StartWrite, At, TypeOK, Call
  <2> QED
    BY <1>1, <1>3, <1>4, <2>1, WriteStarts
<1>5. CASE LockFails(c) \/ EndWrite(c)
  <2>1. call[c].pc \in {"locking", "writing"} /\ LeaveWrite(c)
    BY <1>5 DEF LockFails, EndWrite, At
  <2>2. /\ \/ call'[c].pc = "running" /\ call'[c].syncBehind = call[c].syncBehind
              /\ c \notin Edits
           \/ call'[c] = Ended /\ c \in Edits
        /\ \A d \in Calls \ {c} : call'[d] = call[d]
        /\ syncChains' = syncChains
    BY <1>1, <2>1 DEF LeaveWrite, AfterWrite, TypeOK, Call
  <2> QED
    BY <1>1, <1>3, <2>1, <2>2, WriteLeaves
<1> QED
  BY <1>2, <1>4, <1>5

LEMMA ResticMoves ==
  ASSUME TypeOK, TypeOK', FamiliesHold, NEW c \in Calls,
         \/ Spawn(c) \/ Disconnect(c) \/ Timeout(c) \/ KillTimer(c) \/ TooMuchOutput(c)
         \/ Settle(c) \/ \E code \in {"zero", "other", "signal"} : Exit(c, code)
  PROVE  SyncMoves /\ WriteMoves
<1>1. call[c] \in Call /\ SyncHolds /\ WriteHolds /\ WritesOnce
  BY DEF TypeOK, FamiliesHold
<1>2. ASSUME UNCHANGED <<syncChains, writeChains>>,
             \A d \in Calls \ {c} : call'[d] = call[d],
             \/ call'[c].pc = call[c].pc
             \/ {call[c].pc, call'[c].pc} \subseteq {"running", "restic"},
             call'[c].syncBehind = call[c].syncBehind,
             call'[c].writeBehind = call[c].writeBehind,
             call'[c].wrote = call[c].wrote
      PROVE  SyncMoves /\ WriteMoves
  BY <1>1, <1>2, QuietSteps
<1>3. CASE Spawn(c)
  BY <1>1, <1>2, <1>3 DEF Spawn, At, TypeOK, Call
<1>4. CASE Disconnect(c)
  BY <1>1, <1>2, <1>4 DEF Disconnect, TypeOK, Call
<1>5. CASE \/ Timeout(c) \/ KillTimer(c) \/ TooMuchOutput(c)
           \/ \E code \in {"zero", "other", "signal"} : Exit(c, code)
  BY <1>2, <1>5 DEF Timeout, KillTimer, TooMuchOutput, Exit, SetProcess
<1>6. CASE Settle(c)
  <2>1. call[c].pc = "restic" /\ c \notin Edits /\ writeChains' = writeChains
    BY <1>6 DEF Settle, Runs, At, TypeOK
  <2>2. CASE Goto(c, "running") /\ UNCHANGED syncChains
    BY <1>1, <1>2, <2>1, <2>2 DEF Goto, TypeOK, Call
  <2>3. CASE call' = [call EXCEPT ![c] = Ended] /\ syncChains' = Released(syncChains, c)
    <3>1. \A d \in Calls :
             /\ InWrite(d)' <=> InWrite(d)
             /\ At(d, "write_queued")' <=> At(d, "write_queued")
             /\ call[d].wrote \/ At(d, "ended") => call'[d].wrote \/ At(d, "ended")'
             /\ InWrite(d) => call'[d].wrote = call[d].wrote
             /\ call'[d].writeBehind \in {call[d].writeBehind, NoCall}
             /\ InWrite(d) => call'[d].writeBehind = call[d].writeBehind
      <4>1. /\ call'[c].pc = "ended" /\ call'[c].writeBehind = NoCall
            /\ \A d \in Calls \ {c} : call'[d] = call[d]
        BY <2>3 DEF Ended, NewCall, TypeOK
      <4> QED
        BY <2>1, <4>1 DEF InWrite, At
    <3> QED
      BY <1>1, <2>1, <2>3, <3>1, WriteStays, SyncLeaves
  <2> QED
    BY <1>6, <2>2, <2>3 DEF Settle
<1> QED
  BY <1>3, <1>4, <1>5, <1>6

LEMMA FamiliesMove ==
  ASSUME TypeOK, TypeOK', FamiliesHold, [Next]_vars
  PROVE  SyncMoves /\ WriteMoves /\ FamiliesHold'
<1>1. WritesOnce'
  BY StepsKeepWritesOnce DEF FamiliesHold
<1>2. SyncMoves /\ WriteMoves
  <2>1. CASE UNCHANGED vars
    BY <2>1, QuietSteps DEF vars, FamiliesHold
  <2>2. ASSUME NEW r \in Replicas, Crash(r)
        PROVE  SyncMoves /\ WriteMoves
    BY <2>2, ReplicaDies DEF FamiliesHold
  <2> QED
    BY <1>1, <2>1, <2>2, QueueMoves, WriteSectionMoves, ResticMoves DEF Next
<1> QED
  BY <1>1, <1>2 DEF FamiliesHold, SyncMoves, WriteMoves

LEMMA FamiliesAlwaysHold == Spec => []FamiliesHold
BY InitHolds, FamiliesMove, TypesAreKept, PTL DEF Spec

\* No entry of the maps goes under a waiting call and none stays behind
\* (ChainsAreKept): the entry of a chain is its last call, and all others of
\* the chain are ahead of that one.
THEOREM EntriesAreKept == Spec => []ChainsAreKept
<1>1. FamiliesHold => ChainsAreKept
  BY DEF FamiliesHold, SyncHolds, WriteHolds, ChainsHold, ChainsAreKept, Queued, Writers
<1> QED
  BY <1>1, FamiliesAlwaysHold, PTL

\* The synchronizations of a project on one replica run one at a time in the
\* order of their requests, and so do its write sections, whatever becomes of
\* them (CallsTakeTurns): the detailed chains of promises implement Turns.
THEOREM ChainsImplementTurns == Spec => CallsTakeTurns
<1>1. Init => Queue!Init /\ Sections!Init
  <2> SUFFICES ASSUME Init PROVE Queue!Init /\ Sections!Init
    OBVIOUS
  <2>1. \A c \in Calls : call[c].pc = "idle"
    BY DEF Init, NewCall
  <2>2. Queued = {} /\ Writers = {}
    BY <2>1 DEF Queued, Writers, InQueue, InWrite, At
  <2> QED
    BY <2>2 DEF Queue!Init, Sections!Init, SyncPlace, WritePlace, PlaceOf
<1>2. ASSUME NEW old, NEW new, Queue!Step(old, new)
      PROVE  Sections!Step(old, new)
  BY <1>2, Zenon DEF Queue!Step, Sections!Step, Queue!Joined, Sections!Joined, Queue!In,
     Sections!In, Queue!MayStart, Sections!MayStart, Queue!Without, Sections!Without
<1>3. TypeOK /\ TypeOK' /\ FamiliesHold /\ [Next]_vars =>
         [Queue!Next]_SyncPlace /\ [Sections!Next]_WritePlace
  <2> SUFFICES ASSUME TypeOK, TypeOK', FamiliesHold, [Next]_vars
               PROVE  [Queue!Next]_SyncPlace /\ [Sections!Next]_WritePlace
    OBVIOUS
  <2>1. SyncMoves /\ WriteMoves
    BY FamiliesMove
  <2>2. [Queue!Next]_SyncPlace
    BY <2>1 DEF SyncMoves, Queue!Next
  <2>3. [Sections!Next]_WritePlace
    BY <1>2, <2>1 DEF WriteMoves, Sections!Next
  <2> QED
    BY <2>2, <2>3
<1> QED
  BY <1>1, <1>3, TypesAreKept, FamiliesAlwaysHold, PTL
     DEF Spec, CallsTakeTurns, Queue!Spec, Sections!Spec
=============================================================================
