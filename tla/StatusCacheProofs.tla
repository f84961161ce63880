------------------------- MODULE StatusCacheProofs -------------------------
(***************************************************************************)
(* Proofs about StatusCache, for every set of projects, callers and runs   *)
(* and every limit.  The inductive invariant relates the run objects to    *)
(* the entries that lead to them (Connected), to the generation of their   *)
(* project (CacheIsCurrent, Current) and to the slots (Queued, Counted).   *)
(***************************************************************************)
EXTENDS StatusCache, FiniteSetTheorems, SequenceTheorems, TLAPS

\* An entry in flight is a used run of its project, and a run that was not
\* aborted is the one in flight.
Connected ==
    /\ \A p \in Projects : inFlight[p] # NoRun =>
          Used(inFlight[p]) /\ run[inFlight[p]].project = p
    /\ \A r \in Runs : Used(r) =>
          /\ run[r].project \in Projects
          /\ ~run[r].aborted => inFlight[run[r].project] = r

\* A run that was not aborted has the generation of its project.
Current ==
    \A r \in Runs : Used(r) /\ ~run[r].aborted =>
        run[r].generation = GenerationOf(run[r].project)

\* The queue holds exactly the waiting runs, each one once.
Queued ==
    /\ \A i \in DOMAIN waiters : run[waiters[i]].pc = "waiting"
    /\ \A r \in Runs : run[r].pc = "waiting" => \E i \in DOMAIN waiters : waiters[i] = r
    /\ IsInjective(waiters)

Counted ==
    /\ SlotsAreHeld
    /\ waiters # <<>> => activeRuns = MaxConcurrent

Inv ==
    /\ TypeOK /\ Connected /\ Current /\ CacheIsCurrent /\ NoOrphanRun
    /\ Queued /\ Counted

-----------------------------------------------------------------------------
(* The queue *)

\* RemoveAt: the elements after the removed one move up.
LEMMA RemoveAtProperties ==
  ASSUME NEW S, NEW s \in Seq(S), NEW i \in 1 .. Len(s)
  PROVE  /\ RemoveAt(s, i) \in Seq(S)
         /\ Len(RemoveAt(s, i)) = Len(s) - 1
         /\ \A j \in 1 .. Len(s) - 1 :
               RemoveAt(s, i)[j] = IF j < i THEN s[j] ELSE s[j + 1]
<1> DEFINE a == SubSeq(s, 1, i - 1)
<1> DEFINE b == SubSeq(s, i + 1, Len(s))
<1>1. Len(s) \in Nat /\ i \in Int /\ \A j \in 1 .. Len(s) : s[j] \in S
  OBVIOUS
<1>2. /\ a \in Seq(S) /\ Len(a) = i - 1
      /\ \A j \in 1 .. i - 1 : a[j] = s[j]
  <2>1. \A j \in 1 .. i - 1 : s[j] \in S
    BY <1>1
  <2> QED
    BY <1>1, <2>1, SubSeqProperties
<1>3. /\ b \in Seq(S) /\ Len(b) = Len(s) - i
      /\ \A j \in 1 .. Len(s) - i : b[j] = s[j + i]
  <2>1. \A j \in i + 1 .. Len(s) : s[j] \in S
    BY <1>1
  <2>2. /\ SubSeq(s, i + 1, Len(s)) \in Seq(S)
        /\ Len(SubSeq(s, i + 1, Len(s)))
              = IF i + 1 <= Len(s) THEN Len(s) - (i + 1) + 1 ELSE 0
        /\ \A j \in 1 .. Len(s) - (i + 1) + 1 :
              SubSeq(s, i + 1, Len(s))[j] = s[(i + 1) + j - 1]
    BY <1>1, <2>1, SubSeqProperties
  <2> QED
    BY <1>1, <2>2
<1> HIDE DEF a, b
<1>4. RemoveAt(s, i) = a \o b
  BY DEF RemoveAt, a, b
<1>5. /\ a \o b \in Seq(S) /\ Len(a \o b) = Len(a) + Len(b)
      /\ \A j \in 1 .. Len(a) + Len(b) :
            (a \o b)[j] = IF j <= Len(a) THEN a[j] ELSE b[j - Len(a)]
  BY <1>2, <1>3, ConcatProperties
<1> QED
  BY <1>1, <1>2, <1>3, <1>4, <1>5

\* A waiter that leaves is out of the queue; the others stay, once each.
LEMMA LeaveQueueProperties ==
  ASSUME TypeOK, Queued, NEW r \in Runs, run[r].pc = "waiting"
  PROVE  /\ LeaveQueue(r) \in Seq(Runs)
         /\ IsInjective(LeaveQueue(r))
         /\ \A j \in DOMAIN LeaveQueue(r) :
               /\ LeaveQueue(r)[j] # r
               /\ \E k \in DOMAIN waiters : LeaveQueue(r)[j] = waiters[k]
         /\ \A k \in DOMAIN waiters : waiters[k] # r =>
               \E j \in DOMAIN LeaveQueue(r) : LeaveQueue(r)[j] = waiters[k]
         /\ LeaveQueue(r) # <<>> => waiters # <<>>
<1> DEFINE i == CHOOSE k \in 1 .. Len(waiters) : waiters[k] = r
<1> DEFINE w == RemoveAt(waiters, i)
<1>1. waiters \in Seq(Runs) /\ DOMAIN waiters = 1 .. Len(waiters) /\ Len(waiters) \in Nat
  BY DEF TypeOK
<1>2. \E k \in 1 .. Len(waiters) : waiters[k] = r
  BY <1>1 DEF Queued
<1>3. i \in 1 .. Len(waiters) /\ waiters[i] = r
  BY <1>2
<1>4. LeaveQueue(r) = w
  BY <1>2 DEF LeaveQueue
<1> HIDE DEF i
<1>5. /\ w \in Seq(Runs) /\ Len(w) = Len(waiters) - 1
      /\ \A j \in 1 .. Len(waiters) - 1 :
            w[j] = IF j < i THEN waiters[j] ELSE waiters[j + 1]
  BY <1>1, <1>3, RemoveAtProperties
<1> HIDE DEF w
<1>6. DOMAIN w = 1 .. Len(waiters) - 1
  BY <1>5
<1>7. \A j, k \in 1 .. Len(waiters) : waiters[j] = waiters[k] => j = k
  BY <1>1 DEF Queued, IsInjective
<1>8. IsInjective(w)
  BY <1>1, <1>3, <1>5, <1>6, <1>7 DEF IsInjective
<1>9. \A j \in DOMAIN w : w[j] # r /\ \E k \in DOMAIN waiters : w[j] = waiters[k]
  BY <1>1, <1>3, <1>5, <1>6, <1>7
<1>10. ASSUME NEW k \in DOMAIN waiters, waiters[k] # r
       PROVE  \E j \in DOMAIN w : w[j] = waiters[k]
  <2>1. CASE k < i
    BY <1>1, <1>3, <1>5, <1>6, <1>10, <2>1
  <2>2. CASE k > i
    <3>1. k - 1 \in DOMAIN w /\ w[k - 1] = waiters[k]
      BY <1>1, <1>3, <1>5, <1>6, <2>2
    <3> QED
      BY <3>1
  <2>3. k # i
    BY <1>3, <1>10
  <2> QED
    BY <1>1, <1>3, <2>1, <2>2, <2>3
<1>11. w # <<>> => waiters # <<>>
  BY <1>3, <1>1
<1> QED
  BY <1>4, <1>5, <1>8, <1>9, <1>10, <1>11
-----------------------------------------------------------------------------
(* The steps *)

LEMMA RunningIsFinite ==
  /\ IsFiniteSet(Running) /\ Cardinality(Running) \in Nat
  /\ \A r \in Running : Cardinality(Running) >= 1
<1>1. Running \in SUBSET Runs
  BY DEF Running
<1>2. IsFiniteSet(Running) /\ Cardinality(Running) \in Nat
  BY <1>1, RunsAreFinite, FS_Subset, FS_CardinalityType
<1>3. Running # {} => Cardinality(Running) # 0
  BY <1>2, FS_EmptySet
<1> QED
  BY <1>2, <1>3

LEMMA InitInv == Init => Inv
<1> SUFFICES ASSUME Init PROVE Inv
  OBVIOUS
<1>1. Unused \in Run /\ NoEntry.state = "none" /\ NoEntry \in
        [state : {"none", "fresh", "stale"}, generation : Generations]
  BY GenerationsAreBounded DEF Unused, Run, NoEntry, Generations
<1>2. TypeOK
  BY <1>1 DEF Init, TypeOK
<1>3. \A r \in Runs : run[r].pc = "none"
  BY DEF Init, Unused
<1>4. Connected /\ Current /\ NoOrphanRun
  BY <1>3 DEF Init, Connected, Current, NoOrphanRun, Used
<1>5. CacheIsCurrent
  BY <1>1 DEF Init, CacheIsCurrent
<1>6. Queued
  BY <1>3 DEF Init, Queued, IsInjective
<1>7. Running = {}
  BY <1>3 DEF Running
<1>8. Counted
  BY <1>7, FS_EmptySet, LimitsArePositive DEF Init, Counted, SlotsAreHeld
<1> QED
  BY <1>2, <1>4, <1>5, <1>6, <1>8 DEF Inv

LEMMA GenerationTyped ==
  ASSUME TypeOK, NEW p \in Projects PROVE GenerationOf(p) \in Generations
  BY GenerationsAreBounded DEF TypeOK, GenerationOf, Generations

\* A run starts for a project that has none in flight.
LEMMA StartKeeps ==
  ASSUME Inv, NEW r \in Runs, NEW p \in Projects, NEW b \in BOOLEAN,
         NEW t \in SUBSET Callers, b \/ t # {},
         inFlight[p] = NoRun, StartRun(r, p, b, t), UNCHANGED <<generations, cache>>,
         answering' \in SUBSET Callers
  PROVE  Inv'
<1> DEFINE q(l) == [pc |-> l, project |-> p, background |-> b,
                    generation |-> GenerationOf(p), aborted |-> FALSE, tokens |-> t]
<1>0. TypeOK /\ Connected /\ Current /\ CacheIsCurrent /\ NoOrphanRun /\ Queued /\ Counted
  BY DEF Inv
<1>1. PICK l \in {"running", "waiting", "refused"} :
         /\ run' = [run EXCEPT ![r] = q(l)]
         /\ l = "running" => /\ activeRuns < MaxConcurrent
                             /\ activeRuns' = activeRuns + 1 /\ waiters' = waiters
         /\ l = "waiting" => /\ activeRuns >= MaxConcurrent
                             /\ activeRuns' = activeRuns /\ waiters' = Append(waiters, r)
         /\ l = "refused" => activeRuns' = activeRuns /\ waiters' = waiters
  BY DEF StartRun
<1>2. /\ ~Used(r) /\ inFlight' = [inFlight EXCEPT ![p] = r]
      /\ generations' = generations /\ cache' = cache
  BY DEF StartRun
<1>3. q(l) \in Run
  BY <1>0, GenerationTyped DEF Run
<1>4. /\ run' \in [Runs -> Run] /\ run'[r] = q(l)
      /\ \A x \in Runs \ {r} : run'[x] = run[x]
  BY <1>0, <1>1, <1>3 DEF TypeOK
<1>5. /\ inFlight' \in [Projects -> Runs \cup {NoRun}] /\ inFlight'[p] = r
      /\ \A x \in Projects \ {p} : inFlight'[x] = inFlight[x]
  BY <1>0, <1>2 DEF TypeOK
<1>6. /\ q(l).pc = l /\ q(l).project = p /\ q(l).background = b /\ ~q(l).aborted
      /\ q(l).generation = GenerationOf(p) /\ q(l).tokens = t
  OBVIOUS
<1> HIDE DEF q
<1>7. TypeOK'
  <2>1. activeRuns' \in Nat
    BY <1>0, <1>1 DEF TypeOK
  <2>2. Append(waiters, r) \in Seq(Runs)
    BY <1>0, AppendProperties DEF TypeOK
  <2>3. waiters' \in Seq(Runs)
    BY <1>0, <1>1, <2>2 DEF TypeOK
  <2> QED
    BY <1>0, <1>2, <1>4, <1>5, <2>1, <2>3 DEF TypeOK
<1>8. Connected'
  BY <1>0, <1>1, <1>2, <1>4, <1>5, <1>6, RunsAreFinite DEF TypeOK, Connected, Used
<1>9. Current'
  BY <1>0, <1>1, <1>2, <1>4, <1>6 DEF Current, Used, GenerationOf, Connected
<1>10. CacheIsCurrent'
  BY <1>0, <1>2 DEF CacheIsCurrent, GenerationOf
<1>11. NoOrphanRun'
  BY <1>0, <1>4, <1>6 DEF NoOrphanRun, Used
<1>12. Queued'
  <2>1. waiters \in Seq(Runs) /\ DOMAIN waiters = 1 .. Len(waiters) /\ Len(waiters) \in Nat
        /\ \A i \in DOMAIN waiters : waiters[i] # r /\ waiters[i] \in Runs
    BY <1>0, <1>2 DEF TypeOK, Queued, Used
  <2>2. CASE l = "waiting"
    <3>1. /\ waiters' = Append(waiters, r) /\ DOMAIN waiters' = 1 .. Len(waiters) + 1
          /\ \A i \in DOMAIN waiters : waiters'[i] = waiters[i]
          /\ waiters'[Len(waiters) + 1] = r
      BY <1>1, <2>1, <2>2
    <3> QED
      BY <1>0, <1>4, <1>6, <2>1, <2>2, <3>1 DEF Queued, IsInjective
  <2>3. CASE l # "waiting"
    BY <1>0, <1>1, <1>4, <1>6, <2>1, <2>3 DEF Queued, IsInjective
  <2> QED
    BY <2>2, <2>3
<1>13. Counted'
  <2>1. r \notin Running
    BY <1>2 DEF Running, Used
  <2>2. CASE l = "running"
    <3>1. Running' = Running \cup {r}
      BY <1>4, <1>6, <2>2 DEF Running
    <3>2. Cardinality(Running') = Cardinality(Running) + 1
      BY <2>1, <3>1, RunningIsFinite, FS_AddElement
    <3> QED
      BY <1>0, <1>1, <2>2, <3>2, LimitsArePositive DEF Counted, SlotsAreHeld, TypeOK
  <2>3. CASE l # "running"
    <3>1. Running' = Running
      BY <1>4, <1>6, <2>1, <2>3 DEF Running
    <3> QED
      BY <1>0, <1>1, <2>3, <3>1, LimitsArePositive DEF Counted, SlotsAreHeld, TypeOK
  <2> QED
    BY <2>2, <2>3
<1> QED
  BY <1>7, <1>8, <1>9, <1>10, <1>11, <1>12, <1>13 DEF Inv

\* A step that leaves every run where it stands leaves the slots alone.
LEMMA SlotsUntouched ==
  ASSUME Inv, \A x \in Runs : run'[x].pc = run[x].pc,
         UNCHANGED <<activeRuns, waiters>>
  PROVE  Queued' /\ Counted'
<1>1. Running' = Running
  BY DEF Running
<1>2. \A i \in DOMAIN waiters : waiters[i] \in Runs
  BY DEF Inv, TypeOK
<1> QED
  BY <1>1, <1>2 DEF Inv, Queued, Counted, SlotsAreHeld

\* A waiting run is cancelled: it leaves the queue and never had a slot.
LEMMA CancelKeepsSlots ==
  ASSUME Inv, NEW r \in Runs, run[r].pc = "waiting", run'[r].pc = "refused",
         \A x \in Runs \ {r} : run'[x] = run[x],
         waiters' = LeaveQueue(r), UNCHANGED activeRuns
  PROVE  Queued' /\ Counted' /\ waiters' \in Seq(Runs)
<1>0. TypeOK /\ Queued /\ Counted
  BY DEF Inv
<1>1. /\ waiters' \in Seq(Runs) /\ IsInjective(waiters')
      /\ \A j \in DOMAIN waiters' :
            waiters'[j] # r /\ \E k \in DOMAIN waiters : waiters'[j] = waiters[k]
      /\ \A k \in DOMAIN waiters : waiters[k] # r =>
            \E j \in DOMAIN waiters' : waiters'[j] = waiters[k]
      /\ waiters' # <<>> => waiters # <<>>
  BY <1>0, LeaveQueueProperties
<1>2. \A k \in DOMAIN waiters : waiters[k] \in Runs
  BY <1>0 DEF TypeOK
<1>3. Queued'
  <2>1. \A j \in DOMAIN waiters' : run'[waiters'[j]].pc = "waiting"
    BY <1>0, <1>1, <1>2 DEF Queued
  <2>2. ASSUME NEW x \in Runs, run'[x].pc = "waiting"
        PROVE  \E j \in DOMAIN waiters' : waiters'[j] = x
    BY <1>0, <1>1, <2>2 DEF Queued
  <2> QED
    BY <1>1, <2>1, <2>2 DEF Queued, IsInjective
<1>4. Running' = Running
  BY DEF Running
<1> QED
  BY <1>0, <1>1, <1>3, <1>4 DEF Counted, SlotsAreHeld

LEMMA AbortedTyped ==
  ASSUME NEW q \in Run
  PROVE  /\ Aborted(q) \in Run /\ Aborted(q).aborted
         /\ Aborted(q).project = q.project /\ Aborted(q).tokens = q.tokens
         /\ Aborted(q).pc = IF q.pc = "waiting" THEN "refused" ELSE q.pc
  BY DEF Aborted, Run

LEMMA JoinKeeps ==
  ASSUME Inv, NEW c \in Callers, NEW p \in Projects, GetJoins(c, p)
  PROVE  Inv'
<1> DEFINE r == inFlight[p]
<1>0. TypeOK /\ Connected /\ Current /\ CacheIsCurrent /\ NoOrphanRun
  BY DEF Inv
<1>1. r \in Runs /\ run[r] \in Run
  BY <1>0 DEF TypeOK, GetJoins
<1> DEFINE q == [run[r] EXCEPT !.tokens = @ \cup {c}]
<1>2. /\ run' = [run EXCEPT ![r] = q] /\ answering' = answering \cup {c}
      /\ UNCHANGED <<generations, cache, inFlight, activeRuns, waiters>>
  BY DEF GetJoins
<1>3. /\ q \in Run /\ q.pc = run[r].pc /\ q.project = run[r].project
      /\ q.aborted = run[r].aborted /\ q.generation = run[r].generation
      /\ q.tokens # {}
  BY <1>1 DEF Run
<1> HIDE DEF q, r
<1>4. /\ run' \in [Runs -> Run] /\ run'[r] = q
      /\ \A x \in Runs \ {r} : run'[x] = run[x]
  BY <1>0, <1>1, <1>2, <1>3 DEF TypeOK
<1>5. TypeOK'
  BY <1>0, <1>2, <1>4 DEF TypeOK
<1>6. \A x \in Runs : /\ run'[x].pc = run[x].pc /\ run'[x].project = run[x].project
                      /\ run'[x].aborted = run[x].aborted
                      /\ run'[x].generation = run[x].generation
  BY <1>3, <1>4
<1>7. Connected'
  BY <1>0, <1>2, <1>6 DEF Connected, Used, TypeOK
<1>8. Current' /\ CacheIsCurrent'
  BY <1>0, <1>2, <1>6 DEF Current, CacheIsCurrent, Used, GenerationOf
<1>9. NoOrphanRun'
  BY <1>0, <1>3, <1>4 DEF NoOrphanRun, Used
<1> QED
  BY <1>2, <1>5, <1>6, <1>7, <1>8, <1>9, SlotsUntouched DEF Inv

LEMMA DisconnectKeeps ==
  ASSUME Inv, NEW c \in Callers, NEW r \in Runs, Disconnect(c, r)
  PROVE  Inv'
<1> DEFINE left == [run[r] EXCEPT !.tokens = @ \ {c}]
<1> DEFINE q == IF Unwanted(left) THEN Aborted(left) ELSE left
<1>0. TypeOK /\ Connected /\ Current /\ CacheIsCurrent /\ NoOrphanRun
  BY DEF Inv
<1>1. /\ run' = [run EXCEPT ![r] = q] /\ answering' = answering \ {c}
      /\ waiters' = IF Unwanted(left) /\ run[r].pc = "waiting"
                    THEN LeaveQueue(r) ELSE waiters
      /\ UNCHANGED <<generations, cache, inFlight, activeRuns>>
  BY DEF Disconnect
<1>2. /\ left \in Run /\ left.pc = run[r].pc /\ left.project = run[r].project
      /\ left.aborted = run[r].aborted /\ left.generation = run[r].generation
      /\ left.background = run[r].background
  BY <1>0 DEF TypeOK, Run
<1>3. /\ q \in Run /\ q.project = run[r].project
      /\ Unwanted(left) => q.aborted
      /\ ~Unwanted(left) => q = left
      /\ q.pc = IF Unwanted(left) /\ run[r].pc = "waiting" THEN "refused" ELSE run[r].pc
  BY <1>2, AbortedTyped
<1>4. Unwanted(left) <=> left.tokens = {} /\ ~left.background
  BY DEF Unwanted
<1> HIDE DEF q, left
<1>5. /\ run' \in [Runs -> Run] /\ run'[r] = q
      /\ \A x \in Runs \ {r} : run'[x] = run[x]
  BY <1>0, <1>1, <1>3 DEF TypeOK
<1>6. Queued' /\ Counted' /\ waiters' \in Seq(Runs)
  <2>1. CASE Unwanted(left) /\ run[r].pc = "waiting"
    BY <1>1, <1>3, <1>5, <2>1, CancelKeepsSlots
  <2>2. CASE ~(Unwanted(left) /\ run[r].pc = "waiting")
    <3>1. \A x \in Runs : run'[x].pc = run[x].pc
      BY <1>3, <1>5, <2>2
    <3> QED
      BY <1>0, <1>1, <2>2, <3>1, SlotsUntouched DEF TypeOK
  <2> QED
    BY <2>1, <2>2
<1>7. TypeOK'
  BY <1>0, <1>1, <1>5, <1>6 DEF TypeOK
<1>8. \A x \in Runs : /\ run'[x].project = run[x].project
                      /\ run'[x].pc = "none" <=> run[x].pc = "none"
                      /\ ~run'[x].aborted =>
                            /\ ~run[x].aborted
                            /\ run'[x].generation = run[x].generation
  BY <1>2, <1>3, <1>5 DEF Used
<1>9. Connected'
  <2>1. inFlight' = inFlight
    BY <1>1
  <2>2. \A p \in Projects : inFlight[p] # NoRun =>
           inFlight[p] \in Runs /\ run[inFlight[p]].pc # "none"
           /\ run[inFlight[p]].project = p
    BY <1>0 DEF Connected, Used, TypeOK
  <2>3. \A x \in Runs : run[x].pc # "none" =>
           /\ run[x].project \in Projects
           /\ ~run[x].aborted => inFlight[run[x].project] = x
    BY <1>0 DEF Connected, Used
  <2> QED
    BY <1>8, <2>1, <2>2, <2>3 DEF Connected, Used
<1>10. Current' /\ CacheIsCurrent'
  BY <1>0, <1>1, <1>8 DEF Current, CacheIsCurrent, GenerationOf, Used
<1>11. NoOrphanRun'
  <2>1. \A x \in Runs \ {r} :
           run'[x].pc # "none" /\ ~run'[x].aborted => run'[x].background \/ run'[x].tokens # {}
    BY <1>0, <1>5 DEF NoOrphanRun, Used
  <2>2. run'[r].pc # "none" /\ ~run'[r].aborted => run'[r].background \/ run'[r].tokens # {}
    BY <1>3, <1>4, <1>5
  <2> QED
    BY <2>1, <2>2 DEF NoOrphanRun, Used
<1> QED
  BY <1>6, <1>7, <1>9, <1>10, <1>11 DEF Inv

LEMMA InvalidateKeeps ==
  ASSUME Inv, NEW p \in Projects, Invalidate(p)
  PROVE  Inv'
<1> DEFINE r == inFlight[p]
<1>0. TypeOK /\ Connected /\ Current /\ CacheIsCurrent /\ NoOrphanRun
  BY DEF Inv
<1>1. /\ GenerationOf(p) # MaxGeneration
      /\ cache' = [cache EXCEPT ![p] = NoEntry]
      /\ generations' = [generations EXCEPT ![p] = GenerationOf(p) + 1]
      /\ inFlight' = [inFlight EXCEPT ![p] = NoRun]
      /\ UNCHANGED <<activeRuns, answering>>
  BY DEF Invalidate
<1>2. /\ r = NoRun => run' = run /\ waiters' = waiters
      /\ r # NoRun =>
            /\ run' = [run EXCEPT ![r] = Aborted(run[r])]
            /\ waiters' = IF run[r].pc = "waiting" THEN LeaveQueue(r) ELSE waiters
  BY DEF Invalidate
<1>3. r \in Runs \cup {NoRun} /\ \A x \in Runs : run[x] \in Run
  BY <1>0 DEF TypeOK
<1> HIDE DEF r
<1>4. GenerationOf(p) + 1 \in Generations
  BY <1>0, <1>1, GenerationTyped, GenerationsAreBounded DEF Generations
<1>5. NoEntry \in [state : {"none", "fresh", "stale"}, generation : Generations]
      /\ NoEntry.state = "none"
  BY GenerationsAreBounded DEF NoEntry, Generations
<1>6. /\ run' \in [Runs -> Run]
      /\ r # NoRun => run'[r] = Aborted(run[r])
      /\ \A x \in Runs : x # r => run'[x] = run[x]
  <2>1. r # NoRun => Aborted(run[r]) \in Run
    BY <1>3, AbortedTyped
  <2> QED
    BY <1>0, <1>2, <1>3, <2>1 DEF TypeOK
<1>7. \A x \in Runs : /\ run'[x].project = run[x].project
                      /\ run'[x].tokens = run[x].tokens
                      /\ run'[x].pc = "none" <=> run[x].pc = "none"
                      /\ ~run'[x].aborted => x # r /\ run'[x] = run[x]
  <2>1. \A x \in Runs : x # r => run'[x] = run[x]
    BY <1>6
  <2>2. CASE r # NoRun
    <3>1. /\ run'[r].project = run[r].project /\ run'[r].tokens = run[r].tokens
          /\ run'[r].pc = IF run[r].pc = "waiting" THEN "refused" ELSE run[r].pc
          /\ run'[r].aborted
      BY <1>3, <1>6, <2>2, AbortedTyped
    <3> QED
      BY <2>1, <3>1 DEF Used
  <2>3. CASE r = NoRun
    BY <1>3, <2>1, <2>3, RunsAreFinite DEF Used
  <2> QED
    BY <2>2, <2>3
<1>8. Queued' /\ Counted' /\ waiters' \in Seq(Runs)
  <2>1. CASE r # NoRun /\ run[r].pc = "waiting"
    <3>1. r \in Runs /\ run'[r].pc = "refused"
      BY <1>3, <1>6, <2>1, AbortedTyped
    <3> QED
      BY <1>1, <1>2, <1>6, <2>1, <3>1, CancelKeepsSlots
  <2>2. CASE ~(r # NoRun /\ run[r].pc = "waiting")
    <3>1. \A x \in Runs : run'[x].pc = run[x].pc
      BY <1>2, <1>3, <1>6, <2>2, AbortedTyped
    <3> QED
      BY <1>0, <1>1, <1>2, <2>2, <3>1, SlotsUntouched DEF TypeOK
  <2> QED
    BY <2>1, <2>2
<1>9. TypeOK'
  BY <1>0, <1>1, <1>4, <1>5, <1>6, <1>8 DEF TypeOK
<1>10. /\ inFlight'[p] = NoRun /\ \A x \in Projects \ {p} : inFlight'[x] = inFlight[x]
       /\ generations'[p] = GenerationOf(p) + 1
       /\ \A x \in Projects \ {p} : /\ generations'[x] = generations[x]
                                    /\ cache'[x] = cache[x]
       /\ cache'[p].state = "none"
  BY <1>0, <1>1, <1>5 DEF TypeOK
<1>11. Connected'
  <2>1. \A x \in Runs : run'[x].pc # "none" =>
           /\ run'[x].project \in Projects
           /\ ~run'[x].aborted => /\ inFlight[run'[x].project] = x
                                  /\ run'[x].project # p
    BY <1>0, <1>7 DEF Connected, Used, r
  <2>2. \A y \in Projects \ {p} : inFlight[y] # NoRun =>
           inFlight[y] \in Runs /\ run'[inFlight[y]].pc # "none"
           /\ run'[inFlight[y]].project = y
    BY <1>0, <1>7 DEF Connected, Used, TypeOK
  <2> QED
    BY <1>10, <2>1, <2>2 DEF Connected, Used
<1>12. Current'
  <2>1. \A x \in Runs : run'[x].pc # "none" /\ ~run'[x].aborted =>
           run[x].project \in Projects \ {p} /\ run'[x] = run[x]
    BY <1>0, <1>7 DEF Connected, Used, TypeOK, r
  <2> QED
    BY <1>0, <1>7, <1>10, <2>1 DEF Current, GenerationOf, Used
<1>13. CacheIsCurrent'
  BY <1>0, <1>10 DEF CacheIsCurrent, GenerationOf
<1>14. NoOrphanRun'
  BY <1>0, <1>7 DEF NoOrphanRun, Used
<1> QED
  BY <1>8, <1>9, <1>11, <1>12, <1>13, <1>14 DEF Inv

\* A run that ends leaves the other runs and their entries as they are.
LEMMA ClearKeeps ==
  ASSUME Inv, NEW r \in Runs, run[r].pc # "none",
         inFlight' = Cleared(r), generations' = generations,
         run' \in [Runs -> Run], run'[r].pc = "none",
         \A x \in Runs \ {r} :
            /\ run'[x].pc = "none" <=> run[x].pc = "none"
            /\ run'[x].project = run[x].project
            /\ run'[x].background = run[x].background
            /\ run'[x].generation = run[x].generation
            /\ run'[x].aborted = run[x].aborted
            /\ run'[x].tokens = run[x].tokens
  PROVE  /\ inFlight' \in [Projects -> Runs \cup {NoRun}]
         /\ Connected' /\ Current' /\ NoOrphanRun'
<1>0. TypeOK /\ Connected /\ Current /\ NoOrphanRun
  BY DEF Inv
<1>1. /\ inFlight' \in [Projects -> Runs \cup {NoRun}]
      /\ \A y \in Projects :
            /\ inFlight'[y] \in {NoRun, inFlight[y]}
            /\ inFlight[y] # r => inFlight'[y] = inFlight[y]
            /\ inFlight[y] = r => inFlight'[y] = NoRun
  BY <1>0 DEF TypeOK, Cleared, Connected
<1>2. \A y \in Projects : inFlight'[y] # NoRun =>
         /\ inFlight'[y] \in Runs \ {r}
         /\ run[inFlight'[y]].pc # "none" /\ run[inFlight'[y]].project = y
  BY <1>0, <1>1, RunsAreFinite DEF TypeOK, Connected, Used
<1>3. \A x \in Runs \ {r} : run[x].pc # "none" =>
         /\ run[x].project \in Projects
         /\ ~run[x].aborted => inFlight'[run[x].project] = x
  BY <1>0, <1>1 DEF Connected, Used
<1>4. Connected'
  BY <1>2, <1>3 DEF Connected, Used
<1>5. Current'
  BY <1>0 DEF Current, GenerationOf, Used
<1>6. NoOrphanRun'
  BY <1>0 DEF NoOrphanRun, Used
<1> QED
  BY <1>1, <1>4, <1>5, <1>6

LEMMA UnusedTyped == Unused \in Run /\ Unused.pc = "none"
  BY GenerationsAreBounded DEF Unused, Run, Generations

LEMMA RefuseKeeps ==
  ASSUME Inv, NEW r \in Runs, Refuse(r)
  PROVE  Inv'
<1>0. TypeOK /\ CacheIsCurrent /\ Queued /\ Counted
  BY DEF Inv
<1>1. /\ run[r].pc = "refused" /\ run' = [run EXCEPT ![r] = Unused]
      /\ inFlight' = Cleared(r) /\ answering' = answering \ run[r].tokens
      /\ UNCHANGED <<generations, cache, activeRuns, waiters>>
  BY DEF Refuse
<1>2. /\ run' \in [Runs -> Run] /\ run'[r].pc = "none"
      /\ \A x \in Runs \ {r} : run'[x] = run[x]
  BY <1>0, <1>1, UnusedTyped DEF TypeOK
<1>3. inFlight' \in [Projects -> Runs \cup {NoRun}] /\ Connected' /\ Current' /\ NoOrphanRun'
  BY <1>1, <1>2, ClearKeeps
<1>4. TypeOK'
  BY <1>0, <1>1, <1>2, <1>3 DEF TypeOK
<1>5. CacheIsCurrent'
  BY <1>0, <1>1 DEF CacheIsCurrent, GenerationOf
<1>6. Queued'
  BY <1>0, <1>1, <1>2 DEF Queued, IsInjective, TypeOK
<1>7. Running' = Running
  BY <1>1, <1>2 DEF Running
<1>8. Counted'
  BY <1>0, <1>1, <1>7 DEF Counted, SlotsAreHeld
<1> QED
  BY <1>3, <1>4, <1>5, <1>6, <1>8 DEF Inv

\* The slot of a run that ends goes to the first waiter, or becomes free.
LEMMA ReleaseKeepsSlots ==
  ASSUME Inv, NEW r \in Runs, run[r].pc = "running", ReleaseSlot(r)
  PROVE  /\ run' \in [Runs -> Run] /\ run'[r].pc = "none"
         /\ activeRuns' \in Nat /\ waiters' \in Seq(Runs)
         /\ Queued' /\ Counted'
         /\ \A x \in Runs \ {r} :
               /\ run'[x].pc = "none" <=> run[x].pc = "none"
               /\ run'[x].project = run[x].project
               /\ run'[x].background = run[x].background
               /\ run'[x].generation = run[x].generation
               /\ run'[x].aborted = run[x].aborted
               /\ run'[x].tokens = run[x].tokens
<1>0. TypeOK /\ Queued /\ Counted
  BY DEF Inv
<1>1. r \in Running /\ activeRuns >= 1 /\ activeRuns \in Nat
  BY <1>0, RunningIsFinite DEF Running, Counted, SlotsAreHeld, TypeOK
<1>2. /\ waiters \in Seq(Runs) /\ Len(waiters) \in Nat
      /\ DOMAIN waiters = 1 .. Len(waiters)
      /\ \A i \in DOMAIN waiters : waiters[i] \in Runs \ {r}
  BY <1>0 DEF TypeOK, Queued
<1>3. CASE waiters = <<>>
  <2>1. /\ activeRuns' = activeRuns - 1 /\ run' = [run EXCEPT ![r] = Unused]
        /\ waiters' = waiters
    BY <1>3 DEF ReleaseSlot
  <2>2. /\ run' \in [Runs -> Run] /\ run'[r].pc = "none"
        /\ \A x \in Runs \ {r} : run'[x] = run[x]
    BY <1>0, <2>1, UnusedTyped DEF TypeOK
  <2>3. Queued'
    BY <1>0, <1>2, <2>1, <2>2 DEF Queued, IsInjective
  <2>4. Running' = Running \ {r}
    BY <2>2 DEF Running
  <2>5. Cardinality(Running') = Cardinality(Running) - 1
    BY <1>1, <2>4, RunningIsFinite, FS_RemoveElement
  <2>6. Counted'
    BY <1>0, <1>1, <1>3, <2>1, <2>5, LimitsArePositive DEF Counted, SlotsAreHeld
  <2> QED
    BY <1>1, <1>2, <2>1, <2>2, <2>3, <2>6
<1>4. CASE waiters # <<>>
  <2> DEFINE h == Head(waiters)
  <2>1. /\ waiters' = Tail(waiters) /\ activeRuns' = activeRuns
        /\ run' = [run EXCEPT ![r] = Unused, ![h].pc = "running"]
    BY <1>4 DEF ReleaseSlot
  <2>2. /\ h \in Runs \ {r} /\ h = waiters[1] /\ 1 \in DOMAIN waiters
    BY <1>2, <1>4
  <2>3. /\ Tail(waiters) \in Seq(Runs) /\ Len(Tail(waiters)) = Len(waiters) - 1
        /\ \A i \in 1 .. Len(waiters) - 1 : Tail(waiters)[i] = waiters[i + 1]
    BY <1>2, <1>4, HeadTailProperties
  <2>4. run[h].pc = "waiting" /\ run[h] \in Run
    BY <1>0, <2>2 DEF Queued, TypeOK
  <2> HIDE DEF h
  <2>5. /\ run' \in [Runs -> Run] /\ run'[r].pc = "none"
        /\ run'[h] = [run[h] EXCEPT !.pc = "running"]
        /\ \A x \in Runs \ {r, h} : run'[x] = run[x]
    <3>1. [run[h] EXCEPT !.pc = "running"] \in Run
      BY <2>4 DEF Run
    <3> QED
      BY <1>0, <2>1, <2>2, <3>1, UnusedTyped DEF TypeOK
  <2>6. /\ run'[h].pc = "running" /\ run'[h].project = run[h].project
        /\ run'[h].background = run[h].background
        /\ run'[h].generation = run[h].generation
        /\ run'[h].aborted = run[h].aborted /\ run'[h].tokens = run[h].tokens
    BY <2>4, <2>5 DEF Run
  <2>7. DOMAIN waiters' = 1 .. Len(waiters) - 1
    BY <2>1, <2>3
  <2>8. \A i, j \in 1 .. Len(waiters) : waiters[i] = waiters[j] => i = j
    BY <1>0, <1>2 DEF Queued, IsInjective
  <2>9. Queued'
    <3>1. \A i \in DOMAIN waiters' : waiters'[i] \in Runs \ {r, h}
                                     /\ run[waiters'[i]].pc = "waiting"
      BY <1>0, <1>2, <2>1, <2>2, <2>3, <2>7, <2>8 DEF Queued
    <3>2. ASSUME NEW x \in Runs, run'[x].pc = "waiting"
          PROVE  \E i \in DOMAIN waiters' : waiters'[i] = x
      <4>1. x # r /\ x # h /\ run[x].pc = "waiting"
        BY <2>5, <2>6, <3>2
      <4>2. PICK k \in 1 .. Len(waiters) : waiters[k] = x
        BY <1>0, <1>2, <4>1 DEF Queued
      <4>3. k - 1 \in DOMAIN waiters' /\ waiters'[k - 1] = x
        BY <1>2, <2>1, <2>2, <2>3, <2>7, <4>1, <4>2
      <4> QED
        BY <4>3
    <3>3. IsInjective(waiters')
      BY <1>2, <2>1, <2>3, <2>7, <2>8 DEF IsInjective
    <3> QED
      BY <2>5, <3>1, <3>2, <3>3 DEF Queued, IsInjective
  <2>10. Running' = (Running \ {r}) \cup {h}
    <3>1. \A x \in Runs :
             run'[x].pc = "running" <=> (x # r /\ run[x].pc = "running") \/ x = h
      BY <2>2, <2>5, <2>6
    <3> QED
      BY <2>2, <3>1 DEF Running
  <2>11. h \notin Running
    BY <2>4 DEF Running
  <2>12. Cardinality(Running') = Cardinality(Running)
    <3>1. IsFiniteSet(Running \ {r})
          /\ Cardinality(Running \ {r}) = Cardinality(Running) - 1
      BY <1>1, RunningIsFinite, FS_RemoveElement
    <3>2. Cardinality((Running \ {r}) \cup {h}) = Cardinality(Running \ {r}) + 1
      BY <2>11, <3>1, FS_AddElement
    <3> QED
      BY <2>10, <3>1, <3>2, RunningIsFinite
  <2>13. Counted'
    BY <1>0, <1>4, <2>1, <2>12 DEF Counted, SlotsAreHeld
  <2> QED
    BY <1>1, <2>1, <2>3, <2>4, <2>5, <2>6, <2>9, <2>13
<1> QED
  BY <1>3, <1>4

LEMMA FinishKeeps ==
  ASSUME Inv, NEW r \in Runs, NEW ok \in BOOLEAN, Finish(r, ok)
  PROVE  Inv'
<1> DEFINE p == run[r].project
<1> DEFINE e == IF ok /\ Storable(r)
                THEN [state |-> "fresh", generation |-> run[r].generation]
                ELSE cache[p]
<1>0. TypeOK /\ Connected /\ Current /\ CacheIsCurrent
  BY DEF Inv
<1>1. /\ run[r].pc = "running" /\ ReleaseSlot(r)
      /\ cache' = [cache EXCEPT ![p] = e]
      /\ inFlight' = Cleared(r) /\ generations' = generations
      /\ answering' = answering \ run[r].tokens
  BY DEF Finish
<1>2. p \in Projects /\ run[r] \in Run
  BY <1>0, <1>1 DEF Connected, Used, TypeOK
<1>3. /\ run' \in [Runs -> Run] /\ activeRuns' \in Nat /\ waiters' \in Seq(Runs)
      /\ Queued' /\ Counted'
  BY <1>1, ReleaseKeepsSlots
<1>4. inFlight' \in [Projects -> Runs \cup {NoRun}] /\ Connected' /\ Current' /\ NoOrphanRun'
  BY <1>1, ReleaseKeepsSlots, ClearKeeps
<1>5. e \in [state : {"none", "fresh", "stale"}, generation : Generations]
      /\ (e.state # "none" => e.generation = GenerationOf(p))
  BY <1>0, <1>2 DEF TypeOK, Run, Storable, CacheIsCurrent
<1> HIDE DEF e, p
<1>6. /\ cache' \in [Projects -> [state : {"none", "fresh", "stale"},
                                  generation : Generations]]
      /\ cache'[p] = e /\ \A x \in Projects \ {p} : cache'[x] = cache[x]
  BY <1>0, <1>1, <1>2, <1>5 DEF TypeOK
<1>7. TypeOK'
  BY <1>0, <1>1, <1>3, <1>4, <1>6 DEF TypeOK
<1>8. CacheIsCurrent'
  BY <1>0, <1>1, <1>5, <1>6 DEF CacheIsCurrent, GenerationOf
<1> QED
  BY <1>3, <1>4, <1>7, <1>8 DEF Inv

LEMMA ExpireKeeps ==
  ASSUME Inv, NEW p \in Projects, Expire(p)
  PROVE  Inv'
<1>0. TypeOK /\ Connected /\ Current /\ CacheIsCurrent /\ NoOrphanRun
  BY DEF Inv
<1>1. /\ cache[p].state = "fresh" /\ cache' = [cache EXCEPT ![p].state = "stale"]
      /\ UNCHANGED <<generations, inFlight, run, activeRuns, waiters, answering>>
  BY DEF Expire
<1>2. /\ cache' \in [Projects -> [state : {"none", "fresh", "stale"},
                                  generation : Generations]]
      /\ cache'[p].generation = cache[p].generation
      /\ \A x \in Projects \ {p} : cache'[x] = cache[x]
  BY <1>0, <1>1 DEF TypeOK
<1>3. TypeOK'
  BY <1>0, <1>1, <1>2 DEF TypeOK
<1>4. CacheIsCurrent'
  BY <1>0, <1>1, <1>2 DEF CacheIsCurrent, GenerationOf
<1>5. Connected' /\ Current' /\ NoOrphanRun'
  BY <1>0, <1>1 DEF Connected, Current, NoOrphanRun, Used, GenerationOf
<1> QED
  BY <1>1, <1>3, <1>4, <1>5, SlotsUntouched DEF Inv

\* A step that changes at most who is waiting for an answer.
LEMMA AnsweringKeeps ==
  ASSUME Inv, answering' \in SUBSET Callers,
         UNCHANGED <<generations, cache, inFlight, run, activeRuns, waiters>>
  PROVE  Inv'
<1>1. TypeOK'
  BY DEF Inv, TypeOK
<1>2. Connected' /\ Current' /\ NoOrphanRun' /\ CacheIsCurrent'
  BY DEF Inv, Connected, Current, NoOrphanRun, CacheIsCurrent, Used, GenerationOf
<1> QED
  BY <1>1, <1>2, SlotsUntouched DEF Inv

LEMMA StepInv == Inv /\ [Next]_vars => Inv'
<1> SUFFICES ASSUME Inv, [Next]_vars PROVE Inv'
  OBVIOUS
<1>0. answering \in SUBSET Callers
  BY DEF Inv, TypeOK
<1>1. ASSUME NEW p \in Projects, NEW r \in Runs, GetStale(p, r) PROVE Inv'
  <2>1. /\ inFlight[p] = NoRun /\ StartRun(r, p, TRUE, {})
        /\ UNCHANGED <<generations, cache>> /\ answering' \in SUBSET Callers
    BY <1>0, <1>1 DEF GetStale
  <2>2. TRUE \in BOOLEAN /\ {} \in SUBSET Callers /\ (TRUE \/ {} # {})
    OBVIOUS
  <2> QED
    BY <2>1, <2>2, StartKeeps, Zenon
<1>2. ASSUME NEW p \in Projects, NEW r \in Runs, NEW c \in Callers, GetStarts(c, p, r)
      PROVE  Inv'
  <2>1. {c} \in SUBSET Callers /\ {c} # {} /\ answering' \in SUBSET Callers
    BY <1>0, <1>2 DEF GetStarts
  <2> QED
    BY <1>2, <2>1, StartKeeps DEF GetStarts
<1>3. ASSUME NEW c \in Callers, Deadline(c) PROVE Inv'
  BY <1>0, <1>3, AnsweringKeeps DEF Deadline
<1>4. CASE UNCHANGED vars
  BY <1>0, <1>4, AnsweringKeeps DEF vars
<1>5. ASSUME NEW p \in Projects,
             \/ \E r \in Runs : \/ GetStale(p, r)
                                \/ \E c \in Callers : GetStarts(c, p, r)
             \/ \E c \in Callers : GetJoins(c, p)
             \/ Expire(p) \/ Invalidate(p)
      PROVE  Inv'
  BY <1>1, <1>2, <1>5, JoinKeeps, ExpireKeeps, InvalidateKeeps
<1>6. ASSUME NEW c \in Callers, Deadline(c) \/ \E r \in Runs : Disconnect(c, r)
      PROVE  Inv'
  BY <1>3, <1>6, DisconnectKeeps
<1>7. ASSUME NEW r \in Runs, Refuse(r) \/ \E ok \in BOOLEAN : Finish(r, ok)
      PROVE  Inv'
  BY <1>7, RefuseKeeps, FinishKeeps
<1>8. CASE Next
  BY <1>5, <1>6, <1>7, <1>8 DEF Next
<1> QED
  BY <1>4, <1>8

-----------------------------------------------------------------------------
(* The theorems *)

\* The inductive invariant holds in every state of every behaviour.
THEOREM AlwaysConsistent == Spec => []Inv
  BY InitInv, StepInv, PTL DEF Spec

\* Types, for every instance.
THEOREM CacheTypeCorrect == Spec => []TypeOK
<1>1. Inv => TypeOK
  BY DEF Inv
<1> QED
  BY <1>1, AlwaysConsistent, PTL

\* At most MaxConcurrent restic processes compute a status, and the count of
\* the slots is exact: none is lost or given twice by aborts and failures.
THEOREM SlotsNeverLeak == Spec => []SlotsAreHeld
<1>1. Inv => SlotsAreHeld
  BY DEF Inv, Counted
<1> QED
  BY <1>1, AlwaysConsistent, PTL

\* The queue holds exactly the waiting runs and only when no slot is free.
THEOREM NobodyWaitsInVain == Spec => []NoSlotIdle
<1>1. Inv => NoSlotIdle
  BY DEF Inv, TypeOK, Queued, Counted, NoSlotIdle
<1> QED
  BY <1>1, AlwaysConsistent, PTL

\* Two runs of a project never both count.
THEOREM RunsAreShared == Spec => []OneRunPerProject
<1>1. Inv => OneRunPerProject
  BY DEF Inv, Connected, OneRunPerProject
<1> QED
  BY <1>1, AlwaysConsistent, PTL

\* No run that began before an invalidation repopulates the cache.
THEOREM NothingStaleIsCached == Spec => []CacheIsCurrent
<1>1. Inv => CacheIsCurrent
  BY DEF Inv
<1> QED
  BY <1>1, AlwaysConsistent, PTL

\* Every run that goes on is wanted: by a caller or as a refresh.
THEOREM RunsAreWanted == Spec => []NoOrphanRun
<1>1. Inv => NoOrphanRun
  BY DEF Inv
<1> QED
  BY <1>1, AlwaysConsistent, PTL

=============================================================================
