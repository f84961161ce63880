--------------------------- MODULE HomePageProofs ---------------------------
(***************************************************************************)
(* Proofs about HomePage, for every set of projects, snapshots, flows and   *)
(* runs.                                                                    *)
(*                                                                         *)
(* The row of a project and its repository are read at different moments,  *)
(* by callers that may have gone when the status is served.  What a run     *)
(* finds was the case at one of them, or in between: the invariant          *)
(* Witnessed relates the row that was read, what the repository lists now   *)
(* and what was the case since, until the snapshots are listed.             *)
(***************************************************************************)
EXTENDS HomePage, TLAPS

\* S has a latest snapshot; it is another one than b.
Topped(S) == \E s \in S : \A t \in S : t <= s
Newer(b, S) == \E s \in S : s # b /\ \A t \in S : t <= s

\* A run in flight is one of its project.
Linked ==
    \A p \in Projects :
        inFlight[p] # NoRun
            => run[inFlight[p]] # Absent /\ run[inFlight[p]].project = p

Typed == TypeOK /\ Linked

\* The ids that a repository has, or had.
Known(p) == listed[p] \cup forgotten[p] \cup {NoSnap}

\* The repository of p can only be in a state, compared with the base that was
\* read, which was also that of the project itself at some moment.
Witnessed(v, p) ==
    /\ v.base \in Known(p)
    /\ \/ "pull" \in v.was
       \/ /\ ~Newer(v.base, listed[p])
          /\ row[p] = v.base \/ ~Topped(listed[p])
    /\ Newer(v.base, listed[p]) \/ "current" \in v.was

\* What may be known from a row of p that was read.
Sound(v, p) ==
    /\ row[p] # Absent
    /\ Exists(p) /\ "forgotten" \notin v.was => Witnessed(v, p)

Truthful(a, p) == row[p] # Absent /\ (Exists(p) => a.held)

Grounded ==
    /\ \A p \in Projects : Exists(p) => row[p] \in Known(p)
    /\ \A f \in Flows, p \in Projects :
          /\ read[f][p] # Absent => Sound(read[f][p], p)
          /\ answer[f][p] # Absent => Truthful(answer[f][p], p)
    /\ \A r \in Runs :
          run[r] # Absent
            => /\ run[r].view # Absent => Sound(run[r].view, run[r].project)
               /\ run[r].result # Absent => Truthful(run[r].result, run[r].project)
    /\ \A p \in Projects : cache[p] # Absent => Truthful(cache[p], p)

-----------------------------------------------------------------------------
(* Types *)

LEMMA StatusIsTyped ==
  ASSUME NEW needsPull \in BOOLEAN
  PROVE  Status(needsPull) \in Statuses
  BY DEF Status, Statuses

\* What others do to one project p.
Step(p) ==
    \/ UNCHANGED <<row[p], listed[p], forgotten[p]>>
    \/ \E s \in Snapshots :
          /\ s \notin listed[p] \cup forgotten[p]
          /\ listed'[p] = listed[p] \cup {s}
          /\ UNCHANGED <<row[p], forgotten[p]>>
    \/ \E s \in Snapshots :
          /\ s \in listed[p] /\ listed'[p] = listed[p] \ {s}
          /\ forgotten'[p] = forgotten[p] \cup {s}
          /\ UNCHANGED row[p]
    \/ \E s \in Snapshots :
          /\ Exists(p) /\ s \in listed[p] /\ row'[p] = s
          /\ UNCHANGED <<listed[p], forgotten[p]>>
    \/ /\ row[p] = Absent /\ row'[p] = NoSnap
       /\ UNCHANGED <<listed[p], forgotten[p]>>
    \/ /\ Exists(p) /\ row'[p] = Deleted
       /\ UNCHANGED <<listed[p], forgotten[p]>>

\* The types of what the projects are.
Shaped ==
    /\ row \in [Projects -> Bases \cup {Absent, Deleted}]
    /\ listed \in [Projects -> SUBSET Snapshots]
    /\ forgotten \in [Projects -> SUBSET Snapshots]

LEMMA OthersStep ==
  ASSUME TypeOK, Others
  PROVE  Event /\ Shaped' /\ \A p \in Projects : Step(p)
<1>1. PICK q \in Projects :
        \/ \E s \in Snapshots : Store(q, s) \/ Forget(q, s) \/ Record(q, s)
        \/ Create(q) \/ Delete(q)
  BY DEF Others
<1>2. Event
  BY <1>1 DEF Store, Forget, Record, Create, Delete
<1>3. Shaped
  BY DEF Shaped, TypeOK
<1>4. ASSUME NEW s \in Snapshots, Store(q, s)
      PROVE  Shaped' /\ \A p \in Projects : Step(p)
  BY <1>3, <1>4 DEF Store, Shaped, Step
<1>5. ASSUME NEW s \in Snapshots, Forget(q, s)
      PROVE  Shaped' /\ \A p \in Projects : Step(p)
  BY <1>3, <1>5 DEF Forget, Shaped, Step
<1>6. ASSUME NEW s \in Snapshots, Record(q, s)
      PROVE  Shaped' /\ \A p \in Projects : Step(p)
  BY <1>3, <1>6 DEF Record, Shaped, Step, Bases
<1>7. CASE Create(q)
  BY <1>2, <1>3, <1>7 DEF Create, Shaped, Step, Bases
<1>8. CASE Delete(q)
  BY <1>2, <1>3, <1>8 DEF Delete, Shaped, Step
<1> QED
  BY <1>1, <1>2, <1>4, <1>5, <1>6, <1>7, <1>8

LEMMA HappenedIsTyped ==
  ASSUME NEW p \in Projects
  PROVE  Happened[p] \subseteq Statuses \cup {"forgotten"}
<1>1. Happened[p] = Is(p)' \cup IF listed[p] \subseteq listed'[p] THEN {}
                                ELSE {"forgotten"}
  BY DEF Happened
<1>2. Is(p)' \subseteq Statuses
  <2> DEFINE y == ~\A s \in listed'[p] :
                      s = row'[p] \/ \E t \in listed'[p] : t > s
  <2>1. Is(p)' \subseteq {Status(y)}
    BY DEF Is, Exists
  <2>2. y \in BOOLEAN
    OBVIOUS
  <2> HIDE DEF y
  <2> QED
    BY <2>1, <2>2, StatusIsTyped
<1> QED
  BY <1>1, <1>2

LEMMA LaterIsTyped ==
  ASSUME NEW p \in Projects, NEW v \in View \cup {Absent}
  PROVE  /\ Later(v, p) \in View \cup {Absent}
         /\ v = Absent => Later(v, p) = Absent
         /\ v # Absent => Later(v, p) = [base |-> v.base, was |-> v.was \cup Happened[p]]
<1>1. CASE v = Absent
  BY <1>1 DEF Later
<1>2. CASE v # Absent
  BY <1>2, HappenedIsTyped DEF Later, View
<1> QED
  BY <1>1, <1>2

\* A run that has other callers.
LEMMA CallersChange ==
  ASSUME NEW q \in Run, NEW F \in SUBSET Flows
  PROVE  /\ [q EXCEPT !.callers = F] \in Run
         /\ [q EXCEPT !.callers = F].project = q.project
         /\ [q EXCEPT !.callers = F].view = q.view
         /\ [q EXCEPT !.callers = F].result = q.result
  BY DEF Run

\* A run whose row has seen more, and one that has its result.
LEMMA ViewChanges ==
  ASSUME NEW q \in Run, NEW v \in View \cup {Absent}
  PROVE  /\ [q EXCEPT !.view = v] \in Run
         /\ [q EXCEPT !.view = v].project = q.project
         /\ [q EXCEPT !.view = v].view = v
         /\ [q EXCEPT !.view = v].result = q.result
  BY DEF Run

LEMMA ResultArrives ==
  ASSUME NEW q \in Run, NEW a \in Answer
  PROVE  /\ [q EXCEPT !.view = Absent, !.result = a] \in Run
         /\ [q EXCEPT !.view = Absent, !.result = a].project = q.project
         /\ [q EXCEPT !.view = Absent, !.result = a].view = Absent
         /\ [q EXCEPT !.view = Absent, !.result = a].result = a
  BY DEF Run

\* Runs that go on stay the runs of their projects.
Continued ==
    \A r \in Runs :
        run[r] # Absent => run'[r] # Absent /\ run'[r].project = run[r].project

LEMMA LinksStay ==
  ASSUME TypeOK, Linked, Continued, UNCHANGED inFlight
  PROVE  Linked'
  BY DEF TypeOK, Linked, Continued

\* What others do to the runs.
LEMMA ObservedRuns ==
  ASSUME TypeOK, Observed
  PROVE  /\ run' \in [Runs -> Run \cup {Absent}]
         /\ \A r \in Runs :
               /\ run[r] = Absent => run'[r] = Absent
               /\ run[r] # Absent =>
                     /\ run'[r] # Absent /\ run'[r] \in Run
                     /\ run'[r].project = run[r].project
                     /\ run'[r].result = run[r].result
                     /\ run'[r].view = Later(run[r].view, run[r].project)
<1>1. ASSUME NEW r \in Runs, run[r] # Absent
      PROVE  /\ run'[r] # Absent /\ run'[r] \in Run
             /\ run'[r].project = run[r].project
             /\ run'[r].result = run[r].result
             /\ run'[r].view = Later(run[r].view, run[r].project)
  <2>1. PICK q : q = run[r]
    OBVIOUS
  <2>2. q \in Run /\ q.project \in Projects /\ q.view \in View \cup {Absent}
    BY <1>1, <2>1 DEF TypeOK, Run
  <2>3. PICK n : n = Later(q.view, q.project)
    OBVIOUS
  <2>4. n \in View \cup {Absent}
    BY <2>2, <2>3, LaterIsTyped
  <2>5. run'[r] = [q EXCEPT !.view = n]
    BY <1>1, <2>1, <2>3 DEF Observed
  <2>6. [q EXCEPT !.view = n] \in Run
        /\ [q EXCEPT !.view = n].project = q.project
        /\ [q EXCEPT !.view = n].view = n
        /\ [q EXCEPT !.view = n].result = q.result
    BY <2>2, <2>4, ViewChanges
  <2> QED
    BY <2>1, <2>3, <2>5, <2>6, SentinelsDiffer
<1>2. ASSUME NEW r \in Runs, run[r] = Absent PROVE run'[r] = Absent
  BY <1>2 DEF Observed
<1>3. run' \in [Runs -> Run \cup {Absent}]
  <2>1. DOMAIN run' = Runs /\ run' = [r \in Runs |-> run'[r]]
    BY DEF Observed
  <2> QED
    BY <1>1, <1>2, <2>1
<1> QED
  BY <1>1, <1>2, <1>3

LEMMA OthersTyped ==
  ASSUME Typed, Others
  PROVE  Typed'
<1>1. Event /\ Shaped' /\ Observed
  BY OthersStep DEF Typed, Event
<1>2. run' \in [Runs -> Run \cup {Absent}] /\ Continued
  BY <1>1, ObservedRuns DEF Typed, Continued
<1>3. read' \in [Flows -> [Projects -> View \cup {Absent}]]
  <2>1. ASSUME NEW f \in Flows, NEW p \in Projects
        PROVE  Later(read[f][p], p) \in View \cup {Absent}
    <3>1. read[f][p] \in View \cup {Absent}
      BY DEF Typed, TypeOK
    <3> QED
      BY <3>1, LaterIsTyped
  <2> QED
    BY <1>1, <2>1 DEF Observed
<1>4. Linked'
  BY <1>1, <1>2, LinksStay DEF Typed, Event
<1>5. events' \in 0 .. MaxEvents
  BY <1>1, EventsAreBounded DEF Event, Typed, TypeOK
<1> QED
  BY <1>1, <1>2, <1>3, <1>4, <1>5 DEF Event, Shaped, Typed, TypeOK, page

LEMMA IdleTyped == Idle \in Flow /\ Idle.pc = "idle"
  BY DEF Idle, Flow

\* A flow that moves on.
LEMMA FlowTyped ==
  ASSUME TypeOK, NEW f \in Flows,
         \/ flow' = [flow EXCEPT ![f] = Idle]
         \/ \E l \in {"load", "loaded", "check", "runs"} :
               \/ flow' = [flow EXCEPT ![f].pc = l]
               \/ \E ids \in SUBSET Projects : Goto(f, l, ids)
               \/ \E checks \in BOOLEAN :
                     flow' = [flow EXCEPT ![f] =
                                 [Idle EXCEPT !.pc = l, !.checks = checks]]
  PROVE  flow' \in [Flows -> Flow]
<1>1. flow \in [Flows -> Flow] /\ flow[f] \in Flow
  BY DEF TypeOK
<1>2. ASSUME NEW g \in Flow, flow' = [flow EXCEPT ![f] = g] PROVE flow' \in [Flows -> Flow]
  BY <1>1, <1>2
<1>3. ASSUME NEW l \in {"load", "loaded", "check", "runs"},
             flow' = [flow EXCEPT ![f].pc = l]
      PROVE  flow' \in [Flows -> Flow]
  <2>1. [flow[f] EXCEPT !.pc = l] \in Flow
    BY <1>1 DEF Flow
  <2>2. flow' = [flow EXCEPT ![f] = [flow[f] EXCEPT !.pc = l]]
    BY <1>1, <1>3
  <2> QED
    BY <1>2, <2>1, <2>2
<1>4. ASSUME NEW l \in {"load", "loaded", "check", "runs"},
             NEW ids \in SUBSET Projects, Goto(f, l, ids)
      PROVE  flow' \in [Flows -> Flow]
  <2>1. [flow[f] EXCEPT !.pc = l, !.ids = ids] \in Flow
    BY <1>1 DEF Flow
  <2>2. flow' = [flow EXCEPT ![f] = [flow[f] EXCEPT !.pc = l, !.ids = ids]]
    BY <1>1, <1>4 DEF Goto
  <2> QED
    BY <1>2, <2>1, <2>2
<1>5. ASSUME NEW l \in {"load", "loaded", "check", "runs"}, NEW checks \in BOOLEAN,
             flow' = [flow EXCEPT ![f] = [Idle EXCEPT !.pc = l, !.checks = checks]]
      PROVE  flow' \in [Flows -> Flow]
  <2>1. [Idle EXCEPT !.pc = l, !.checks = checks] \in Flow
    BY DEF Idle, Flow
  <2> QED
    BY <1>2, <1>5, <2>1
<1> QED
  BY <1>2, <1>3, <1>4, <1>5, IdleTyped

LEMMA ServedTyped ==
  ASSUME Typed, NEW f \in Flows, Served(f)
  PROVE  /\ read' \in [Flows -> [Projects -> View \cup {Absent}]]
         /\ answer' \in [Flows -> [Projects -> Answer \cup {Absent}]]
         /\ run' \in [Runs -> Run \cup {Absent}]
         /\ Linked'
         /\ \A r \in Runs :
               /\ run[r] = Absent => run'[r] = Absent
               /\ run[r] # Absent => /\ run'[r] # Absent
                                     /\ run'[r].project = run[r].project
                                     /\ run'[r].view = run[r].view
                                     /\ run'[r].result = run[r].result
<1>1. ASSUME NEW r \in Runs, run[r] # Absent
      PROVE  /\ run'[r] \in Run /\ run'[r] # Absent
             /\ run'[r].project = run[r].project
             /\ run'[r].view = run[r].view
             /\ run'[r].result = run[r].result
  <2>1. PICK q : q = run[r]
    OBVIOUS
  <2>2. q \in Run /\ q.callers \ {f} \in SUBSET Flows
    BY <1>1, <2>1 DEF Typed, TypeOK, Run
  <2>3. PICK F : F = q.callers \ {f}
    OBVIOUS
  <2>4. run'[r] = [q EXCEPT !.callers = F]
    BY <1>1, <2>1, <2>3 DEF Served
  <2>5. [q EXCEPT !.callers = F] \in Run
        /\ [q EXCEPT !.callers = F].project = q.project
        /\ [q EXCEPT !.callers = F].view = q.view
        /\ [q EXCEPT !.callers = F].result = q.result
    BY <2>2, <2>3, CallersChange
  <2> QED
    BY <2>1, <2>4, <2>5, SentinelsDiffer
<1>2. ASSUME NEW r \in Runs, run[r] = Absent PROVE run'[r] = Absent
  BY <1>2 DEF Served
<1>3. run' \in [Runs -> Run \cup {Absent}]
  <2>1. run' = [r \in Runs |-> run'[r]]
    BY DEF Served
  <2> QED
    BY <1>1, <1>2, <2>1
<1>4. Linked'
  BY <1>1, LinksStay DEF Typed, Continued, Served
<1>5. Nothing \in [Projects -> View \cup {Absent}]
      /\ Nothing \in [Projects -> Answer \cup {Absent}]
  BY DEF Nothing
<1> QED
  BY <1>1, <1>2, <1>3, <1>4, <1>5 DEF Typed, TypeOK, Served

LEMMA LoadEndsTyped ==
  ASSUME Typed, NEW f \in Flows, NEW shown \in SUBSET Projects, LoadEnds(f, shown)
  PROVE  Typed'
<1>1. cards' = shown /\ Served(f)
  BY DEF LoadEnds
<1>2. flow' \in [Flows -> Flow]
  BY FlowTyped DEF LoadEnds, Typed
<1>3. statuses' \in [Projects -> Statuses \cup {"checking", "failed", Absent}]
  BY DEF LoadEnds, Checking, Typed, TypeOK
<1> QED
  BY <1>1, <1>2, <1>3, ServedTyped DEF Typed, TypeOK, server, Served

LEMMA CheckEndsTyped ==
  ASSUME Typed, NEW f \in Flows, NEW found \in [Projects -> Statuses \cup {Absent}],
         CheckEnds(f, found)
  PROVE  Typed'
<1>1. flow' \in [Flows -> Flow]
  BY FlowTyped DEF CheckEnds, Typed
<1>2. statuses' \in [Projects -> Statuses \cup {"checking", "failed", Absent}]
  BY DEF CheckEnds, StatusesOf, Typed, TypeOK
<1> QED
  BY <1>1, <1>2, ServedTyped DEF CheckEnds, Typed, TypeOK, server, Served

LEMMA SaidTyped ==
  ASSUME TypeOK, NEW f \in Flows
  PROVE  /\ Said(f) \in [Projects -> Statuses \cup {Absent}]
         /\ Nothing \in [Projects -> Statuses \cup {Absent}]
<1>1. ASSUME NEW p \in Projects, answer[f][p] # Absent
      PROVE  answer[f][p].says \in Statuses
  BY <1>1 DEF TypeOK, Answer
<1> QED
  BY <1>1 DEF Said, Nothing

LEMMA PageTyped ==
  ASSUME Typed, NEW f \in Flows,
         \/ \E checks \in BOOLEAN : Reload(f, checks)
         \/ ListProjects(f) \/ ReadRows(f) \/ EndOf(f)
  PROVE  Typed'
<1>1. ASSUME NEW checks \in BOOLEAN, Reload(f, checks) PROVE Typed'
  <2>1. flow' \in [Flows -> Flow]
    BY <1>1, FlowTyped DEF Reload, Typed
  <2> QED
    BY <1>1, <2>1 DEF Reload, Typed, TypeOK, Linked, server, caching, page
<1>2. CASE ListProjects(f)
  <2>1. flow' \in [Flows -> Flow]
    BY <1>2, FlowTyped DEF ListProjects, Typed
  <2> QED
    BY <1>2, <2>1 DEF ListProjects, Typed, TypeOK, Linked, server, caching, page
<1>3. CASE ReadRows(f)
  <2>1. flow' \in [Flows -> Flow]
    BY <1>3, FlowTyped DEF ReadRows, Typed
  <2>2. ASSUME NEW p \in Projects PROVE RowsRead[p] \in View \cup {Absent}
    <3>1. Is(p) \subseteq Statuses
      <4> DEFINE y == ~\A s \in listed[p] :
                          s = row[p] \/ \E t \in listed[p] : t > s
      <4>1. Is(p) \subseteq {Status(y)}
        BY DEF Is
      <4>2. y \in BOOLEAN
        OBVIOUS
      <4> HIDE DEF y
      <4> QED
        BY <4>1, <4>2, StatusIsTyped
    <3> QED
      BY <3>1 DEF RowsRead, View, Exists
  <2>3. RowsRead \in [Projects -> View \cup {Absent}]
    BY <2>2 DEF RowsRead
  <2>4. read' \in [Flows -> [Projects -> View \cup {Absent}]]
    BY <1>3, <2>3 DEF ReadRows, Typed, TypeOK
  <2> QED
    BY <1>3, <2>1, <2>4 DEF ReadRows, Typed, TypeOK, Linked, server, caching, page
<1>4. CASE EndOf(f)
  <2>1. flow[f].ids \in SUBSET Projects /\ cards \in SUBSET Projects
    BY DEF Typed, TypeOK, Flow
  <2> QED
    BY <1>4, <2>1, SaidTyped, LoadEndsTyped, CheckEndsTyped
    DEF EndOf, Load, LoadFails, Check, CheckFails, Typed
<1> QED
  BY <1>1, <1>2, <1>3, <1>4

\* The handler has the row of p and gives it to the cache.
LEMMA GetTyped ==
  ASSUME TypeOK, NEW f \in Flows, NEW p \in Projects, Get(f, p)
  PROVE  /\ read' \in [Flows -> [Projects -> View \cup {Absent}]]
         /\ read[f][p] \in View
         /\ UNCHANGED <<server, cache, flow, page>>
  BY DEF Get, TypeOK

\* A run that has been started is the one in flight.
LEMMA StartRunTyped ==
  ASSUME Typed, NEW r \in Runs, NEW p \in Projects, NEW v \in View,
         NEW F \in SUBSET Flows, StartRun(r, p, v, F)
  PROVE  /\ run' \in [Runs -> Run \cup {Absent}]
         /\ inFlight' \in [Projects -> Runs \cup {NoRun}]
         /\ Linked'
         /\ \A q \in Runs \ {r} : run'[q] = run[q]
         /\ run'[r] # Absent /\ run'[r].project = p
         /\ run'[r].view = v /\ run'[r].result = Absent
<1>1. PICK n : n = [project |-> p, view |-> v, result |-> Absent, callers |-> F]
  OBVIOUS
<1>2. n \in Run /\ n.project = p /\ n.view = v /\ n.result = Absent
  BY <1>1 DEF Run
<1>3. n # Absent
  BY <1>2, SentinelsDiffer
<1>4. run[r] = Absent /\ run' = [run EXCEPT ![r] = n]
      /\ inFlight' = [inFlight EXCEPT ![p] = r]
  BY <1>1 DEF StartRun
<1>5. /\ run' \in [Runs -> Run \cup {Absent}]
      /\ inFlight' \in [Projects -> Runs \cup {NoRun}]
      /\ run'[r] = n
      /\ \A q \in Runs \ {r} : run'[q] = run[q]
      /\ inFlight'[p] = r
      /\ \A o \in Projects \ {p} : inFlight'[o] = inFlight[o]
  BY <1>2, <1>4 DEF Typed, TypeOK
<1>6. ASSUME NEW o \in Projects \ {p}, inFlight[o] # NoRun
      PROVE  inFlight[o] \in Runs \ {r} /\ run[inFlight[o]].project = o
             /\ run[inFlight[o]] # Absent
  BY <1>4, <1>6 DEF Typed, TypeOK, Linked
<1>7. Linked'
  BY <1>2, <1>3, <1>5, <1>6 DEF Linked
<1> QED
  BY <1>2, <1>3, <1>5, <1>7

LEMMA GetCachedTyped ==
  ASSUME Typed, NEW f \in Flows, NEW p \in Projects, GetCached(f, p)
  PROVE  Typed'
<1>1. /\ read' \in [Flows -> [Projects -> View \cup {Absent}]]
      /\ read[f][p] \in View
      /\ UNCHANGED <<server, cache, flow, page>>
  BY GetTyped DEF Typed, GetCached
<1>2. answer' \in [Flows -> [Projects -> Answer \cup {Absent}]]
  BY DEF GetCached, Typed, TypeOK
<1>3. /\ run' \in [Runs -> Run \cup {Absent}]
      /\ inFlight' \in [Projects -> Runs \cup {NoRun}]
      /\ Linked'
  <2>1. CASE UNCHANGED <<inFlight, run>>
    BY <2>1 DEF Typed, TypeOK, Linked
  <2>2. ASSUME NEW r \in Runs, StartRun(r, p, read[f][p], {})
        PROVE  <1>3!:
    <3>1. {} \in SUBSET Flows
      OBVIOUS
    <3> QED
      BY <1>1, <2>2, <3>1, StartRunTyped
  <2> QED
    BY <2>1, <2>2 DEF GetCached
<1> QED
  BY <1>1, <1>2, <1>3 DEF Typed, TypeOK, server, page

LEMMA GetStartsTyped ==
  ASSUME Typed, NEW f \in Flows, NEW p \in Projects, NEW r \in Runs,
         GetStarts(f, p, r)
  PROVE  Typed'
<1>1. /\ read' \in [Flows -> [Projects -> View \cup {Absent}]]
      /\ read[f][p] \in View
      /\ UNCHANGED <<server, cache, flow, page>>
  BY GetTyped DEF Typed, GetStarts
<1>2. StartRun(r, p, read[f][p], {f}) /\ {f} \in SUBSET Flows /\ UNCHANGED answer
  BY DEF GetStarts
<1>3. /\ run' \in [Runs -> Run \cup {Absent}]
      /\ inFlight' \in [Projects -> Runs \cup {NoRun}]
      /\ Linked'
  BY <1>1, <1>2, StartRunTyped
<1> QED
  BY <1>1, <1>2, <1>3 DEF Typed, TypeOK, server, page

\* A caller joins the run of p.
LEMMA GetJoinsTyped ==
  ASSUME Typed, NEW f \in Flows, NEW p \in Projects, GetJoins(f, p)
  PROVE  /\ Typed'
         /\ \A r \in Runs :
               /\ run[r] = Absent => run'[r] = Absent
               /\ run[r] # Absent => /\ run'[r] # Absent
                                     /\ run'[r].project = run[r].project
                                     /\ run'[r].view = run[r].view
                                     /\ run'[r].result = run[r].result
<1>1. /\ read' \in [Flows -> [Projects -> View \cup {Absent}]]
      /\ UNCHANGED <<server, cache, flow, page>>
  BY GetTyped DEF Typed, GetJoins
<1>2. PICK r : r = inFlight[p]
  OBVIOUS
<1>3. r \in Runs /\ run[r] # Absent /\ run[r] \in Run
  BY <1>2 DEF GetJoins, Typed, TypeOK, Linked
<1>4. PICK q : q = run[r]
  OBVIOUS
<1>5. PICK F : F = q.callers \cup {f}
  OBVIOUS
<1>6. F \in SUBSET Flows
  BY <1>3, <1>4, <1>5 DEF Run
<1>7. PICK n : n = [q EXCEPT !.callers = F]
  OBVIOUS
<1>8. n \in Run /\ n.project = q.project /\ n.view = q.view /\ n.result = q.result
  BY <1>3, <1>4, <1>6, <1>7, CallersChange
<1>9. run' = [run EXCEPT ![r] = n]
  BY <1>2, <1>4, <1>5, <1>7 DEF GetJoins
<1>10. run' \in [Runs -> Run \cup {Absent}] /\ run'[r] = n
       /\ \A s \in Runs \ {r} : run'[s] = run[s]
  BY <1>3, <1>8, <1>9 DEF Typed, TypeOK
<1>11. n # Absent
  BY <1>8, SentinelsDiffer
<1>12. Continued
  BY <1>3, <1>4, <1>8, <1>10, <1>11 DEF Continued
<1>13. Linked'
  BY <1>12, LinksStay DEF Typed, GetJoins
<1>14. Typed'
  BY <1>1, <1>10, <1>13 DEF GetJoins, Typed, TypeOK, server, page
<1> QED
  BY <1>3, <1>4, <1>8, <1>10, <1>11, <1>14

\* The snapshots have been listed.
LEMMA ListSnapshotsTyped ==
  ASSUME Typed, NEW r \in Runs, ListSnapshots(r)
  PROVE  /\ Typed'
         /\ run[r] \in Run /\ run[r].view \in View /\ run'[r] # Absent
         /\ run'[r].project = run[r].project
         /\ run'[r].view = Absent
         /\ run'[r].result =
               Judged(Status(NeedsPull(run[r].view.base, listed[run[r].project])),
                      run[r].view)
         /\ \A q \in Runs \ {r} : run'[q] = run[q]
<1>1. PICK q : q = run[r]
  OBVIOUS
<1>2. q \in Run /\ q.view \in View
  BY <1>1 DEF ListSnapshots, Typed, TypeOK, Run
<1>3. PICK a : a = Judged(Status(NeedsPull(q.view.base, listed[q.project])), q.view)
  OBVIOUS
<1>4. a \in Answer
  <2>1. NeedsPull(q.view.base, listed[q.project]) \in BOOLEAN
    BY DEF NeedsPull
  <2> QED
    BY <1>3, <2>1, StatusIsTyped DEF Judged, Answer
<1>5. PICK n : n = [q EXCEPT !.view = Absent, !.result = a]
  OBVIOUS
<1>6. /\ [q EXCEPT !.view = Absent, !.result = a] \in Run
      /\ [q EXCEPT !.view = Absent, !.result = a].project = q.project
      /\ [q EXCEPT !.view = Absent, !.result = a].view = Absent
      /\ [q EXCEPT !.view = Absent, !.result = a].result = a
  BY <1>2, <1>4, ResultArrives
<1>7. n \in Run /\ n.project = q.project /\ n.view = Absent /\ n.result = a
  BY <1>5, <1>6
<1>8. n # Absent
  BY <1>7, SentinelsDiffer
<1>9. run' = [run EXCEPT ![r] = n]
  BY <1>1, <1>3, <1>5 DEF ListSnapshots
<1>10. run' \in [Runs -> Run \cup {Absent}] /\ run'[r] = n
       /\ \A s \in Runs \ {r} : run'[s] = run[s]
  BY <1>7, <1>9 DEF Typed, TypeOK
<1>11. Continued
  BY <1>1, <1>7, <1>8, <1>10 DEF Continued
<1>12. Linked'
  BY <1>11, LinksStay DEF Typed, ListSnapshots
<1>13. Typed'
  BY <1>10, <1>12 DEF ListSnapshots, Typed, TypeOK, server, page
<1> QED
  BY <1>1, <1>2, <1>3, <1>7, <1>8, <1>10, <1>13

\* A run ends and leaves the table.
LEMMA RunGoesTyped ==
  ASSUME Typed, NEW r \in Runs,
         run' = [run EXCEPT ![r] = Absent], inFlight' = Cleared(r)
  PROVE  /\ run' \in [Runs -> Run \cup {Absent}]
         /\ inFlight' \in [Projects -> Runs \cup {NoRun}]
         /\ Linked'
         /\ run'[r] = Absent /\ \A q \in Runs \ {r} : run'[q] = run[q]
<1>1. /\ run' \in [Runs -> Run \cup {Absent}]
      /\ run'[r] = Absent /\ \A q \in Runs \ {r} : run'[q] = run[q]
  BY DEF Typed, TypeOK
<1>2. inFlight' \in [Projects -> Runs \cup {NoRun}]
  BY DEF Typed, TypeOK, Cleared
<1>3. ASSUME NEW p \in Projects, inFlight'[p] # NoRun
      PROVE  inFlight'[p] = inFlight[p] /\ inFlight[p] \in Runs \ {r}
             /\ inFlight[p] # NoRun
  BY <1>3 DEF Cleared, Typed, TypeOK
<1>4. Linked'
  BY <1>1, <1>3 DEF Linked, Typed
<1> QED
  BY <1>1, <1>2, <1>4

\* Its result is that of its callers, and of the cache.
LEMMA RunEndsTyped ==
  ASSUME Typed, NEW r \in Runs, RunEnds(r)
  PROVE  Typed' /\ run[r] \in Run
<1>1. PICK a : a = run[r].result
  OBVIOUS
<1>2. run[r] \in Run /\ a \in Answer \cup {Absent}
  BY <1>1 DEF RunEnds, Typed, TypeOK, Run
<1>3. cache' \in [Projects -> Answer \cup {Absent}]
  BY <1>1, <1>2 DEF RunEnds, Typed, TypeOK
<1>4. answer' \in [Flows -> [Projects -> Answer \cup {Absent}]]
  <2>1. ASSUME NEW f \in Flows
        PROVE  [answer[f] EXCEPT ![run[r].project] = a]
                  \in [Projects -> Answer \cup {Absent}]
    BY <1>2 DEF Typed, TypeOK, Run
  <2> QED
    BY <1>1, <2>1 DEF RunEnds, Typed, TypeOK
<1>5. /\ run' \in [Runs -> Run \cup {Absent}]
      /\ inFlight' \in [Projects -> Runs \cup {NoRun}]
      /\ Linked'
  BY RunGoesTyped DEF RunEnds
<1> QED
  BY <1>2, <1>3, <1>4, <1>5 DEF RunEnds, Typed, TypeOK, server, page

LEMMA RunFailsTyped ==
  ASSUME Typed, NEW r \in Runs, RunFails(r)
  PROVE  Typed'
<1>1. /\ run' \in [Runs -> Run \cup {Absent}]
      /\ inFlight' \in [Projects -> Runs \cup {NoRun}]
      /\ Linked'
  BY RunGoesTyped DEF RunFails
<1> QED
  BY <1>1 DEF RunFails, Typed, TypeOK, server, page

LEMMA InvalidateTyped ==
  ASSUME Typed, NEW p \in Projects, Invalidate(p)
  PROVE  Typed'
<1>1. /\ cache' \in [Projects -> Answer \cup {Absent}]
      /\ inFlight' \in [Projects -> Runs \cup {NoRun}]
      /\ inFlight'[p] = NoRun
      /\ \A o \in Projects \ {p} : inFlight'[o] = inFlight[o]
      /\ UNCHANGED run
  BY DEF Invalidate, Typed, TypeOK
<1>2. Linked'
  BY <1>1 DEF Typed, Linked
<1> QED
  BY <1>1, <1>2 DEF Invalidate, Typed, TypeOK, server, page

LEMMA NextTyped == Typed /\ [Next]_vars => Typed'
<1> SUFFICES ASSUME Typed, [Next]_vars PROVE Typed'
  OBVIOUS
<1>1. CASE Others
  BY <1>1, OthersTyped
<1>2. ASSUME NEW f \in Flows,
             \/ \E checks \in BOOLEAN : Reload(f, checks)
             \/ ListProjects(f) \/ ReadRows(f) \/ EndOf(f)
      PROVE  Typed'
  BY <1>2, PageTyped
<1>3. ASSUME NEW f \in Flows, NEW p \in Projects,
             \/ GetCached(f, p) \/ GetJoins(f, p)
             \/ \E r \in Runs : GetStarts(f, p, r)
      PROVE  Typed'
  BY <1>3, GetCachedTyped, GetJoinsTyped, GetStartsTyped
<1>4. ASSUME NEW r \in Runs, ListSnapshots(r) \/ RunEnds(r) \/ RunFails(r)
      PROVE  Typed'
  BY <1>4, ListSnapshotsTyped, RunEndsTyped, RunFailsTyped
<1>5. ASSUME NEW p \in Projects, Invalidate(p) PROVE Typed'
  BY <1>5, InvalidateTyped
<1>6. CASE UNCHANGED vars
  BY <1>6 DEF vars, server, caching, page, Typed, TypeOK, Linked
<1> QED
  BY <1>1, <1>2, <1>3, <1>4, <1>5, <1>6 DEF Next

LEMMA InitTyped == Init => Typed
<1> SUFFICES ASSUME Init PROVE Typed
  OBVIOUS
<1>1. forgotten \in [Projects -> SUBSET Snapshots]
  <2>1. ASSUME NEW p \in Projects
        PROVE  {row[p]} \ (listed[p] \cup {NoSnap, Absent}) \in SUBSET Snapshots
    BY DEF Init, Bases
  <2> QED
    BY <2>1 DEF Init
<1>2. TypeOK
  BY <1>1, IdleTyped, EventsAreBounded DEF Init, TypeOK, Nothing
<1>3. Linked
  BY DEF Init, Linked
<1> QED
  BY <1>2, <1>3 DEF Typed

\* The rows, the cache, the runs, the answers and what is displayed have their
\* types: a caller that joins a run joins one of its project.
THEOREM TypeCorrect == Spec => []TypeOK
<1>1. Typed => TypeOK
  BY DEF Typed
<1> QED
  BY <1>1, InitTyped, NextTyped, PTL DEF Spec
-----------------------------------------------------------------------------
(* No card checks for ever *)

\* What a step of the flow f does to its own program counter, and that it
\* leaves those of the others alone.
LEMMA FlowMoves ==
  ASSUME TypeOK, NEW f \in Flows, NEW l, NEW ids, NEW checks \in BOOLEAN,
         \/ flow' = [flow EXCEPT ![f].pc = l]
         \/ Goto(f, l, ids)
         \/ l = "idle" /\ flow' = [flow EXCEPT ![f] = Idle]
         \/ flow' = [flow EXCEPT ![f] = [Idle EXCEPT !.pc = l, !.checks = checks]]
  PROVE  /\ flow'[f].pc = l
         /\ \A g \in Flows \ {f} : flow'[g] = flow[g]
<1>1. flow \in [Flows -> Flow] /\ flow[f] \in Flow
  BY DEF TypeOK
<1>2. CASE Goto(f, l, ids)
  <2>1. flow' = [flow EXCEPT ![f] = [flow[f] EXCEPT !.pc = l, !.ids = ids]]
    BY <1>1, <1>2 DEF Goto
  <2>2. [flow[f] EXCEPT !.pc = l, !.ids = ids].pc = l
    BY <1>1 DEF Flow
  <2> QED
    BY <1>1, <2>1, <2>2
<1>3. CASE flow' = [flow EXCEPT ![f] = [Idle EXCEPT !.pc = l, !.checks = checks]]
  <2>1. [Idle EXCEPT !.pc = l, !.checks = checks].pc = l
    BY DEF Idle
  <2> QED
    BY <1>1, <1>3, <2>1
<1>4. CASE flow' = [flow EXCEPT ![f].pc = l]
  <2>1. [flow[f] EXCEPT !.pc = l].pc = l
    BY <1>1 DEF Flow
  <2> QED
    BY <1>1, <1>4, <2>1
<1>5. CASE l = "idle" /\ flow' = [flow EXCEPT ![f] = Idle]
  BY <1>1, <1>5, IdleTyped
<1> QED
  BY <1>2, <1>3, <1>4, <1>5

Asking(f) == flow[f].pc \in {"check", "runs"}

\* A flow that begins or goes on asking, while the statuses stay.
LEMMA StillAsked ==
  ASSUME TypeOK, CheckingIsAsked, UNCHANGED statuses,
         \A g \in Flows : Asking(g) => Asking(g)'
  PROVE  CheckingIsAsked'
  BY DEF CheckingIsAsked, Asking

LEMMA LoadEndsAsked ==
  ASSUME TypeOK, CheckingIsAsked, NEW f \in Flows, NEW shown,
         ~Asking(f), LoadEnds(f, shown)
  PROVE  CheckingIsAsked'
<1>1. CASE flow[f].checks
  <2>1. flow'[f].pc = "check"
    BY <1>1, FlowMoves DEF LoadEnds
  <2> QED
    BY <2>1 DEF CheckingIsAsked
<1>2. CASE ~flow[f].checks
  <2>1. flow' = [flow EXCEPT ![f] = Idle] /\ UNCHANGED statuses
    BY <1>2 DEF LoadEnds
  <2>2. \A g \in Flows \ {f} : flow'[g] = flow[g]
    BY <2>1, FlowMoves
  <2> QED
    BY <2>1, <2>2, StillAsked DEF Asking
<1> QED
  BY <1>1, <1>2

LEMMA CheckEndsAsked ==
  ASSUME NEW f \in Flows, NEW found \in [Projects -> Statuses \cup {Absent}],
         CheckEnds(f, found)
  PROVE  CheckingIsAsked'
<1>1. statuses' = StatusesOf(f, found)
  BY DEF CheckEnds
<1>2. \A p \in Projects : statuses'[p] # "checking"
  BY <1>1, SentinelsDiffer DEF StatusesOf, Statuses
<1> QED
  BY <1>2 DEF CheckingIsAsked

LEMMA NextAsked == TypeOK /\ CheckingIsAsked /\ [Next]_vars => CheckingIsAsked'
<1> SUFFICES ASSUME TypeOK, CheckingIsAsked, [Next]_vars PROVE CheckingIsAsked'
  OBVIOUS
<1>1. ASSUME UNCHANGED <<flow, statuses>> PROVE CheckingIsAsked'
  BY <1>1 DEF CheckingIsAsked
<1>2. CASE Others
  BY <1>1, <1>2 DEF Others, Store, Forget, Record, Create, Delete, Event, page
<1>3. ASSUME NEW f \in Flows, NEW checks \in BOOLEAN, Reload(f, checks)
      PROVE  CheckingIsAsked'
  <2>1. ~Asking(f) /\ UNCHANGED statuses
    BY <1>3 DEF Reload, Asking, page
  <2>2. \A g \in Flows \ {f} : flow'[g] = flow[g]
    BY <1>3, FlowMoves DEF Reload
  <2> QED
    BY <2>1, <2>2, StillAsked DEF Asking
<1>4. ASSUME NEW f \in Flows, ListProjects(f) PROVE CheckingIsAsked'
  <2>1. ~Asking(f) /\ UNCHANGED statuses
    BY <1>4 DEF ListProjects, Asking, page
  <2>2. \A g \in Flows \ {f} : flow'[g] = flow[g]
    BY <1>4, FlowMoves DEF ListProjects
  <2> QED
    BY <2>1, <2>2, StillAsked DEF Asking
<1>5. ASSUME NEW f \in Flows, ReadRows(f) PROVE CheckingIsAsked'
  <2>1. flow' = [flow EXCEPT ![f].pc = "runs"] /\ UNCHANGED statuses
    BY <1>5 DEF ReadRows, page
  <2>2. flow'[f].pc = "runs" /\ \A g \in Flows \ {f} : flow'[g] = flow[g]
    BY <2>1, FlowMoves
  <2> QED
    BY <2>1, <2>2, StillAsked DEF Asking
<1>6. ASSUME NEW f \in Flows, NEW p \in Projects,
             \/ GetCached(f, p) \/ GetJoins(f, p)
             \/ \E r \in Runs : GetStarts(f, p, r)
      PROVE  CheckingIsAsked'
  BY <1>1, <1>6 DEF GetCached, GetJoins, GetStarts, Get, page
<1>7. ASSUME NEW f \in Flows, EndOf(f) PROVE CheckingIsAsked'
  BY <1>7, SaidTyped, LoadEndsAsked, CheckEndsAsked
  DEF EndOf, Load, LoadFails, Check, CheckFails, Asking
<1>8. ASSUME NEW r \in Runs, ListSnapshots(r) \/ RunEnds(r) \/ RunFails(r)
      PROVE  CheckingIsAsked'
  BY <1>1, <1>8 DEF ListSnapshots, RunEnds, RunFails, page
<1>9. ASSUME NEW p \in Projects, Invalidate(p) PROVE CheckingIsAsked'
  BY <1>1, <1>9 DEF Invalidate, page
<1>10. CASE UNCHANGED vars
  BY <1>1, <1>10 DEF vars, page
<1> QED
  BY <1>2, <1>3, <1>4, <1>5, <1>6, <1>7, <1>8, <1>9, <1>10 DEF Next

\* While a card says that it checks, a request for the statuses is in flight:
\* however the flows overlap and fail, the end of a check writes every card.
THEOREM CheckingIsAlwaysAsked == Spec => []CheckingIsAsked
<1>1. Init => CheckingIsAsked
  BY SentinelsDiffer DEF Init, CheckingIsAsked, Nothing
<1>2. Typed => TypeOK
  BY DEF Typed
<1> QED
  BY <1>1, <1>2, InitTyped, NextTyped, NextAsked, PTL DEF Spec

-----------------------------------------------------------------------------
(* What is the case of a project *)

\* The latest of some snapshots is another one than b.
LEMMA LatestIsNewer ==
  ASSUME NEW S \in SUBSET Snapshots, NEW b
  PROVE  (~\A s \in S : s = b \/ \E t \in S : t > s) <=> Newer(b, S)
  BY SnapshotsAreOrdered DEF Newer

LEMMA StatusOfNewer ==
  ASSUME NEW S \in SUBSET Snapshots, NEW b
  PROVE  /\ Newer(b, S) => Status(~\A s \in S : s = b \/ \E t \in S : t > s) = "pull"
         /\ ~Newer(b, S)
               => Status(~\A s \in S : s = b \/ \E t \in S : t > s) = "current"
<1> DEFINE y == ~\A s \in S : s = b \/ \E t \in S : t > s
<1>1. y <=> Newer(b, S)
  BY LatestIsNewer
<1>2. y => Status(y) = "pull"
  BY DEF Status
<1>3. ~y => Status(y) = "current"
  BY DEF Status
<1> QED
  BY <1>1, <1>2, <1>3

\* The status that a project has, and that it will have.
LEMMA StatusNow ==
  ASSUME NEW p \in Projects, Exists(p), listed[p] \in SUBSET Snapshots
  PROVE  /\ Newer(row[p], listed[p]) => Is(p) = {"pull"}
         /\ ~Newer(row[p], listed[p]) => Is(p) = {"current"}
<1>1. PICK b, S : b = row[p] /\ S = listed[p]
  OBVIOUS
<1>2. Is(p) = {Status(~\A s \in S : s = b \/ \E t \in S : t > s)}
  BY <1>1 DEF Is
<1> QED
  BY <1>1, <1>2, StatusOfNewer

LEMMA StatusNext ==
  ASSUME NEW p \in Projects, Exists(p)', listed'[p] \in SUBSET Snapshots
  PROVE  /\ Newer(row'[p], listed'[p]) => "pull" \in Happened[p]
         /\ ~Newer(row'[p], listed'[p]) => "current" \in Happened[p]
<1>1. PICK b, S : b = row'[p] /\ S = listed'[p]
  OBVIOUS
<1>2. Is(p)' = {Status(~\A s \in S : s = b \/ \E t \in S : t > s)}
  BY <1>1 DEF Is
<1>3. Is(p)' \subseteq Happened[p]
  BY DEF Happened
<1> QED
  BY <1>1, <1>2, <1>3, StatusOfNewer

\* A snapshot that appears is the latest one, or does not change which it is.
LEMMA AppearsOnTop ==
  ASSUME NEW S \in SUBSET Snapshots, NEW s \in Snapshots \ S,
         NEW b, NEW c, b # s, c # s
  PROVE  LET N == S \cup {s} IN
         /\ ~Newer(b, N) /\ Topped(N) => ~Newer(b, S) /\ Topped(S)
         /\ Newer(b, N) /\ ~Topped(S) => Newer(c, N)
         /\ ~Topped(N) => ~Newer(c, N)
  BY SnapshotsAreOrdered DEF Newer, Topped

\* A row that is read says what is the case.
LEMMA ReadIsWitnessed ==
  ASSUME NEW p \in Projects, Shaped, Exists(p), row[p] \in Known(p)
  PROVE  Witnessed([base |-> row[p], was |-> Is(p)], p)
<1>1. listed[p] \in SUBSET Snapshots
  BY DEF Shaped
<1> QED
  BY <1>1, StatusNow DEF Witnessed

\* What may have been witnessed of base b, if the row is c and the repository
\* lists S, with the ids known in K.
Seen(b, was, c, S, K) ==
    /\ b \in K
    /\ "pull" \in was \/ (~Newer(b, S) /\ (c = b \/ ~Topped(S)))
    /\ Newer(b, S) \/ "current" \in was

LEMMA SeenIsWitnessed ==
  ASSUME NEW v, NEW p \in Projects
  PROVE  Witnessed(v, p) <=> Seen(v.base, v.was, row[p], listed[p], Known(p))
  BY DEF Witnessed, Seen

LEMMA SeenAfterStore ==
  ASSUME NEW S \in SUBSET Snapshots, NEW s \in Snapshots, NEW K, NEW b, NEW c \in K,
         NEW was, NEW now, S \subseteq K, s \notin K,
         Seen(b, was, c, S, K),
         Newer(c, S \cup {s}) => "pull" \in now,
         ~Newer(c, S \cup {s}) => "current" \in now
  PROVE  Seen(b, was \cup now, c, S \cup {s}, K \cup {s})
<1>1. b \in K /\ b # s /\ c # s /\ s \in Snapshots \ S
  BY DEF Seen
<1> DEFINE N == S \cup {s}
<1>2. /\ ~Newer(b, N) /\ Topped(N) => ~Newer(b, S) /\ Topped(S)
      /\ Newer(b, N) /\ ~Topped(S) => Newer(c, N)
      /\ ~Topped(N) => ~Newer(c, N)
  BY <1>1, AppearsOnTop
<1>3. /\ Newer(c, N) => "pull" \in now
      /\ ~Newer(c, N) => "current" \in now
  OBVIOUS
<1> HIDE DEF N
<1>4. Seen(b, was \cup now, c, N, K \cup {s})
  BY <1>1, <1>2, <1>3 DEF Seen
<1> QED
  BY <1>4 DEF N

LEMMA SeenAfterRecord ==
  ASSUME NEW S \in SUBSET Snapshots, NEW s \in S, NEW K, NEW b, NEW c,
         NEW was, NEW now,
         Seen(b, was, c, S, K),
         Newer(s, S) => "pull" \in now
  PROVE  Seen(b, was \cup now, s, S, K)
<1>1. ~Newer(b, S) /\ Topped(S) /\ ~Newer(s, S) => s = b
  BY DEF Newer, Topped
<1> QED
  BY <1>1 DEF Seen

\* What was read stays sound while others work, because it sees what they do.
LEMMA LaterIsSound ==
  ASSUME NEW p \in Projects, Shaped, Shaped', Step(p),
         Exists(p) => row[p] \in Known(p),
         NEW v \in View, Sound(v, p),
         NEW n, n = [base |-> v.base, was |-> v.was \cup Happened[p]]
  PROVE  Sound(n, p)'
<1>1. n.base = v.base /\ n.was = v.was \cup Happened[p]
  OBVIOUS
<1>2. row'[p] # Absent
  BY SentinelsDiffer DEF Step, Sound, Exists, Shaped, Bases
<1> SUFFICES ASSUME Exists(p)', "forgotten" \notin n.was
             PROVE  Witnessed(n, p)'
  BY <1>2 DEF Sound
<1>3. Exists(p)
  BY SentinelsDiffer DEF Step, Exists, Sound
<1>4. listed[p] \subseteq listed'[p]
  BY <1>1 DEF Happened
<1>5. PICK S, c, K : S = listed[p] /\ c = row[p] /\ K = Known(p)
  OBVIOUS
<1>6. S \in SUBSET Snapshots /\ S \subseteq K /\ c \in K
      /\ listed'[p] \in SUBSET Snapshots
  BY <1>3, <1>5 DEF Shaped, Known
<1>7. Seen(v.base, v.was, c, S, K)
  BY <1>1, <1>3, <1>5 DEF Sound, Witnessed, Seen
<1>8. PICK now : now = Happened[p]
  OBVIOUS
<1>9. /\ Newer(row'[p], listed'[p]) => "pull" \in now
      /\ ~Newer(row'[p], listed'[p]) => "current" \in now
  BY <1>6, <1>8, StatusNext
<1>10. Seen(v.base, v.was \cup now, row'[p], listed'[p], Known(p)')
  <2>1. CASE UNCHANGED <<row[p], listed[p], forgotten[p]>>
    BY <1>5, <1>7, <2>1 DEF Seen, Known
  <2>2. ASSUME NEW s \in Snapshots, s \notin listed[p] \cup forgotten[p],
               listed'[p] = listed[p] \cup {s}, UNCHANGED <<row[p], forgotten[p]>>
        PROVE  <1>10
    <3>1. s \notin K
      BY <1>5, <2>2, SnapshotsAreOrdered DEF Known
    <3>2. listed'[p] = S \cup {s} /\ row'[p] = c /\ Known(p)' = K \cup {s}
      BY <1>5, <2>2 DEF Known
    <3>3. /\ Newer(c, S \cup {s}) => "pull" \in now
          /\ ~Newer(c, S \cup {s}) => "current" \in now
      BY <1>9, <3>2
    <3>4. Seen(v.base, v.was \cup now, c, S \cup {s}, K \cup {s})
      BY <1>6, <1>7, <3>1, <3>3, SeenAfterStore
    <3> QED
      BY <3>2, <3>4
  <2>3. ASSUME NEW s \in Snapshots, s \in listed[p], listed'[p] = listed[p] \ {s}
        PROVE  FALSE
    BY <1>4, <2>3
  <2>4. ASSUME NEW s \in Snapshots, s \in listed[p], row'[p] = s,
               UNCHANGED <<listed[p], forgotten[p]>>
        PROVE  <1>10
    <3>1. s \in S /\ listed'[p] = S /\ Known(p)' = K
      BY <1>5, <2>4 DEF Known
    <3>2. Newer(s, S) => "pull" \in now
      BY <1>9, <2>4, <3>1
    <3>3. Seen(v.base, v.was \cup now, s, S, K)
      BY <1>6, <1>7, <3>1, <3>2, SeenAfterRecord
    <3> QED
      BY <2>4, <3>1, <3>3
  <2>5. row[p] # Absent /\ row'[p] # Deleted
    BY <1>3, SentinelsDiffer DEF Exists
  <2> QED
    BY <2>1, <2>2, <2>3, <2>4, <2>5 DEF Step
<1> QED
  BY <1>1, <1>8, <1>10 DEF Witnessed, Seen

\* What is said stays true, as long as the project exists.
LEMMA TruthStays ==
  ASSUME NEW p \in Projects, Step(p), NEW a, Truthful(a, p)
  PROVE  Truthful(a, p)'
  BY SentinelsDiffer DEF Step, Truthful, Exists, Bases

LEMMA RowsAreKnown ==
  ASSUME NEW p \in Projects, Step(p), Exists(p) => row[p] \in Known(p)
  PROVE  (Exists(p) => row[p] \in Known(p))'
  BY SentinelsDiffer DEF Step, Exists, Known

\* A listing answers what was witnessed.
LEMMA ListingIsTruthful ==
  ASSUME NEW p \in Projects, NEW v \in View, Sound(v, p)
  PROVE  Truthful(Judged(Status(NeedsPull(v.base, listed[p])), v), p)
<1>1. NeedsPull(v.base, listed[p]) <=> Newer(v.base, listed[p])
  BY DEF NeedsPull, Newer
<1>2. PICK y \in BOOLEAN : y <=> Newer(v.base, listed[p])
  OBVIOUS
<1>3. Status(NeedsPull(v.base, listed[p])) = IF Newer(v.base, listed[p]) THEN "pull" ELSE "current"
  BY <1>1 DEF Status
<1>4. ASSUME Exists(p)
      PROVE  \/ "forgotten" \in v.was
             \/ Status(NeedsPull(v.base, listed[p])) \in v.was
  BY <1>3, <1>4 DEF Sound, Witnessed
<1> QED
  BY <1>4 DEF Truthful, Judged, Sound

-----------------------------------------------------------------------------
(* What is known of the rows, the runs and the answers *)

\* A run, its row and its result, and the entry of a project.
RunSound(r) ==
    run[r] # Absent
        => /\ run[r].view # Absent => Sound(run[r].view, run[r].project)
           /\ run[r].result # Absent => Truthful(run[r].result, run[r].project)

LEMMA OthersGrounded ==
  ASSUME Typed, Grounded, Others
  PROVE  Grounded'
<1>1. Event /\ Observed /\ Shaped' /\ \A p \in Projects : Step(p)
  BY OthersStep DEF Typed, Event
<1>2. Shaped
  BY DEF Typed, TypeOK, Shaped
<1>3. ASSUME NEW p \in Projects
      PROVE  (Exists(p) => row[p] \in Known(p))'
  BY <1>1, RowsAreKnown DEF Grounded
<1>4. ASSUME NEW p \in Projects, NEW v \in View \cup {Absent}, v # Absent => Sound(v, p),
             NEW n, n = Later(v, p), n # Absent
      PROVE  Sound(n, p)'
  <2>1. v \in View /\ Sound(v, p)
        /\ n = [base |-> v.base, was |-> v.was \cup Happened[p]]
    BY <1>4, LaterIsTyped
  <2>2. Step(p) /\ (Exists(p) => row[p] \in Known(p))
    BY <1>1 DEF Grounded
  <2> QED
    BY <1>1, <1>2, <2>1, <2>2, LaterIsSound
<1>5. ASSUME NEW f \in Flows, NEW p \in Projects, read'[f][p] # Absent
      PROVE  Sound(read[f][p], p)'
  <2>1. PICK v, n : v = read[f][p] /\ n = read'[f][p]
    OBVIOUS
  <2>2. v \in View \cup {Absent} /\ (v # Absent => Sound(v, p))
    BY <2>1 DEF Typed, TypeOK, Grounded
  <2>3. n = Later(v, p) /\ n # Absent
    BY <1>1, <1>5, <2>1 DEF Observed
  <2>4. Sound(n, p)'
    BY <1>4, <2>2, <2>3
  <2> QED
    BY <2>1, <2>4 DEF Sound, Witnessed
<1>6. ASSUME NEW f \in Flows, NEW p \in Projects, answer'[f][p] # Absent
      PROVE  Truthful(answer[f][p], p)'
  <2>1. PICK a : a = answer[f][p]
    OBVIOUS
  <2>2. answer'[f][p] = a /\ Truthful(a, p)
    BY <1>1, <1>6, <2>1 DEF Event, Grounded
  <2>3. Truthful(a, p)'
    BY <1>1, <2>2, TruthStays
  <2> QED
    BY <2>2, <2>3 DEF Truthful
<1>7. ASSUME NEW r \in Runs PROVE RunSound(r)'
  <2> SUFFICES ASSUME run'[r] # Absent PROVE RunSound(r)'
    BY DEF RunSound
  <2>1. /\ run[r] # Absent /\ run[r] \in Run
        /\ run'[r].project = run[r].project
        /\ run'[r].result = run[r].result
        /\ run'[r].view = Later(run[r].view, run[r].project)
    BY <1>1, ObservedRuns DEF Typed, TypeOK
  <2>2. PICK p, v, n, a : p = run[r].project /\ v = run[r].view
                          /\ n = run'[r].view /\ a = run[r].result
    OBVIOUS
  <2>3. p \in Projects /\ v \in View \cup {Absent} /\ n = Later(v, p)
    BY <2>1, <2>2 DEF Run
  <2>4. (v # Absent => Sound(v, p)) /\ (a # Absent => Truthful(a, p))
    BY <2>1, <2>2 DEF Grounded
  <2>5. n # Absent => Sound(n, p)'
    BY <1>4, <2>3, <2>4
  <2>6. a # Absent => Truthful(a, p)'
    BY <1>1, <2>3, <2>4, TruthStays
  <2> QED
    BY <2>1, <2>2, <2>5, <2>6 DEF RunSound, Sound, Witnessed, Truthful
<1>8. ASSUME NEW p \in Projects, cache'[p] # Absent
      PROVE  Truthful(cache[p], p)'
  <2>1. PICK a : a = cache[p]
    OBVIOUS
  <2>2. cache'[p] = a /\ Truthful(a, p)
    BY <1>1, <1>8, <2>1 DEF Event, Grounded
  <2>3. Truthful(a, p)'
    BY <1>1, <2>2, TruthStays
  <2> QED
    BY <2>2, <2>3 DEF Truthful
<1> QED
  BY <1>3, <1>5, <1>6, <1>7, <1>8 DEF Grounded, RunSound

\* The server stays as it is: every part of what is known has to be shown.
LEMMA ServerStays ==
  ASSUME Grounded, UNCHANGED server,
         \A f \in Flows, p \in Projects :
            /\ read'[f][p] # Absent => Sound(read'[f][p], p)
            /\ answer'[f][p] # Absent => Truthful(answer'[f][p], p),
         \A r \in Runs :
            run'[r] # Absent
              => /\ run'[r].view # Absent => Sound(run'[r].view, run'[r].project)
                 /\ run'[r].result # Absent
                       => Truthful(run'[r].result, run'[r].project),
         \A p \in Projects : cache'[p] # Absent => Truthful(cache'[p], p)
  PROVE  Grounded'
<1>1. UNCHANGED <<row, listed, forgotten>>
  BY DEF server
<1>2. \A p \in Projects : Exists(p) => row[p] \in Known(p)
  BY DEF Grounded
<1>3. \A p \in Projects : (Exists(p) => row[p] \in Known(p))'
  BY <1>1, <1>2 DEF Exists, Known
<1> QED
  BY <1>1, <1>3 DEF Grounded, Sound, Witnessed, Truthful, Exists, Known
LEMMA PageGrounded ==
  ASSUME Typed, Grounded, NEW f \in Flows,
         \/ \E checks \in BOOLEAN : Reload(f, checks)
         \/ ListProjects(f) \/ ReadRows(f) \/ EndOf(f)
  PROVE  Grounded'
<1>1. ASSUME NEW checks \in BOOLEAN, Reload(f, checks) PROVE Grounded'
  BY <1>1, ServerStays DEF Reload, caching, Grounded
<1>2. CASE ListProjects(f)
  BY <1>2, ServerStays DEF ListProjects, caching, Grounded
<1>3. CASE ReadRows(f)
  <2>1. UNCHANGED <<server, cache, inFlight, run, answer>>
    BY <1>3 DEF ReadRows, caching
  <2>2. ASSUME NEW p \in Projects, RowsRead[p] # Absent
        PROVE  Sound(RowsRead[p], p)
    <3>1. RowsRead[p] = [base |-> row[p], was |-> Is(p)] /\ Exists(p)
      BY <2>2 DEF RowsRead
    <3>2. Shaped /\ row[p] \in Known(p)
      BY <3>1 DEF Typed, TypeOK, Shaped, Grounded
    <3>3. Witnessed(RowsRead[p], p)
      BY <3>1, <3>2, ReadIsWitnessed
    <3> QED
      BY <3>1, <3>3, SentinelsDiffer DEF Sound, Exists
  <2>3. ASSUME NEW g \in Flows, NEW p \in Projects, read'[g][p] # Absent
        PROVE  Sound(read'[g][p], p)
    <3>1. CASE g = f
      <4>1. read'[g] = RowsRead
        BY <1>3, <3>1 DEF ReadRows, Typed, TypeOK
      <4> QED
        BY <2>2, <2>3, <4>1
    <3>2. CASE g # f
      <4>1. read'[g] = read[g]
        BY <1>3, <3>2 DEF ReadRows, Typed, TypeOK
      <4> QED
        BY <2>3, <4>1 DEF Grounded
    <3> QED
      BY <3>1, <3>2
  <2> QED
    BY <2>1, <2>3, ServerStays DEF Grounded
<1>4. CASE EndOf(f)
  <2>1. Served(f)
    BY <1>4 DEF EndOf, Load, LoadFails, Check, CheckFails, LoadEnds, CheckEnds
  <2>2. UNCHANGED <<server, cache>>
        /\ read' = [read EXCEPT ![f] = Nothing] /\ answer' = [answer EXCEPT ![f] = Nothing]
    BY <2>1 DEF Served
  <2>3. \A r \in Runs :
           /\ run[r] = Absent => run'[r] = Absent
           /\ run[r] # Absent => /\ run'[r] # Absent
                                 /\ run'[r].project = run[r].project
                                 /\ run'[r].view = run[r].view
                                 /\ run'[r].result = run[r].result
    BY <2>1, ServedTyped
  <2>4. \A g \in Flows, p \in Projects :
           /\ read'[g][p] # Absent => Sound(read'[g][p], p)
           /\ answer'[g][p] # Absent => Truthful(answer'[g][p], p)
    BY <2>2 DEF Typed, TypeOK, Nothing, Grounded
  <2> QED
    BY <2>2, <2>3, <2>4, ServerStays DEF Grounded
<1> QED
  BY <1>1, <1>2, <1>3, <1>4

\* A row that was given to the cache is read no more.
LEMMA GetGrounded ==
  ASSUME Typed, Grounded, NEW f \in Flows, NEW p \in Projects, Get(f, p)
  PROVE  /\ UNCHANGED <<server, cache>>
         /\ read[f][p] \in View /\ Sound(read[f][p], p)
         /\ \A g \in Flows, q \in Projects :
               read'[g][q] # Absent => Sound(read'[g][q], q)
<1>1. read' = [read EXCEPT ![f][p] = Absent]
  BY DEF Get
<1>2. \A g \in Flows, q \in Projects :
         read'[g][q] = Absent \/ read'[g][q] = read[g][q]
  BY <1>1 DEF Typed, TypeOK
<1>3. read[f][p] \in View /\ UNCHANGED <<server, cache>>
  BY GetTyped DEF Typed, Get
<1>4. Sound(read[f][p], p)
  BY DEF Get, Grounded
<1> QED
  BY <1>2, <1>3, <1>4 DEF Grounded

\* A run starts with a sound row.
LEMMA StartRunGrounded ==
  ASSUME Typed, Grounded, NEW r \in Runs, NEW p \in Projects, NEW v \in View,
         NEW F \in SUBSET Flows, StartRun(r, p, v, F), Sound(v, p)
  PROVE  \A q \in Runs :
            run'[q] # Absent
              => /\ run'[q].view # Absent => Sound(run'[q].view, run'[q].project)
                 /\ run'[q].result # Absent
                       => Truthful(run'[q].result, run'[q].project)
<1>1. /\ \A q \in Runs \ {r} : run'[q] = run[q]
      /\ run'[r] # Absent /\ run'[r].project = p
      /\ run'[r].view = v /\ run'[r].result = Absent
  BY StartRunTyped
<1> QED
  BY <1>1 DEF Grounded

LEMMA GetCachedGrounded ==
  ASSUME Typed, Grounded, NEW f \in Flows, NEW p \in Projects, GetCached(f, p)
  PROVE  Grounded'
<1>1. /\ UNCHANGED <<server, cache>>
      /\ read[f][p] \in View /\ Sound(read[f][p], p)
      /\ \A g \in Flows, q \in Projects :
            read'[g][q] # Absent => Sound(read'[g][q], q)
  BY GetGrounded DEF GetCached
<1>2. \A g \in Flows, q \in Projects :
         answer'[g][q] # Absent => Truthful(answer'[g][q], q)
  <2>1. answer' = [answer EXCEPT ![f][p] = cache[p]] /\ cache[p] # Absent
    BY DEF GetCached
  <2>2. \A g \in Flows, q \in Projects :
           answer'[g][q] = answer[g][q] \/ (q = p /\ answer'[g][q] = cache[p])
    BY <2>1 DEF Typed, TypeOK
  <2> QED
    BY <2>1, <2>2 DEF Grounded
<1>3. \A q \in Runs :
         run'[q] # Absent
           => /\ run'[q].view # Absent => Sound(run'[q].view, run'[q].project)
              /\ run'[q].result # Absent
                    => Truthful(run'[q].result, run'[q].project)
  <2>1. CASE UNCHANGED run
    BY <2>1 DEF Grounded
  <2>2. ASSUME NEW r \in Runs, StartRun(r, p, read[f][p], {}) PROVE <1>3
    <3>1. PICK v : v = read[f][p]
      OBVIOUS
    <3>2. {} \in SUBSET Flows /\ v \in View /\ Sound(v, p) /\ StartRun(r, p, v, {})
      BY <1>1, <2>2, <3>1
    <3> QED
      BY <3>2, StartRunGrounded
  <2> QED
    BY <2>1, <2>2 DEF GetCached
<1> QED
  BY <1>1, <1>2, <1>3, ServerStays DEF Grounded

LEMMA GetStartsGrounded ==
  ASSUME Typed, Grounded, NEW f \in Flows, NEW p \in Projects, NEW r \in Runs,
         GetStarts(f, p, r)
  PROVE  Grounded'
<1>1. /\ UNCHANGED <<server, cache, answer>>
      /\ read[f][p] \in View /\ Sound(read[f][p], p)
      /\ \A g \in Flows, q \in Projects :
            read'[g][q] # Absent => Sound(read'[g][q], q)
  BY GetGrounded DEF GetStarts
<1>2. PICK v, F : v = read[f][p] /\ F = {f}
  OBVIOUS
<1>3. F \in SUBSET Flows /\ v \in View /\ Sound(v, p) /\ StartRun(r, p, v, F)
  BY <1>1, <1>2 DEF GetStarts
<1>4. \A q \in Runs :
         run'[q] # Absent
           => /\ run'[q].view # Absent => Sound(run'[q].view, run'[q].project)
              /\ run'[q].result # Absent
                    => Truthful(run'[q].result, run'[q].project)
  BY <1>3, StartRunGrounded
<1> QED
  BY <1>1, <1>4, ServerStays DEF Grounded

LEMMA GetJoinsGrounded ==
  ASSUME Typed, Grounded, NEW f \in Flows, NEW p \in Projects, GetJoins(f, p)
  PROVE  Grounded'
<1>1. /\ UNCHANGED <<server, cache, answer>>
      /\ \A g \in Flows, q \in Projects :
            read'[g][q] # Absent => Sound(read'[g][q], q)
  BY GetGrounded DEF GetJoins
<1>2. \A r \in Runs :
         /\ run[r] = Absent => run'[r] = Absent
         /\ run[r] # Absent => /\ run'[r] # Absent
                               /\ run'[r].project = run[r].project
                               /\ run'[r].view = run[r].view
                               /\ run'[r].result = run[r].result
  BY GetJoinsTyped
<1> QED
  BY <1>1, <1>2, ServerStays DEF Grounded

LEMMA ListSnapshotsGrounded ==
  ASSUME Typed, Grounded, NEW r \in Runs, ListSnapshots(r)
  PROVE  Grounded'
<1>1. /\ run[r] \in Run /\ run[r].view \in View /\ run'[r] # Absent
      /\ run'[r].project = run[r].project
      /\ run'[r].view = Absent
      /\ run'[r].result =
            Judged(Status(NeedsPull(run[r].view.base, listed[run[r].project])),
                   run[r].view)
      /\ \A q \in Runs \ {r} : run'[q] = run[q]
  BY ListSnapshotsTyped
<1>2. PICK v, p : v = run[r].view /\ p = run[r].project
  OBVIOUS
<1>3. v \in View /\ p \in Projects /\ Sound(v, p)
  BY <1>1, <1>2, SentinelsDiffer DEF Run, ListSnapshots, Grounded
<1>4. Truthful(Judged(Status(NeedsPull(v.base, listed[p])), v), p)
  BY <1>3, ListingIsTruthful
<1>5. Truthful(run'[r].result, run'[r].project)
  BY <1>1, <1>2, <1>4
<1>6. UNCHANGED <<server, cache, read, answer>>
  BY DEF ListSnapshots
<1> QED
  BY <1>1, <1>5, <1>6, ServerStays DEF Grounded

LEMMA RunEndsGrounded ==
  ASSUME Typed, Grounded, NEW r \in Runs, RunEnds(r)
  PROVE  Grounded'
<1>1. PICK a, p : a = run[r].result /\ p = run[r].project
  OBVIOUS
<1>2. run[r] \in Run /\ p \in Projects /\ (a # Absent => Truthful(a, p))
  BY <1>1 DEF RunEnds, Typed, TypeOK, Run, Grounded
<1>3. ASSUME NEW q \in Projects, cache'[q] # Absent PROVE Truthful(cache'[q], q)
  <2>1. CASE inFlight[q] = r
    <3>1. cache'[q] = a
      BY <1>1, <2>1 DEF RunEnds
    <3>2. q = p
      BY <1>1, <2>1, SentinelsDiffer DEF Typed, Linked
    <3> QED
      BY <1>2, <1>3, <3>1, <3>2
  <2>2. CASE inFlight[q] # r
    <3>1. cache'[q] = cache[q]
      BY <2>2 DEF RunEnds
    <3> QED
      BY <1>3, <3>1 DEF Grounded
  <2> QED
    BY <2>1, <2>2
<1>4. ASSUME NEW f \in Flows, NEW q \in Projects, answer'[f][q] # Absent
      PROVE  Truthful(answer'[f][q], q)
  <2>1. answer'[f] = answer[f] \/ answer'[f] = [answer[f] EXCEPT ![p] = a]
    BY <1>1 DEF RunEnds
  <2>2. answer'[f][q] = answer[f][q] \/ (q = p /\ answer'[f][q] = a)
    BY <1>2, <2>1 DEF Typed, TypeOK
  <2> QED
    BY <1>2, <1>4, <2>2 DEF Grounded
<1>5. run'[r] = Absent /\ \A q \in Runs \ {r} : run'[q] = run[q]
  BY RunGoesTyped DEF RunEnds
<1>6. UNCHANGED <<server, read>>
  BY DEF RunEnds
<1> QED
  BY <1>3, <1>4, <1>5, <1>6, ServerStays DEF Grounded

LEMMA RunFailsGrounded ==
  ASSUME Typed, Grounded, NEW r \in Runs, RunFails(r)
  PROVE  Grounded'
<1>1. run'[r] = Absent /\ \A q \in Runs \ {r} : run'[q] = run[q]
  BY RunGoesTyped DEF RunFails
<1>2. UNCHANGED <<server, cache, read, answer>>
  BY DEF RunFails
<1> QED
  BY <1>1, <1>2, ServerStays DEF Grounded

LEMMA InvalidateGrounded ==
  ASSUME Typed, Grounded, NEW p \in Projects, Invalidate(p)
  PROVE  Grounded'
<1>1. \A q \in Projects : cache'[q] = Absent \/ cache'[q] = cache[q]
  BY DEF Invalidate, Typed, TypeOK
<1>2. UNCHANGED <<server, run, read, answer>>
  BY DEF Invalidate
<1> QED
  BY <1>1, <1>2, ServerStays DEF Grounded

LEMMA NextGrounded == Typed /\ Grounded /\ [Next]_vars => Grounded'
<1> SUFFICES ASSUME Typed, Grounded, [Next]_vars PROVE Grounded'
  OBVIOUS
<1>1. CASE Others
  BY <1>1, OthersGrounded
<1>2. ASSUME NEW f \in Flows,
             \/ \E checks \in BOOLEAN : Reload(f, checks)
             \/ ListProjects(f) \/ ReadRows(f) \/ EndOf(f)
      PROVE  Grounded'
  BY <1>2, PageGrounded
<1>3. ASSUME NEW f \in Flows, NEW p \in Projects,
             \/ GetCached(f, p) \/ GetJoins(f, p)
             \/ \E r \in Runs : GetStarts(f, p, r)
      PROVE  Grounded'
  BY <1>3, GetCachedGrounded, GetJoinsGrounded, GetStartsGrounded
<1>4. ASSUME NEW r \in Runs, ListSnapshots(r) \/ RunEnds(r) \/ RunFails(r)
      PROVE  Grounded'
  BY <1>4, ListSnapshotsGrounded, RunEndsGrounded, RunFailsGrounded
<1>5. ASSUME NEW p \in Projects, Invalidate(p) PROVE Grounded'
  BY <1>5, InvalidateGrounded
<1>6. CASE UNCHANGED vars
  BY <1>6, ServerStays DEF vars, caching, Grounded
<1> QED
  BY <1>1, <1>2, <1>3, <1>4, <1>5, <1>6 DEF Next

LEMMA InitGrounded == Init => Grounded
<1> SUFFICES ASSUME Init PROVE Grounded
  OBVIOUS
<1>1. ASSUME NEW p \in Projects, Exists(p) PROVE row[p] \in Known(p)
  BY <1>1, SentinelsDiffer DEF Init, Exists, Known
<1>2. /\ \A f \in Flows, p \in Projects : read[f][p] = Absent /\ answer[f][p] = Absent
      /\ \A r \in Runs : run[r] = Absent
      /\ \A p \in Projects : cache[p] = Absent
  BY DEF Init, Nothing
<1> QED
  BY <1>1, <1>2 DEF Grounded

\* Whoever asks, and whether the status comes from an entry, from the run of
\* another caller or from a run of its own (GET /projects/status): it was the
\* case at one moment since the row of its run was read, which may be before
\* the request, or a snapshot was forgotten since.
THEOREM StatusesWereTrue == Spec => []RemoteStatusWasTrue
<1>1. Grounded => RemoteStatusWasTrue
  BY DEF Grounded, RemoteStatusWasTrue, Truthful
<1> QED
  BY <1>1, InitTyped, NextTyped, InitGrounded, NextGrounded, PTL DEF Spec
=============================================================================
