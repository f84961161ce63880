----------------------- MODULE ProjectLifecycleProofs -----------------------
(***************************************************************************)
(* Proofs about ProjectLifecycle: its states are well typed; names and      *)
(* targets of projects are unique, since the creation that holds the lock   *)
(* has checked them (CreationsAreChecked); a prune that nobody overlaps     *)
(* takes the deleted scope only, since what it writes is what the record    *)
(* still holds (PrunesAreFresh) and nothing has met an id that is not yet   *)
(* that of a project (IdsAreFresh, DeletedIsGone); and a refresh undoes no  *)
(* change of its replica, since the list it installs was read after the     *)
(* last one (Sound).                                                        *)
(***************************************************************************)
EXTENDS ProjectLifecycle, TLAPS

-----------------------------------------------------------------------------
(* Types *)

LEMMA GotoIsTyped ==
  ASSUME TypeOK, NEW q \in Requests, NEW l,
         \/ req[q] \in Creation /\ l \in {"name", "target", "insert", "announce", "done"}
         \/ req[q] \in Deletion
            /\ l \in {"delete", "forget", "list", "prune", "finish", "done"},
         Goto(q, l)
  PROVE  req' \in [Requests -> Creation \cup Deletion \cup {NoRequest}]
<1>1. [req[q] EXCEPT !.pc = l] \in Creation \cup Deletion
  BY DEF Creation, Deletion
<1> QED
  BY <1>1 DEF Goto, TypeOK

LEMMA KindsAreTyped ==
  ASSUME TypeOK, NEW q \in Requests, req[q] # NoRequest
  PROVE  /\ req[q].kind = "create" => req[q] \in Creation
         /\ req[q].kind = "delete" => req[q] \in Deletion
         /\ req[q] \in Creation \cup Deletion
         /\ req[q].at \in Replicas /\ req[q].id \in Ids
BY DEF TypeOK, Creation, Deletion

LEMMA InitIsTyped == Init => TypeOK
<1> SUFFICES ASSUME Init PROVE TypeOK
  OBVIOUS
<1>1. rows \in [Ids -> Project \cup {NoRow}] /\ free \in SUBSET Ids
  <2>1. PICK S \in SUBSET Ids : \E f \in [S -> Project] :
          /\ rows = [i \in Ids |-> IF i \in S THEN f[i] ELSE NoRow]
          /\ free = Ids \ S
    BY DEF Init
  <2> QED
    BY <2>1
<1>2. /\ scopes \in [Users -> SUBSET Ids] /\ decided \in [Users -> SUBSET Ids]
      /\ catalogue \in [Replicas -> SUBSET Ids]
  <2>1. Present \subseteq Ids
    BY DEF Present
  <2>2. scopes \in [Users -> SUBSET Ids]
    BY <2>1 DEF Init
  <2> QED
    BY <2>1, <2>2 DEF Init
<1> QED
  BY <1>1, <1>2, SpecialValues DEF Init, TypeOK

LEMMA RefreshedIsTyped ==
  ASSUME TypeOK, NEW r \in Replicas
  PROVE  /\ Refreshed(r) \in [Replicas -> Refresh \cup {NoRefresh}]
         /\ RefreshedAfterChange(r) \in [Replicas -> Refresh \cup {NoRefresh}]
BY DEF TypeOK, Refreshed, RefreshedAfterChange, Refresh

LEMMA CreateIsTyped ==
  ASSUME TypeOK, NEW q \in Requests, CreateStep(q)
  PROVE  TypeOK'
<1>1. CASE CreateLock(q)
  BY <1>1, GotoIsTyped, KindsAreTyped DEF CreateLock, At, TypeOK, memory, people
<1>2. CASE CheckName(q)
  BY <1>2, GotoIsTyped, KindsAreTyped
     DEF CheckName, CreateRefused, At, TypeOK, database, memory, people
<1>3. CASE CheckTarget(q)
  BY <1>3, GotoIsTyped, KindsAreTyped
     DEF CheckTarget, CreateRefused, At, TypeOK, database, memory, people
<1>4. CASE CreateFails(q)
  BY <1>4, GotoIsTyped, KindsAreTyped
     DEF CreateFails, CreateRefused, At, TypeOK, memory, people
<1>5. CASE Insert(q)
  <2>1. req[q] \in Creation /\ req[q].project \in Project /\ req[q].id \in Ids
    BY <1>5, KindsAreTyped DEF Insert, At, Creation
  <2>2. rows' \in [Ids -> Project \cup {NoRow}]
    BY <1>5, <2>1 DEF Insert, TypeOK
  <2> QED
    BY <1>5, <2>1, <2>2, GotoIsTyped DEF Insert, TypeOK, memory, people
<1>6. CASE Announce(q)
  BY <1>6, GotoIsTyped, KindsAreTyped, RefreshedIsTyped
     DEF Announce, At, TypeOK, database, people
<1> QED
  BY <1>1, <1>2, <1>3, <1>4, <1>5, <1>6 DEF CreateStep

LEMMA DeleteIsTyped ==
  ASSUME TypeOK, NEW q \in Requests, DeleteStep(q)
  PROVE  TypeOK'
<1>1. CASE DeleteLock(q)
  BY <1>1, GotoIsTyped, KindsAreTyped DEF DeleteLock, At, TypeOK, memory, people
<1>2. CASE DeleteCascade(q)
  BY <1>2, GotoIsTyped, KindsAreTyped DEF DeleteCascade, At, TypeOK, memory, people
<1>3. CASE Forget(q)
  BY <1>3, GotoIsTyped, KindsAreTyped DEF Forget, At, TypeOK, database, people
<1>4. ASSUME NEW users \in [Users -> SUBSET Ids], NEW left \in SUBSET Users,
             NEW l \in {"prune", "finish"}, req[q] # NoRequest, req[q].kind = "delete",
             req' = [req EXCEPT ![q].users = users, ![q].left = left, ![q].pc = l]
      PROVE  req' \in [Requests -> Creation \cup Deletion \cup {NoRequest}]
  <2>1. req[q] \in Deletion
    BY <1>4, KindsAreTyped
  <2>2. [req[q] EXCEPT !.users = users, !.left = left, !.pc = l] \in Deletion
    BY <1>4, <2>1 DEF Deletion
  <2> QED
    BY <1>4, <2>2 DEF TypeOK
<1>5. CASE ListUsers(q)
  <2>1. req' = [req EXCEPT ![q].users = scopes, ![q].pc = "prune",
                           ![q].left = {u \in Users : req[q].id \in scopes[u]}]
    BY <1>5 DEF ListUsers
  <2>2. req[q] \in Deletion
    BY <1>5, KindsAreTyped DEF ListUsers, At
  <2>3. [req[q] EXCEPT !.users = scopes, !.pc = "prune",
                       !.left = {u \in Users : req[q].id \in scopes[u]}] \in Deletion
    BY <2>2 DEF Deletion, TypeOK
  <2>4. req' \in [Requests -> Creation \cup Deletion \cup {NoRequest}]
    BY <2>1, <2>3 DEF TypeOK
  <2> QED
    BY <1>5, <2>4 DEF ListUsers, TypeOK, database, memory, people
<1>6. ASSUME NEW u \in Users, PruneUser(q, u)
      PROVE  TypeOK'
  <2>1. req[q] \in Deletion
    BY <1>6, KindsAreTyped DEF PruneUser, At
  <2>2. [req[q] EXCEPT !.left = @ \ {u}] \in Deletion
    BY <2>1 DEF Deletion
  <2>3. req' \in [Requests -> Creation \cup Deletion \cup {NoRequest}]
    BY <1>6, <2>2 DEF PruneUser, TypeOK
  <2>4. Pruned(q, u) \in SUBSET Ids
    BY <2>1 DEF Pruned, Deletion
  <2> QED
    BY <1>6, <2>3, <2>4 DEF PruneUser, TypeOK, database, memory
<1>7. CASE EndPrune(q) \/ PruneFails(q)
  <2>1. req[q] \in Deletion
    BY <1>7, KindsAreTyped DEF EndPrune, PruneFails, At
  <2>2. /\ [req[q] EXCEPT !.pc = "finish", !.users = [u \in Users |-> {}]] \in Deletion
        /\ [req[q] EXCEPT !.pc = "finish", !.left = {},
                          !.users = [u \in Users |-> {}]] \in Deletion
    BY <2>1 DEF Deletion
  <2>3. req' \in [Requests -> Creation \cup Deletion \cup {NoRequest}]
    BY <1>7, <2>2 DEF EndPrune, PruneFails, TypeOK
  <2> QED
    BY <1>7, <2>3 DEF EndPrune, PruneFails, TypeOK, database, memory, people
<1>8. CASE Finish(q)
  BY <1>8, GotoIsTyped, KindsAreTyped, RefreshedIsTyped
     DEF Finish, At, TypeOK, people
<1> QED
  BY <1>1, <1>2, <1>3, <1>5, <1>6, <1>7, <1>8 DEF DeleteStep

LEMMA RequestIsTyped ==
  ASSUME TypeOK, NEW q \in Requests, NEW r \in Replicas, NEW i \in Ids
  PROVE  /\ Delete(q, r, i) => TypeOK'
         /\ \A n \in Names, p \in Prefixes \cup {Blank} : Create(q, r, i, n, p) => TypeOK'
<1>1. ASSUME Delete(q, r, i) PROVE TypeOK'
  <2>1. [kind |-> "delete", at |-> r, id |-> i, pc |-> "lock",
         users |-> [u \in Users |-> {}], left |-> {}] \in Deletion
    BY DEF Deletion
  <2> QED
    BY <1>1, <2>1 DEF Delete, TypeOK, database, memory, people
<1>2. ASSUME NEW n \in Names, NEW p \in Prefixes \cup {Blank}, Create(q, r, i, n, p)
      PROVE  TypeOK'
  <2>1. Target(n, p) \in Prefixes
    BY SlugIsAPrefix DEF Target
  <2>2. [kind |-> "create", at |-> r, id |-> i, pc |-> "lock",
         project |-> [name |-> n, target |-> Target(n, p)]] \in Creation
    BY <2>1 DEF Creation, Project
  <2> QED
    BY <1>2, <2>2 DEF Create, TypeOK, memory, people
<1> QED
  BY <1>1, <1>2

LEMMA ReplicaIsTyped ==
  ASSUME TypeOK, NEW r \in Replicas
  PROVE  /\ RefreshStart(r) \/ RefreshRead(r) \/ RefreshEnd(r) \/ RefreshFails(r) => TypeOK'
         /\ Restart(r) => TypeOK'
         /\ \A u \in Users, S \in SUBSET Ids : UpdateUser(r, u, S) => TypeOK'
<1>1. CASE RefreshStart(r)
  BY <1>1, RefreshedIsTyped DEF RefreshStart, TypeOK, database, people
<1>2. CASE RefreshRead(r)
  <2>1. [refresh[r] EXCEPT !.loaded = TRUE, !.read = Present] \in Refresh
    BY <1>2 DEF RefreshRead, TypeOK, Refresh, Present
  <2> QED
    BY <1>2, <2>1 DEF RefreshRead, TypeOK, database, people
<1>3. CASE RefreshEnd(r) \/ RefreshFails(r)
  BY <1>3 DEF RefreshEnd, RefreshFails, TypeOK, Refresh, database, people
<1>4. CASE Restart(r)
  <2> DEFINE dead == {q \in Requests :
                        req[q] # NoRequest /\ req[q].at = r /\ req[q].pc # "done"}
  <2>1. \A q \in dead : [req[q] EXCEPT !.pc = "done"] \in Creation \cup Deletion
    <3>1. ASSUME NEW q \in dead, req[q] \in Creation
          PROVE  [req[q] EXCEPT !.pc = "done"] \in Creation
      BY <3>1 DEF Creation
    <3>2. ASSUME NEW q \in dead, req[q] \in Deletion
          PROVE  [req[q] EXCEPT !.pc = "done"] \in Deletion
      BY <3>2 DEF Deletion
    <3> QED
      BY <3>1, <3>2 DEF TypeOK
  <2>2. req' \in [Requests -> Creation \cup Deletion \cup {NoRequest}]
    BY <1>4, <2>1 DEF Restart, TypeOK
  <2>3. catalogue' \in [Replicas -> SUBSET Ids]
    BY <1>4 DEF Restart, TypeOK, Present
  <2>4. writeLock' \in [Ids -> Requests \cup {Nobody}]
    BY <1>4 DEF Restart, TypeOK
  <2>5. events' \in 0 .. MaxEvents
    BY <1>4, SpecialValues DEF Restart, TypeOK
  <2> QED
    BY <1>4, <2>2, <2>3, <2>4, <2>5 DEF Restart, TypeOK, people
<1>5. ASSUME NEW u \in Users, NEW S \in SUBSET Ids, UpdateUser(r, u, S)
      PROVE  TypeOK'
  BY <1>5, SpecialValues DEF UpdateUser, TypeOK, database, memory
<1> QED
  BY <1>1, <1>2, <1>3, <1>4, <1>5

LEMMA StepIsTyped ==
  ASSUME TypeOK, [Next]_vars
  PROVE  TypeOK'
<1>1. CASE Next
  BY <1>1, CreateIsTyped, DeleteIsTyped, RequestIsTyped, ReplicaIsTyped DEF Next
<1>2. CASE UNCHANGED vars
  BY <1>2 DEF vars, database, memory, people, TypeOK
<1> QED
  BY <1>1, <1>2

\* Every state is well typed.
THEOREM TypesAreKept == Spec => []TypeOK
BY InitIsTyped, StepIsTyped, PTL DEF Spec

-----------------------------------------------------------------------------
(* What a step does to the requests *)

\* What the name and the target of a creation are.
Same(q) ==
    /\ req'[q].kind = req[q].kind /\ req'[q].at = req[q].at
    /\ req'[q].id = req[q].id
    /\ req[q].kind = "create" => req'[q].project = req[q].project

LEMMA GotoMovesOne ==
  ASSUME TypeOK, NEW q \in Requests, NEW l, req[q] # NoRequest, Goto(q, l)
  PROVE  /\ \A p \in Requests \ {q} : req'[p] = req[p]
         /\ req'[q].pc = l /\ Same(q)
         /\ req[q].kind = "delete" =>
               req'[q].users = req[q].users /\ req'[q].left = req[q].left
<1>1. req[q] \in Creation \cup Deletion
  BY KindsAreTyped
<1>2. req' = [req EXCEPT ![q] = [req[q] EXCEPT !.pc = l]]
  BY DEF Goto, TypeOK
<1>3. CASE req[q] \in Creation
  BY <1>2, <1>3 DEF Same, TypeOK, Creation
<1>4. CASE req[q] \in Deletion
  BY <1>2, <1>4 DEF Same, TypeOK, Deletion
<1> QED
  BY <1>1, <1>3, <1>4

-----------------------------------------------------------------------------
(* Names and targets *)

InSection(q) == At(q, "create", "name") \/ At(q, "create", "target") \/ At(q, "create", "insert")

\* The creation that holds the lock has found its name, then its target free.
CreationsAreChecked ==
    \A q \in Requests :
        /\ InSection(q) => createLock = q
        /\ At(q, "create", "target") \/ At(q, "create", "insert") =>
              \A j \in Present : rows[j].name # req[q].project.name
        /\ At(q, "create", "insert") =>
              \A j \in Present : rows[j].target # req[q].project.target

LEMMA InitIsUnique == Init => CreationsAreChecked /\ TargetsAreUnique
<1> SUFFICES ASSUME Init PROVE CreationsAreChecked /\ TargetsAreUnique
  OBVIOUS
<1>1. CreationsAreChecked
  BY DEF Init, CreationsAreChecked, InSection, At
<1>2. PICK S \in SUBSET Ids : \E f \in [S -> Project] :
        /\ \A i, j \in S : i # j => f[i].name # f[j].name /\ f[i].target # f[j].target
        /\ rows = [i \in Ids |-> IF i \in S THEN f[i] ELSE NoRow]
  BY DEF Init
<1> PICK f \in [S -> Project] :
        /\ \A i, j \in S : i # j => f[i].name # f[j].name /\ f[i].target # f[j].target
        /\ rows = [i \in Ids |-> IF i \in S THEN f[i] ELSE NoRow]
  BY <1>2
<1>3. Present \subseteq S
  BY DEF Present
<1> QED
  BY <1>1, <1>3 DEF TargetsAreUnique, Present

\* Steps after which fewer requests create and fewer projects are there.
LEMMA FewerStayUnique ==
  ASSUME TypeOK, TypeOK', CreationsAreChecked, TargetsAreUnique,
         \A i \in Ids : rows'[i] = rows[i] \/ rows'[i] = NoRow,
         \A q \in Requests :
            /\ InSection(q)' => InSection(q) /\ createLock' = createLock /\ req'[q] = req[q]
  PROVE  CreationsAreChecked' /\ TargetsAreUnique'
<1>1. \A i \in Present' : i \in Present /\ rows'[i] = rows[i]
  BY DEF Present
<1> QED
  BY <1>1 DEF CreationsAreChecked, TargetsAreUnique, InSection, At

LEMMA CreateStaysUnique ==
  ASSUME TypeOK, TypeOK', CreationsAreChecked, TargetsAreUnique,
         NEW q \in Requests, CreateStep(q)
  PROVE  CreationsAreChecked' /\ TargetsAreUnique'
<1>1. CASE CreateLock(q)
  <2>1. \A p \in Requests : ~InSection(p)
    BY <1>1, SpecialValues DEF CreateLock, CreationsFree, CreationsAreChecked
  <2> QED
    BY <1>1, <2>1, GotoMovesOne
       DEF CreateLock, At, CreationsAreChecked, TargetsAreUnique, InSection, Present
<1>2. CASE CheckName(q) /\ UNCHANGED database
  BY <1>2, GotoMovesOne
     DEF CheckName, CreateRefused, At, CreationsAreChecked, TargetsAreUnique, InSection,
         Present, Same, database
<1>3. CASE CheckTarget(q) /\ UNCHANGED database
  BY <1>3, GotoMovesOne
     DEF CheckTarget, CreateRefused, At, CreationsAreChecked, TargetsAreUnique, InSection,
         Present, Same, database
<1>4. ASSUME InSection(q), CreateRefused(q)
      PROVE  CreationsAreChecked' /\ TargetsAreUnique'
  <2>1. \A p \in Requests \ {q} : ~InSection(p)
    BY <1>4 DEF CreationsAreChecked
  <2> QED
    BY <1>4, <2>1, GotoMovesOne, FewerStayUnique DEF CreateRefused, InSection, At
<1>5. CASE Insert(q)
  <2>1. \A p \in Requests \ {q} : ~InSection(p)
    BY <1>5 DEF CreationsAreChecked, Insert, InSection
  <2>2. \A p \in Requests : ~InSection(p)'
    BY <1>5, <2>1, GotoMovesOne DEF Insert, InSection, At
  <2>3. CreationsAreChecked'
    BY <2>2 DEF CreationsAreChecked, InSection
  <2>4. \A i \in Ids : rows'[i] = IF i = req[q].id THEN req[q].project ELSE rows[i]
    BY <1>5 DEF Insert, TypeOK
  <2>5. \A j \in Present : /\ rows[j].name # req[q].project.name
                           /\ rows[j].target # req[q].project.target
    BY <1>5 DEF Insert, CreationsAreChecked
  <2>6. TargetsAreUnique'
    BY <2>4, <2>5 DEF TargetsAreUnique, Present
  <2> QED
    BY <2>3, <2>6
<1>6. CASE Announce(q)
  BY <1>6, GotoMovesOne, FewerStayUnique DEF Announce, database, InSection, At
<1> QED
  BY <1>1, <1>2, <1>3, <1>4, <1>5, <1>6
     DEF CreateStep, CheckName, CheckTarget, CreateFails, InSection, At

LEMMA OthersStayUnique ==
  ASSUME TypeOK, TypeOK', CreationsAreChecked, TargetsAreUnique
  PROVE  /\ \A q \in Requests : DeleteStep(q) => CreationsAreChecked' /\ TargetsAreUnique'
         /\ \A q \in Requests, r \in Replicas, i \in Ids :
               /\ Delete(q, r, i) => CreationsAreChecked' /\ TargetsAreUnique'
               /\ \A n \in Names, p \in Prefixes \cup {Blank} :
                     Create(q, r, i, n, p) => CreationsAreChecked' /\ TargetsAreUnique'
         /\ \A r \in Replicas :
               /\ RefreshStart(r) \/ RefreshRead(r) \/ RefreshEnd(r) \/ RefreshFails(r)
                  => CreationsAreChecked' /\ TargetsAreUnique'
               /\ Restart(r) => CreationsAreChecked' /\ TargetsAreUnique'
               /\ \A u \in Users, S \in SUBSET Ids :
                     UpdateUser(r, u, S) => CreationsAreChecked' /\ TargetsAreUnique'
<1>1. ASSUME NEW q \in Requests, DeleteStep(q)
      PROVE  CreationsAreChecked' /\ TargetsAreUnique'
  <2>1. req[q] # NoRequest /\ req[q].kind = "delete" /\ req'[q].kind = "delete"
        /\ \A p \in Requests \ {q} : req'[p] = req[p]
    <3>1. CASE DeleteLock(q) \/ DeleteCascade(q) \/ Forget(q) \/ Finish(q)
      BY <3>1, GotoMovesOne DEF DeleteLock, DeleteCascade, Forget, Finish, At, Same
    <3>2. CASE ListUsers(q) \/ (\E u \in Users : PruneUser(q, u)) \/ EndPrune(q) \/ PruneFails(q)
      <4>1. req[q] \in Deletion
        BY <3>2, KindsAreTyped DEF ListUsers, PruneUser, EndPrune, PruneFails, At
      <4> QED
        BY <3>2, <4>1 DEF ListUsers, PruneUser, EndPrune, PruneFails, At, Deletion, TypeOK
    <3> QED
      BY <1>1, <3>1, <3>2 DEF DeleteStep
  <2>2. createLock' = createLock
        /\ \A i \in Ids : rows'[i] = rows[i] \/ rows'[i] = NoRow
    BY <1>1 DEF DeleteStep, DeleteLock, DeleteCascade, Forget, ListUsers, PruneUser, EndPrune,
       PruneFails, Finish, database, TypeOK
  <2> QED
    BY <2>1, <2>2, FewerStayUnique DEF InSection, At
<1>2. ASSUME NEW q \in Requests, NEW r \in Replicas, NEW i \in Ids,
             \/ Delete(q, r, i)
             \/ \E n \in Names, p \in Prefixes \cup {Blank} : Create(q, r, i, n, p)
      PROVE  CreationsAreChecked' /\ TargetsAreUnique'
  <2>1. req'[q].pc = "lock" /\ (\A p \in Requests \ {q} : req'[p] = req[p])
        /\ rows' = rows /\ createLock' = createLock
    BY <1>2 DEF Delete, Create, database, TypeOK
  <2> QED
    BY <2>1, FewerStayUnique DEF InSection, At
<1>3. ASSUME NEW r \in Replicas,
             \/ RefreshStart(r) \/ RefreshRead(r) \/ RefreshEnd(r) \/ RefreshFails(r)
             \/ \E u \in Users, S \in SUBSET Ids : UpdateUser(r, u, S)
      PROVE  CreationsAreChecked' /\ TargetsAreUnique'
  <2>1. UNCHANGED <<rows, createLock, req>>
    BY <1>3 DEF RefreshStart, RefreshRead, RefreshEnd, RefreshFails, UpdateUser, database
  <2> QED
    BY <2>1, FewerStayUnique DEF InSection, At
<1>4. ASSUME NEW r \in Replicas, Restart(r)
      PROVE  CreationsAreChecked' /\ TargetsAreUnique'
  <2> DEFINE dead == {q \in Requests :
                        req[q] # NoRequest /\ req[q].at = r /\ req[q].pc # "done"}
  <2>1. \A q \in Requests : req'[q].pc # "done" /\ req'[q] # NoRequest
                            => q \notin dead /\ req'[q] = req[q]
    BY <1>4 DEF Restart, TypeOK, Creation, Deletion
  <2>2. \A q \in Requests : InSection(q)' => InSection(q) /\ q \notin dead /\ req'[q] = req[q]
    BY <2>1 DEF InSection, At
  <2>3. \A q \in Requests : InSection(q)' => createLock' = createLock
    BY <1>4, <2>2 DEF Restart, CreationsAreChecked
  <2> QED
    BY <1>4, <2>2, <2>3, FewerStayUnique DEF Restart
<1> QED
  BY <1>1, <1>2, <1>3, <1>4

\* No two projects have one name or one repository target (TargetsAreUnique):
\* the advisory lock covers the two checks and the insertion of a creation,
\* also when a replica dies, and a deletion can only free a name or a target.
THEOREM NamesAndTargetsAreUnique == Spec => []TargetsAreUnique
<1>1. TypeOK /\ TypeOK' /\ CreationsAreChecked /\ TargetsAreUnique /\ [Next]_vars
      => CreationsAreChecked' /\ TargetsAreUnique'
  <2> SUFFICES ASSUME TypeOK, TypeOK', CreationsAreChecked, TargetsAreUnique, [Next]_vars
               PROVE  CreationsAreChecked' /\ TargetsAreUnique'
    OBVIOUS
  <2>1. CASE UNCHANGED vars
    BY <2>1, FewerStayUnique DEF vars, database, InSection, At
  <2>2. CASE Next
    BY <2>2, CreateStaysUnique, OthersStayUnique DEF Next
  <2> QED
    BY <2>1, <2>2
<1> QED
  BY <1>1, InitIsUnique, TypesAreKept, PTL DEF Spec

-----------------------------------------------------------------------------
(* What the steps do to the requests *)

OthersStay(q) == \A p \in Requests \ {q} : req'[p] = req[p]

LEMMA DeletionsMoveOne ==
  ASSUME TypeOK, NEW q \in Requests
  PROVE  /\ ListUsers(q) =>
               /\ OthersStay(q) /\ Same(q) /\ req'[q].pc = "prune"
               /\ req'[q].users = scopes
               /\ req'[q].left = {u \in Users : req[q].id \in scopes[u]}
         /\ \A u \in Users : PruneUser(q, u) =>
               /\ OthersStay(q) /\ Same(q) /\ req'[q].pc = "prune"
               /\ req'[q].users = req[q].users
               /\ req'[q].left = req[q].left \ {u}
         /\ EndPrune(q) \/ PruneFails(q) =>
               OthersStay(q) /\ Same(q) /\ req'[q].pc = "finish"
<1>1. ASSUME \/ ListUsers(q) \/ EndPrune(q) \/ PruneFails(q)
             \/ \E u \in Users : PruneUser(q, u)
      PROVE  req[q] \in Deletion /\ req[q].kind = "delete"
  BY <1>1, KindsAreTyped DEF ListUsers, PruneUser, EndPrune, PruneFails, At
<1>2. ASSUME ListUsers(q)
      PROVE  /\ OthersStay(q) /\ Same(q) /\ req'[q].pc = "prune"
             /\ req'[q].users = scopes
             /\ req'[q].left = {u \in Users : req[q].id \in scopes[u]}
  BY <1>1, <1>2 DEF ListUsers, OthersStay, Same, TypeOK, Deletion
<1>3. ASSUME NEW u \in Users, PruneUser(q, u)
      PROVE  /\ OthersStay(q) /\ Same(q) /\ req'[q].pc = "prune"
             /\ req'[q].users = req[q].users
             /\ req'[q].left = req[q].left \ {u}
  BY <1>1, <1>3 DEF PruneUser, At, OthersStay, Same, TypeOK, Deletion
<1>4. ASSUME EndPrune(q) \/ PruneFails(q)
      PROVE  OthersStay(q) /\ Same(q) /\ req'[q].pc = "finish"
  BY <1>1, <1>4 DEF EndPrune, PruneFails, OthersStay, Same, TypeOK, Deletion
<1> QED
  BY <1>2, <1>3, <1>4

LEMMA RequestsStart ==
  ASSUME TypeOK, NEW q \in Requests, NEW r \in Replicas, NEW i \in Ids
  PROVE  /\ Delete(q, r, i) =>
               /\ OthersStay(q) /\ req'[q].kind = "delete" /\ req'[q].pc = "lock"
               /\ req'[q].id = i /\ req'[q].at = r
         /\ \A n \in Names, p \in Prefixes \cup {Blank} : Create(q, r, i, n, p) =>
               /\ OthersStay(q) /\ req'[q].kind = "create" /\ req'[q].pc = "lock"
               /\ req'[q].id = i /\ req'[q].at = r
BY DEF Delete, Create, OthersStay, TypeOK

LEMMA RestartEndsRequests ==
  ASSUME TypeOK, NEW r \in Replicas, Restart(r), NEW q \in Requests
  PROVE  \/ req'[q] = req[q]
            /\ (req[q] # NoRequest /\ req[q].at = r => req[q].pc = "done")
         \/ req[q] # NoRequest /\ req[q].at = r /\ Same(q) /\ req'[q].pc = "done"
<1>1. CASE req[q] # NoRequest /\ req[q].at = r /\ req[q].pc # "done"
  <2>1. req'[q] = [req[q] EXCEPT !.pc = "done"]
    BY <1>1 DEF Restart
  <2>2. CASE req[q] \in Creation
    BY <1>1, <2>1, <2>2 DEF Same, Creation
  <2>3. CASE req[q] \in Deletion
    BY <1>1, <2>1, <2>3 DEF Same, Deletion
  <2> QED
    BY <1>1, <2>2, <2>3, KindsAreTyped
<1>2. CASE ~(req[q] # NoRequest /\ req[q].at = r /\ req[q].pc # "done")
  BY <1>2 DEF Restart
<1> QED
  BY <1>1, <1>2

-----------------------------------------------------------------------------
(* Prunes *)

\* A prune that nobody has overlapped writes what the user record still holds.
PrunesAreFresh ==
    \A q \in Requests : At(q, "delete", "prune") =>
        \A u \in req[q].left \ raced : req[q].users[u] = scopes[u]

LEMMA DeleteStepsKeepPrunes ==
  ASSUME TypeOK, PrunesAreFresh, NEW q \in Requests, DeleteStep(q)
  PROVE  PrunesAreFresh'
<1>1. CASE DeleteLock(q) \/ DeleteCascade(q) \/ Forget(q) \/ Finish(q)
  <2>1. UNCHANGED <<scopes, raced>> /\ req[q] # NoRequest /\ req'[q].pc # "prune"
        /\ OthersStay(q)
    BY <1>1, GotoMovesOne
       DEF DeleteLock, DeleteCascade, Forget, Finish, At, people, OthersStay
  <2> QED
    BY <2>1 DEF PrunesAreFresh, At, OthersStay
<1>2. CASE EndPrune(q) \/ PruneFails(q)
  <2>1. UNCHANGED <<scopes, raced>>
    BY <1>2 DEF EndPrune, PruneFails, people
  <2> QED
    BY <1>2, <2>1, DeletionsMoveOne DEF PrunesAreFresh, At, OthersStay
<1>3. CASE ListUsers(q)
  <2>1. UNCHANGED <<scopes, raced>>
    BY <1>3 DEF ListUsers, people
  <2> QED
    BY <1>3, <2>1, DeletionsMoveOne DEF PrunesAreFresh, At, OthersStay
<1>4. CASE \E u \in Users : PruneUser(q, u)
  <2> PICK u \in Users : PruneUser(q, u)
    BY <1>4
  <2>1. \A v \in Users \ {u} : scopes'[v] = scopes[v]
    BY DEF PruneUser, TypeOK
  <2>2. \A p \in Requests \ {q} :
           At(p, "delete", "prune") /\ u \in req[p].left => u \in raced'
    BY DEF PruneUser, Overlaps
  <2>3. raced \subseteq raced'
    BY DEF PruneUser
  <2>4. ASSUME NEW p \in Requests, At(p, "delete", "prune")', NEW v \in req'[p].left \ raced'
        PROVE  req'[p].users[v] = scopes'[v]
    <3>1. v \in Users
      <4>1. v \in req[p].left /\ At(p, "delete", "prune")
        BY <2>4, DeletionsMoveOne DEF PruneUser, OthersStay, At
      <4> QED
        BY <4>1, KindsAreTyped DEF At, Deletion
    <3>2. CASE p = q
      <4>1. /\ req'[q].users = req[q].users
            /\ req'[q].left = req[q].left \ {u}
        BY DeletionsMoveOne
      <4>2. v # u /\ v \in req[q].left \ raced
        BY <2>3, <2>4, <3>2, <4>1
      <4>3. req[q].users[v] = scopes[v]
        BY <4>2 DEF PruneUser, PrunesAreFresh
      <4> QED
        BY <2>1, <3>1, <3>2, <4>1, <4>2, <4>3
    <3>3. CASE p # q
      BY <2>1, <2>2, <2>3, <2>4, <3>1, <3>3, DeletionsMoveOne
         DEF PrunesAreFresh, At, OthersStay
    <3> QED
      BY <3>2, <3>3
  <2> QED
    BY <2>4 DEF PrunesAreFresh
<1> QED
  BY <1>1, <1>2, <1>3, <1>4 DEF DeleteStep

LEMMA OtherStepsKeepPrunes ==
  ASSUME TypeOK, PrunesAreFresh
  PROVE  /\ \A q \in Requests : CreateStep(q) => PrunesAreFresh'
         /\ \A q \in Requests, r \in Replicas, i \in Ids :
               /\ Delete(q, r, i) => PrunesAreFresh'
               /\ \A n \in Names, p \in Prefixes \cup {Blank} :
                     Create(q, r, i, n, p) => PrunesAreFresh'
         /\ \A r \in Replicas :
               /\ RefreshStart(r) \/ RefreshRead(r) \/ RefreshEnd(r) \/ RefreshFails(r)
                  => PrunesAreFresh'
               /\ Restart(r) => PrunesAreFresh'
               /\ \A u \in Users, S \in SUBSET Ids : UpdateUser(r, u, S) => PrunesAreFresh'
<1>1. ASSUME UNCHANGED <<scopes, raced>>,
             \A q \in Requests : At(q, "delete", "prune")' => req'[q] = req[q]
      PROVE  PrunesAreFresh'
  BY <1>1 DEF PrunesAreFresh, At
<1>2. ASSUME NEW q \in Requests, CreateStep(q) PROVE PrunesAreFresh'
  <2>1. req[q] # NoRequest /\ req[q].kind = "create" /\ UNCHANGED <<scopes, raced>>
    BY <1>2 DEF CreateStep, CreateLock, CheckName, CheckTarget, CreateFails, CreateRefused,
       Insert, Announce, At, people
  <2>2. \E l : Goto(q, l)
    BY <1>2 DEF CreateStep, CreateLock, CheckName, CheckTarget, CreateFails, CreateRefused,
       Insert, Announce
  <2> QED
    BY <1>1, <2>1, <2>2, GotoMovesOne DEF Same, At
<1>3. ASSUME NEW q \in Requests, NEW r \in Replicas, NEW i \in Ids,
             \/ Delete(q, r, i)
             \/ \E n \in Names, p \in Prefixes \cup {Blank} : Create(q, r, i, n, p)
      PROVE  PrunesAreFresh'
  <2>1. UNCHANGED <<scopes, raced>>
    BY <1>3 DEF Delete, Create, people
  <2> QED
    BY <1>1, <1>3, <2>1, RequestsStart DEF OthersStay, At
<1>4. ASSUME NEW r \in Replicas, RefreshStart(r) \/ RefreshRead(r) \/ RefreshEnd(r) \/ RefreshFails(r)
      PROVE  PrunesAreFresh'
  BY <1>1, <1>4 DEF RefreshStart, RefreshRead, RefreshEnd, RefreshFails, people
<1>5. ASSUME NEW r \in Replicas, Restart(r) PROVE PrunesAreFresh'
  <2>1. UNCHANGED <<scopes, raced>>
    BY <1>5 DEF Restart, people
  <2> QED
    BY <1>1, <1>5, <2>1, RestartEndsRequests DEF At
<1>6. ASSUME NEW r \in Replicas, NEW u \in Users, NEW S \in SUBSET Ids, UpdateUser(r, u, S)
      PROVE  PrunesAreFresh'
  <2>1. /\ \A v \in Users \ {u} : scopes'[v] = scopes[v]
        /\ raced \subseteq raced' /\ req' = req
    BY <1>6 DEF UpdateUser, TypeOK
  <2>2. \A p \in Requests :
           At(p, "delete", "prune") /\ u \in req[p].left => u \in raced'
    BY <1>6, SpecialValues DEF UpdateUser, Overlaps
  <2>3. \A p \in Requests : At(p, "delete", "prune") => req[p].left \subseteq Users
    BY KindsAreTyped DEF At, Deletion
  <2> QED
    BY <2>1, <2>2, <2>3 DEF PrunesAreFresh, At
<1> QED
  BY <1>2, <1>3, <1>4, <1>5, <1>6

LEMMA StepsKeepPrunes ==
  ASSUME TypeOK, PrunesAreFresh, [Next]_vars
  PROVE  PrunesAreFresh'
<1>1. CASE UNCHANGED vars
  BY <1>1 DEF vars, people, PrunesAreFresh, At
<1>2. CASE Next
  BY <1>2, DeleteStepsKeepPrunes, OtherStepsKeepPrunes DEF Next
<1> QED
  BY <1>1, <1>2

-----------------------------------------------------------------------------
(* Ids *)

Creates(q) == req[q] # NoRequest /\ req[q].kind = "create"

Pending(q) == Creates(q) /\ req[q].pc \in {"lock", "name", "target", "insert"}

Deletes(q) == req[q] # NoRequest /\ req[q].kind = "delete"

\* Nothing of the system has met a project with this id.
Unseen(i) ==
    /\ i \notin Present
    /\ \A r \in Replicas :
          /\ i \notin catalogue[r] /\ i \notin gone[r]
          /\ refresh[r] # NoRefresh => i \notin refresh[r].read
    /\ \A u \in Users \ raced : i \notin scopes[u] /\ i \notin decided[u]
    /\ \A q \in Requests : Deletes(q) => req[q].id # i

IdsAreFresh ==
    /\ \A i \in free : Unseen(i) /\ \A q \in Requests : Creates(q) => req[q].id # i
    /\ \A q \in Requests : Pending(q) => Unseen(req[q].id)
    /\ \A p, q \in Requests : Creates(p) /\ Creates(q) /\ p # q => req[p].id # req[q].id

LEMMA InitIsFresh == Init => PrunesAreFresh /\ IdsAreFresh
<1> SUFFICES ASSUME Init PROVE PrunesAreFresh /\ IdsAreFresh
  OBVIOUS
<1>1. \A q \in Requests : req[q] = NoRequest
  BY DEF Init
<1>2. \A i \in free : i \in Ids /\ rows[i] = NoRow
  BY DEF Init
<1>3. \A i \in free : i \notin Present
  BY <1>2 DEF Present
<1>4. \A i \in free : Unseen(i)
  BY <1>1, <1>3 DEF Init, Unseen, Deletes
<1> QED
  BY <1>1, <1>4 DEF PrunesAreFresh, IdsAreFresh, Creates, Pending, At

\* Requests keep what they are about.
LEMMA RequestsKeepTheirId ==
  ASSUME TypeOK, TypeOK', NEW q \in Requests, CreateStep(q) \/ DeleteStep(q)
  PROVE  /\ OthersStay(q) /\ Same(q) /\ req[q] # NoRequest
         /\ Pending(q)' => Pending(q)
<1>1. CASE CreateStep(q)
  <2>1. req[q] # NoRequest /\ req[q].kind = "create"
    BY <1>1 DEF CreateStep, CreateLock, CheckName, CheckTarget, CreateFails, CreateRefused,
       Insert, Announce, At
  <2>2. \E l : Goto(q, l) /\ (l # "done" /\ l # "announce" => Pending(q))
    BY <1>1, <2>1 DEF CreateStep, CreateLock, CheckName, CheckTarget, CreateFails, CreateRefused,
       Insert, Announce, At, Pending, Creates
  <2> QED
    BY <2>1, <2>2, GotoMovesOne DEF Same, OthersStay, Pending, Creates
<1>2. CASE DeleteLock(q) \/ DeleteCascade(q) \/ Forget(q) \/ Finish(q)
  <2>1. req[q] # NoRequest /\ req[q].kind = "delete" /\ \E l : Goto(q, l)
    BY <1>2 DEF DeleteLock, DeleteCascade, Forget, Finish, At
  <2> QED
    BY <2>1, GotoMovesOne DEF Same, OthersStay, Pending, Creates
<1>3. CASE ListUsers(q) \/ EndPrune(q) \/ PruneFails(q) \/ \E u \in Users : PruneUser(q, u)
  <2>1. req[q] # NoRequest /\ req[q].kind = "delete"
    BY <1>3 DEF ListUsers, EndPrune, PruneFails, PruneUser, At
  <2> QED
    BY <1>3, <2>1, DeletionsMoveOne DEF Same, Pending, Creates
<1> QED
  BY <1>1, <1>2, <1>3 DEF DeleteStep

LEMMA CreateStepsMeetNoOther ==
  ASSUME TypeOK, TypeOK', NEW q \in Requests, CreateStep(q),
         NEW i \in Ids, Unseen(i), Insert(q) \/ Announce(q) => i # req[q].id
  PROVE  Unseen(i)'
<1>1. \A p \in Requests : Deletes(p)' => Deletes(p) /\ req'[p].id = req[p].id
  BY RequestsKeepTheirId DEF Deletes, OthersStay, Same
<1>2. rows'[i] = rows[i] /\ UNCHANGED <<scopes, decided, raced>>
  BY DEF CreateStep, CreateLock, CheckName, CheckTarget, CreateFails, CreateRefused, Insert,
     Announce, database, people, TypeOK
<1>3. \A r \in Replicas : i \notin catalogue'[r] /\ i \notin gone'[r]
  BY DEF CreateStep, CreateLock, CheckName, CheckTarget, CreateFails, CreateRefused, Insert,
     Announce, memory, TypeOK, Unseen
<1>4. \A r \in Replicas : refresh'[r] # NoRefresh => i \notin refresh'[r].read
  <2>1. CASE Announce(q)
    BY <2>1 DEF Announce, RefreshedAfterChange, TypeOK, Unseen
  <2>2. CASE refresh' = refresh
    BY <2>2 DEF Unseen
  <2> QED
    BY <2>1, <2>2 DEF CreateStep, CreateLock, CheckName, CheckTarget, CreateFails,
       CreateRefused, Insert, memory
<1> QED
  BY <1>1, <1>2, <1>3, <1>4 DEF Unseen, Present

LEMMA DeleteStepsMeetNone ==
  ASSUME TypeOK, TypeOK', PrunesAreFresh, NEW q \in Requests, DeleteStep(q),
         NEW i \in Ids, Unseen(i)
  PROVE  Unseen(i)'
<1>1. \A p \in Requests : Deletes(p)' => Deletes(p) /\ req'[p].id = req[p].id
  BY RequestsKeepTheirId DEF Deletes, OthersStay, Same
<1>2. i \notin Present'
  BY DEF DeleteStep, DeleteLock, DeleteCascade, Forget, ListUsers, PruneUser, EndPrune,
     PruneFails, Finish, database, TypeOK, Unseen, Present
<1>3. req[q].id # i
  BY DEF DeleteStep, DeleteLock, DeleteCascade, Forget, ListUsers, PruneUser, EndPrune,
     PruneFails, Finish, At, Unseen, Deletes
<1>4. \A r \in Replicas : i \notin catalogue'[r] /\ i \notin gone'[r]
  BY <1>3 DEF DeleteStep, DeleteLock, DeleteCascade, Forget, ListUsers, PruneUser, EndPrune,
     PruneFails, Finish, memory, TypeOK, Unseen
<1>5. \A r \in Replicas : refresh'[r] # NoRefresh => i \notin refresh'[r].read
  <2>1. CASE Finish(q)
    BY <2>1 DEF Finish, Refreshed, TypeOK, Unseen
  <2>2. CASE refresh' = refresh
    BY <2>2 DEF Unseen
  <2> QED
    BY <2>1, <2>2 DEF DeleteStep, DeleteLock, DeleteCascade, Forget, ListUsers, PruneUser,
       EndPrune, PruneFails, memory
<1>6. \A u \in Users \ raced' : i \notin scopes'[u] /\ i \notin decided'[u]
  <2>1. CASE \E v \in Users : PruneUser(q, v)
    <3> PICK v \in Users : PruneUser(q, v)
      BY <2>1
    <3>1. raced \subseteq raced' /\ decided' = decided
          /\ scopes' = [scopes EXCEPT ![v] = Pruned(q, v)]
      BY DEF PruneUser
    <3>2. v \notin raced => Pruned(q, v) \subseteq scopes[v]
      BY DEF PruneUser, PrunesAreFresh, Pruned
    <3> QED
      BY <3>1, <3>2 DEF Unseen, TypeOK
  <2>2. CASE UNCHANGED <<scopes, decided, raced>>
    BY <2>2 DEF Unseen
  <2> QED
    BY <2>1, <2>2 DEF DeleteStep, DeleteLock, DeleteCascade, Forget, ListUsers, EndPrune,
       PruneFails, Finish, people
<1> QED
  BY <1>1, <1>2, <1>4, <1>5, <1>6 DEF Unseen

LEMMA OtherStepsMeetNone ==
  ASSUME TypeOK, TypeOK', NEW i \in Ids, Unseen(i)
  PROVE  /\ \A q \in Requests, r \in Replicas, j \in Ids :
               /\ Delete(q, r, j) => Unseen(i)'
               /\ \A n \in Names, p \in Prefixes \cup {Blank} :
                     Create(q, r, j, n, p) => Unseen(i)'
         /\ \A r \in Replicas :
               /\ RefreshStart(r) \/ RefreshRead(r) \/ RefreshEnd(r) \/ RefreshFails(r)
                  => Unseen(i)'
               /\ Restart(r) => Unseen(i)'
               /\ \A u \in Users, S \in SUBSET Ids : UpdateUser(r, u, S) => Unseen(i)'
<1>1. ASSUME NEW q \in Requests, NEW r \in Replicas, NEW j \in Ids,
             \/ Delete(q, r, j)
             \/ \E n \in Names, p \in Prefixes \cup {Blank} : Create(q, r, j, n, p)
      PROVE  Unseen(i)'
  <2>1. UNCHANGED <<rows, memory, people>>
    BY <1>1 DEF Delete, Create, database
  <2>2. \A p \in Requests : Deletes(p)' => req'[p].id # i
    BY <1>1, RequestsStart DEF Delete, OthersStay, Deletes, Unseen
  <2> QED
    BY <2>1, <2>2 DEF Unseen, Present, memory, people
<1>2. ASSUME NEW r \in Replicas, RefreshStart(r) \/ RefreshRead(r) \/ RefreshEnd(r) \/ RefreshFails(r)
      PROVE  Unseen(i)'
  <2>1. UNCHANGED <<rows, people, gone, req>>
    BY <1>2 DEF RefreshStart, RefreshRead, RefreshEnd, RefreshFails, database
  <2>2. \A s \in Replicas : i \notin catalogue'[s]
    BY <1>2 DEF RefreshStart, RefreshRead, RefreshEnd, RefreshFails, Unseen, TypeOK
  <2>3. \A s \in Replicas : refresh'[s] # NoRefresh => i \notin refresh'[s].read
    <3>1. CASE RefreshStart(r)
      BY <3>1 DEF RefreshStart, Refreshed, Unseen, TypeOK
    <3>2. CASE RefreshRead(r)
      BY <3>2 DEF RefreshRead, Unseen, TypeOK, Refresh
    <3>3. CASE RefreshEnd(r) \/ RefreshFails(r)
      BY <3>3 DEF RefreshEnd, RefreshFails, Unseen, TypeOK
    <3> QED
      BY <1>2, <3>1, <3>2, <3>3
  <2> QED
    BY <2>1, <2>2, <2>3 DEF Unseen, Present, people, Deletes
<1>3. ASSUME NEW r \in Replicas, Restart(r) PROVE Unseen(i)'
  <2>1. \A p \in Requests : Deletes(p)' => Deletes(p) /\ req'[p].id = req[p].id
    BY <1>3, RestartEndsRequests DEF Deletes, Same
  <2>2. UNCHANGED <<rows, people, gone>>
    BY <1>3 DEF Restart
  <2>3. \A s \in Replicas : /\ i \notin catalogue'[s]
                            /\ refresh'[s] # NoRefresh => i \notin refresh'[s].read
    BY <1>3 DEF Restart, Unseen, TypeOK
  <2> QED
    BY <2>1, <2>2, <2>3 DEF Unseen, Present, people
<1>4. ASSUME NEW r \in Replicas, NEW u \in Users, NEW S \in SUBSET Ids, UpdateUser(r, u, S)
      PROVE  Unseen(i)'
  <2>1. UNCHANGED <<rows, memory, req>>
    BY <1>4 DEF UpdateUser, database
  <2>2. raced \subseteq raced'
    BY <1>4 DEF UpdateUser
  <2>3. \A v \in Users : /\ scopes'[v] = IF v = u THEN S \cap catalogue[r] ELSE scopes[v]
                         /\ decided'[v] = IF v = u THEN S \cap catalogue[r] ELSE decided[v]
    BY <1>4 DEF UpdateUser, TypeOK
  <2>4. i \notin catalogue[r]
    BY DEF Unseen
  <2> QED
    BY <2>1, <2>2, <2>3, <2>4 DEF Unseen, Present, memory, Deletes
<1> QED
  BY <1>1, <1>2, <1>3, <1>4

LEMMA StepsKeepIdsFresh ==
  ASSUME TypeOK, TypeOK', PrunesAreFresh, IdsAreFresh, [Next]_vars
  PROVE  IdsAreFresh'
<1>1. \A q \in Requests : Creates(q) => req[q].id \in Ids
  BY KindsAreTyped DEF Creates
<1>2. free \subseteq Ids
  BY DEF TypeOK
<1>3. ASSUME free' = free,
             \A p \in Requests : /\ Creates(p)' => Creates(p) /\ req'[p].id = req[p].id
                                 /\ Pending(p)' => Pending(p),
             \A i \in Ids :
                /\ Unseen(i)
                /\ i \in free \/ \E p \in Requests : Pending(p)' /\ req[p].id = i
                => Unseen(i)'
      PROVE  IdsAreFresh'
  <2>1. \A p \in Requests : Pending(p)' => Unseen(req[p].id)'
    <3> SUFFICES ASSUME NEW p \in Requests, Pending(p)', NEW i, i = req'[p].id
                 PROVE  Unseen(i)'
      OBVIOUS
    <3>1. Pending(p) /\ i = req[p].id /\ Creates(p)
      BY <1>3 DEF Pending
    <3>2. Unseen(i) /\ i \in Ids
      BY <1>1, <3>1 DEF IdsAreFresh
    <3> QED
      BY <1>3, <3>1, <3>2
  <2>2. \A i \in free' : Unseen(i)' /\ \A q \in Requests : Creates(q)' => req'[q].id # i
    BY <1>2, <1>3 DEF IdsAreFresh
  <2>3. \A p, q \in Requests : Creates(p)' /\ Creates(q)' /\ p # q => req'[p].id # req'[q].id
    BY <1>3 DEF IdsAreFresh
  <2> QED
    BY <2>1, <2>2, <2>3 DEF IdsAreFresh
<1>4. ASSUME NEW q \in Requests, CreateStep(q) PROVE IdsAreFresh'
  <2>1. free' = free /\ Creates(q)
    BY <1>4 DEF CreateStep, CreateLock, CheckName, CheckTarget, CreateFails, CreateRefused,
       Insert, Announce, database, At, Creates
  <2>2. \A p \in Requests : /\ Creates(p)' => Creates(p) /\ req'[p].id = req[p].id
                            /\ Pending(p)' => Pending(p)
    BY <1>4, <2>1, RequestsKeepTheirId DEF OthersStay, Same, Creates, Pending
  <2>3. Insert(q) \/ Announce(q) => ~Pending(q)'
    BY <2>1, GotoMovesOne DEF Insert, Announce, Pending, Creates
  <2>4. ASSUME NEW i \in Ids, Unseen(i),
               i \in free \/ \E p \in Requests : Pending(p)' /\ req[p].id = i
        PROVE  Unseen(i)'
    <3>1. Insert(q) \/ Announce(q) => i # req[q].id
      BY <2>1, <2>2, <2>3, <2>4 DEF IdsAreFresh, Pending
    <3> QED
      BY <1>4, <2>4, <3>1, CreateStepsMeetNoOther
  <2> QED
    BY <1>3, <2>1, <2>2, <2>4
<1>5. ASSUME NEW q \in Requests, DeleteStep(q) PROVE IdsAreFresh'
  <2>1. free' = free
    BY <1>5 DEF DeleteStep, DeleteLock, DeleteCascade, Forget, ListUsers, PruneUser, EndPrune,
       PruneFails, Finish, database
  <2>2. \A p \in Requests : /\ Creates(p)' => Creates(p) /\ req'[p].id = req[p].id
                            /\ Pending(p)' => Pending(p)
    BY <1>5, RequestsKeepTheirId DEF OthersStay, Same, Creates, Pending
  <2> QED
    BY <1>3, <1>5, <2>1, <2>2, DeleteStepsMeetNone
<1>6. ASSUME NEW q \in Requests, NEW r \in Replicas, NEW j \in Ids, Delete(q, r, j)
      PROVE  IdsAreFresh'
  <2>1. free' = free
    BY <1>6 DEF Delete, database
  <2>2. \A p \in Requests : /\ Creates(p)' => Creates(p) /\ req'[p].id = req[p].id
                            /\ Pending(p)' => Pending(p)
    BY <1>6, RequestsStart DEF OthersStay, Creates, Pending
  <2> QED
    BY <1>3, <1>6, <2>1, <2>2, OtherStepsMeetNone
<1>7. ASSUME NEW q \in Requests, NEW r \in Replicas, NEW j \in Ids,
             \E n \in Names, p \in Prefixes \cup {Blank} : Create(q, r, j, n, p)
      PROVE  IdsAreFresh'
  <2>1. free' = free \ {j} /\ j \in free
    BY <1>7 DEF Create
  <2>2. /\ \A p \in Requests \ {q} : req'[p] = req[p]
        /\ req'[q].id = j
    BY <1>7, RequestsStart DEF OthersStay
  <2>3. \A i \in Ids : Unseen(i) => Unseen(i)'
    BY <1>7, OtherStepsMeetNone
  <2>4. \A p \in Requests \ {q} : Creates(p) => req[p].id # j
    BY <2>1 DEF IdsAreFresh
  <2>5. \A i \in free' : Unseen(i)' /\ \A p \in Requests : Creates(p)' => req'[p].id # i
    BY <1>2, <2>1, <2>2, <2>3 DEF IdsAreFresh, Creates
  <2>6. \A p \in Requests : Pending(p)' => Unseen(req[p].id)'
    <3> SUFFICES ASSUME NEW p \in Requests, Pending(p)', NEW i, i = req'[p].id
                 PROVE  Unseen(i)'
      OBVIOUS
    <3>1. i \in Ids /\ Unseen(i)
      BY <1>1, <1>2, <2>1, <2>2 DEF IdsAreFresh, Pending, Creates
    <3> QED
      BY <2>3, <3>1
  <2>7. \A p, s \in Requests : Creates(p)' /\ Creates(s)' /\ p # s => req'[p].id # req'[s].id
    BY <2>2, <2>4 DEF IdsAreFresh, Creates
  <2> QED
    BY <2>5, <2>6, <2>7 DEF IdsAreFresh
<1>8. ASSUME NEW r \in Replicas,
             \/ RefreshStart(r) \/ RefreshRead(r) \/ RefreshEnd(r) \/ RefreshFails(r)
             \/ \E u \in Users, S \in SUBSET Ids : UpdateUser(r, u, S)
      PROVE  IdsAreFresh'
  <2>1. UNCHANGED <<free, req>>
    BY <1>8 DEF RefreshStart, RefreshRead, RefreshEnd, RefreshFails, UpdateUser, database
  <2> QED
    BY <1>3, <1>8, <2>1, OtherStepsMeetNone DEF Creates, Pending
<1>9. ASSUME NEW r \in Replicas, Restart(r) PROVE IdsAreFresh'
  <2>1. free' = free
    BY <1>9 DEF Restart
  <2>2. \A p \in Requests : /\ Creates(p)' => Creates(p) /\ req'[p].id = req[p].id
                            /\ Pending(p)' => Pending(p)
    BY <1>9, RestartEndsRequests DEF Same, Creates, Pending
  <2> QED
    BY <1>3, <1>9, <2>1, <2>2, OtherStepsMeetNone
<1>10. CASE UNCHANGED vars
  BY <1>10 DEF vars, database, memory, people, IdsAreFresh, Unseen, Creates, Deletes, Pending,
     Present
<1> QED
  BY <1>4, <1>5, <1>6, <1>7, <1>8, <1>9, <1>10 DEF Next

-----------------------------------------------------------------------------
(* What comes and what has gone *)

\* The table changes only when a project is inserted or deleted.
LEMMA OnlyTwoStepsWriteRows ==
  ASSUME [Next]_vars
  PROVE  (\E q \in Requests : Insert(q) \/ DeleteCascade(q)) \/ rows' = rows
<1>1. ASSUME NEW q \in Requests, CreateStep(q) PROVE Insert(q) \/ rows' = rows
  BY <1>1 DEF CreateStep, CreateLock, CheckName, CheckTarget, CreateFails, CreateRefused,
     Announce, database
<1>2. ASSUME NEW q \in Requests, DeleteStep(q) PROVE DeleteCascade(q) \/ rows' = rows
  <2>1. ASSUME NEW u \in Users, PruneUser(q, u) PROVE rows' = rows
    BY <2>1 DEF PruneUser, database
  <2>2. ASSUME DeleteLock(q) \/ Forget(q) \/ ListUsers(q) PROVE rows' = rows
    BY <2>2 DEF DeleteLock, Forget, ListUsers, database
  <2>3. ASSUME EndPrune(q) \/ PruneFails(q) \/ Finish(q) PROVE rows' = rows
    BY <2>3 DEF EndPrune, PruneFails, Finish, database
  <2> QED
    BY <1>2, <2>1, <2>2, <2>3 DEF DeleteStep
<1>3. ASSUME NEW q \in Requests, NEW r \in Replicas, NEW i \in Ids,
             \/ Delete(q, r, i)
             \/ \E n \in Names, p \in Prefixes \cup {Blank} : Create(q, r, i, n, p)
      PROVE  rows' = rows
  BY <1>3 DEF Delete, Create, database
<1>4. ASSUME NEW r \in Replicas,
             \/ RefreshStart(r) \/ RefreshRead(r) \/ RefreshEnd(r) \/ RefreshFails(r)
             \/ Restart(r)
             \/ \E u \in Users, S \in SUBSET Ids : UpdateUser(r, u, S)
      PROVE  rows' = rows
  BY <1>4 DEF RefreshStart, RefreshRead, RefreshEnd, RefreshFails, Restart, UpdateUser,
     database
<1>5. CASE UNCHANGED vars
  BY <1>5 DEF vars, database
<1> QED
  BY <1>1, <1>2, <1>3, <1>4, <1>5 DEF Next

\* A project that comes is that of a creation, and nobody has met it.
LEMMA OnlyFreshIdsCome ==
  ASSUME TypeOK, IdsAreFresh, [Next]_vars, NEW i \in Present', i \notin Present
  PROVE  \E q \in Requests : Insert(q) /\ i = req[q].id /\ Unseen(i)
<1>1. i \in Ids /\ rows'[i] # NoRow /\ rows[i] = NoRow
  BY DEF Present
<1>2. ASSUME NEW q \in Requests, Insert(q)
      PROVE  i = req[q].id /\ Unseen(i)
  <2>1. i = req[q].id
    BY <1>1, <1>2 DEF Insert, TypeOK
  <2>2. Pending(q)
    BY <1>2 DEF Insert, At, Pending, Creates
  <2> QED
    BY <2>1, <2>2 DEF IdsAreFresh
<1>3. ASSUME NEW q \in Requests, DeleteCascade(q) PROVE FALSE
  BY <1>1, <1>3 DEF DeleteCascade, TypeOK
<1>4. (\E q \in Requests : Insert(q) \/ DeleteCascade(q)) \/ rows' = rows
  BY OnlyTwoStepsWriteRows
<1> QED
  BY <1>1, <1>2, <1>3, <1>4

\* What a deletion has removed is not there any more, nor what a replica has
\* taken out of its catalogue.
DeletedIsGone ==
    /\ \A q \in Requests :
          Deletes(q) /\ req[q].pc \in {"forget", "list", "prune"} => req[q].id \notin Present
    /\ \A r \in Replicas : gone[r] \cap Present = {}

LEMMA InitIsGone == Init => DeletedIsGone /\ OnlyRacesChangeScopes
BY DEF Init, DeletedIsGone, Deletes, OnlyRacesChangeScopes

LEMMA StepsKeepDeletedGone ==
  ASSUME TypeOK, TypeOK', IdsAreFresh, DeletedIsGone, [Next]_vars
  PROVE  DeletedIsGone'
<1>1. ASSUME NEW i \in Present', i \notin Present
      PROVE  /\ \A q \in Requests : Deletes(q) => req[q].id # i
             /\ \A r \in Replicas : i \notin gone[r]
  BY <1>1, OnlyFreshIdsCome DEF Unseen
<1>2. ASSUME \A q \in Requests :
                Deletes(q)' /\ req'[q].pc \in {"forget", "list", "prune"}
                => /\ Deletes(q) /\ req'[q].id = req[q].id
                   /\ \/ req[q].pc \in {"forget", "list", "prune"}
                      \/ req[q].id \notin Present',
             \A r \in Replicas : \A i \in gone'[r] :
                i \in gone[r] \/ \E q \in Requests : Forget(q) /\ i = req[q].id
      PROVE  DeletedIsGone'
  <2>1. \A q \in Requests : Deletes(q)' /\ req'[q].pc \in {"forget", "list", "prune"}
                            => req'[q].id \notin Present'
    BY <1>1, <1>2 DEF DeletedIsGone
  <2>2. ASSUME NEW q \in Requests, Forget(q)
        PROVE  req[q].id \notin Present'
    BY <1>1, <2>2 DEF Forget, At, DeletedIsGone, Deletes
  <2>3. \A r \in Replicas : gone'[r] \cap Present' = {}
    BY <1>1, <1>2, <2>2 DEF DeletedIsGone
  <2> QED
    BY <2>1, <2>3 DEF DeletedIsGone, Deletes, Present
<1>3. \A r \in Replicas : \A i \in gone'[r] :
         i \in gone[r] \/ \E q \in Requests : Forget(q) /\ i = req[q].id
  <2>1. ASSUME NEW q \in Requests, Forget(q)
        PROVE  \A r \in Replicas : \A i \in gone'[r] : i \in gone[r] \/ i = req[q].id
    BY <2>1 DEF Forget, TypeOK
  <2>2. ASSUME NEW q \in Requests, Announce(q)
        PROVE  \A r \in Replicas : gone'[r] \subseteq gone[r]
    BY <2>2 DEF Announce, TypeOK
  <2>3. gone' = gone \/ \E q \in Requests : Forget(q) \/ Announce(q)
    BY DEF Next, CreateStep, DeleteStep, vars, memory, CreateLock, CheckName,
       CheckTarget, CreateFails, CreateRefused, Insert, DeleteLock, DeleteCascade, ListUsers,
       PruneUser, EndPrune, PruneFails, Finish, Delete, Create, RefreshStart, RefreshRead,
       RefreshEnd, RefreshFails, UpdateUser, Restart
  <2> QED
    BY <2>1, <2>2, <2>3
<1>4. ASSUME NEW q \in Requests, CreateStep(q) PROVE DeletedIsGone'
  <2>1. ~Deletes(q)
    BY <1>4 DEF CreateStep, CreateLock, CheckName, CheckTarget, CreateFails, CreateRefused,
       Insert, Announce, At, Deletes
  <2> QED
    BY <1>2, <1>3, <1>4, <2>1, RequestsKeepTheirId DEF OthersStay, Same, Deletes
<1>5. ASSUME NEW q \in Requests, DeleteStep(q) PROVE DeletedIsGone'
  <2>1. Deletes(q)
    BY <1>5 DEF DeleteStep, DeleteLock, DeleteCascade, Forget, ListUsers, PruneUser, EndPrune,
       PruneFails, Finish, At, Deletes
  <2>2. req'[q].pc \in {"forget", "list", "prune"} =>
           req[q].pc \in {"forget", "list", "prune"} \/ req[q].id \notin Present'
    <3>1. CASE DeleteLock(q) \/ Finish(q)
      BY <2>1, <3>1, GotoMovesOne DEF DeleteLock, Finish, Deletes
    <3>2. CASE DeleteCascade(q)
      <4>1. \/ req'[q].pc = "done"
            \/ rows' = [rows EXCEPT ![req[q].id] = NoRow]
        BY <2>1, <3>2, GotoMovesOne DEF DeleteCascade, Deletes
      <4> QED
        BY <4>1 DEF Present, TypeOK
    <3>3. CASE Forget(q) \/ ListUsers(q) \/ \E u \in Users : PruneUser(q, u)
      BY <3>3 DEF Forget, ListUsers, PruneUser, At
    <3>4. CASE EndPrune(q) \/ PruneFails(q)
      BY <3>4, DeletionsMoveOne
    <3> QED
      BY <1>5, <3>1, <3>2, <3>3, <3>4 DEF DeleteStep
  <2> QED
    BY <1>2, <1>3, <1>5, <2>1, <2>2, RequestsKeepTheirId DEF OthersStay, Same, Deletes
<1>6. ASSUME NEW q \in Requests, NEW r \in Replicas, NEW i \in Ids,
             \/ Delete(q, r, i)
             \/ \E n \in Names, p \in Prefixes \cup {Blank} : Create(q, r, i, n, p)
      PROVE  DeletedIsGone'
  BY <1>2, <1>3, <1>6, RequestsStart DEF OthersStay, Deletes
<1>7. ASSUME NEW r \in Replicas, Restart(r) PROVE DeletedIsGone'
  BY <1>2, <1>3, <1>7, RestartEndsRequests DEF Same, Deletes
<1>8. CASE req' = req
  BY <1>2, <1>3, <1>8 DEF Deletes
<1>9. ASSUME NEW r \in Replicas,
             \/ RefreshStart(r) \/ RefreshRead(r) \/ RefreshEnd(r) \/ RefreshFails(r)
             \/ \E u \in Users, S \in SUBSET Ids : UpdateUser(r, u, S)
      PROVE  req' = req
  BY <1>9 DEF RefreshStart, RefreshRead, RefreshEnd, RefreshFails, UpdateUser
<1>10. CASE UNCHANGED vars
  BY <1>8, <1>10 DEF vars
<1> QED
  BY <1>4, <1>5, <1>6, <1>7, <1>8, <1>9, <1>10 DEF Next

-----------------------------------------------------------------------------
(* Scopes *)

LEMMA StepsKeepScopes ==
  ASSUME TypeOK, TypeOK', PrunesAreFresh, IdsAreFresh, DeletedIsGone, OnlyRacesChangeScopes,
         [Next]_vars
  PROVE  OnlyRacesChangeScopes'
<1>1. \A i \in Present' \ Present, u \in Users \ raced : i \notin scopes[u] /\ i \notin decided[u]
  BY OnlyFreshIdsCome DEF Unseen
<1>2. CASE UNCHANGED people
  BY <1>1, <1>2 DEF people, OnlyRacesChangeScopes
<1>3. ASSUME NEW q \in Requests, NEW u \in Users, PruneUser(q, u)
      PROVE  OnlyRacesChangeScopes'
  <2>1. /\ scopes' = [scopes EXCEPT ![u] = Pruned(q, u)]
        /\ decided' = decided /\ raced \subseteq raced' /\ UNCHANGED rows
    BY <1>3 DEF PruneUser, database
  <2>2. u \notin raced => Pruned(q, u) = scopes[u] \ {req[q].id}
    BY <1>3 DEF PruneUser, PrunesAreFresh, Pruned
  <2>3. req[q].id \notin Present
    BY <1>3 DEF PruneUser, At, DeletedIsGone, Deletes
  <2> QED
    BY <2>1, <2>2, <2>3 DEF OnlyRacesChangeScopes, Present, TypeOK
<1>4. ASSUME NEW r \in Replicas, NEW u \in Users, NEW S \in SUBSET Ids, UpdateUser(r, u, S)
      PROVE  OnlyRacesChangeScopes'
  <2>1. /\ scopes' = [scopes EXCEPT ![u] = S \cap catalogue[r]]
        /\ decided' = [decided EXCEPT ![u] = S \cap catalogue[r]]
        /\ raced \subseteq raced' /\ UNCHANGED rows
    BY <1>4 DEF UpdateUser, database
  <2> QED
    BY <2>1 DEF OnlyRacesChangeScopes, Present, TypeOK
<1>5. ASSUME NEW q \in Requests, CreateStep(q) PROVE UNCHANGED people
  BY <1>5 DEF CreateStep, CreateLock, CheckName, CheckTarget, CreateFails, CreateRefused,
     Insert, Announce, people
<1>6. ASSUME NEW q \in Requests, DeleteStep(q), ~\E u \in Users : PruneUser(q, u)
      PROVE  UNCHANGED people
  <2>1. ASSUME DeleteLock(q) \/ DeleteCascade(q) \/ Forget(q) \/ ListUsers(q)
        PROVE  UNCHANGED people
    BY <2>1 DEF DeleteLock, DeleteCascade, Forget, ListUsers, people
  <2>2. ASSUME EndPrune(q) \/ PruneFails(q) \/ Finish(q) PROVE UNCHANGED people
    BY <2>2 DEF EndPrune, PruneFails, Finish, people
  <2> QED
    BY <1>6, <2>1, <2>2 DEF DeleteStep
<1>7. ASSUME NEW q \in Requests, NEW r \in Replicas, NEW i \in Ids,
             \/ Delete(q, r, i)
             \/ \E n \in Names, p \in Prefixes \cup {Blank} : Create(q, r, i, n, p)
      PROVE  UNCHANGED people
  BY <1>7 DEF Delete, Create, people
<1>8. ASSUME NEW r \in Replicas,
             \/ RefreshStart(r) \/ RefreshRead(r) \/ RefreshEnd(r) \/ RefreshFails(r)
             \/ Restart(r)
      PROVE  UNCHANGED people
  BY <1>8 DEF RefreshStart, RefreshRead, RefreshEnd, RefreshFails, Restart, people
<1>9. CASE UNCHANGED vars
  BY <1>2, <1>9 DEF vars
<1> QED
  BY <1>2, <1>3, <1>4, <1>5, <1>6, <1>7, <1>8, <1>9 DEF Next

\* Only an overlapping change takes from a user, or gives to a user, a scope
\* that this user was not last given (OnlyRacesChangeScopes).
THEOREM PrunesTakeOnlyTheDeleted == Spec => []OnlyRacesChangeScopes
<1>1. Init => PrunesAreFresh /\ IdsAreFresh /\ DeletedIsGone /\ OnlyRacesChangeScopes
  BY InitIsFresh, InitIsGone
<1>2. /\ TypeOK /\ TypeOK' /\ [Next]_vars
      /\ PrunesAreFresh /\ IdsAreFresh /\ DeletedIsGone /\ OnlyRacesChangeScopes
      => (PrunesAreFresh /\ IdsAreFresh /\ DeletedIsGone /\ OnlyRacesChangeScopes)'
  BY StepsKeepPrunes, StepsKeepIdsFresh, StepsKeepDeletedGone, StepsKeepScopes
<1> QED
  BY <1>1, <1>2, TypesAreKept, PTL DEF Spec

-----------------------------------------------------------------------------
(* The catalogue *)

\* The projects that a replica has created and announced.
Own(r) ==
    {req[q].id : q \in {p \in Requests : At(p, "create", "done") /\ req[p].at = r}} \cap Present

\* A list that will replace the catalogue has been read after the last local
\* change: it has what was created here, and not what was deleted here.
Sound(r) ==
    /\ refresh[r] # NoRefresh =>
          /\ refresh[r].since <= revision[r]
          /\ refresh[r].loaded /\ refresh[r].since = revision[r] =>
                /\ Own(r) \subseteq refresh[r].read
                /\ gone[r] \cap refresh[r].read = {}
    /\ Own(r) \subseteq catalogue[r] /\ gone[r] \cap catalogue[r] = {}

LEMMA InitIsSound == Init => \A r \in Replicas : Sound(r)
<1> SUFFICES ASSUME Init, NEW r \in Replicas PROVE Sound(r)
  OBVIOUS
<1>1. Own(r) = {}
  BY DEF Init, Own, At
<1> QED
  BY <1>1 DEF Init, Sound

\* What a replica has created is announced, or read again after a restart.
LEMMA OwnGrowsByAnnouncements ==
  ASSUME TypeOK, TypeOK', IdsAreFresh, [Next]_vars, NEW r \in Replicas
  PROVE  \/ Own(r)' \subseteq Own(r)
         \/ Restart(r)
         \/ \E q \in Requests : Announce(q) /\ req[q].at = r
                                /\ Own(r)' \subseteq Own(r) \cup {req[q].id}
<1>1. ASSUME NEW S,
             \A q \in Requests : At(q, "create", "done")' /\ req'[q].at = r /\ req'[q].id \in Present'
                => \/ req'[q].id \in S
                   \/ At(q, "create", "done") /\ req[q].at = r /\ req'[q].id = req[q].id
      PROVE  Own(r)' \subseteq Own(r) \cup S
  <2> SUFFICES ASSUME NEW q \in Requests, At(q, "create", "done")', req'[q].at = r,
                      req'[q].id \in Present', req'[q].id \notin S
               PROVE  req'[q].id \in Own(r)
    BY DEF Own
  <2>1. At(q, "create", "done") /\ req[q].at = r /\ req'[q].id = req[q].id
    BY <1>1
  <2>2. Creates(q)
    BY <2>1 DEF At, Creates
  <2>3. req[q].id \in Present
    <3> SUFFICES ASSUME req[q].id \notin Present PROVE FALSE
      OBVIOUS
    <3> PICK p \in Requests : Insert(p) /\ req[q].id = req[p].id
      BY <2>1, OnlyFreshIdsCome
    <3>1. Creates(p) /\ p # q
      BY <2>1 DEF Insert, At, Creates
    <3> QED
      BY <2>2, <3>1 DEF IdsAreFresh
  <2> QED
    BY <2>1, <2>3 DEF Own
<1>2. ASSUME \A q \in Requests : At(q, "create", "done")' /\ req'[q].at = r
                => At(q, "create", "done") /\ req[q].at = r /\ req'[q].id = req[q].id
      PROVE  Own(r)' \subseteq Own(r)
  <2>1. Own(r)' \subseteq Own(r) \cup {}
    BY <1>1, <1>2
  <2> QED
    BY <2>1
<1>3. ASSUME NEW q \in Requests, Announce(q)
      PROVE  \/ Own(r)' \subseteq Own(r)
             \/ Announce(q) /\ req[q].at = r /\ Own(r)' \subseteq Own(r) \cup {req[q].id}
  <2>1. OthersStay(q) /\ Same(q)
    BY <1>3, RequestsKeepTheirId DEF CreateStep
  <2>2. CASE req[q].at = r
    BY <1>1, <1>3, <2>1, <2>2 DEF OthersStay, Same, At
  <2>3. CASE req[q].at # r
    BY <1>2, <2>1, <2>3 DEF OthersStay, Same, At
  <2> QED
    BY <2>2, <2>3
<1>4. ASSUME NEW q \in Requests,
             \/ CreateLock(q) \/ Insert(q)
             \/ (CheckName(q) \/ CheckTarget(q)) /\ ~CreateRefused(q)
      PROVE  Own(r)' \subseteq Own(r)
  <2>1. OthersStay(q) /\ req'[q].pc # "done"
    BY <1>4, GotoMovesOne DEF CreateLock, Insert, CheckName, CheckTarget, At, OthersStay
  <2> QED
    BY <1>2, <2>1 DEF OthersStay, At
<1>5. ASSUME NEW q \in Requests, Pending(q), CreateRefused(q)
      PROVE  Own(r)' \subseteq Own(r)
  <2>1. OthersStay(q) /\ Same(q) /\ Present' = Present
    BY <1>5, GotoMovesOne DEF CreateRefused, Pending, Creates, OthersStay, Present
  <2>2. req[q].id \notin Present
    BY <1>5 DEF IdsAreFresh, Unseen
  <2>3. \A p \in Requests : At(p, "create", "done")' /\ req'[p].at = r /\ req'[p].id \in Present'
           => At(p, "create", "done") /\ req[p].at = r /\ req'[p].id = req[p].id
    BY <2>1, <2>2 DEF OthersStay, Same, At
  <2>4. Own(r)' \subseteq Own(r) \cup {}
    BY <1>1, <2>3
  <2> QED
    BY <2>4
<1>6. ASSUME NEW q \in Requests, CreateStep(q), ~Announce(q)
      PROVE  Own(r)' \subseteq Own(r)
  BY <1>4, <1>5, <1>6
     DEF CreateStep, CheckName, CheckTarget, CreateFails, Pending, Creates, At
<1>7. ASSUME NEW q \in Requests, DeleteStep(q)
      PROVE  Own(r)' \subseteq Own(r)
  <2>1. Deletes(q)
    BY <1>7 DEF DeleteStep, DeleteLock, DeleteCascade, Forget, ListUsers, PruneUser, EndPrune,
       PruneFails, Finish, At, Deletes
  <2> QED
    BY <1>2, <1>7, <2>1, RequestsKeepTheirId DEF OthersStay, Same, Deletes, At
<1>8. ASSUME NEW q \in Requests, NEW s \in Replicas, NEW i \in Ids,
             \/ Delete(q, s, i)
             \/ \E n \in Names, p \in Prefixes \cup {Blank} : Create(q, s, i, n, p)
      PROVE  Own(r)' \subseteq Own(r)
  BY <1>2, <1>8, RequestsStart DEF OthersStay, At
<1>9. ASSUME NEW s \in Replicas, Restart(s), s # r
      PROVE  Own(r)' \subseteq Own(r)
  BY <1>2, <1>9, RestartEndsRequests DEF Same, At
<1>10. ASSUME req' = req PROVE Own(r)' \subseteq Own(r)
  BY <1>2, <1>10 DEF At
<1>11. ASSUME NEW s \in Replicas,
             \/ RefreshStart(s) \/ RefreshRead(s) \/ RefreshEnd(s) \/ RefreshFails(s)
             \/ \E u \in Users, S \in SUBSET Ids : UpdateUser(s, u, S)
      PROVE  req' = req
  BY <1>11 DEF RefreshStart, RefreshRead, RefreshEnd, RefreshFails, UpdateUser
<1>12. UNCHANGED vars => req' = req
  BY DEF vars
<1> QED
  BY <1>3, <1>6, <1>7, <1>8, <1>9, <1>10, <1>11, <1>12 DEF Next

LEMMA MemoriesAreTyped ==
  ASSUME TypeOK, NEW r \in Replicas
  PROVE  /\ revision[r] \in Nat
         /\ refresh[r] # NoRefresh =>
               /\ refresh[r] \in Refresh
               /\ refresh[r].since \in Nat /\ refresh[r].loaded \in BOOLEAN
BY DEF TypeOK, Refresh

LEMMA RefreshesStaySound ==
  ASSUME TypeOK, TypeOK', DeletedIsGone, NEW r \in Replicas, Sound(r),
         \/ RefreshStart(r) \/ RefreshRead(r) \/ RefreshEnd(r) \/ RefreshFails(r),
         Own(r)' \subseteq Own(r)
  PROVE  Sound(r)'
<1>1. CASE RefreshStart(r)
  <2>1. /\ refresh'[r] = [since |-> revision[r], loaded |-> FALSE, read |-> {}]
        /\ UNCHANGED <<catalogue, revision, gone>>
    BY <1>1 DEF RefreshStart, Refreshed, TypeOK
  <2> QED
    BY <2>1, MemoriesAreTyped DEF Sound
<1>2. CASE RefreshRead(r)
  <2>1. /\ refresh'[r].since = refresh[r].since /\ refresh'[r].read = Present
        /\ refresh[r] # NoRefresh /\ UNCHANGED <<catalogue, revision, gone>>
    BY <1>2 DEF RefreshRead, TypeOK, Refresh
  <2>2. Own(r) \subseteq Present /\ gone[r] \cap Present = {}
    BY DEF Own, DeletedIsGone
  <2> QED
    BY <2>1, <2>2, MemoriesAreTyped DEF Sound
<1>3. CASE RefreshEnd(r)
  <2>1. /\ refresh'[r] = NoRefresh /\ UNCHANGED <<revision, gone>>
        /\ catalogue'[r] = IF IsCurrent(r) THEN refresh[r].read ELSE catalogue[r]
    BY <1>3 DEF RefreshEnd, TypeOK
  <2> QED
    BY <1>3, <2>1 DEF Sound, RefreshEnd, IsCurrent
<1>4. CASE RefreshFails(r)
  <2>1. refresh'[r] = NoRefresh /\ UNCHANGED <<catalogue, revision, gone>>
    BY <1>4 DEF RefreshFails, TypeOK
  <2> QED
    BY <2>1 DEF Sound
<1> QED
  BY <1>1, <1>2, <1>3, <1>4

LEMMA LocalChangesKeepSound ==
  ASSUME TypeOK, TypeOK', DeletedIsGone, DeletedIsGone', NEW r \in Replicas, Sound(r),
         NEW q \in Requests, req[q].at = r
  PROVE  /\ Announce(q) /\ Own(r)' \subseteq Own(r) \cup {req[q].id} => Sound(r)'
         /\ Forget(q) /\ Own(r)' \subseteq Own(r) => Sound(r)'
         /\ Finish(q) /\ Own(r)' \subseteq Own(r) => Sound(r)'
<1>1. ASSUME Announce(q), Own(r)' \subseteq Own(r) \cup {req[q].id} PROVE Sound(r)'
  <2>1. /\ catalogue'[r] = catalogue[r] \cup {req[q].id} /\ revision'[r] = revision[r] + 1
        /\ gone'[r] = gone[r] \ {req[q].id}
        /\ refresh'[r] = IF refresh[r] # NoRefresh THEN refresh[r]
                         ELSE [since |-> revision[r] + 1, loaded |-> FALSE, read |-> {}]
    BY <1>1 DEF Announce, RefreshedAfterChange, TypeOK
  <2> QED
    BY <1>1, <2>1, MemoriesAreTyped DEF Sound
<1>2. ASSUME Forget(q), Own(r)' \subseteq Own(r) PROVE Sound(r)'
  <2>1. /\ catalogue'[r] = catalogue[r] \ {req[q].id} /\ revision'[r] = revision[r] + 1
        /\ gone'[r] = gone[r] \cup {req[q].id} /\ refresh'[r] = refresh[r]
    BY <1>2 DEF Forget, TypeOK
  <2>2. req[q].id \notin Own(r)
    BY <1>2 DEF Forget, At, DeletedIsGone, Deletes, Own
  <2> QED
    BY <1>2, <2>1, <2>2, MemoriesAreTyped DEF Sound
<1>3. ASSUME Finish(q), Own(r)' \subseteq Own(r) PROVE Sound(r)'
  <2>1. /\ UNCHANGED <<catalogue, revision, gone>>
        /\ refresh'[r] = IF refresh[r] # NoRefresh THEN refresh[r]
                         ELSE [since |-> revision[r], loaded |-> FALSE, read |-> {}]
    BY <1>3 DEF Finish, Refreshed, TypeOK
  <2> QED
    BY <1>3, <2>1, MemoriesAreTyped DEF Sound
<1> QED
  BY <1>1, <1>2, <1>3

LEMMA RestartsAreSound ==
  ASSUME TypeOK, TypeOK', DeletedIsGone, NEW r \in Replicas, Restart(r)
  PROVE  Sound(r)'
<1>1. /\ catalogue'[r] = Present /\ refresh'[r] = NoRefresh /\ gone' = gone
      /\ rows' = rows
  BY DEF Restart, TypeOK
<1>2. Own(r)' \subseteq Present
  BY <1>1 DEF Own, Present
<1> QED
  BY <1>1, <1>2 DEF Sound, DeletedIsGone

\* A step that is not at a replica leaves its memory alone.
LEMMA OtherReplicasStay ==
  ASSUME TypeOK, [Next]_vars, NEW r \in Replicas
  PROVE  \/ /\ catalogue'[r] = catalogue[r] /\ revision'[r] = revision[r]
            /\ gone'[r] = gone[r] /\ refresh'[r] = refresh[r]
         \/ RefreshStart(r) \/ RefreshRead(r) \/ RefreshEnd(r) \/ RefreshFails(r)
         \/ Restart(r)
         \/ \E q \in Requests : /\ req[q].at = r
                                /\ Announce(q) \/ Forget(q) \/ Finish(q)
<1> DEFINE Stays == /\ catalogue'[r] = catalogue[r] /\ revision'[r] = revision[r]
                    /\ gone'[r] = gone[r] /\ refresh'[r] = refresh[r]
<1>1. UNCHANGED memory => Stays
  BY DEF memory
<1>2. \A s \in Replicas \ {r} :
         RefreshStart(s) \/ RefreshRead(s) \/ RefreshEnd(s) \/ RefreshFails(s) => Stays
  BY DEF RefreshStart, RefreshRead, RefreshEnd, RefreshFails, Refreshed, TypeOK
<1>3. \A s \in Replicas \ {r} : Restart(s) => Stays
  BY DEF Restart, TypeOK
<1>4. \A q \in Requests : req[q].at # r /\ (Announce(q) \/ Forget(q) \/ Finish(q)) => Stays
  BY DEF Announce, Forget, Finish, RefreshedAfterChange, Refreshed, TypeOK
<1>5. \A s \in Replicas, u \in Users, S \in SUBSET Ids : UpdateUser(s, u, S) => UNCHANGED memory
  BY DEF UpdateUser
<1>6. UNCHANGED vars => UNCHANGED memory
  BY DEF vars
<1>7. \A q \in Requests : CreateStep(q) => Announce(q) \/ UNCHANGED memory
  BY DEF CreateStep, CreateLock, CheckName, CheckTarget, CreateFails, CreateRefused, Insert, memory
<1>8. \A q \in Requests : DeleteStep(q) => Forget(q) \/ Finish(q) \/ UNCHANGED memory
  BY DEF DeleteStep, DeleteLock, DeleteCascade, ListUsers, PruneUser, EndPrune, PruneFails, memory
<1>9. \A q \in Requests, s \in Replicas, i \in Ids :
         /\ Delete(q, s, i) => UNCHANGED memory
         /\ \A n \in Names, p \in Prefixes \cup {Blank} : Create(q, s, i, n, p) => UNCHANGED memory
  BY DEF Delete, Create
<1> QED
  BY <1>1, <1>2, <1>3, <1>4, <1>5, <1>6, <1>7, <1>8, <1>9 DEF Next

LEMMA StepsKeepSound ==
  ASSUME TypeOK, TypeOK', IdsAreFresh, DeletedIsGone, DeletedIsGone', [Next]_vars,
         NEW r \in Replicas, Sound(r)
  PROVE  Sound(r)'
<1>1. CASE Restart(r)
  BY <1>1, RestartsAreSound
<1>2. CASE \E q \in Requests : Announce(q) /\ req[q].at = r
                               /\ Own(r)' \subseteq Own(r) \cup {req[q].id}
  BY <1>2, LocalChangesKeepSound
<1>3. CASE Own(r)' \subseteq Own(r)
  <2>1. CASE /\ catalogue'[r] = catalogue[r] /\ revision'[r] = revision[r]
             /\ gone'[r] = gone[r] /\ refresh'[r] = refresh[r]
    BY <1>3, <2>1 DEF Sound
  <2>2. CASE RefreshStart(r) \/ RefreshRead(r) \/ RefreshEnd(r) \/ RefreshFails(r)
    BY <1>3, <2>2, RefreshesStaySound
  <2>3. CASE \E q \in Requests : /\ req[q].at = r
                                 /\ Announce(q) \/ Forget(q) \/ Finish(q)
    <3> PICK q \in Requests : /\ req[q].at = r
                              /\ Announce(q) \/ Forget(q) \/ Finish(q)
      BY <2>3
    <3>1. Own(r)' \subseteq Own(r) \cup {req[q].id}
      BY <1>3
    <3> QED
      BY <1>3, <3>1, LocalChangesKeepSound
  <2> QED
    BY <1>1, <2>1, <2>2, <2>3, OtherReplicasStay
<1> QED
  BY <1>1, <1>2, <1>3, OwnGrowsByAnnouncements

\* No refresh undoes a change that was made on its replica (LocalChangesStay):
\* a list of projects replaces the catalogue only when no local change came
\* after the revision noted at its start, so that it was read after them all.
THEOREM RefreshesKeepLocalChanges == Spec => []LocalChangesStay
<1> DEFINE AllSound == \A r \in Replicas : Sound(r)
<1>1. Init => PrunesAreFresh /\ IdsAreFresh /\ DeletedIsGone /\ AllSound
  BY InitIsFresh, InitIsGone, InitIsSound
<1>2. TypeOK /\ TypeOK' /\ [Next]_vars /\ PrunesAreFresh /\ IdsAreFresh /\ DeletedIsGone
      => (PrunesAreFresh /\ IdsAreFresh /\ DeletedIsGone)'
  BY StepsKeepPrunes, StepsKeepIdsFresh, StepsKeepDeletedGone
<1>3. /\ TypeOK /\ TypeOK' /\ [Next]_vars /\ IdsAreFresh /\ DeletedIsGone /\ DeletedIsGone'
      /\ AllSound
      => AllSound'
  BY StepsKeepSound
<1>4. AllSound => LocalChangesStay
  BY DEF LocalChangesStay, Sound, Own
<1> HIDE DEF AllSound
<1> QED
  BY <1>1, <1>2, <1>3, <1>4, TypesAreKept, PTL DEF Spec
=============================================================================
