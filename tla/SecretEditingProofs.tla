------------------------ MODULE SecretEditingProofs ------------------------
(***************************************************************************)
(* SecretEditing for every number of tabs, users, secrets, keys and values, *)
(* and every bound: its types, the owners of drafts, the content hash, what *)
(* the users of saves have seen, and the refinement of SecretRows.          *)
(*                                                                         *)
(* Every step is one of a handler (HandlerEffect), of another writer, or of *)
(* a page (PageStep); each invariant is shown for the three kinds.          *)
(***************************************************************************)
EXTENDS SecretEditing, TLAPS

-----------------------------------------------------------------------------
(* Types *)

\* Data of this module are the data of SecretRows.
LEMMA DataIsTable == Data = [Keys -> Values] /\ EmptyData \in Data
BY NamedNulls DEF Data, Table!Data, EmptyData

\* The fields of each kind of request.
LEMMA OpsAreTyped ==
  ASSUME NEW op \in Ops
  PROVE  /\ op.type \in {"create", "save", "rename", "key", "delete"}
         /\ op.type = "create" => op.name \in Names /\ op.data \in Data
         /\ op.type = "save" =>
               op.id \in Ids /\ op.version \in Versions /\ op.data \in Data
         /\ op.type = "rename" =>
               op.id \in Ids /\ op.version \in Versions /\ op.name \in Names
         /\ op.type = "key" =>
               op.id \in Ids /\ op.key \in Keys /\ op.value \in Values
         /\ op.type = "delete" => op.id \in Ids
BY DEF Ops

\* The requests that the operators of SecretRows make.
LEMMA OpsAreOps ==
  ASSUME NEW i \in Ids, NEW v \in Versions, NEW d \in Data, NEW n \in Names,
         NEW k \in Keys, NEW x \in Values
  PROVE  /\ Table!Create(n, d) \in Ops /\ Table!Create(n, d).type = "create"
         /\ Table!Save(i, v, d) \in Ops /\ Table!Save(i, v, d).type = "save"
         /\ Table!Rename(i, v, n) \in Ops /\ Table!Rename(i, v, n).type = "rename"
         /\ Table!SetKey(i, k, x) \in Ops /\ Table!SetKey(i, k, x).type = "key"
         /\ Table!Delete(i) \in Ops /\ Table!Delete(i).type = "delete"
BY DEF Ops, Table!Create, Table!Save, Table!Rename, Table!SetKey, Table!Delete

\* What a write makes of a row.
LEMMA ChangesAreTyped ==
  ASSUME NEW row \in Row, NEW op \in Ops, op.type \in {"save", "rename", "key"}
  PROVE  /\ Table!Changed(row, op) =
               [name |-> IF op.type = "rename" THEN op.name ELSE row.name,
                data |-> IF op.type = "save" THEN op.data
                         ELSE IF op.type = "key"
                              THEN [row.data EXCEPT ![op.key] = op.value]
                              ELSE row.data,
                version |-> row.version + 1]
         /\ Table!Changed(row, op).name \in Names
         /\ Table!Changed(row, op).data \in Data
<1>1. row.name \in Names /\ row.data \in [Keys -> Values]
  BY DataIsTable DEF Row
<1>2. CASE op.type = "save"
  BY <1>2, OpsAreTyped DEF Table!Changed, Row
<1>3. CASE op.type = "rename"
  BY <1>3, OpsAreTyped DEF Table!Changed, Row
<1>4. CASE op.type = "key"
  BY <1>1, <1>4, OpsAreTyped, DataIsTable DEF Table!Changed, Row
<1> QED
  BY <1>2, <1>3, <1>4

\* Of the requests, what TypeOK does not say: a handler that reads again is one
\* of a key and has an attempt left; a handler that writes to a row has read it;
\* an editor of a secret has a version.
Progress ==
    /\ \A t \in Tabs :
          /\ At(t, "write") \/ At(t, "reread") => lock = t
          /\ At(t, "reread") => req[t].op.type = "key" /\ req[t].attempt < Attempts
          /\ At(t, "write") /\ req[t].op.type \in {"save", "rename", "key"}
             => req[t].read[req[t].op.id] # NoRow
          /\ req[t] # NoRequest /\ req[t].pc # "answered"
             => ~req[t].applied /\ req[t].outcome # "ok"
          /\ Editing(t) => editor[t].version \in Versions
          /\ req[t] # NoRequest => session[t] \in Users

Typed == TypeOK /\ Progress

LEMMA InitIsTyped == Init => Typed
<1> SUFFICES ASSUME Init PROVE Typed
  OBVIOUS
<1>1. PICK S \in SUBSET Ids :
        /\ \E f \in [S -> [name : Names, data : {EmptyData}, version : {1}]] :
              rows = [i \in Ids |-> IF i \in S THEN f[i] ELSE NoRow]
        /\ unused = Ids \ S
  BY DEF Init
<1>2. PICK f \in [S -> [name : Names, data : {EmptyData}, version : {1}]] :
        rows = [i \in Ids |-> IF i \in S THEN f[i] ELSE NoRow]
  BY <1>1
<1>3. 1 \in Versions
  BY BoundsAreNatural DEF Versions
<1>4. \A i \in S : f[i] \in Row
  BY <1>2, <1>3, DataIsTable DEF Row
<1>5. rows \in [Ids -> Row \cup {NoRow}] /\ unused \in SUBSET Ids
      /\ unused \cap Present(rows) = {}
  BY <1>1, <1>2, <1>4 DEF Present, Table!Present
<1>6. \A i \in Present(rows) : rows[i] \in Row
  BY <1>5 DEF Present, Table!Present
<1>7. hash \in SUBSET (Names \X Data)
  BY <1>6 DEF Init, HashOf, Row
<1>8. TypeOK
  BY <1>5, <1>7, BoundsAreNatural DEF Init, TypeOK
<1> QED
  BY <1>8 DEF Init, Typed, Progress, At, Editing, Open

LEMMA HashesAreTyped ==
  ASSUME NEW rs \in [Ids -> Row \cup {NoRow}]
  PROVE  HashOf(rs) \in SUBSET (Names \X Data)
<1>1. \A i \in Present(rs) : rs[i] \in Row
  BY DEF Present, Table!Present
<1> QED
  BY <1>1 DEF HashOf, Row

\* What an answer keeps of its request.
LEMMA AnswersAreTyped ==
  ASSUME NEW q \in Request, NEW o \in Outcomes, NEW a \in BOOLEAN
  PROVE  /\ Answered(q, o, a) \in Request
         /\ Answered(q, o, a).pc = "answered" /\ Answered(q, o, a).op = q.op
         /\ Answered(q, o, a).outcome = o
         /\ Answered(q, o, a).restored = q.restored /\ Answered(q, o, a).known = q.known
         /\ Answered(q, o, a).saves = q.saves
         /\ Answered(q, o, a).applied = a
<1>1. NoList \in [Ids -> Row \cup {NoRow}] /\ 0 \in 0 .. Attempts
  BY BoundsAreNatural DEF NoList
<1>2. Answered(q, o, a) \in Request
  BY <1>1 DEF Answered, Request
<1>3. /\ Answered(q, o, a).pc = "answered" /\ Answered(q, o, a).op = q.op
      /\ Answered(q, o, a).outcome = o /\ Answered(q, o, a).known = q.known
  BY DEF Answered, Request
<1>4. /\ Answered(q, o, a).restored = q.restored
      /\ Answered(q, o, a).saves = q.saves
  BY DEF Answered, Request
<1>5. (Answered(q, o, a).applied = a)
  BY DEF Answered, Request
<1> QED
  BY <1>2, <1>3, <1>4, <1>5

\* What an answer does to the requests.
LEMMA AnswersMoveOne ==
  ASSUME Typed, NEW t \in Tabs, req[t] # NoRequest,
         NEW o \in Outcomes, NEW a \in BOOLEAN, AnswerWith(t, o, a)
  PROVE  /\ req' \in [Tabs -> Request \cup {NoRequest}]
         /\ \A s \in Tabs \ {t} : req'[s] = req[s]
         /\ req'[t] = Answered(req[t], o, a) /\ req'[t] # NoRequest
         /\ req'[t].pc = "answered" /\ req'[t].op = req[t].op /\ req'[t].outcome = o
         /\ lock' \in Tabs \cup {NoTab}
         /\ lock' = lock \/ (lock = t /\ lock' = NoTab)
<1>1. req[t] \in Request
  BY DEF Typed, TypeOK
<1>2. req'[t] = Answered(req[t], o, a) /\ \A s \in Tabs \ {t} : req'[s] = req[s]
  BY DEF AnswerWith, Typed, TypeOK
<1>3. /\ req'[t] \in Request
      /\ req'[t].pc = "answered" /\ req'[t].op = req[t].op /\ req'[t].outcome = o
  BY <1>1, <1>2, AnswersAreTyped, SMT
<1>4. req' \in [Tabs -> Request \cup {NoRequest}]
  BY <1>2, <1>3 DEF AnswerWith, Typed, TypeOK
<1>5. /\ lock' \in Tabs \cup {NoTab}
      /\ lock' = lock \/ (lock = t /\ lock' = NoTab)
  <2>1. lock \in Tabs \cup {NoTab}
    BY DEF Typed, TypeOK
  <2>2. lock' = IF lock = t THEN NoTab ELSE lock
    BY DEF AnswerWith
  <2> QED
    BY <2>1, <2>2
<1> QED
  BY <1>2, <1>3, <1>4, <1>5, NullsAreNone

\* A request moves on, and the lock with it.
LEMMA MovesAreTyped ==
  ASSUME Typed, NEW t \in Tabs, req[t] # NoRequest,
         NEW n \in Request, req' = [req EXCEPT ![t] = n],
         rows' \in [Ids -> Row \cup {NoRow}],
         unused' \in SUBSET Ids, unused' \cap Present(rows') = {},
         hash' \in SUBSET (Names \X Data),
         lock' = lock \/ lock \in {t, NoTab},
         lock' \in Tabs \cup {NoTab},
         n.pc \in {"write", "reread"} => lock' = t,
         n.pc = "reread" => n.op.type = "key" /\ n.attempt < Attempts,
         n.pc = "write" /\ n.op.type \in {"save", "rename", "key"} => n.read[n.op.id] # NoRow,
         n.pc # "answered" => ~n.applied /\ n.outcome # "ok",
         UNCHANGED <<others, gestures, page>>
  PROVE  Typed'
<1>1. TypeOK'
  BY DEF Typed, TypeOK, page, account
<1>2. req'[t] = n /\ \A s \in Tabs \ {t} : req'[s] = req[s]
  BY DEF Typed, TypeOK
<1>3. \A s \in Tabs \ {t} : At(s, "write") \/ At(s, "reread") => lock' = s
  BY NamedNulls DEF Typed, Progress
<1>4. Progress'
  BY <1>2, <1>3 DEF Typed, Progress, At, Editing, Open, page, account
<1> QED
  BY <1>1, <1>4 DEF Typed

\* An answer keeps the types, whatever was committed with it.
LEMMA AnswersStayTyped ==
  ASSUME Typed, NEW t \in Tabs, req[t] # NoRequest,
         NEW o \in Outcomes, NEW a \in BOOLEAN, AnswerWith(t, o, a),
         rows' \in [Ids -> Row \cup {NoRow}],
         unused' \in SUBSET Ids, unused' \cap Present(rows') = {},
         hash' \in SUBSET (Names \X Data),
         UNCHANGED <<others, gestures, page>>
  PROVE  Typed'
<1>1. req[t] \in Request
  BY DEF Typed, TypeOK
<1>2. PICK n : n = Answered(req[t], o, a)
  OBVIOUS
<1>3. n \in Request /\ n.pc = "answered"
  BY <1>1, <1>2, AnswersAreTyped
<1>4. req' = [req EXCEPT ![t] = n]
  BY <1>2 DEF AnswerWith
<1>5. lock' \in Tabs \cup {NoTab} /\ (lock' = lock \/ lock \in {t, NoTab})
  BY AnswersMoveOne
<1> QED
  BY <1>3, <1>4, <1>5, MovesAreTyped

\* One lemma for each step of a handler.
LEMMA EnterIsTyped ==
  ASSUME Typed, NEW t \in Tabs, Enter(t)
  PROVE  Typed'
<1>1. req[t] \in Request /\ req[t] # NoRequest /\ req[t].pc = "sent"
  BY DEF Enter, At, Typed, TypeOK
<1>2. req[t].op \in Ops
  BY <1>1 DEF Request
<1>3. UNCHANGED <<rows, unused, hash, others, gestures, page>> /\ lock = NoTab
  BY DEF Enter
<1>4. CASE /\ Refusal(rows, req[t].op) = "none"
           /\ lock' = t
           /\ req' = [req EXCEPT ![t].pc = "write", ![t].read = rows, ![t].attempt = 1]
  <2>1. PICK n : n = [req[t] EXCEPT !.pc = "write", !.read = rows, !.attempt = 1]
    OBVIOUS
  <2>2. n \in Request /\ n.pc = "write" /\ n.op = req[t].op /\ n.read = rows
    <3>1. 1 \in 0 .. Attempts /\ rows \in [Ids -> Row \cup {NoRow}]
      BY BoundsAreNatural DEF Typed, TypeOK
    <3> QED
      BY <1>1, <2>1, <3>1 DEF Request
  <2>3. req' = [req EXCEPT ![t] = n]
    BY <1>4, <2>1 DEF Typed, TypeOK
  <2>4. n.op.type \in {"save", "rename", "key"} => n.read[n.op.id] # NoRow
    BY <1>4, <2>2 DEF Refusal
  <2>5. ~n.applied /\ n.outcome # "ok"
    <3>1. ~req[t].applied /\ req[t].outcome # "ok"
      BY <1>1 DEF Typed, Progress
    <3> QED
      BY <1>1, <2>1, <3>1 DEF Request
  <2>6. /\ rows' \in [Ids -> Row \cup {NoRow}] /\ unused' \in SUBSET Ids
        /\ unused' \cap Present(rows') = {} /\ hash' \in SUBSET (Names \X Data)
    BY <1>3 DEF Typed, TypeOK
  <2> QED
    BY <1>1, <1>3, <1>4, <2>2, <2>3, <2>4, <2>5, <2>6, MovesAreTyped
<1>5. CASE Answer(t, Refusal(rows, req[t].op))
  <2>1. Refusal(rows, req[t].op) \in Outcomes
    BY <1>2, OpsAreTyped DEF Refusal, Outcomes
  <2> QED
    BY <1>1, <1>3, <1>5, <2>1, AnswersStayTyped DEF Answer, Typed, TypeOK
<1> QED
  BY <1>4, <1>5 DEF Enter

LEMMA RereadIsTyped ==
  ASSUME Typed, NEW t \in Tabs, Reread(t)
  PROVE  Typed'
<1>1. req[t] \in Request /\ req[t] # NoRequest /\ req[t].pc = "reread"
  BY DEF Reread, At, Typed, TypeOK
<1>2. UNCHANGED <<rows, unused, hash, others, gestures, page>>
  BY DEF Reread
<1>3. CASE /\ rows[req[t].op.id] # NoRow
           /\ req' = [req EXCEPT ![t].pc = "write", ![t].read = rows, ![t].attempt = @ + 1]
           /\ UNCHANGED lock
  <2>1. PICK n : n = [req[t] EXCEPT !.pc = "write", !.read = rows, !.attempt = @ + 1]
    OBVIOUS
  <2>2. req[t].attempt + 1 \in 0 .. Attempts /\ lock = t
    BY <1>1, BoundsAreNatural DEF Typed, Progress, At, Request
  <2>3. n \in Request /\ n.pc = "write" /\ n.op = req[t].op /\ n.read = rows
    BY <1>1, <2>1, <2>2 DEF Typed, TypeOK, Request
  <2>4. req' = [req EXCEPT ![t] = n]
    BY <1>3, <2>1 DEF Typed, TypeOK
  <2>5. ~n.applied /\ n.outcome # "ok"
    <3>1. ~req[t].applied /\ req[t].outcome # "ok"
      BY <1>1 DEF Typed, Progress
    <3> QED
      BY <1>1, <2>1, <3>1 DEF Request
  <2>6. req[t].op.type = "key"
    BY <1>1 DEF Typed, Progress, At
  <2>7. /\ rows' \in [Ids -> Row \cup {NoRow}] /\ unused' \in SUBSET Ids
        /\ unused' \cap Present(rows') = {} /\ hash' \in SUBSET (Names \X Data)
        /\ lock' \in Tabs \cup {NoTab}
    BY <1>2, <1>3 DEF Typed, TypeOK
  <2>8. lock' = t /\ lock' = lock /\ n.read[n.op.id] # NoRow
    BY <1>3, <2>2, <2>3
  <2> QED
    BY <1>1, <1>2, <2>3, <2>4, <2>5, <2>7, <2>8, MovesAreTyped
<1>4. CASE Answer(t, "not_found")
  BY <1>1, <1>2, <1>4, AnswersStayTyped DEF Answer, Outcomes, Typed, TypeOK
<1> QED
  BY <1>3, <1>4 DEF Reread

LEMMA InsertIsTyped ==
  ASSUME Typed, NEW t \in Tabs, NEW i \in Ids, Insert(t, i)
  PROVE  Typed'
<1> DEFINE row == [name |-> req[t].op.name, data |-> req[t].op.data, version |-> 1]
<1>1. /\ req[t] \in Request /\ req[t] # NoRequest /\ i \in unused
      /\ UNCHANGED <<others, gestures, page>> /\ req[t].op \in Ops
  BY DEF Insert, At, Typed, TypeOK, Request
<1>2. row \in Row
  BY <1>1, OpsAreTyped, BoundsAreNatural DEF Insert, Row, Versions
<1>3. HashAfter(t, i, row) \in SUBSET (Names \X Data)
  <2>1. [req[t].read EXCEPT ![i] = row] \in [Ids -> Row \cup {NoRow}]
    BY <1>1, <1>2 DEF Request
  <2> QED
    BY <2>1, HashesAreTyped DEF HashAfter
<1>4. CASE /\ rows' = [rows EXCEPT ![i] = row]
           /\ unused' = unused \ {i}
           /\ hash' = HashAfter(t, i, row)
           /\ Answer(t, "ok")
  <2>1. rows' \in [Ids -> Row \cup {NoRow}] /\ unused' \in SUBSET Ids
        /\ unused' \cap Present(rows') = {}
    BY <1>2, <1>4 DEF Typed, TypeOK, Present, Table!Present
  <2> QED
    BY <1>1, <1>3, <1>4, <2>1, AnswersStayTyped DEF Answer, Outcomes
<1>5. CASE Answer(t, "name_conflict") /\ UNCHANGED <<rows, unused, hash>>
  BY <1>1, <1>5, AnswersStayTyped DEF Answer, Outcomes, Typed, TypeOK
<1> QED
  BY <1>4, <1>5 DEF Insert

\* The row of an UPDATE.
LEMMA WrittenIsTyped ==
  ASSUME Typed, NEW t \in Tabs, At(t, "write"),
         req[t].op.type \in {"save", "rename", "key"},
         rows[req[t].op.id] # NoRow, rows[req[t].op.id].version < MaxVersion
  PROVE  /\ Written(t) \in Row
         /\ Written(t).version = rows[req[t].op.id].version + 1
<1>1. req[t] \in Request /\ req[t].op \in Ops
  BY DEF At, Typed, TypeOK, Request
<1>2. req[t].op.id \in Ids
  BY <1>1, OpsAreTyped
<1>3. req[t].read[req[t].op.id] \in Row
  BY <1>1, <1>2 DEF Typed, Progress, Request
<1>4. rows[req[t].op.id] \in Row
  BY <1>2 DEF Typed, TypeOK
<1>5. rows[req[t].op.id].version + 1 \in Versions
  BY <1>4, BoundsAreNatural DEF Row, Versions
<1>6. Table!Changed(req[t].read[req[t].op.id], req[t].op) \in
         [name : Names, data : Data, version : Nat]
  BY <1>1, <1>3, ChangesAreTyped DEF Row, Versions
<1> QED
  BY <1>5, <1>6 DEF Written, Row

LEMMA UpdateIsTyped ==
  ASSUME Typed, NEW t \in Tabs, Update(t)
  PROVE  Typed'
<1> DEFINE i == req[t].op.id
<1>1. /\ req[t] \in Request /\ req[t] # NoRequest /\ req[t].op \in Ops /\ i \in Ids
      /\ UNCHANGED <<unused, others, gestures, page>>
  BY OpsAreTyped DEF Update, At, Typed, TypeOK, Request
<1>2. CASE /\ rows[i] # NoRow /\ rows[i].version < MaxVersion
           /\ rows' = [rows EXCEPT ![i] = Written(t)]
           /\ hash' = HashAfter(t, i, Written(t))
           /\ Answer(t, "ok")
  <2>1. Written(t) \in Row
    BY <1>2, WrittenIsTyped DEF Update
  <2>2. [req[t].read EXCEPT ![i] = Written(t)] \in [Ids -> Row \cup {NoRow}]
    BY <1>1, <2>1 DEF Request
  <2>3. hash' \in SUBSET (Names \X Data)
    BY <1>2, <2>2, HashesAreTyped DEF HashAfter
  <2>4. rows' \in [Ids -> Row \cup {NoRow}] /\ unused' \in SUBSET Ids
        /\ unused' \cap Present(rows') = {}
    BY <1>1, <1>2, <2>1 DEF Typed, TypeOK, Present, Table!Present
  <2> QED
    BY <1>1, <1>2, <2>3, <2>4, AnswersStayTyped DEF Answer, Outcomes
<1>3. CASE /\ Answer(t, "name_conflict") \/ Answer(t, "not_found") \/ Answer(t, "version_conflict")
           /\ UNCHANGED <<rows, hash>>
  BY <1>1, <1>3, AnswersStayTyped DEF Answer, Outcomes, Typed, TypeOK
<1>4. CASE /\ req[t].op.type = "key" /\ req[t].attempt < Attempts
           /\ req' = [req EXCEPT ![t].pc = "reread"] /\ UNCHANGED <<lock, rows, hash>>
  <2>1. PICK n : n = [req[t] EXCEPT !.pc = "reread"]
    OBVIOUS
  <2>2. n \in Request /\ n.pc = "reread" /\ n.op = req[t].op /\ n.attempt = req[t].attempt
    BY <1>1, <2>1 DEF Request
  <2>3. req' = [req EXCEPT ![t] = n]
    BY <1>4, <2>1 DEF Typed, TypeOK
  <2>4. ~n.applied /\ n.outcome # "ok"
    <3>1. ~req[t].applied /\ req[t].outcome # "ok"
      BY <1>1 DEF Typed, Progress, Update, At
    <3> QED
      BY <1>1, <2>1, <3>1 DEF Request
  <2>5. lock = t
    BY DEF Update, Typed, Progress
  <2>6. /\ rows' \in [Ids -> Row \cup {NoRow}] /\ unused' \in SUBSET Ids
        /\ unused' \cap Present(rows') = {} /\ hash' \in SUBSET (Names \X Data)
        /\ lock' \in Tabs \cup {NoTab}
    BY <1>1, <1>4 DEF Typed, TypeOK
  <2> QED
    BY <1>1, <1>4, <2>2, <2>3, <2>4, <2>5, <2>6, MovesAreTyped
<1> QED
  BY <1>2, <1>3, <1>4 DEF Update

LEMMA RemoveIsTyped ==
  ASSUME Typed, NEW t \in Tabs, Remove(t)
  PROVE  Typed'
<1> DEFINE i == req[t].op.id
<1>1. /\ req[t] \in Request /\ req[t] # NoRequest /\ i \in Ids
      /\ rows' = [rows EXCEPT ![i] = NoRow] /\ hash' = HashAfter(t, i, NoRow)
      /\ Answer(t, "ok") /\ UNCHANGED <<unused, others, gestures, page>>
  BY OpsAreTyped DEF Remove, At, Typed, TypeOK, Request
<1>2. hash' \in SUBSET (Names \X Data)
  <2>1. [req[t].read EXCEPT ![i] = NoRow] \in [Ids -> Row \cup {NoRow}]
    BY <1>1 DEF Request
  <2> QED
    BY <1>1, <2>1, HashesAreTyped DEF HashAfter
<1>3. rows' \in [Ids -> Row \cup {NoRow}] /\ unused' \in SUBSET Ids
      /\ unused' \cap Present(rows') = {}
  BY <1>1 DEF Typed, TypeOK, Present, Table!Present
<1> QED
  BY <1>1, <1>2, <1>3, AnswersStayTyped DEF Answer, Outcomes

LEMMA FailIsTyped ==
  ASSUME Typed, NEW t \in Tabs, Fail(t)
  PROVE  Typed'
<1>1. /\ req[t] \in Request /\ req[t] # NoRequest /\ AnswerWith(t, "error", req[t].applied)
      /\ UNCHANGED <<rows, unused, hash, others, gestures, page>>
  BY DEF Fail, Typed, TypeOK
<1>2. req[t].applied \in BOOLEAN
  BY <1>1 DEF Request
<1> QED
  BY <1>1, <1>2, AnswersStayTyped DEF Outcomes, Typed, TypeOK

\* An old replica renames, sets a key, or deletes.
LEMMA OldWritesAreOps ==
  ASSUME Typed, NEW i \in Ids, OldReplicaWrites(i)
  PROVE  \/ rows' = [rows EXCEPT ![i] = NoRow]
         \/ /\ rows[i].version < MaxVersion
            /\ \E op \in Ops : /\ op.type \in {"rename", "key"} /\ op.id = i
                              /\ (op.type = "rename" => op.version = rows[i].version)
                              /\ WritesOver(i, op)
<1>1. rows[i] \in Row
  BY DEF OldReplicaWrites, Present, Table!Present, Typed, TypeOK
<1>2. rows[i].version \in Versions
  BY <1>1 DEF Row
<1>3. ASSUME NEW n \in Names, WritesOver(i, Table!Rename(i, rows[i].version, n))
      PROVE  \E op \in Ops : /\ op.type \in {"rename", "key"} /\ op.id = i
                            /\ (op.type = "rename" => op.version = rows[i].version)
                            /\ WritesOver(i, op)
  <2>1. Table!Rename(i, rows[i].version, n) \in Ops
    BY <1>2 DEF Ops, Table!Rename
  <2>2. LET op == Table!Rename(i, rows[i].version, n)
        IN  op.type = "rename" /\ op.id = i /\ op.version = rows[i].version
    BY DEF Table!Rename
  <2> QED
    BY <1>3, <2>1, <2>2
<1>4. ASSUME NEW k \in Keys, NEW x \in Values, WritesOver(i, Table!SetKey(i, k, x))
      PROVE  \E op \in Ops : /\ op.type \in {"rename", "key"} /\ op.id = i
                            /\ (op.type = "rename" => op.version = rows[i].version)
                            /\ WritesOver(i, op)
  <2>1. Table!SetKey(i, k, x) \in Ops
    BY DEF Ops, Table!SetKey
  <2>2. Table!SetKey(i, k, x).type = "key" /\ Table!SetKey(i, k, x).id = i
    BY DEF Table!SetKey
  <2> QED
    BY <1>4, <2>1, <2>2
<1> QED
  BY <1>3, <1>4 DEF OldReplicaWrites

\* The steps of the other writers.
LEMMA OthersAreTyped ==
  ASSUME Typed
  PROVE  /\ Replace => Typed'
         /\ \A i \in Ids : OldReplicaWrites(i) => Typed'
<1>1. ASSUME rows' \in [Ids -> Row \cup {NoRow}], unused' \in SUBSET Ids,
             unused' \cap Present(rows') = {},
             hash' = HashOf(rows'), UNCHANGED <<lock, gestures, req, page>>,
             others' \in [sync : 0 .. MaxOthers, old : 0 .. MaxOthers]
      PROVE  Typed'
  <2>1. hash' \in SUBSET (Names \X Data)
    BY <1>1, HashesAreTyped
  <2> QED
    BY <1>1, <2>1 DEF Typed, TypeOK, Progress, At, Editing, Open, page, account
<1>2. OthersWrite => /\ [others EXCEPT !.sync = @ + 1] \in [sync : 0 .. MaxOthers, old : 0 .. MaxOthers]
                     /\ [others EXCEPT !.old = @ + 1] \in [sync : 0 .. MaxOthers, old : 0 .. MaxOthers]
  <2> SUFFICES ASSUME OthersWrite
               PROVE  others.sync + 1 \in 0 .. MaxOthers /\ others.old + 1 \in 0 .. MaxOthers
    BY DEF Typed, TypeOK
  <2> QED
    BY BoundsAreNatural DEF OthersWrite, Typed, TypeOK
<1>3. ASSUME Replace PROVE Typed'
  <2>1. PICK S \in SUBSET unused :
          /\ \E f \in [S -> [name : Names, data : Data, version : {1}]] :
                rows' = [i \in Ids |-> IF i \in S THEN f[i] ELSE NoRow]
          /\ unused' = unused \ S
    BY <1>3 DEF Replace
  <2>2. PICK f \in [S -> [name : Names, data : Data, version : {1}]] :
          rows' = [i \in Ids |-> IF i \in S THEN f[i] ELSE NoRow]
    BY <2>1
  <2>3. \A i \in S : f[i] \in Row
    BY <2>2, BoundsAreNatural DEF Row, Versions
  <2>4. rows' \in [Ids -> Row \cup {NoRow}] /\ unused' \in SUBSET Ids
        /\ unused' \cap Present(rows') = {}
    BY <2>1, <2>2, <2>3 DEF Present, Table!Present, Typed, TypeOK
  <2> QED
    BY <1>1, <1>2, <1>3, <2>4 DEF Replace
<1>4. ASSUME NEW i \in Ids, OldReplicaWrites(i) PROVE Typed'
  <2>1. rows[i] \in Row
    BY <1>4 DEF OldReplicaWrites, Present, Table!Present, Typed, TypeOK
  <2>2. CASE rows' = [rows EXCEPT ![i] = NoRow]
    <3>1. rows' \in [Ids -> Row \cup {NoRow}] /\ unused' \in SUBSET Ids
          /\ unused' \cap Present(rows') = {}
      BY <1>4, <2>2 DEF OldReplicaWrites, Present, Table!Present, Typed, TypeOK
    <3> QED
      BY <1>1, <1>2, <1>4, <3>1 DEF OldReplicaWrites
  <2>3. CASE /\ rows[i].version < MaxVersion
             /\ \E op \in Ops : op.type \in {"rename", "key"} /\ WritesOver(i, op)
    <3> PICK op \in Ops : op.type \in {"rename", "key"} /\ WritesOver(i, op)
      BY <2>3
    <3>1. rows' = [rows EXCEPT ![i] = Table!Changed(rows[i], op)]
      BY DEF WritesOver
    <3>3. Table!Changed(rows[i], op) \in Row
      <4>1. rows[i].version + 1 \in Versions
        BY <2>1, <2>3, BoundsAreNatural DEF Row, Versions
      <4> QED
        BY <2>1, <4>1, ChangesAreTyped DEF Row
    <3>4. rows' \in [Ids -> Row \cup {NoRow}] /\ unused' \in SUBSET Ids
          /\ unused' \cap Present(rows') = {}
      BY <1>4, <3>1, <3>3 DEF OldReplicaWrites, Present, Table!Present, Typed, TypeOK
    <3> QED
      BY <1>1, <1>2, <1>4, <3>4 DEF OldReplicaWrites
  <2>4. \/ rows' = [rows EXCEPT ![i] = NoRow]
        \/ /\ rows[i].version < MaxVersion
           /\ \E op \in Ops : op.type \in {"rename", "key"} /\ WritesOver(i, op)
    BY <1>4, OldWritesAreOps
  <2> QED
    BY <2>2, <2>3, <2>4
<1> QED
  BY <1>3, <1>4

\* What the page does leaves the server's rows and the handlers alone.
LEMMA PageStepsAreTyped ==
  ASSUME Typed, UNCHANGED server,
         req' \in [Tabs -> Request \cup {NoRequest}],
         \A t \in Tabs :
            \/ req'[t] = req[t]
            \/ req'[t] = NoRequest
            \/ req'[t].pc = "sent" /\ ~req'[t].applied /\ req'[t].outcome # "ok",
         gestures' \in 0 .. MaxGestures,
         token' \in Users \cup {NoUser},
         session' \in [Tabs -> Users \cup {NoUser}],
         editor' \in [Tabs -> Editor \cup {NoEditor}],
         stored' \in [Tabs -> Draft \cup {NoDraft}],
         pending' \in [Tabs -> Draft \cup {NoDraft}],
         \A t \in Tabs : req'[t] # NoRequest => session'[t] \in Users,
         \A t \in Tabs :
            editor'[t] # NoEditor /\ editor'[t].id # NewSecret
            => editor'[t].version \in Versions
  PROVE  Typed'
<1>1. TypeOK'
  BY DEF Typed, TypeOK, server
<1>2. Progress'
  BY DEF Typed, Progress, At, Editing, Open, server
<1> QED
  BY <1>1, <1>2 DEF Typed

LEMMA NewRequestsAreTyped ==
  ASSUME NEW op \in Ops
  PROVE  /\ NewRequest(op) \in Request
         /\ NewRequest(op).pc = "sent" /\ NewRequest(op).op = op
         /\ NewRequest(op).outcome = "none"
         /\ ~NewRequest(op).applied /\ ~NewRequest(op).restored
<1>1. NoList \in [Ids -> Row \cup {NoRow}] /\ 0 \in 0 .. Attempts
  BY BoundsAreNatural DEF NoList
<1>2. NewRequest(op) \in Request
  BY <1>1 DEF NewRequest, Request, Outcomes
<1> QED
  BY <1>2 DEF NewRequest

LEMMA EditorsAreTyped ==
  ASSUME Typed
  PROVE  /\ EmptyEditor \in Editor /\ EmptyEditor.id = NewSecret
         /\ \A i \in Present(rows) :
               /\ EditorOf(i) \in Editor /\ EditorOf(i).id = i
               /\ EditorOf(i).version \in Versions
               /\ rows[i] \in Row
<1>1. EmptyEditor \in Editor /\ EmptyEditor.id = NewSecret
  BY DataIsTable DEF EmptyEditor, Editor
<1>2. ASSUME NEW i \in Present(rows)
      PROVE  /\ EditorOf(i) \in Editor /\ EditorOf(i).id = i
             /\ EditorOf(i).version \in Versions /\ rows[i] \in Row
  <2>1. i \in Ids /\ rows[i] \in Row
    BY DEF Present, Table!Present, Typed, TypeOK
  <2>2. rows[i].version \in Versions /\ rows[i].data \in Data
    BY <2>1 DEF Row
  <2> QED
    BY <2>1, <2>2 DEF EditorOf, Editor
<1> QED
  BY <1>1, <1>2

LEMMA SendIsTyped ==
  ASSUME Typed, NEW t \in Tabs, NEW op \in Ops, Send(t, op)
  PROVE  Typed'
<1>1. /\ req' = [req EXCEPT ![t] = NewRequest(op)]
      /\ gestures' = gestures + 1 /\ gestures < MaxGestures
      /\ UNCHANGED <<server, page>> /\ session[t] # NoUser
  BY DEF Send, Idle
<1>2. gestures' \in 0 .. MaxGestures
  BY <1>1, BoundsAreNatural DEF Typed, TypeOK
<1>3. req' \in [Tabs -> Request \cup {NoRequest}]
  BY <1>1, NewRequestsAreTyped DEF Typed, TypeOK
<1>4. \A s \in Tabs :
        \/ req'[s] = req[s]
        \/ req'[s].pc = "sent" /\ ~req'[s].applied /\ req'[s].outcome # "ok"
  BY <1>1, NewRequestsAreTyped DEF Typed, TypeOK
<1>5. \A s \in Tabs : editor'[s] # NoEditor /\ editor'[s].id # NewSecret
                      => editor'[s].version \in Versions
  BY <1>1 DEF Typed, Progress, Editing, Open, page, account
<1>6. /\ token' \in Users \cup {NoUser}
      /\ session' \in [Tabs -> Users \cup {NoUser}]
      /\ editor' \in [Tabs -> Editor \cup {NoEditor}]
      /\ stored' \in [Tabs -> Draft \cup {NoDraft}]
      /\ pending' \in [Tabs -> Draft \cup {NoDraft}]
  BY <1>1 DEF Typed, TypeOK, page, account
<1>7. \A s \in Tabs : req'[s] # NoRequest => session'[s] \in Users
  BY <1>1 DEF Typed, TypeOK, Progress, page, account
<1> QED
  BY <1>1, <1>2, <1>3, <1>4, <1>5, <1>6, <1>7, PageStepsAreTyped

\* Every menu action sends one of the requests.
LEMMA MenuSends ==
  ASSUME Typed, NEW t \in Tabs
  PROVE  /\ \A i \in Ids : ExecuteDelete(t, i) =>
               \E op \in Ops : op.type = "delete" /\ Send(t, op)
         /\ \A i \in Ids, n \in Names : ExecuteDuplicate(t, i, n) =>
               \E op \in Ops : op.type = "create" /\ Send(t, op)
         /\ \A i \in Ids, n \in Names : ExecuteRename(t, i, n) =>
               \E op \in Ops : /\ op.type = "rename" /\ op.id \in Present(rows)
                               /\ op.version = rows[op.id].version /\ Send(t, op)
         /\ \A i \in Ids, k \in Keys, x \in Values : ExecuteCopyKey(t, i, k, x) =>
               \E op \in Ops : op.type = "key" /\ Send(t, op)
<1>1. \A i \in Present(rows) : rows[i].data \in Data /\ rows[i].version \in Versions
  BY EditorsAreTyped DEF Row
<1>2. ASSUME NEW i \in Ids, ExecuteDelete(t, i)
      PROVE  \E op \in Ops : op.type = "delete" /\ Send(t, op)
  <2>1. Table!Delete(i) \in Ops /\ Table!Delete(i).type = "delete"
    BY DEF Ops, Table!Delete
  <2> QED
    BY <1>2, <2>1 DEF ExecuteDelete
<1>3. ASSUME NEW i \in Ids, NEW n \in Names, ExecuteDuplicate(t, i, n)
      PROVE  \E op \in Ops : op.type = "create" /\ Send(t, op)
  <2>1. Table!Create(n, rows[i].data) \in Ops
        /\ Table!Create(n, rows[i].data).type = "create"
    BY <1>1, <1>3 DEF Ops, Table!Create, ExecuteDuplicate
  <2> QED
    BY <1>3, <2>1 DEF ExecuteDuplicate
<1>4. ASSUME NEW i \in Ids, NEW n \in Names, ExecuteRename(t, i, n)
      PROVE  \E op \in Ops : /\ op.type = "rename" /\ op.id \in Present(rows)
                             /\ op.version = rows[op.id].version /\ Send(t, op)
  <2>1. i \in Present(rows) /\ Send(t, Table!Rename(i, rows[i].version, n))
    BY <1>4 DEF ExecuteRename
  <2>2. /\ Table!Rename(i, rows[i].version, n) \in Ops
        /\ Table!Rename(i, rows[i].version, n).type = "rename"
        /\ Table!Rename(i, rows[i].version, n).id = i
        /\ Table!Rename(i, rows[i].version, n).version = rows[i].version
    BY <1>1, <2>1 DEF Ops, Table!Rename
  <2> QED
    BY <2>1, <2>2
<1>5. ASSUME NEW i \in Ids, NEW k \in Keys, NEW x \in Values, ExecuteCopyKey(t, i, k, x)
      PROVE  \E op \in Ops : op.type = "key" /\ Send(t, op)
  <2>1. Table!SetKey(i, k, x) \in Ops /\ Table!SetKey(i, k, x).type = "key"
    BY DEF Ops, Table!SetKey
  <2> QED
    BY <1>5, <2>1 DEF ExecuteCopyKey
<1> QED
  BY <1>2, <1>3, <1>4, <1>5

LEMMA MenuIsTyped ==
  ASSUME Typed, NEW t \in Tabs
  PROVE  /\ \A i \in Ids : ExecuteDelete(t, i) => Typed'
         /\ \A i \in Ids, n \in Names :
               ExecuteDuplicate(t, i, n) \/ ExecuteRename(t, i, n) => Typed'
         /\ \A i \in Ids, k \in Keys, x \in Values : ExecuteCopyKey(t, i, k, x) => Typed'
<1>1. \A op \in Ops : Send(t, op) => Typed'
  BY SendIsTyped
<1>2. ASSUME NEW i \in Ids, ExecuteDelete(t, i) PROVE Typed'
  BY <1>1, <1>2, MenuSends
<1>3. ASSUME NEW i \in Ids, NEW n \in Names,
             ExecuteDuplicate(t, i, n) \/ ExecuteRename(t, i, n)
      PROVE  Typed'
  BY <1>1, <1>3, MenuSends
<1>4. ASSUME NEW i \in Ids, NEW k \in Keys, NEW x \in Values, ExecuteCopyKey(t, i, k, x)
      PROVE  Typed'
  BY <1>1, <1>4, MenuSends
<1> QED
  BY <1>2, <1>3, <1>4

\* An editor is opened, changed or closed.
LEMMA SetEditorIsTyped ==
  ASSUME Typed, NEW t \in Tabs, NEW e \in Editor \cup {NoEditor}, SetEditor(t, e),
         e # NoEditor /\ e.id # NewSecret => e.version \in Versions,
         gestures' \in 0 .. MaxGestures
  PROVE  Typed'
<1>1. /\ editor' = [editor EXCEPT ![t] = e]
      /\ UNCHANGED <<server, req, account, stored, pending>>
  BY DEF SetEditor
<1>2. editor' \in [Tabs -> Editor \cup {NoEditor}]
  BY <1>1 DEF Typed, TypeOK
<1>3. \A s \in Tabs : editor'[s] # NoEditor /\ editor'[s].id # NewSecret
                      => editor'[s].version \in Versions
  BY <1>1 DEF Typed, TypeOK, Progress, Editing, Open
<1>4. /\ token' \in Users \cup {NoUser}
      /\ session' \in [Tabs -> Users \cup {NoUser}]
      /\ req' \in [Tabs -> Request \cup {NoRequest}]
      /\ stored' \in [Tabs -> Draft \cup {NoDraft}]
      /\ pending' \in [Tabs -> Draft \cup {NoDraft}]
      /\ UNCHANGED server /\ \A s \in Tabs : req'[s] = req[s]
      /\ \A s \in Tabs : req'[s] # NoRequest => session'[s] \in Users
  BY <1>1 DEF Typed, TypeOK, Progress, account
<1> QED
  BY <1>2, <1>3, <1>4, PageStepsAreTyped

LEMMA EditorStepsAreTyped ==
  ASSUME Typed, NEW t \in Tabs
  PROVE  /\ \A i \in Ids : OpenEditSecret(t, i) => Typed'
         /\ OpenCreateSecret(t) \/ Close(t) => Typed'
         /\ \A d \in Data : Type(t, d) => Typed'
<1>1. gestures < MaxGestures => gestures + 1 \in 0 .. MaxGestures
  BY BoundsAreNatural DEF Typed, TypeOK
<1>2. gestures \in 0 .. MaxGestures
  BY DEF Typed, TypeOK
<1>3. ASSUME NEW i \in Ids, OpenEditSecret(t, i) PROVE Typed'
  <2>1. EditorOf(i) \in Editor /\ EditorOf(i).version \in Versions
    BY <1>3, EditorsAreTyped DEF OpenEditSecret
  <2>2. SetEditor(t, EditorOf(i)) /\ gestures' \in 0 .. MaxGestures
    BY <1>1, <1>3 DEF OpenEditSecret
  <2> QED
    BY <2>1, <2>2, SetEditorIsTyped
<1>4. ASSUME OpenCreateSecret(t) PROVE Typed'
  <2>1. SetEditor(t, EmptyEditor) /\ gestures' \in 0 .. MaxGestures
    BY <1>1, <1>4 DEF OpenCreateSecret
  <2> QED
    BY <2>1, EditorsAreTyped, SetEditorIsTyped
<1>5. ASSUME Close(t) PROVE Typed'
  <2>1. SetEditor(t, NoEditor) /\ gestures' \in 0 .. MaxGestures
    BY <1>2, <1>5 DEF Close
  <2> QED
    BY <2>1, SetEditorIsTyped
<1>6. ASSUME NEW d \in Data, Type(t, d) PROVE Typed'
  <2>1. editor[t] \in Editor /\ editor[t] # NoEditor
    BY <1>6 DEF Type, Open, Typed, TypeOK
  <2>2. PICK e : e = [editor[t] EXCEPT !.form = d]
    OBVIOUS
  <2>3. e \in Editor /\ e.id = editor[t].id /\ e.version = editor[t].version
    BY <2>1, <2>2 DEF Editor
  <2>4. SetEditor(t, e) /\ gestures' \in 0 .. MaxGestures
    BY <1>2, <1>6, <2>2 DEF Type
  <2>5. e.id # NewSecret => e.version \in Versions
    BY <2>1, <2>3 DEF Typed, Progress, Editing, Open
  <2> QED
    BY <2>3, <2>4, <2>5, SetEditorIsTyped
<1> QED
  BY <1>3, <1>4, <1>5, <1>6

\* What SaveSecret sends.
SaveOp(t, op) ==
    /\ op \in Ops
    /\ \/ editor[t].id = NewSecret /\ op.type = "create"
       \/ /\ editor[t].id # NewSecret /\ op.type = "save"
          /\ op.id = editor[t].id /\ op.version = editor[t].version

\* A save carries the id, the version and the history of the editor.
LEMMA SavesAreOps ==
  ASSUME Typed, NEW t \in Tabs, NEW d \in Data, SaveSecret(t, d)
  PROVE  \E n \in Request :
            /\ req' = [req EXCEPT ![t] = n]
            /\ n.pc = "sent" /\ n.outcome = "none" /\ ~n.applied
            /\ SaveOp(t, n.op) /\ n.known = editor[t].known
            /\ (n.restored = editor[t].restored)
<1>1. editor[t] \in Editor /\ editor[t] # NoEditor
  BY DEF SaveSecret, Open, Typed, TypeOK
<1>2. editor[t].id # NewSecret => editor[t].id \in Ids /\ editor[t].version \in Versions
  BY <1>1 DEF Typed, Progress, Editing, Open, Editor
<1>3. PICK n \in Names :
        req' = [req EXCEPT ![t] =
          [NewRequest(IF editor[t].id = NewSecret THEN Table!Create(n, d)
                      ELSE Table!Save(editor[t].id, editor[t].version, d))
             EXCEPT !.saves = TRUE, !.known = editor[t].known,
                    !.restored = editor[t].restored]]
  BY DEF SaveSecret
<1>4. PICK op : op = IF editor[t].id = NewSecret THEN Table!Create(n, d)
                     ELSE Table!Save(editor[t].id, editor[t].version, d)
  OBVIOUS
<1>5. SaveOp(t, op)
  <2>1. CASE editor[t].id = NewSecret
    BY <1>4, <2>1 DEF SaveOp, Ops, Table!Create
  <2>2. CASE editor[t].id # NewSecret
    BY <1>2, <1>4, <2>2 DEF SaveOp, Ops, Table!Save
  <2> QED
    BY <2>1, <2>2
<1>6. op \in Ops
  BY <1>5 DEF SaveOp
<1>7. PICK q : q = NewRequest(op)
  OBVIOUS
<1>8. q \in Request /\ q.pc = "sent" /\ q.op = op /\ q.outcome = "none" /\ ~q.applied
  BY <1>6, <1>7, NewRequestsAreTyped
<1>9. PICK m : m = [q EXCEPT !.saves = TRUE, !.known = editor[t].known,
                             !.restored = editor[t].restored]
  OBVIOUS
<1>10. /\ m \in Request /\ m.pc = "sent" /\ m.outcome = "none"
       /\ m.op = op /\ m.known = editor[t].known
  BY <1>1, <1>8, <1>9 DEF Request, Editor
<1>11. ~m.applied /\ (m.restored = editor[t].restored)
  <2>1. (m.applied = q.applied) /\ (m.restored = editor[t].restored)
    BY <1>8, <1>9 DEF Request
  <2> QED
    BY <1>8, <2>1
<1>12. req' = [req EXCEPT ![t] = m]
  BY <1>3, <1>4, <1>7, <1>9
<1> QED
  BY <1>5, <1>10, <1>11, <1>12

LEMMA SaveIsTyped ==
  ASSUME Typed, NEW t \in Tabs, NEW d \in Data, SaveSecret(t, d)
  PROVE  Typed'
<1>1. PICK n \in Request : /\ req' = [req EXCEPT ![t] = n] /\ n.pc = "sent"
                           /\ n.outcome = "none" /\ ~n.applied
  BY SavesAreOps
<1>2. /\ \/ gestures' = gestures
         \/ gestures < MaxGestures /\ gestures' = gestures + 1
      /\ editor' = [editor EXCEPT ![t].form = d] /\ editor[t] # NoEditor
      /\ UNCHANGED <<server, account, stored, pending>> /\ session[t] # NoUser
  BY DEF SaveSecret, Open, Idle
<1>3. gestures' \in 0 .. MaxGestures
  BY <1>2, BoundsAreNatural DEF Typed, TypeOK
<1>4. PICK e : e = [editor[t] EXCEPT !.form = d]
  OBVIOUS
<1>5. e \in Editor /\ e.id = editor[t].id /\ e.version = editor[t].version
  BY <1>2, <1>4 DEF Typed, TypeOK, Editor
<1>6. editor' = [editor EXCEPT ![t] = e]
  BY <1>2, <1>4
<1>7. editor' \in [Tabs -> Editor \cup {NoEditor}]
  BY <1>5, <1>6 DEF Typed, TypeOK
<1>8. \A s \in Tabs : editor'[s] # NoEditor /\ editor'[s].id # NewSecret
                      => editor'[s].version \in Versions
  BY <1>2, <1>5, <1>6 DEF Typed, TypeOK, Progress, Editing, Open
<1>9. /\ req' \in [Tabs -> Request \cup {NoRequest}]
      /\ \A s \in Tabs :
           \/ req'[s] = req[s]
           \/ req'[s].pc = "sent" /\ ~req'[s].applied /\ req'[s].outcome # "ok"
  BY <1>1 DEF Typed, TypeOK
<1>10. /\ token' \in Users \cup {NoUser}
       /\ session' \in [Tabs -> Users \cup {NoUser}]
       /\ stored' \in [Tabs -> Draft \cup {NoDraft}]
       /\ pending' \in [Tabs -> Draft \cup {NoDraft}]
  BY <1>2 DEF Typed, TypeOK, account
<1>11. \A s \in Tabs : req'[s] # NoRequest => session'[s] \in Users
  BY <1>1, <1>2 DEF Typed, TypeOK, Progress, account
<1> QED
  BY <1>2, <1>3, <1>7, <1>8, <1>9, <1>10, <1>11, PageStepsAreTyped

\* The answers that leave the editor of the tab as it is, close it, make a new
\* secret of its edits, or move it to the latest version.
LEMMA ConflictsAreTyped ==
  ASSUME Typed, NEW t \in Tabs, SaveConflict(t)
  PROVE  /\ editor' \in [Tabs -> Editor \cup {NoEditor}]
         /\ \A s \in Tabs \ {t} : editor'[s] = editor[s]
         /\ \/ editor'[t] = editor[t]
            \/ editor'[t].id = NewSecret
            \/ /\ editor[t].id \in Present(rows) /\ editor'[t].id = editor[t].id
               /\ editor'[t].version = rows[editor[t].id].version
               /\ editor'[t].known = rows[editor[t].id].version
<1>1. editor[t] \in Editor /\ editor[t] # NoEditor /\ editor[t].id \in Ids
  BY DEF SaveConflict, Conflicting, Editing, Open, Typed, TypeOK, Editor
<1>2. CASE editor' = [editor EXCEPT ![t] = Orphaned(editor[t])]
  <2>1. Orphaned(editor[t]) \in Editor /\ Orphaned(editor[t]).id = NewSecret
    BY <1>1, DataIsTable DEF Orphaned, Editor
  <2> QED
    BY <1>2, <2>1 DEF Typed, TypeOK
<1>3. CASE /\ rows[editor[t].id] # NoRow
           /\ editor' = [editor EXCEPT ![t].version = rows[editor[t].id].version,
                                       ![t].base = rows[editor[t].id].data,
                                       ![t].known = rows[editor[t].id].version,
                                       ![t].restored = FALSE]
  <2>1. rows[editor[t].id].version \in Versions /\ rows[editor[t].id].data \in Data
        /\ editor[t].id \in Present(rows)
    BY <1>1, <1>3 DEF Typed, TypeOK, Row, Present, Table!Present
  <2>2. PICK e : e = [editor[t] EXCEPT !.version = rows[editor[t].id].version,
                                       !.base = rows[editor[t].id].data,
                                       !.known = rows[editor[t].id].version,
                                       !.restored = FALSE]
    OBVIOUS
  <2>3. /\ e \in Editor /\ e.id = editor[t].id
        /\ e.version = rows[editor[t].id].version /\ e.known = rows[editor[t].id].version
    BY <1>1, <2>1, <2>2 DEF Editor
  <2>4. editor' = [editor EXCEPT ![t] = e]
    BY <1>3, <2>2 DEF Typed, TypeOK
  <2> QED
    BY <2>1, <2>3, <2>4 DEF Typed, TypeOK
<1>4. CASE UNCHANGED editor
  BY <1>4 DEF Typed, TypeOK
<1> QED
  BY <1>2, <1>3, <1>4 DEF SaveConflict

\* A request leaves its tab, or is sent again.
LEMMA AnswersHandledAreTyped ==
  ASSUME Typed, NEW t \in Tabs
  PROVE  /\ Saved(t) \/ SaveConflict(t) \/ Informed(t) => Typed'
         /\ SendAgain(t) => Typed'
<1>1. gestures \in 0 .. MaxGestures
  BY DEF Typed, TypeOK
<1>2. Done(t) => /\ req' \in [Tabs -> Request \cup {NoRequest}]
                 /\ \A s \in Tabs : req'[s] = req[s] \/ req'[s] = NoRequest
  BY DEF Done, Typed, TypeOK
<1>3. /\ token \in Users \cup {NoUser}
      /\ session \in [Tabs -> Users \cup {NoUser}]
      /\ editor \in [Tabs -> Editor \cup {NoEditor}]
      /\ stored \in [Tabs -> Draft \cup {NoDraft}]
      /\ pending \in [Tabs -> Draft \cup {NoDraft}]
      /\ \A s \in Tabs : editor[s] # NoEditor /\ editor[s].id # NewSecret
                         => editor[s].version \in Versions
      /\ \A s \in Tabs : req[s] # NoRequest => session[s] \in Users
  BY DEF Typed, TypeOK, Progress, Editing, Open
<1>4. ASSUME Saved(t) PROVE Typed'
  <2>1. /\ editor' = [editor EXCEPT ![t] = NoEditor]
        /\ pending' = [pending EXCEPT ![t] = NoDraft]
        /\ Done(t) /\ UNCHANGED <<server, gestures, account, stored>>
    BY <1>4 DEF Saved
  <2>2. /\ editor' \in [Tabs -> Editor \cup {NoEditor}]
        /\ pending' \in [Tabs -> Draft \cup {NoDraft}]
        /\ \A s \in Tabs : editor'[s] # NoEditor /\ editor'[s].id # NewSecret
                           => editor'[s].version \in Versions
    BY <1>3, <2>1
  <2> QED
    BY <1>1, <1>2, <1>3, <2>1, <2>2, PageStepsAreTyped DEF account
<1>5. ASSUME SaveConflict(t) PROVE Typed'
  <2>1. Done(t) /\ UNCHANGED <<server, gestures, account, stored, pending>>
    BY <1>5 DEF SaveConflict
  <2>2. \A i \in Present(rows) : rows[i].version \in Versions
    BY EditorsAreTyped DEF Row
  <2>3. \A s \in Tabs : editor'[s] # NoEditor /\ editor'[s].id # NewSecret
                        => editor'[s].version \in Versions
    BY <1>3, <1>5, <2>2, ConflictsAreTyped
  <2>4. editor' \in [Tabs -> Editor \cup {NoEditor}]
    BY <1>5, ConflictsAreTyped
  <2> QED
    BY <1>1, <1>2, <1>3, <2>1, <2>3, <2>4, PageStepsAreTyped DEF account
<1>6. ASSUME Informed(t) PROVE Typed'
  BY <1>1, <1>2, <1>3, <1>6, PageStepsAreTyped DEF Informed, page, account
<1>7. ASSUME SendAgain(t) PROVE Typed'
  <2>1. PICK again \in {req[t].op} \cup
            (IF req[t].op.type = "rename" /\ rows[req[t].op.id] # NoRow
             THEN {Table!Rename(req[t].op.id, rows[req[t].op.id].version, req[t].op.name)}
             ELSE {}) :
          req' = [req EXCEPT ![t] = [NewRequest(again) EXCEPT !.retried = TRUE]]
    BY <1>7 DEF SendAgain
  <2>2. again \in Ops
    <3>1. req[t] \in Request /\ req[t].op \in Ops
      BY <1>7 DEF SendAgain, At, Typed, TypeOK, Request
    <3>2. CASE again = req[t].op
      BY <3>1, <3>2
    <3>3. CASE /\ req[t].op.type = "rename" /\ rows[req[t].op.id] # NoRow
               /\ again = Table!Rename(req[t].op.id, rows[req[t].op.id].version, req[t].op.name)
      <4>1. req[t].op.id \in Ids /\ req[t].op.name \in Names
        BY <3>1, <3>3, OpsAreTyped
      <4>2. rows[req[t].op.id].version \in Versions
        BY <3>3, <4>1 DEF Typed, TypeOK, Row
      <4> QED
        BY <3>3, <4>1, <4>2 DEF Ops, Table!Rename
    <3> QED
      BY <2>1, <3>2, <3>3
  <2>3. PICK q : q = NewRequest(again)
    OBVIOUS
  <2>4. q \in Request /\ q.pc = "sent" /\ q.outcome = "none" /\ ~q.applied
    BY <2>2, <2>3, NewRequestsAreTyped
  <2>5. PICK n : n = [q EXCEPT !.retried = TRUE]
    OBVIOUS
  <2>6. n \in Request /\ n.pc = "sent" /\ n.outcome = "none"
    BY <2>4, <2>5 DEF Request
  <2>7. ~n.applied
    <3>1. (n.applied = q.applied)
      BY <2>4, <2>5 DEF Request
    <3> QED
      BY <2>4, <3>1
  <2>8. req' = [req EXCEPT ![t] = n]
    BY <2>1, <2>3, <2>5
  <2>9. /\ req' \in [Tabs -> Request \cup {NoRequest}]
        /\ \A s \in Tabs :
             \/ req'[s] = req[s]
             \/ req'[s].pc = "sent" /\ ~req'[s].applied /\ req'[s].outcome # "ok"
    BY <2>6, <2>7, <2>8 DEF Typed, TypeOK
  <2>10. \A s \in Tabs : req'[s] # NoRequest => session'[s] \in Users
    BY <1>3, <1>7, <2>8 DEF SendAgain, At, page, account, Typed, TypeOK
  <2> QED
    BY <1>1, <1>3, <1>7, <2>9, <2>10, PageStepsAreTyped DEF SendAgain, page, account
<1> QED
  BY <1>4, <1>5, <1>6, <1>7

LEMMA SessionsAreTyped ==
  ASSUME Typed, NEW t \in Tabs
  PROVE  /\ Unauthorized(t) \/ Logout(t) \/ Mount(t) \/ Reload(t) => Typed'
         /\ DraftExpires(t) \/ DiscardDraftRestore(t) => Typed'
         /\ \A d \in Data : Unsigned(t, d) => Typed'
         /\ \A u \in Users : Login(t, u) => Typed'
         /\ RestoreDraftEdits(t) => Typed'
<1>1. /\ gestures \in 0 .. MaxGestures
      /\ gestures < MaxGestures => gestures + 1 \in 0 .. MaxGestures
  BY BoundsAreNatural DEF Typed, TypeOK
<1>2. /\ req \in [Tabs -> Request \cup {NoRequest}]
      /\ token \in Users \cup {NoUser}
      /\ session \in [Tabs -> Users \cup {NoUser}]
      /\ editor \in [Tabs -> Editor \cup {NoEditor}]
      /\ stored \in [Tabs -> Draft \cup {NoDraft}]
      /\ pending \in [Tabs -> Draft \cup {NoDraft}]
      /\ \A s \in Tabs : editor[s] # NoEditor /\ editor[s].id # NewSecret
                         => editor[s].version \in Versions
      /\ \A s \in Tabs : req[s] # NoRequest => session[s] \in Users
  BY DEF Typed, TypeOK, Progress, Editing, Open
<1>3. Done(t) => /\ req' \in [Tabs -> Request \cup {NoRequest}]
                 /\ \A s \in Tabs : req'[s] = req[s] \/ req'[s] = NoRequest
  BY DEF Done, Typed, TypeOK
<1>4. editor' = [editor EXCEPT ![t] = NoEditor] =>
        /\ editor' \in [Tabs -> Editor \cup {NoEditor}]
        /\ \A s \in Tabs : editor'[s] # NoEditor /\ editor'[s].id # NewSecret
                           => editor'[s].version \in Versions
  BY <1>2
<1>5. /\ [pending EXCEPT ![t] = NoDraft] \in [Tabs -> Draft \cup {NoDraft}]
      /\ [stored EXCEPT ![t] = NoDraft] \in [Tabs -> Draft \cup {NoDraft}]
      /\ [session EXCEPT ![t] = NoUser] \in [Tabs -> Users \cup {NoUser}]
  BY <1>2
<1>6. ASSUME session[t] \in Users, NEW form, Open(t) => form \in Data,
             SessionLost(t, form)
      PROVE  Typed'
  <2>1. Captured(t, form) \in Draft \cup {NoDraft}
    BY <1>2, <1>6 DEF Captured, Open, Draft, Editor
  <2>2. /\ stored' \in [Tabs -> Draft \cup {NoDraft}]
        /\ pending' \in [Tabs -> Draft \cup {NoDraft}]
    BY <1>2, <1>5, <1>6, <2>1 DEF SessionLost
  <2>3. /\ session' \in [Tabs -> Users \cup {NoUser}]
        /\ token' \in Users \cup {NoUser} /\ gestures' \in 0 .. MaxGestures
        /\ UNCHANGED server /\ Done(t) /\ editor' = [editor EXCEPT ![t] = NoEditor]
    BY <1>1, <1>5, <1>6 DEF SessionLost
  <2>4. \A s \in Tabs : req'[s] # NoRequest => session'[s] \in Users
    BY <1>2, <1>6 DEF SessionLost, Done
  <2> QED
    BY <1>3, <1>4, <2>2, <2>3, <2>4, PageStepsAreTyped
<1>12. ASSUME Unauthorized(t) PROVE Typed'
  <2>1. session[t] \in Users
    BY <1>2, <1>12 DEF Unauthorized, At, Idle
  <2>2. Open(t) => editor[t].form \in Data
    BY <1>2 DEF Open, Editor
  <2> QED
    BY <1>6, <1>12, <2>1, <2>2 DEF Unauthorized
<1>13. ASSUME NEW d \in Data, Unsigned(t, d) PROVE Typed'
  <2>1. session[t] \in Users
    BY <1>2, <1>13 DEF Unsigned, Idle
  <2> QED
    BY <1>6, <1>13, <2>1 DEF Unsigned
<1>7. ASSUME Logout(t) PROVE Typed'
  <2>1. \A s \in Tabs : req'[s] # NoRequest => session'[s] \in Users
    BY <1>2, <1>7 DEF Logout, Idle
  <2> QED
    BY <1>1, <1>2, <1>5, <1>7, <2>1, PageStepsAreTyped DEF Logout
<1>14. ASSUME Mount(t) \/ Reload(t) PROVE Typed'
  <2>1. /\ session' = [session EXCEPT ![t] = token] /\ req[t] = NoRequest
        /\ UNCHANGED <<server, gestures, req, token, editor, stored>>
        /\ pending' = pending \/ pending' = [pending EXCEPT ![t] = NoDraft]
    BY <1>14 DEF Mount, Reload
  <2>2. /\ session' \in [Tabs -> Users \cup {NoUser}]
        /\ pending' \in [Tabs -> Draft \cup {NoDraft}]
    BY <1>2, <1>5, <2>1
  <2>3. \A s \in Tabs : req'[s] # NoRequest => session'[s] \in Users
    BY <1>2, <2>1
  <2> QED
    BY <1>1, <1>2, <2>1, <2>2, <2>3, PageStepsAreTyped
<1>8. ASSUME DraftExpires(t) PROVE Typed'
  BY <1>1, <1>2, <1>5, <1>8, PageStepsAreTyped DEF DraftExpires, account
<1>9. ASSUME DiscardDraftRestore(t) PROVE Typed'
  BY <1>1, <1>2, <1>5, <1>9, PageStepsAreTyped DEF DiscardDraftRestore, account
<1>10. ASSUME NEW u \in Users, Login(t, u) PROVE Typed'
  <2>1. TakenBy(t, u) \in Draft \cup {NoDraft}
    BY <1>2 DEF TakenBy
  <2>2. \A s \in Tabs : req'[s] # NoRequest => session'[s] \in Users
    BY <1>2, <1>10 DEF Login
  <2> QED
    BY <1>1, <1>2, <1>5, <1>10, <2>1, <2>2, PageStepsAreTyped DEF Login
<1>11. ASSUME RestoreDraftEdits(t) PROVE Typed'
  <2> DEFINE d == pending[t]
  <2>1. d \in Draft /\ d # NoDraft
    BY <1>2, <1>11 DEF RestoreDraftEdits
  <2>2. \E e \in Editor : /\ editor' = [editor EXCEPT ![t] = e]
                          /\ (e.id # NewSecret => e.version \in Versions)
    <3>1. CASE d.id # NewSecret /\ d.id \in Present(rows)
      <4>1. EditorOf(d.id) \in Editor /\ EditorOf(d.id).version \in Versions
        BY <3>1, EditorsAreTyped
      <4>2. PICK q : q = EditorOf(d.id)
        OBVIOUS
      <4>3. PICK e : e = [q EXCEPT !.form = d.form, !.known = d.known, !.restored = TRUE]
        OBVIOUS
      <4>4. e \in Editor /\ e.version \in Versions
        BY <2>1, <4>1, <4>2, <4>3 DEF Editor, Draft
      <4>5. editor' = [editor EXCEPT ![t] = e]
        BY <1>11, <3>1, <4>2, <4>3 DEF RestoreDraftEdits
      <4> QED
        BY <4>4, <4>5
    <3>2. CASE ~(d.id # NewSecret /\ d.id \in Present(rows))
      <4>1. PICK e : e = [EmptyEditor EXCEPT !.form = d.form]
        OBVIOUS
      <4>2. e \in Editor /\ e.id = NewSecret
        BY <2>1, <4>1, EditorsAreTyped DEF Editor, Draft
      <4>3. editor' = [editor EXCEPT ![t] = e]
        BY <1>11, <3>2, <4>1 DEF RestoreDraftEdits
      <4> QED
        BY <4>2, <4>3
    <3> QED
      BY <3>1, <3>2
  <2>3. PICK e \in Editor : /\ editor' = [editor EXCEPT ![t] = e]
                            /\ (e.id # NewSecret => e.version \in Versions)
    BY <2>2
  <2>4. /\ editor' \in [Tabs -> Editor \cup {NoEditor}]
        /\ \A s \in Tabs : editor'[s] # NoEditor /\ editor'[s].id # NewSecret
                           => editor'[s].version \in Versions
    BY <1>2, <2>3
  <2> QED
    BY <1>1, <1>2, <1>5, <1>11, <2>4, PageStepsAreTyped DEF RestoreDraftEdits, account
<1> QED
  BY <1>7, <1>8, <1>9, <1>10, <1>11, <1>12, <1>13, <1>14

LEMMA StutterIsTyped == Typed /\ UNCHANGED vars => Typed'
BY DEF Typed, TypeOK, Progress, At, Editing, Open, vars, account

\* Types are inductive.
LEMMA StepsAreTyped == Typed /\ [Next]_vars => Typed'
<1> SUFFICES ASSUME Typed, Next PROVE Typed'
  BY StutterIsTyped
<1>1. ASSUME NEW t \in Tabs,
             Enter(t) \/ Reread(t) \/ Update(t) \/ Remove(t) \/ Fail(t)
      PROVE  Typed'
  BY <1>1, EnterIsTyped, RereadIsTyped, UpdateIsTyped, RemoveIsTyped, FailIsTyped
<1>2. ASSUME NEW t \in Tabs, NEW i \in Ids, Insert(t, i) PROVE Typed'
  BY <1>2, InsertIsTyped
<1>3. ASSUME NEW t \in Tabs, NEW i \in Ids, OpenEditSecret(t, i) \/ ExecuteDelete(t, i)
      PROVE  Typed'
  BY <1>3, EditorStepsAreTyped, MenuIsTyped
<1>4. ASSUME NEW t \in Tabs, NEW i \in Ids, NEW n \in Names,
             ExecuteDuplicate(t, i, n) \/ ExecuteRename(t, i, n)
      PROVE  Typed'
  BY <1>4, MenuIsTyped
<1>5. ASSUME NEW t \in Tabs, NEW i \in Ids, NEW k \in Keys, NEW x \in Values,
             ExecuteCopyKey(t, i, k, x)
      PROVE  Typed'
  BY <1>5, MenuIsTyped
<1>6. ASSUME NEW t \in Tabs, OpenCreateSecret(t) \/ Close(t) PROVE Typed'
  BY <1>6, EditorStepsAreTyped
<1>7. ASSUME NEW t \in Tabs, NEW d \in Data,
             Type(t, d) \/ SaveSecret(t, d) \/ Unsigned(t, d)
      PROVE  Typed'
  BY <1>7, EditorStepsAreTyped, SaveIsTyped, SessionsAreTyped
<1>8. ASSUME NEW t \in Tabs, Saved(t) \/ SaveConflict(t) \/ SendAgain(t) \/ Informed(t)
      PROVE  Typed'
  BY <1>8, AnswersHandledAreTyped
<1>9. ASSUME NEW t \in Tabs,
             \/ Unauthorized(t) \/ Logout(t) \/ Mount(t) \/ Reload(t)
             \/ DraftExpires(t) \/ DiscardDraftRestore(t) \/ RestoreDraftEdits(t)
      PROVE  Typed'
  BY <1>9, SessionsAreTyped
<1>10. ASSUME NEW t \in Tabs, NEW u \in Users, Login(t, u) PROVE Typed'
  BY <1>10, SessionsAreTyped
<1>11. (Replace \/ \E i \in Ids : OldReplicaWrites(i)) => Typed'
  BY OthersAreTyped
<1> QED
  BY <1>1, <1>2, <1>3, <1>4, <1>5, <1>6, <1>7, <1>8, <1>9, <1>10, <1>11 DEF Next

\* In every reachable state the types hold, and requests and editors are in
\* step with the lock and the session (Progress).
THEOREM AlwaysTyped == Spec => []Typed
<1>1. Init => Typed
  BY InitIsTyped
<1>2. Typed /\ [Next]_vars => Typed'
  BY StepsAreTyped
<1> QED
  BY <1>1, <1>2, PTL DEF Spec

\* TypeOK holds in every reachable state.
THEOREM TypesAreKept == Spec => []TypeOK
<1>1. Typed => TypeOK
  BY DEF Typed
<1> QED
  BY <1>1, AlwaysTyped, PTL

-----------------------------------------------------------------------------
(* Drafts *)

\* What a step does to the user and the draft of the tab s: it keeps both,
\* drops the draft, logs in somebody who gets no draft but their own, or mounts
\* a page, which takes the tab over to the user of the token.
DraftStep(s) ==
    \/ pending'[s] = pending[s] /\ session'[s] = session[s]
    \/ pending'[s] = NoDraft
    \/ \E u \in Users : session'[s] = u /\ pending'[s] = TakenBy(s, u)
    \/ Mount(s)

LEMMA StepsAreDraftSteps ==
  ASSUME Typed, [Next]_vars, NEW s \in Tabs
  PROVE  DraftStep(s)
<1>1. UNCHANGED <<session, pending>> => DraftStep(s)
  BY DEF DraftStep
<1>2. UNCHANGED page \/ UNCHANGED <<account, pending>> => UNCHANGED <<session, pending>>
  BY DEF page, account
<1>3. ASSUME NEW t \in Tabs,
             \/ Enter(t) \/ Reread(t) \/ Update(t) \/ Remove(t) \/ Fail(t)
             \/ SendAgain(t) \/ Informed(t)
             \/ OpenCreateSecret(t) \/ Close(t) \/ SaveConflict(t) \/ DraftExpires(t)
      PROVE  DraftStep(s)
  <2>1. UNCHANGED page \/ UNCHANGED <<account, pending>>
    BY <1>3 DEF Enter, Reread, Update, Remove, Fail, SendAgain, Informed,
                OpenCreateSecret, Close, SaveConflict, DraftExpires, SetEditor
  <2> QED
    BY <1>1, <1>2, <2>1
<1>4. ASSUME NEW t \in Tabs, NEW i \in Ids,
             Insert(t, i) \/ OpenEditSecret(t, i) \/ ExecuteDelete(t, i)
      PROVE  DraftStep(s)
  BY <1>1, <1>2, <1>4 DEF Insert, OpenEditSecret, ExecuteDelete, Send, SetEditor
<1>5. ASSUME NEW t \in Tabs, NEW i \in Ids, NEW n \in Names,
             ExecuteDuplicate(t, i, n) \/ ExecuteRename(t, i, n)
      PROVE  DraftStep(s)
  BY <1>1, <1>2, <1>5 DEF ExecuteDuplicate, ExecuteRename, Send
<1>6. ASSUME NEW t \in Tabs, NEW i \in Ids, NEW k \in Keys, NEW x \in Values,
             ExecuteCopyKey(t, i, k, x)
      PROVE  DraftStep(s)
  BY <1>1, <1>2, <1>6 DEF ExecuteCopyKey, Send
<1>7. ASSUME NEW t \in Tabs, NEW d \in Data, Type(t, d) \/ SaveSecret(t, d)
      PROVE  DraftStep(s)
  BY <1>1, <1>2, <1>7 DEF Type, SaveSecret, SetEditor
<1>8. ASSUME NEW t \in Tabs,
             \/ Saved(t) \/ DiscardDraftRestore(t) \/ RestoreDraftEdits(t)
      PROVE  DraftStep(s)
  <2>1. session' = session /\ pending' = [pending EXCEPT ![t] = NoDraft]
    BY <1>8 DEF Saved, DiscardDraftRestore, RestoreDraftEdits, account
  <2> QED
    BY <2>1 DEF DraftStep, Typed, TypeOK
<1>9. ASSUME NEW t \in Tabs, NEW u, session' = [session EXCEPT ![t] = u],
             pending' = [pending EXCEPT ![t] = NoDraft]
      PROVE  DraftStep(s)
  BY <1>9 DEF DraftStep, Typed, TypeOK
<1>10. ASSUME NEW t \in Tabs, Unauthorized(t) \/ Logout(t) \/ Reload(t)
       PROVE  DraftStep(s)
  BY <1>9, <1>10 DEF Unauthorized, SessionLost, Logout, Reload
<1>11. ASSUME NEW t \in Tabs, NEW d \in Data, Unsigned(t, d) PROVE DraftStep(s)
  BY <1>9, <1>11 DEF Unsigned, SessionLost
<1>12. ASSUME NEW t \in Tabs, NEW u \in Users, Login(t, u) PROVE DraftStep(s)
  <2>1. /\ session' = [session EXCEPT ![t] = u]
        /\ pending' = [pending EXCEPT ![t] = TakenBy(t, u)]
    BY <1>12 DEF Login
  <2> QED
    BY <2>1 DEF DraftStep, Typed, TypeOK
<1>13. ASSUME NEW t \in Tabs, Mount(t) PROVE DraftStep(s)
  <2>1. session' = [session EXCEPT ![t] = token] /\ pending' = pending
    BY <1>13 DEF Mount
  <2> QED
    BY <1>13, <2>1 DEF DraftStep, Typed, TypeOK
<1>14. ASSUME Replace \/ \E i \in Ids : OldReplicaWrites(i) PROVE DraftStep(s)
  BY <1>1, <1>2, <1>14 DEF Replace, OldReplicaWrites
<1>15. ASSUME UNCHANGED vars PROVE DraftStep(s)
  BY <1>1, <1>15 DEF vars, account
<1> QED
  BY <1>3, <1>4, <1>5, <1>6, <1>7, <1>8, <1>10, <1>11, <1>12, <1>13, <1>14, <1>15
  DEF Next

\* A step that is no mount offers no draft to somebody else.
LEMMA DraftStepsKeepOwners ==
  ASSUME NEW t \in Tabs, DraftStep(t), OfferedToAnother(t)'
  PROVE  OfferedToAnother(t) \/ Mount(t)
<1>1. \A u \in Users : TakenBy(t, u) # NoDraft => TakenBy(t, u).user = u
  BY DEF TakenBy
<1> QED
  BY <1>1 DEF DraftStep, OfferedToAnother

\* However many tabs, users, logins and expiries: only a page mounted with the
\* token of another user brings an offered draft before somebody who did not
\* type it.
THEOREM DraftsAreOffered == Spec => DraftsStayWithTheirOwner
<1>1. Typed /\ [Next]_vars
        => [\A t \in Tabs :
               OfferedToAnother(t)' => OfferedToAnother(t) \/ Mount(t)]_vars
  BY StepsAreDraftSteps, DraftStepsKeepOwners
<1> QED
  BY <1>1, AlwaysTyped, PTL DEF Spec, DraftsStayWithTheirOwner

\* In a browser with one tab the tab and the token have the same user.
OneUser == \A t \in Tabs : session[t] = token

LEMMA OneTabHasTheToken ==
  ASSUME \A s, t \in Tabs : s = t
  PROVE  Typed /\ OneUser /\ [Next]_vars => OneUser'
<1> SUFFICES ASSUME Typed, OneUser, [Next]_vars PROVE OneUser'
  OBVIOUS
<1>1. ASSUME UNCHANGED <<session, token>> PROVE OneUser'
  BY <1>1 DEF OneUser
<1>2. ASSUME NEW t \in Tabs, NEW u, session' = [session EXCEPT ![t] = u], token' = u
      PROVE  OneUser'
  BY <1>2 DEF OneUser, Typed, TypeOK
<1>3. UNCHANGED page \/ UNCHANGED account => UNCHANGED <<session, token>>
  BY DEF page, account
<1>4. ASSUME NEW t \in Tabs,
             \/ Enter(t) \/ Reread(t) \/ Update(t) \/ Remove(t) \/ Fail(t)
             \/ SendAgain(t) \/ Informed(t) \/ Saved(t) \/ SaveConflict(t)
             \/ OpenCreateSecret(t) \/ Close(t) \/ DraftExpires(t)
             \/ DiscardDraftRestore(t) \/ RestoreDraftEdits(t)
      PROVE  OneUser'
  <2>1. UNCHANGED page \/ UNCHANGED account
    BY <1>4 DEF Enter, Reread, Update, Remove, Fail, SendAgain, Informed, Saved,
                OpenCreateSecret, Close, SaveConflict, DraftExpires, SetEditor,
                DiscardDraftRestore, RestoreDraftEdits
  <2> QED
    BY <1>1, <1>3, <2>1
<1>5. ASSUME NEW t \in Tabs, NEW i \in Ids,
             Insert(t, i) \/ OpenEditSecret(t, i) \/ ExecuteDelete(t, i)
      PROVE  OneUser'
  BY <1>1, <1>3, <1>5 DEF Insert, OpenEditSecret, ExecuteDelete, Send, SetEditor
<1>6. ASSUME NEW t \in Tabs, NEW i \in Ids, NEW n \in Names,
             ExecuteDuplicate(t, i, n) \/ ExecuteRename(t, i, n)
      PROVE  OneUser'
  BY <1>1, <1>3, <1>6 DEF ExecuteDuplicate, ExecuteRename, Send
<1>7. ASSUME NEW t \in Tabs, NEW i \in Ids, NEW k \in Keys, NEW x \in Values,
             ExecuteCopyKey(t, i, k, x)
      PROVE  OneUser'
  BY <1>1, <1>3, <1>7 DEF ExecuteCopyKey, Send
<1>8. ASSUME NEW t \in Tabs, NEW d \in Data, Type(t, d) \/ SaveSecret(t, d)
      PROVE  OneUser'
  BY <1>1, <1>3, <1>8 DEF Type, SaveSecret, SetEditor
<1>9. ASSUME NEW t \in Tabs, Unauthorized(t) \/ Logout(t) PROVE OneUser'
  BY <1>2, <1>9 DEF Unauthorized, SessionLost, Logout
<1>10. ASSUME NEW t \in Tabs, Mount(t) \/ Reload(t) PROVE OneUser'
  BY <1>2, <1>10 DEF Mount, Reload
<1>11. ASSUME NEW t \in Tabs, NEW d \in Data, Unsigned(t, d) PROVE OneUser'
  BY <1>2, <1>11 DEF Unsigned, SessionLost
<1>12. ASSUME NEW t \in Tabs, NEW u \in Users, Login(t, u) PROVE OneUser'
  BY <1>2, <1>12 DEF Login
<1>13. ASSUME Replace \/ \E i \in Ids : OldReplicaWrites(i) PROVE OneUser'
  BY <1>1, <1>3, <1>13 DEF Replace, OldReplicaWrites
<1>14. ASSUME UNCHANGED vars PROVE OneUser'
  BY <1>1, <1>3, <1>14 DEF vars
<1> QED
  BY <1>4, <1>5, <1>6, <1>7, <1>8, <1>9, <1>10, <1>11, <1>12, <1>13, <1>14 DEF Next

\* With a single tab the documentation is right: through every expiry, logout
\* and login, a draft is offered to nobody but the user who typed it.
THEOREM OneTabKeepsDrafts ==
  ASSUME \A s, t \in Tabs : s = t
  PROVE  Spec => []DraftsAreNeverOfferedToOthers
<1>1. Init => OneUser /\ DraftsAreNeverOfferedToOthers
  BY DEF Init, OneUser, DraftsAreNeverOfferedToOthers, OfferedToAnother
<1>2. Typed /\ OneUser /\ [Next]_vars => OneUser'
  BY OneTabHasTheToken
<1>3. Typed /\ OneUser /\ DraftsAreNeverOfferedToOthers /\ [Next]_vars
        => DraftsAreNeverOfferedToOthers'
  <2> SUFFICES ASSUME Typed, OneUser, DraftsAreNeverOfferedToOthers, [Next]_vars,
                      NEW t \in Tabs, OfferedToAnother(t)'
               PROVE  FALSE
    BY DEF DraftsAreNeverOfferedToOthers
  <2>1. Mount(t)
    BY StepsAreDraftSteps, DraftStepsKeepOwners DEF DraftsAreNeverOfferedToOthers
  <2>2. session'[t] = session[t] /\ pending' = pending
    BY <2>1 DEF Mount, OneUser, Typed, TypeOK
  <2> QED
    BY <2>2 DEF OfferedToAnother, DraftsAreNeverOfferedToOthers
<1> QED
  BY <1>1, <1>2, <1>3, AlwaysTyped, PTL DEF Spec

-----------------------------------------------------------------------------
(* What a step of the page does to requests and editors *)

\* A request that a tab sends: of a save, what the editor holds; of a rename,
\* the version the list shows, or the one of the request that is sent again.
Sent(t, n) ==
    /\ n.pc = "sent" /\ n.outcome = "none" /\ ~n.applied /\ n.op \in Ops
    /\ \/ n.op.type \in {"create", "key", "delete"}
       \/ /\ n.op.type = "rename" /\ n.op.id \in Present(rows)
          /\ n.op.version = rows[n.op.id].version
       \/ /\ n.op.type = "rename" /\ req[t] # NoRequest /\ n.op = req[t].op
       \/ /\ n.op.type = "save" /\ Editing(t)
          /\ n.op.id = editor[t].id /\ n.op.version = editor[t].version
          /\ n.known = editor[t].known /\ (n.restored = editor[t].restored)

PageRequests ==
    \/ req' = req
    \/ \E t \in Tabs : req[t] # NoRequest /\ req' = [req EXCEPT ![t] = NoRequest]
    \/ \E t \in Tabs, n \in Request :
          /\ (req[t] = NoRequest \/ req[t].pc = "answered")
          /\ req' = [req EXCEPT ![t] = n] /\ Sent(t, n)

SameContent(e, f) ==
    /\ e.id = f.id /\ e.version = f.version /\ e.known = f.known
    /\ (e.restored = f.restored)

PageEditors ==
    \A s \in Tabs :
       \/ editor'[s] = editor[s]
       \/ editor'[s] = NoEditor
       \/ editor'[s].id = NewSecret
       \/ editor[s] # NoEditor /\ SameContent(editor'[s], editor[s])
       \/ /\ editor'[s].id \in Present(rows)
          /\ editor'[s].version = rows[editor'[s].id].version
          /\ (editor'[s].restored \/ editor'[s].known = editor'[s].version)

PageStep == UNCHANGED server /\ PageRequests /\ PageEditors

LEMMA SendsArePageSteps ==
  ASSUME Typed, NEW t \in Tabs, NEW op \in Ops, Send(t, op),
         \/ op.type \in {"create", "key", "delete"}
         \/ /\ op.type = "rename" /\ op.id \in Present(rows)
            /\ op.version = rows[op.id].version
  PROVE  PageStep
<1>1. PICK n : n = NewRequest(op)
  OBVIOUS
<1>2. /\ n \in Request /\ n.pc = "sent" /\ n.op = op /\ n.outcome = "none"
      /\ ~n.applied
  BY <1>1, NewRequestsAreTyped
<1>3. Sent(t, n)
  BY <1>2 DEF Sent
<1>4. req' = [req EXCEPT ![t] = n] /\ req[t] = NoRequest /\ UNCHANGED <<server, page>>
  BY <1>1 DEF Send, Idle
<1>5. PageRequests
  BY <1>2, <1>3, <1>4 DEF PageRequests
<1>6. PageEditors
  BY <1>4 DEF PageEditors, page, account
<1> QED
  BY <1>4, <1>5, <1>6 DEF PageStep

LEMMA MenuIsPageStep ==
  ASSUME Typed, NEW t \in Tabs
  PROVE  /\ \A i \in Ids : ExecuteDelete(t, i) => PageStep
         /\ \A i \in Ids, n \in Names :
               ExecuteDuplicate(t, i, n) \/ ExecuteRename(t, i, n) => PageStep
         /\ \A i \in Ids, k \in Keys, x \in Values :
               ExecuteCopyKey(t, i, k, x) => PageStep
<1>1. \A op \in Ops :
        /\ Send(t, op)
        /\ \/ op.type \in {"create", "key", "delete"}
           \/ /\ op.type = "rename" /\ op.id \in Present(rows)
              /\ op.version = rows[op.id].version
        => PageStep
  BY SendsArePageSteps
<1>2. ASSUME NEW i \in Ids, ExecuteDelete(t, i) PROVE PageStep
  BY <1>1, <1>2, MenuSends
<1>3. ASSUME NEW i \in Ids, NEW n \in Names, ExecuteDuplicate(t, i, n) PROVE PageStep
  BY <1>1, <1>3, MenuSends
<1>4. ASSUME NEW i \in Ids, NEW n \in Names, ExecuteRename(t, i, n) PROVE PageStep
  BY <1>1, <1>4, MenuSends
<1>5. ASSUME NEW i \in Ids, NEW k \in Keys, NEW x \in Values, ExecuteCopyKey(t, i, k, x)
      PROVE  PageStep
  BY <1>1, <1>5, MenuSends
<1> QED
  BY <1>2, <1>3, <1>4, <1>5

LEMMA EditorsArePageSteps ==
  ASSUME Typed, NEW t \in Tabs
  PROVE  /\ \A i \in Ids : OpenEditSecret(t, i) => PageStep
         /\ OpenCreateSecret(t) \/ Close(t) => PageStep
         /\ \A d \in Data : Type(t, d) => PageStep
         /\ \A d \in Data : SaveSecret(t, d) => PageStep
<1>0. editor \in [Tabs -> Editor \cup {NoEditor}]
  BY DEF Typed, TypeOK
<1>1. ASSUME NEW e, SetEditor(t, e),
             \/ e = NoEditor \/ e.id = NewSecret
             \/ editor[t] # NoEditor /\ SameContent(e, editor[t])
             \/ /\ e.id \in Present(rows) /\ e.version = rows[e.id].version
                /\ e.known = e.version
      PROVE  PageStep
  <2>1. editor'[t] = e /\ \A s \in Tabs \ {t} : editor'[s] = editor[s]
    BY <1>0, <1>1 DEF SetEditor
  <2>2. PageEditors
    BY <1>1, <2>1 DEF PageEditors
  <2> QED
    BY <1>1, <2>2 DEF SetEditor, PageStep, PageRequests
<1>2. ASSUME NEW i \in Ids, OpenEditSecret(t, i) PROVE PageStep
  <2>1. PICK e : e = EditorOf(i)
    OBVIOUS
  <2>2. e.id = i /\ e.version = rows[i].version /\ e.known = rows[i].version
    BY <2>1 DEF EditorOf
  <2>3. SetEditor(t, e) /\ i \in Present(rows)
    BY <1>2, <2>1 DEF OpenEditSecret
  <2> QED
    BY <1>1, <2>2, <2>3
<1>3. ASSUME OpenCreateSecret(t) \/ Close(t) PROVE PageStep
  BY <1>1, <1>3, EditorsAreTyped DEF OpenCreateSecret, Close
<1>4. ASSUME NEW d \in Data, Type(t, d) PROVE PageStep
  <2>1. PICK e : e = [editor[t] EXCEPT !.form = d]
    OBVIOUS
  <2>2. editor[t] \in Editor /\ editor[t] # NoEditor
    BY <1>0, <1>4 DEF Type, Open
  <2>3. SameContent(e, editor[t])
    <3>1. e.id = editor[t].id /\ e.version = editor[t].version /\ e.known = editor[t].known
      BY <2>1, <2>2 DEF Editor
    <3>2. (e.restored = editor[t].restored)
      BY <2>1, <2>2 DEF Editor
    <3> QED
      BY <3>1, <3>2 DEF SameContent
  <2>4. SetEditor(t, e)
    BY <1>4, <2>1 DEF Type
  <2> QED
    BY <1>1, <2>2, <2>3, <2>4
<1>5. ASSUME NEW d \in Data, SaveSecret(t, d) PROVE PageStep
  <2>1. /\ editor[t] \in Editor /\ editor[t] # NoEditor /\ req[t] = NoRequest
        /\ editor' = [editor EXCEPT ![t].form = d] /\ UNCHANGED server
    BY <1>0, <1>5 DEF SaveSecret, Open, Idle
  <2>2. PICK e : e = [editor[t] EXCEPT !.form = d]
    OBVIOUS
  <2>3. SameContent(e, editor[t])
    <3>1. e.id = editor[t].id /\ e.version = editor[t].version /\ e.known = editor[t].known
      BY <2>1, <2>2 DEF Editor
    <3>2. (e.restored = editor[t].restored)
      BY <2>1, <2>2 DEF Editor
    <3> QED
      BY <3>1, <3>2 DEF SameContent
  <2>4. editor'[t] = e /\ \A s \in Tabs \ {t} : editor'[s] = editor[s]
    BY <1>0, <2>1, <2>2
  <2>5. PageEditors
    BY <2>1, <2>3, <2>4 DEF PageEditors
  <2>6. PICK n \in Request :
          /\ req' = [req EXCEPT ![t] = n]
          /\ n.pc = "sent" /\ n.outcome = "none" /\ ~n.applied
          /\ SaveOp(t, n.op) /\ n.known = editor[t].known
          /\ (n.restored = editor[t].restored)
    BY <1>5, SavesAreOps
  <2>7. Sent(t, n)
    BY <2>1, <2>6 DEF Sent, SaveOp, Editing, Open
  <2> QED
    BY <2>1, <2>5, <2>6, <2>7 DEF PageStep, PageRequests
<1> QED
  BY <1>2, <1>3, <1>4, <1>5

LEMMA AnswersArePageSteps ==
  ASSUME Typed, NEW t \in Tabs
  PROVE  /\ Saved(t) \/ SaveConflict(t) \/ Informed(t) \/ SendAgain(t) => PageStep
<1>0. editor \in [Tabs -> Editor \cup {NoEditor}]
  BY DEF Typed, TypeOK
<1>1. At(t, "answered") /\ Done(t) => PageRequests
  BY DEF Done, PageRequests, At
<1>2. ASSUME Saved(t) PROVE PageStep
  <2>1. PageEditors
    BY <1>0, <1>2 DEF Saved, PageEditors
  <2> QED
    BY <1>1, <1>2, <2>1 DEF Saved, PageStep
<1>3. ASSUME Informed(t) PROVE PageStep
  BY <1>1, <1>3 DEF Informed, PageStep, PageEditors, page, account
<1>4. ASSUME SaveConflict(t) PROVE PageStep
  <2>1. PageEditors
    BY <1>4, ConflictsAreTyped DEF PageEditors
  <2> QED
    BY <1>1, <1>4, <2>1 DEF SaveConflict, PageStep
<1>5. ASSUME SendAgain(t) PROVE PageStep
  <2>1. PICK again \in {req[t].op} \cup
            (IF req[t].op.type = "rename" /\ rows[req[t].op.id] # NoRow
             THEN {Table!Rename(req[t].op.id, rows[req[t].op.id].version, req[t].op.name)}
             ELSE {}) :
          req' = [req EXCEPT ![t] = [NewRequest(again) EXCEPT !.retried = TRUE]]
    BY <1>5 DEF SendAgain
  <2>2. /\ req[t] \in Request /\ req[t].op \in Ops /\ req[t] # NoRequest
        /\ req[t].pc = "answered" /\ req[t].op.type \in {"rename", "key"}
        /\ UNCHANGED <<server, page>>
    BY <1>5 DEF SendAgain, At, Resendable, Typed, TypeOK, Request
  <2>3. /\ again \in Ops
        /\ \/ again.type = "key"
           \/ again.type = "rename" /\ again = req[t].op
           \/ /\ again.type = "rename" /\ again.id \in Present(rows)
              /\ again.version = rows[again.id].version
    <3>2. CASE again = req[t].op
      BY <2>2, <3>2
    <3>3. CASE /\ req[t].op.type = "rename" /\ rows[req[t].op.id] # NoRow
               /\ again = Table!Rename(req[t].op.id, rows[req[t].op.id].version, req[t].op.name)
      <4>1. req[t].op.id \in Ids /\ req[t].op.name \in Names
        BY <2>2, <3>3, OpsAreTyped
      <4>2. rows[req[t].op.id].version \in Versions
        BY <3>3, <4>1 DEF Typed, TypeOK, Row
      <4> QED
        BY <3>3, <4>1, <4>2 DEF Ops, Table!Rename, Present, Table!Present
    <3> QED
      BY <2>1, <3>2, <3>3
  <2>4. PICK q : q = NewRequest(again)
    OBVIOUS
  <2>5. q \in Request /\ q.pc = "sent" /\ q.op = again /\ q.outcome = "none" /\ ~q.applied
    BY <2>3, <2>4, NewRequestsAreTyped
  <2>6. PICK n : n = [q EXCEPT !.retried = TRUE]
    OBVIOUS
  <2>7. n \in Request /\ n.pc = "sent" /\ n.outcome = "none" /\ n.op = again
    BY <2>5, <2>6 DEF Request
  <2>8. ~n.applied
    <3>1. (n.applied = q.applied)
      BY <2>5, <2>6 DEF Request
    <3> QED
      BY <2>5, <3>1
  <2>9. req' = [req EXCEPT ![t] = n]
    BY <2>1, <2>4, <2>6
  <2>10. Sent(t, n)
    BY <2>2, <2>3, <2>7, <2>8 DEF Sent
  <2>11. PageRequests
    BY <2>2, <2>7, <2>9, <2>10 DEF PageRequests
  <2> QED
    BY <2>2, <2>11 DEF PageStep, PageEditors, page, account
<1> QED
  BY <1>2, <1>3, <1>4, <1>5

LEMMA SessionsArePageSteps ==
  ASSUME Typed, NEW t \in Tabs
  PROVE  /\ Unauthorized(t) \/ Logout(t) \/ DraftExpires(t) \/ DiscardDraftRestore(t)
            => PageStep
         /\ Mount(t) \/ Reload(t) => PageStep
         /\ \A d \in Data : Unsigned(t, d) => PageStep
         /\ \A u \in Users : Login(t, u) => PageStep
         /\ RestoreDraftEdits(t) => PageStep
<1>0. editor \in [Tabs -> Editor \cup {NoEditor}]
  BY DEF Typed, TypeOK
<1>1. editor' = [editor EXCEPT ![t] = NoEditor] => PageEditors
  BY <1>0 DEF PageEditors
<1>2. UNCHANGED editor => PageEditors
  BY DEF PageEditors
<1>3. ASSUME NEW d, SessionLost(t, d) PROVE PageStep
  <2>1. req' = [req EXCEPT ![t] = NoRequest]
    BY <1>3 DEF SessionLost, Done
  <2>2. CASE req[t] # NoRequest
    BY <1>1, <1>3, <2>1, <2>2 DEF SessionLost, PageStep, PageRequests
  <2>3. CASE req[t] = NoRequest
    <3>1. req' = req
      BY <2>1, <2>3 DEF Typed, TypeOK
    <3> QED
      BY <1>1, <1>3, <3>1 DEF SessionLost, PageStep, PageRequests
  <2> QED
    BY <2>2, <2>3
<1>4. ASSUME Unauthorized(t) PROVE PageStep
  BY <1>3, <1>4 DEF Unauthorized
<1>5. ASSUME NEW d \in Data, Unsigned(t, d) PROVE PageStep
  BY <1>3, <1>5 DEF Unsigned
<1>6. ASSUME Mount(t) \/ Reload(t) PROVE PageStep
  BY <1>2, <1>6 DEF Mount, Reload, PageStep, PageRequests
<1>7. ASSUME Logout(t) \/ DraftExpires(t) \/ DiscardDraftRestore(t) PROVE PageStep
  BY <1>1, <1>2, <1>7
     DEF Logout, DraftExpires, DiscardDraftRestore, PageStep, PageRequests
<1>8. ASSUME NEW u \in Users, Login(t, u) PROVE PageStep
  BY <1>2, <1>8 DEF Login, PageStep, PageRequests
<1>9. ASSUME RestoreDraftEdits(t) PROVE PageStep
  <2> DEFINE d == pending[t]
  <2>1. d \in Draft /\ d # NoDraft
    BY <1>9 DEF RestoreDraftEdits, Typed, TypeOK
  <2>2. CASE d.id # NewSecret /\ d.id \in Present(rows)
    <3>1. EditorOf(d.id) \in Editor /\ EditorOf(d.id).id = d.id
          /\ EditorOf(d.id).version = rows[d.id].version
      BY <2>2, EditorsAreTyped DEF EditorOf
    <3>2. PICK q : q = EditorOf(d.id)
      OBVIOUS
    <3>3. PICK e : e = [q EXCEPT !.form = d.form, !.known = d.known, !.restored = TRUE]
      OBVIOUS
    <3>4. e.id = d.id /\ e.version = rows[d.id].version
      BY <3>1, <3>2, <3>3 DEF Editor
    <3>5. e.restored
      <4>1. (e.restored = TRUE)
        BY <3>1, <3>2, <3>3 DEF Editor
      <4> QED
        BY <4>1
    <3>6. editor' = [editor EXCEPT ![t] = e]
      BY <1>9, <2>2, <3>2, <3>3 DEF RestoreDraftEdits
    <3>7. PageEditors
      BY <1>0, <2>2, <3>4, <3>5, <3>6 DEF PageEditors
    <3> QED
      BY <1>9, <3>7 DEF RestoreDraftEdits, PageStep, PageRequests
  <2>3. CASE ~(d.id # NewSecret /\ d.id \in Present(rows))
    <3>1. PICK e : e = [EmptyEditor EXCEPT !.form = d.form]
      OBVIOUS
    <3>2. e.id = NewSecret
      BY <3>1, EditorsAreTyped DEF Editor
    <3>3. editor' = [editor EXCEPT ![t] = e]
      BY <1>9, <2>3, <3>1 DEF RestoreDraftEdits
    <3>4. PageEditors
      BY <1>0, <3>2, <3>3 DEF PageEditors
    <3> QED
      BY <1>9, <3>4 DEF RestoreDraftEdits, PageStep, PageRequests
  <2> QED
    BY <2>2, <2>3
<1> QED
  BY <1>4, <1>5, <1>6, <1>7, <1>8, <1>9

\* A step is one of a handler, of another writer, or of a page.
Handles(t) ==
    \/ Enter(t) \/ Reread(t) \/ Update(t) \/ Remove(t) \/ Fail(t)
    \/ \E i \in Ids : Insert(t, i)

OthersStep == Replace \/ \E i \in Ids : OldReplicaWrites(i)

LEMMA StepsAreOfThreeKinds ==
  ASSUME Typed, [Next]_vars
  PROVE  (\E t \in Tabs : Handles(t)) \/ OthersStep \/ PageStep
<1> DEFINE P == (\E t \in Tabs : Handles(t)) \/ OthersStep \/ PageStep
<1>1. ASSUME NEW t \in Tabs,
             Enter(t) \/ Reread(t) \/ Update(t) \/ Remove(t) \/ Fail(t)
      PROVE  P
  BY <1>1 DEF Handles
<1>2. ASSUME NEW t \in Tabs, NEW i \in Ids, Insert(t, i) PROVE P
  BY <1>2 DEF Handles
<1>3. ASSUME NEW t \in Tabs, NEW i \in Ids, OpenEditSecret(t, i) \/ ExecuteDelete(t, i)
      PROVE  P
  BY <1>3, EditorsArePageSteps, MenuIsPageStep
<1>4. ASSUME NEW t \in Tabs, NEW i \in Ids, NEW n \in Names,
             ExecuteDuplicate(t, i, n) \/ ExecuteRename(t, i, n)
      PROVE  P
  BY <1>4, MenuIsPageStep
<1>5. ASSUME NEW t \in Tabs, NEW i \in Ids, NEW k \in Keys, NEW x \in Values,
             ExecuteCopyKey(t, i, k, x)
      PROVE  P
  BY <1>5, MenuIsPageStep
<1>6. ASSUME NEW t \in Tabs, OpenCreateSecret(t) \/ Close(t) PROVE P
  BY <1>6, EditorsArePageSteps
<1>7. ASSUME NEW t \in Tabs, NEW d \in Data, Type(t, d) \/ SaveSecret(t, d) PROVE P
  BY <1>7, EditorsArePageSteps
<1>8. ASSUME NEW t \in Tabs, Saved(t) \/ SaveConflict(t) \/ SendAgain(t) \/ Informed(t)
      PROVE  P
  BY <1>8, AnswersArePageSteps
<1>9. ASSUME NEW t \in Tabs,
             \/ Unauthorized(t) \/ Logout(t) \/ DraftExpires(t)
             \/ Mount(t) \/ Reload(t)
             \/ DiscardDraftRestore(t) \/ RestoreDraftEdits(t)
      PROVE  P
  BY <1>9, SessionsArePageSteps
<1>10. ASSUME NEW t \in Tabs, NEW u \in Users, Login(t, u) PROVE P
  BY <1>10, SessionsArePageSteps
<1>11. ASSUME NEW t \in Tabs, NEW d \in Data, Unsigned(t, d) PROVE P
  BY <1>11, SessionsArePageSteps
<1>12. ASSUME UNCHANGED vars PROVE P
  BY <1>12 DEF vars, PageStep, PageRequests, PageEditors, server
<1> QED
  BY <1>1, <1>2, <1>3, <1>4, <1>5, <1>6, <1>7, <1>8, <1>9, <1>10, <1>12, <1>11
     DEF Next, OthersStep

-----------------------------------------------------------------------------
(* What a step of a handler does *)

\* The request of t stays what it is, and the others are left alone.
Moved(t) ==
    /\ \A s \in Tabs \ {t} : req'[s] = req[s]
    /\ req[t] # NoRequest /\ req'[t] # NoRequest
    /\ req'[t].op = req[t].op /\ req'[t].known = req[t].known
    /\ (req'[t].restored = req[t].restored)

\* The list that was read by the time of a write.
Reads(t) ==
    /\ UNCHANGED <<rows, unused, hash>>
    /\ req[t].pc # "answered" /\ req'[t].pc = "write"
    /\ req'[t].read = rows /\ req'[t].outcome # "ok"

\* A commit: one row is written, from the list that was read.
Commits(t, i, row) ==
    /\ At(t, "write") /\ req'[t].pc = "answered" /\ req'[t].outcome = "ok"
    /\ req'[t].applied
    /\ rows' = [rows EXCEPT ![i] = row]
    /\ hash' = HashAfter(t, i, row)

\* A refused or failed request leaves the rows, and an answer that is not "ok";
\* or it is to read again.
Declines(t) ==
    /\ UNCHANGED <<rows, unused, hash>>
    /\ req'[t].pc = "answered" \/ (req'[t].pc = "reread" /\ req[t].pc = "write")
    /\ req'[t].outcome # "ok"
    /\ req[t].pc # "answered" => ~req'[t].applied
    /\ req[t].pc = "answered" =>
          req'[t].pc = "answered" /\ (req'[t].applied = req[t].applied)

LEMMA AnswersMove ==
  ASSUME Typed, NEW t \in Tabs, req[t] # NoRequest,
         NEW o \in Outcomes, NEW a \in BOOLEAN, AnswerWith(t, o, a)
  PROVE  /\ Moved(t) /\ req'[t].pc = "answered" /\ req'[t].outcome = o
         /\ (req'[t].applied = a)
<1>1. req[t] \in Request
  BY DEF Typed, TypeOK
<1>2. PICK n : n = Answered(req[t], o, a)
  OBVIOUS
<1>3. n.known = req[t].known /\ (n.restored = req[t].restored)
  BY <1>1, <1>2, AnswersAreTyped
<1>5. (n.applied = a)
  BY <1>1, <1>2, AnswersAreTyped
<1>4. /\ \A s \in Tabs \ {t} : req'[s] = req[s]
      /\ req'[t] = n /\ req'[t] # NoRequest
      /\ req'[t].pc = "answered" /\ req'[t].op = req[t].op /\ req'[t].outcome = o
  BY <1>2, AnswersMoveOne
<1>6. (req'[t].applied = a)
  BY <1>4, <1>5
<1> QED
  BY <1>3, <1>4, <1>6 DEF Moved

HandlerEffect(t) ==
    /\ Moved(t) /\ UNCHANGED <<others, gestures, page>>
    /\ \/ Reads(t)
       \/ Declines(t)
       \/ /\ req[t].op.type = "create"
          /\ \E i \in unused :
                /\ ~NameTaken(rows, req[t].op.name, i)
                /\ unused' = unused \ {i}
                /\ Commits(t, i, [name |-> req[t].op.name,
                                  data |-> req[t].op.data, version |-> 1])
       \/ /\ req[t].op.type \in {"save", "rename", "key"}
          /\ rows[req[t].op.id] # NoRow
          /\ rows[req[t].op.id].version = ExpectedVersion(t)
          /\ rows[req[t].op.id].version < MaxVersion
          /\ ~NameTaken(rows, Written(t).name, req[t].op.id)
          /\ UNCHANGED unused
          /\ Commits(t, req[t].op.id, Written(t))
       \/ /\ req[t].op.type = "delete"
          /\ UNCHANGED unused
          /\ Commits(t, req[t].op.id, NoRow)

\* Every step of a handler has such an effect.
LEMMA HandlersHaveEffect ==
  ASSUME Typed, NEW t \in Tabs, Handles(t)
  PROVE  HandlerEffect(t)
<1>0. req[t] # NoRequest /\ req[t] \in Request /\ req[t].op \in Ops
      /\ req \in [Tabs -> Request \cup {NoRequest}]
  BY DEF Handles, Enter, Reread, Update, Remove, Fail, Insert, At, Typed, TypeOK, Request
<1>1. \A o \in Outcomes : \A a \in BOOLEAN :
        AnswerWith(t, o, a) => /\ Moved(t) /\ req'[t].pc = "answered"
                               /\ req'[t].outcome = o /\ (req'[t].applied = a)
  BY <1>0, AnswersMove
<1>2. ASSUME NEW o \in Outcomes, Answer(t, o)
      PROVE  /\ Moved(t) /\ req'[t].pc = "answered" /\ req'[t].outcome = o
             /\ (req'[t].applied <=> o = "ok")
  <2>1. PICK a \in BOOLEAN : AnswerWith(t, o, a) /\ (a <=> o = "ok")
    <3>1. (o = "ok") \in BOOLEAN
      OBVIOUS
    <3> QED
      BY <1>2, <3>1 DEF Answer
  <2>2. /\ Moved(t) /\ req'[t].pc = "answered" /\ req'[t].outcome = o
        /\ (req'[t].applied = a)
    BY <1>1, <2>1
  <2> QED
    BY <2>1, <2>2
<1>3. ASSUME NEW o \in Outcomes \ {"ok"}, Answer(t, o), req[t].pc # "answered",
             UNCHANGED <<rows, unused, hash>>
      PROVE  Moved(t) /\ Declines(t)
  <2>1. /\ Moved(t) /\ req'[t].pc = "answered" /\ req'[t].outcome = o
        /\ (req'[t].applied <=> o = "ok")
    BY <1>2, <1>3
  <2> QED
    BY <1>3, <2>1 DEF Declines
<1>4. {"ok", "name_conflict", "not_found", "version_conflict", "error"} \subseteq Outcomes
  BY DEF Outcomes
<1>5. ASSUME Enter(t) PROVE HandlerEffect(t)
  <2>1. UNCHANGED <<rows, unused, hash, others, gestures, page>>
        /\ req[t].pc # "answered"
    BY <1>5 DEF Enter, At
  <2>2. CASE /\ req' = [req EXCEPT ![t].pc = "write", ![t].read = rows,
                                   ![t].attempt = 1]
    <3>1. PICK n : n = [req[t] EXCEPT !.pc = "write", !.read = rows, !.attempt = 1]
      OBVIOUS
    <3>2. /\ n.pc = "write" /\ n.op = req[t].op /\ n.read = rows
          /\ n.known = req[t].known /\ n.outcome = req[t].outcome
      BY <1>0, <3>1 DEF Request
    <3>6. req[t].outcome # "ok"
      BY <1>0, <1>5 DEF Enter, At, Typed, Progress
    <3>3. (n.restored = req[t].restored)
      BY <1>0, <3>1 DEF Request
    <3>4. n \in Request
      <4>1. 1 \in 0 .. Attempts /\ rows \in [Ids -> Row \cup {NoRow}]
        BY BoundsAreNatural DEF Typed, TypeOK
      <4> QED
        BY <1>0, <3>1, <4>1 DEF Request
    <3>5. req' = [req EXCEPT ![t] = n]
      BY <2>2, <3>1
    <3> QED
      BY <1>0, <2>1, <3>2, <3>3, <3>4, <3>5, <3>6, NullsAreNone DEF Moved, Reads, HandlerEffect
  <2>3. CASE Answer(t, Refusal(rows, req[t].op)) /\ Refusal(rows, req[t].op) # "none"
    <3>1. Refusal(rows, req[t].op) \in Outcomes \ {"ok"}
      BY <1>0, OpsAreTyped DEF Refusal, Outcomes
    <3> QED
      BY <1>3, <2>1, <2>3, <3>1 DEF HandlerEffect
  <2> QED
    BY <1>5, <2>2, <2>3 DEF Enter
<1>6. ASSUME Reread(t) PROVE HandlerEffect(t)
  <2>1. UNCHANGED <<rows, unused, hash, others, gestures, page>>
        /\ req[t].pc # "answered"
    BY <1>6 DEF Reread, At
  <2>2. CASE req' = [req EXCEPT ![t].pc = "write", ![t].read = rows, ![t].attempt = @ + 1]
    <3>1. PICK n : n = [req[t] EXCEPT !.pc = "write", !.read = rows, !.attempt = @ + 1]
      OBVIOUS
    <3>2. /\ n.pc = "write" /\ n.op = req[t].op /\ n.read = rows
          /\ n.known = req[t].known /\ n.outcome = req[t].outcome
      BY <1>0, <3>1 DEF Request
    <3>6. req[t].outcome # "ok"
      BY <1>0, <1>6 DEF Reread, At, Typed, Progress
    <3>3. (n.restored = req[t].restored)
      BY <1>0, <3>1 DEF Request
    <3>4. n \in Request
      <4>1. req[t].attempt + 1 \in 0 .. Attempts /\ rows \in [Ids -> Row \cup {NoRow}]
        BY <1>0, <1>6, BoundsAreNatural DEF Reread, At, Typed, TypeOK, Progress, Request
      <4> QED
        BY <1>0, <3>1, <4>1 DEF Request
    <3>5. req' = [req EXCEPT ![t] = n]
      BY <2>2, <3>1
    <3> QED
      BY <1>0, <2>1, <3>2, <3>3, <3>4, <3>5, <3>6, NullsAreNone DEF Moved, Reads, HandlerEffect
  <2>3. CASE Answer(t, "not_found")
    BY <1>3, <1>4, <2>1, <2>3 DEF HandlerEffect
  <2> QED
    BY <1>6, <2>2, <2>3 DEF Reread
<1>7. ASSUME NEW i \in Ids, Insert(t, i) PROVE HandlerEffect(t)
  <2>1. At(t, "write") /\ req[t].op.type = "create" /\ i \in unused
        /\ UNCHANGED <<others, gestures, page>> /\ req[t].pc # "answered"
    BY <1>7 DEF Insert, At
  <2>2. CASE /\ ~NameTaken(rows, req[t].op.name, i) /\ unused' = unused \ {i}
             /\ Answer(t, "ok")
             /\ rows' = [rows EXCEPT ![i] = [name |-> req[t].op.name,
                                             data |-> req[t].op.data, version |-> 1]]
             /\ hash' = HashAfter(t, i, [name |-> req[t].op.name,
                                         data |-> req[t].op.data, version |-> 1])
    BY <1>2, <1>4, <2>1, <2>2 DEF Commits, HandlerEffect
  <2>3. CASE Answer(t, "name_conflict") /\ UNCHANGED <<rows, unused, hash>>
    BY <1>3, <1>4, <2>1, <2>3 DEF HandlerEffect
  <2> QED
    BY <1>7, <2>2, <2>3 DEF Insert
<1>8. ASSUME Update(t) PROVE HandlerEffect(t)
  <2>1. At(t, "write") /\ req[t].op.type \in {"save", "rename", "key"}
        /\ UNCHANGED <<unused, others, gestures, page>> /\ req[t].pc # "answered"
    BY <1>8 DEF Update, At
  <2>2. CASE /\ rows[req[t].op.id] # NoRow
             /\ rows[req[t].op.id].version = ExpectedVersion(t)
             /\ rows[req[t].op.id].version < MaxVersion
             /\ ~NameTaken(rows, Written(t).name, req[t].op.id)
             /\ rows' = [rows EXCEPT ![req[t].op.id] = Written(t)]
             /\ hash' = HashAfter(t, req[t].op.id, Written(t))
             /\ Answer(t, "ok")
    BY <1>2, <1>4, <2>1, <2>2 DEF Commits, HandlerEffect
  <2>3. CASE /\ Answer(t, "name_conflict") \/ Answer(t, "not_found") \/ Answer(t, "version_conflict")
             /\ UNCHANGED <<rows, hash>>
    BY <1>3, <1>4, <2>1, <2>3 DEF HandlerEffect
  <2>4. CASE req' = [req EXCEPT ![t].pc = "reread"] /\ UNCHANGED <<rows, hash>>
    <3>1. PICK n : n = [req[t] EXCEPT !.pc = "reread"]
      OBVIOUS
    <3>2. n \in Request /\ n.pc = "reread" /\ n.op = req[t].op /\ n.known = req[t].known
          /\ n.outcome = req[t].outcome
      BY <1>0, <3>1 DEF Request
    <3>3. (n.restored = req[t].restored)
      BY <1>0, <3>1 DEF Request
    <3>4. req' = [req EXCEPT ![t] = n]
      BY <2>4, <3>1
    <3>5. req[t].outcome # "ok" /\ ~req[t].applied
      BY <2>1 DEF At, Typed, Progress
    <3>6. ~n.applied
      <4>1. (n.applied = req[t].applied)
        BY <1>0, <3>1 DEF Request
      <4> QED
        BY <3>5, <4>1
    <3> QED
      BY <1>0, <2>1, <2>4, <3>2, <3>3, <3>4, <3>5, <3>6, NullsAreNone DEF Moved, Declines, At, HandlerEffect
  <2> QED
    BY <1>8, <2>2, <2>3, <2>4 DEF Update
<1>9. ASSUME Remove(t) PROVE HandlerEffect(t)
  <2>1. At(t, "write") /\ req[t].op.type = "delete" /\ Answer(t, "ok")
        /\ UNCHANGED <<unused, others, gestures, page>>
        /\ rows' = [rows EXCEPT ![req[t].op.id] = NoRow]
        /\ hash' = HashAfter(t, req[t].op.id, NoRow)
    BY <1>9 DEF Remove
  <2> QED
    BY <1>2, <1>4, <2>1 DEF Commits, HandlerEffect
<1>10. ASSUME Fail(t) PROVE HandlerEffect(t)
  <2>1. AnswerWith(t, "error", req[t].applied)
        /\ UNCHANGED <<rows, unused, hash, others, gestures, page>>
    BY <1>10 DEF Fail
  <2>2. req[t].applied \in BOOLEAN
    BY <1>0 DEF Request
  <2>3. /\ Moved(t) /\ req'[t].pc = "answered" /\ req'[t].outcome = "error"
        /\ (req'[t].applied = req[t].applied)
    BY <1>1, <1>4, <2>1, <2>2
  <2>4. req[t].pc # "answered" => ~req[t].applied
    BY <1>0 DEF Typed, Progress
  <2> QED
    BY <2>1, <2>3, <2>4 DEF Declines, HandlerEffect
<1> QED
  BY <1>5, <1>6, <1>7, <1>8, <1>9, <1>10 DEF Handles

-----------------------------------------------------------------------------
(* The content hash *)

\* Whoever is about to write has read what is stored: nobody else has written
\* since, as long as all writers take the lock.
HashInv ==
    others.old = 0 =>
      /\ hash = HashOf(rows)
      /\ \A t \in Tabs : At(t, "write") => req[t].read = rows

\* HashInv is inductive: the write lock keeps other handlers from writing
\* between the read and the commit, a synchronization takes it as well.
LEMMA HashSteps ==
  ASSUME Typed, HashInv, [Next]_vars
  PROVE  HashInv'
<1>1. ASSUME NEW t \in Tabs, Handles(t) PROVE HashInv'
  <2>1. HandlerEffect(t)
    BY <1>1, HandlersHaveEffect
  <2>2. Moved(t) /\ others' = others
    BY <2>1 DEF HandlerEffect
  <2>3. CASE Reads(t) \/ Declines(t)
    BY <2>2, <2>3 DEF Reads, Declines, Moved, HashInv, At
  <2>4. ASSUME NEW i \in Ids, NEW row, Commits(t, i, row) PROVE HashInv'
    <3>1. lock = t /\ \A s \in Tabs \ {t} : ~At(s, "write")
      BY <2>4 DEF Commits, Typed, Progress
    <3>2. \A s \in Tabs : ~At(s, "write")'
      BY <2>2, <2>4, <3>1 DEF Commits, Moved, At
    <3>3. others.old = 0 => req[t].read = rows
      BY <2>4 DEF Commits, HashInv
    <3> QED
      BY <2>2, <2>4, <3>2, <3>3 DEF Commits, HashInv, HashAfter
  <2>5. req[t] # NoRequest => req[t].op \in Ops
    BY DEF Typed, TypeOK, Request
  <2>6. unused \subseteq Ids
    BY DEF Typed, TypeOK
  <2>7. req[t].op.type \in {"save", "rename", "key", "delete"} => req[t].op.id \in Ids
    BY <2>2, <2>5, OpsAreTyped DEF Moved
  <2> QED
    BY <2>1, <2>3, <2>4, <2>6, <2>7 DEF HandlerEffect
<1>2. ASSUME Replace PROVE HashInv'
  <2>1. \A s \in Tabs : ~At(s, "write")
    BY <1>2, NamedNulls DEF Replace, Typed, Progress
  <2> QED
    BY <1>2, <2>1 DEF Replace, HashInv, At
<1>3. ASSUME NEW i \in Ids, OldReplicaWrites(i) PROVE HashInv'
  <2>1. others'.old # 0
    BY <1>3 DEF OldReplicaWrites, Typed, TypeOK
  <2> QED
    BY <2>1 DEF HashInv
<1>4. ASSUME PageStep PROVE HashInv'
  <2>1. \A s \in Tabs : At(s, "write")' => At(s, "write") /\ req'[s] = req[s]
    BY <1>4 DEF PageStep, PageRequests, Sent, At, Typed, TypeOK
  <2> QED
    BY <1>4, <2>1 DEF PageStep, server, HashInv
<1> QED
  BY <1>1, <1>2, <1>3, <1>4, StepsAreOfThreeKinds DEF OthersStep

\* The stored hash is always that of the stored secrets, as long as no old
\* replica writes without the lock.
THEOREM HashesDescribeRows == Spec => []HashMatchesRows
<1>1. Init => HashInv
  BY DEF Init, HashInv, At
<1>2. Typed /\ HashInv /\ [Next]_vars => HashInv'
  BY HashSteps
<1>3. HashInv => HashMatchesRows
  BY DEF HashInv, HashMatchesRows
<1> QED
  BY <1>1, <1>2, <1>3, AlwaysTyped, PTL DEF Spec

-----------------------------------------------------------------------------
(* Informed saves *)

\* The version of an editor is the one its user was shown, and a save carries it.
Shown ==
    \A t \in Tabs :
       /\ Editing(t) /\ ~editor[t].restored => editor[t].known = editor[t].version
       /\ req[t] # NoRequest /\ req[t].op.type = "save" /\ ~req[t].restored
          => req[t].known = req[t].op.version

\* Shown is inductive.
LEMMA ShownSteps ==
  ASSUME Typed, Shown, [Next]_vars
  PROVE  Shown'
<1>1. ASSUME NEW t \in Tabs, Handles(t) PROVE Shown'
  <2>1. Moved(t) /\ UNCHANGED page
    BY <1>1, HandlersHaveEffect DEF HandlerEffect
  <2> QED
    BY <2>1 DEF Moved, page, account, Shown, Editing, Open
<1>2. ASSUME OthersStep PROVE Shown'
  BY <1>2 DEF OthersStep, Replace, OldReplicaWrites, page, account, Shown, Editing, Open
<1>3. ASSUME PageStep PROVE Shown'
  <2>1. ASSUME NEW s \in Tabs, Editing(s)', ~editor'[s].restored
        PROVE  editor'[s].known = editor'[s].version
    BY <1>3, <2>1 DEF PageStep, PageEditors, SameContent, Shown, Editing, Open
  <2>2. ASSUME NEW s \in Tabs, req'[s] # NoRequest, req'[s].op.type = "save",
               ~req'[s].restored
        PROVE  req'[s].known = req'[s].op.version
    <3>1. \/ req'[s] = req[s]
          \/ Sent(s, req'[s])
      BY <1>3, <2>2 DEF PageStep, PageRequests, Typed, TypeOK
    <3>2. CASE req'[s] = req[s]
      BY <2>2, <3>2 DEF Shown
    <3>3. CASE Sent(s, req'[s])
      <4>1. /\ Editing(s) /\ req'[s].op.version = editor[s].version
            /\ req'[s].known = editor[s].known /\ (req'[s].restored = editor[s].restored)
        <5>1. \/ req'[s].op.type \in {"create", "key", "delete"}
              \/ req'[s].op.type = "rename"
              \/ /\ Editing(s) /\ req'[s].op.version = editor[s].version
                 /\ req'[s].known = editor[s].known
                 /\ (req'[s].restored = editor[s].restored)
          BY <3>3 DEF Sent
        <5> QED
          BY <2>2, <5>1
      <4>2. ~editor[s].restored
        BY <2>2, <4>1
      <4> QED
        BY <4>1, <4>2 DEF Shown
    <3> QED
      BY <3>1, <3>2, <3>3
  <2> QED
    BY <2>1, <2>2 DEF Shown
<1> QED
  BY <1>1, <1>2, <1>3, StepsAreOfThreeKinds

\* A save is committed over the version it carries.
LEMMA SavesHaveTheirVersion ==
  ASSUME Typed, [Next]_vars, NEW t \in Tabs, CommitsSave(t)
  PROVE  req[t].op.version = rows[req[t].op.id].version
<1>1. req[t] # NoRequest /\ req[t].pc = "write" /\ req[t].outcome # "ok"
      /\ req[t].op.type = "save" /\ req'[t].outcome = "ok" /\ req'[t] # NoRequest
  BY DEF CommitsSave, At, Typed, Progress
<1>2. ASSUME NEW s \in Tabs, Handles(s)
      PROVE  req[t].op.version = rows[req[t].op.id].version
  <2>1. HandlerEffect(s)
    BY <1>2, HandlersHaveEffect
  <2>2. s = t
    BY <1>1, <2>1 DEF HandlerEffect, Moved
  <2>3. ~Reads(t)
    BY <1>1 DEF Reads
  <2>4. ~Declines(t)
    BY <1>1 DEF Declines
  <2>5. rows[req[t].op.id].version = ExpectedVersion(t)
    BY <1>1, <2>1, <2>2, <2>3, <2>4 DEF HandlerEffect
  <2> QED
    BY <1>1, <2>5 DEF ExpectedVersion
<1>3. ASSUME OthersStep PROVE FALSE
  BY <1>1, <1>3 DEF OthersStep, Replace, OldReplicaWrites
<1>4. ASSUME PageStep PROVE FALSE
  BY <1>1, <1>4 DEF PageStep, PageRequests, Sent, Typed, TypeOK
<1> QED
  BY <1>2, <1>3, <1>4, StepsAreOfThreeKinds

\* A committed save replaces the version its user has seen, restored drafts
\* apart.
THEOREM SavesReplaceWhatWasShown == Spec => SavesAreInformed
<1>1. Init => Shown
  BY DEF Init, Shown, Editing, Open
<1>2. Typed /\ Shown /\ [Next]_vars => Shown'
  BY ShownSteps
<1>3. Typed /\ Shown /\ [Next]_vars =>
        [\A t \in Tabs : CommitsSave(t) /\ ~req[t].restored
                         => req[t].known = rows[req[t].op.id].version]_vars
  <2> SUFFICES ASSUME Typed, Shown, [Next]_vars, NEW t \in Tabs, CommitsSave(t),
                      ~req[t].restored
               PROVE  req[t].known = rows[req[t].op.id].version
    OBVIOUS
  <2>1. req[t].known = req[t].op.version
    BY DEF Shown, CommitsSave, At
  <2> QED
    BY <2>1, SavesHaveTheirVersion
<1> QED
  BY <1>1, <1>2, <1>3, AlwaysTyped, PTL DEF Spec, SavesAreInformed

-----------------------------------------------------------------------------
(* Versions only grow *)

\* An id never comes back, and every write of a row gives it a higher version.
RowsGrow ==
    \A i \in Ids \ unused :
       /\ i \notin unused'
       /\ rows'[i] # NoRow =>
             /\ rows[i] # NoRow
             /\ rows'[i] = rows[i] \/ rows[i].version < rows'[i].version

LEMMA RowsGrowWithWrites ==
  ASSUME Typed, [Next]_vars
  PROVE  RowsGrow
<1>0. /\ rows \in [Ids -> Row \cup {NoRow}] /\ unused \in SUBSET Ids
      /\ \A i \in Ids : rows[i] # NoRow => i \notin unused /\ rows[i].version \in Nat
  BY DEF Typed, TypeOK, Present, Table!Present, Row, Versions
<1>1. UNCHANGED <<rows, unused>> => RowsGrow
  BY DEF RowsGrow
<1>2. ASSUME NEW t \in Tabs, Handles(t) PROVE RowsGrow
  <2>1. HandlerEffect(t)
    BY <1>2, HandlersHaveEffect
  <2>2. req[t] # NoRequest /\ req[t].op \in Ops
    BY <2>1 DEF HandlerEffect, Moved, Typed, TypeOK, Request
  <2>3. CASE Reads(t) \/ Declines(t)
    BY <1>1, <2>3 DEF Reads, Declines
  <2>4. CASE \E i \in unused, row \in Row : unused' = unused \ {i} /\ Commits(t, i, row)
    BY <1>0, <2>4 DEF Commits, RowsGrow
  <2>5. CASE /\ req[t].op.type \in {"save", "rename", "key"}
             /\ rows[req[t].op.id] # NoRow /\ rows[req[t].op.id].version < MaxVersion
             /\ UNCHANGED unused /\ Commits(t, req[t].op.id, Written(t))
    <3>1. req[t].op.id \in Ids
      BY <2>2, <2>5, OpsAreTyped
    <3>2. Written(t).version = rows[req[t].op.id].version + 1
      BY <2>5, WrittenIsTyped DEF Commits
    <3>3. rows[req[t].op.id].version < Written(t).version
      BY <1>0, <2>5, <3>1, <3>2
    <3> QED
      BY <1>0, <2>5, <3>1, <3>3 DEF Commits, RowsGrow
  <2>6. CASE /\ req[t].op.type = "delete"
             /\ UNCHANGED unused /\ Commits(t, req[t].op.id, NoRow)
    <3>1. req[t].op.id \in Ids
      BY <2>2, <2>6, OpsAreTyped
    <3> QED
      BY <1>0, <2>6, <3>1 DEF Commits, RowsGrow
  <2>7. req[t].op.type = "create" =>
          [name |-> req[t].op.name, data |-> req[t].op.data, version |-> 1] \in Row
    BY <2>2, OpsAreTyped, BoundsAreNatural DEF Row, Versions
  <2> QED
    BY <2>1, <2>3, <2>4, <2>5, <2>6, <2>7 DEF HandlerEffect
<1>3. ASSUME Replace PROVE RowsGrow
  <2>1. PICK S \in SUBSET unused :
          /\ \E f \in [S -> [name : Names, data : Data, version : {1}]] :
                rows' = [i \in Ids |-> IF i \in S THEN f[i] ELSE NoRow]
          /\ unused' = unused \ S
    BY <1>3 DEF Replace
  <2>2. \A i \in Ids \ unused : rows'[i] = NoRow /\ i \notin unused'
    BY <1>0, <2>1
  <2> QED
    BY <2>2 DEF RowsGrow
<1>4. ASSUME NEW i \in Ids, OldReplicaWrites(i) PROVE RowsGrow
  <2>1. rows[i] \in Row /\ rows[i] # NoRow /\ i \notin unused /\ unused' = unused
    BY <1>0, <1>4 DEF OldReplicaWrites, Present, Table!Present
  <2>2. CASE rows' = [rows EXCEPT ![i] = NoRow]
    BY <1>0, <2>1, <2>2 DEF RowsGrow
  <2>3. CASE \E op \in Ops : op.type \in {"rename", "key"} /\ WritesOver(i, op)
    <3> PICK op \in Ops : op.type \in {"rename", "key"} /\ WritesOver(i, op)
      BY <2>3
    <3>1. rows' = [rows EXCEPT ![i] = Table!Changed(rows[i], op)]
      BY DEF WritesOver
    <3>2. Table!Changed(rows[i], op).version = rows[i].version + 1
      BY <2>1, ChangesAreTyped
    <3>3. rows[i].version < Table!Changed(rows[i], op).version
      BY <1>0, <2>1, <3>2
    <3> QED
      BY <1>0, <2>1, <3>1, <3>3 DEF RowsGrow
  <2>4. \/ rows' = [rows EXCEPT ![i] = NoRow]
        \/ \E op \in Ops : op.type \in {"rename", "key"} /\ WritesOver(i, op)
    BY <1>4, OldWritesAreOps
  <2> QED
    BY <2>2, <2>3, <2>4
<1>5. ASSUME PageStep PROVE RowsGrow
  BY <1>1, <1>5 DEF PageStep, server
<1> QED
  BY <1>2, <1>3, <1>4, <1>5, StepsAreOfThreeKinds DEF OthersStep

\* A version that somebody holds: not newer than the row, which is of that id.
Held(i, v) == i \notin unused /\ (rows[i] # NoRow => v <= rows[i].version)

\* A row that a handler has read: a former state of the row it still is.
Former(i, row) ==
    /\ i \notin unused
    /\ rows[i] # NoRow => row = rows[i] \/ row.version < rows[i].version

Carries(t, n) == n.op.type \in {"save", "rename"} => Held(n.op.id, n.op.version)

VersionInv ==
    \A t \in Tabs :
       /\ Editing(t) => Held(editor[t].id, editor[t].version)
       /\ req[t] # NoRequest => Carries(t, req[t])
       /\ At(t, "write") =>
             /\ \A i \in Ids : req[t].read[i] # NoRow => Former(i, req[t].read[i])
             /\ req[t].op.type \in {"save", "rename"}
                => req[t].op.version <= req[t].read[req[t].op.id].version

LEMMA VersionsStayHeld ==
  ASSUME Typed, [Next]_vars, NEW i \in Ids
  PROVE  /\ \A v \in Versions : Held(i, v) => Held(i, v)'
         /\ \A row \in Row : Former(i, row) => Former(i, row)'
<1>1. rows[i] \in Row \cup {NoRow} /\ rows'[i] \in Row \cup {NoRow}
  BY StepsAreTyped DEF Typed, TypeOK
<1>2. RowsGrow
  BY RowsGrowWithWrites
<1>3. ASSUME NEW v \in Versions, Held(i, v) PROVE Held(i, v)'
  BY <1>1, <1>2, <1>3, BoundsAreNatural DEF Held, RowsGrow, Row, Versions
<1>4. ASSUME NEW row \in Row, Former(i, row) PROVE Former(i, row)'
  BY <1>1, <1>2, <1>4, BoundsAreNatural DEF Former, RowsGrow, Row, Versions
<1> QED
  BY <1>3, <1>4

\* The parts of VersionInv, for one tab.
EditorHeld(t) == Editing(t) => Held(editor[t].id, editor[t].version)
RequestHeld(t) ==
    req[t] # NoRequest /\ req[t].op.type \in {"save", "rename"}
    => Held(req[t].op.id, req[t].op.version)
ReadsFormer(t) ==
    At(t, "write") =>
      \A i \in Ids : req[t].read[i] # NoRow => Former(i, req[t].read[i])
OpsBeforeReads(t) ==
    At(t, "write") /\ req[t].op.type \in {"save", "rename"}
    => req[t].op.version <= req[t].read[req[t].op.id].version

LEMMA VersionParts ==
  VersionInv <=> \A t \in Tabs : /\ EditorHeld(t) /\ RequestHeld(t)
                                 /\ ReadsFormer(t) /\ OpsBeforeReads(t)
BY DEF VersionInv, Carries, EditorHeld, RequestHeld, ReadsFormer, OpsBeforeReads, At

\* A tab whose request and editor do not change keeps its versions.
LEMMA RequestsStayHeld ==
  ASSUME Typed, VersionInv, [Next]_vars, NEW t \in Tabs
  PROVE  /\ editor'[t] = editor[t] => EditorHeld(t)'
         /\ req'[t] # NoRequest /\ req[t] # NoRequest /\ req'[t].op = req[t].op
            => RequestHeld(t)'
         /\ req'[t] = req[t] => ReadsFormer(t)' /\ OpsBeforeReads(t)'
<1>1. /\ EditorHeld(t) /\ RequestHeld(t) /\ ReadsFormer(t) /\ OpsBeforeReads(t)
  BY VersionParts
<1>2. /\ \A i \in Ids : \A v \in Versions : Held(i, v) => Held(i, v)'
      /\ \A i \in Ids : \A row \in Row : Former(i, row) => Former(i, row)'
  BY VersionsStayHeld
<1>3. Editing(t) => editor[t].id \in Ids /\ editor[t].version \in Versions
  BY DEF Typed, TypeOK, Progress, Editing, Open, Editor
<1>4. req[t] # NoRequest /\ req[t].op.type \in {"save", "rename"}
      => req[t].op.id \in Ids /\ req[t].op.version \in Versions
  <2>1. req[t] # NoRequest => req[t].op \in Ops
    BY DEF Typed, TypeOK, Request
  <2> QED
    BY <2>1, OpsAreTyped
<1>5. req[t] # NoRequest => req[t].read \in [Ids -> Row \cup {NoRow}]
  BY DEF Typed, TypeOK, Request
<1>6. editor'[t] = editor[t] => EditorHeld(t)'
  BY <1>1, <1>2, <1>3 DEF EditorHeld, Editing, Open, Held
<1>7. req'[t] # NoRequest /\ req[t] # NoRequest /\ req'[t].op = req[t].op
      => RequestHeld(t)'
  BY <1>1, <1>2, <1>4 DEF RequestHeld, Held
<1>8. req'[t] = req[t] => ReadsFormer(t)'
  BY <1>1, <1>2, <1>5 DEF ReadsFormer, At, Former
<1>9. req'[t] = req[t] => OpsBeforeReads(t)'
  BY <1>1 DEF OpsBeforeReads, At
<1> QED
  BY <1>6, <1>7, <1>8, <1>9

\* VersionInv is inductive.
LEMMA VersionSteps ==
  ASSUME Typed, VersionInv, [Next]_vars
  PROVE  VersionInv'
<1> DEFINE Kept(s) == /\ EditorHeld(s)' /\ RequestHeld(s)'
                      /\ ReadsFormer(s)' /\ OpsBeforeReads(s)'
<1>0. Typed'
  BY StepsAreTyped
<1>1. ASSUME NEW t \in Tabs, Handles(t), NEW s \in Tabs PROVE Kept(s)
  <2>1. HandlerEffect(t)
    BY <1>1, HandlersHaveEffect
  <2>2. Moved(t) /\ editor'[s] = editor[s]
    BY <2>1 DEF HandlerEffect, page, account
  <2>3. CASE s # t
    <3>1. req'[s] = req[s]
      BY <2>2, <2>3 DEF Moved
    <3>2. req'[s] = NoRequest => RequestHeld(s)'
      BY DEF RequestHeld
    <3> QED
      BY <2>2, <3>1, <3>2, RequestsStayHeld
  <2>4. CASE s = t
    <3>1. EditorHeld(t)' /\ RequestHeld(t)'
      BY <2>2, <2>4, RequestsStayHeld DEF Moved
    <3>2. CASE Reads(t)
      <4>1. \A i \in Ids : rows[i] # NoRow => i \notin unused
        BY DEF Typed, TypeOK, Present, Table!Present
      <4>2. ReadsFormer(t)'
        BY <3>2, <4>1 DEF Reads, ReadsFormer, Former, At
      <4>3. OpsBeforeReads(t)'
        <5>1. ASSUME At(t, "write")', req'[t].op.type \in {"save", "rename"}
              PROVE  req'[t].op.version <= req'[t].read[req'[t].op.id].version
          <6>1. req'[t].read[req'[t].op.id] # NoRow
            BY <1>0, <5>1 DEF Typed, Progress
          <6>2. req'[t].read[req'[t].op.id] = rows'[req'[t].op.id]
            BY <3>2 DEF Reads
          <6> QED
            BY <2>2, <3>1, <5>1, <6>1, <6>2 DEF RequestHeld, Held, Moved
        <5> QED
          BY <5>1 DEF OpsBeforeReads
      <4> QED
        BY <2>4, <3>1, <4>2, <4>3
    <3>3. CASE ~Reads(t)
      <4>1. ~At(t, "write")'
        BY <2>1, <3>3 DEF HandlerEffect, Declines, Commits, At
      <4> QED
        BY <2>4, <3>1, <4>1 DEF ReadsFormer, OpsBeforeReads
    <3> QED
      BY <3>2, <3>3
  <2> QED
    BY <2>3, <2>4
<1>2. ASSUME OthersStep, NEW s \in Tabs PROVE Kept(s)
  <2>1. editor'[s] = editor[s] /\ req'[s] = req[s]
    BY <1>2 DEF OthersStep, Replace, OldReplicaWrites, page, account
  <2>2. req'[s] = NoRequest => RequestHeld(s)'
    BY DEF RequestHeld
  <2> QED
    BY <2>1, <2>2, RequestsStayHeld
<1>3. ASSUME PageStep, NEW s \in Tabs PROVE Kept(s)
  <2>1. UNCHANGED <<rows, unused>>
    BY <1>3 DEF PageStep, server
  <2>2. \A i \in Present(rows) : i \notin unused /\ rows[i].version \in Nat
    BY DEF Typed, TypeOK, Present, Table!Present, Row, Versions
  <2>3. EditorHeld(s)'
    <3>1. CASE editor'[s] = editor[s]
      BY <3>1, RequestsStayHeld
    <3>2. CASE editor'[s] = NoEditor \/ editor'[s].id = NewSecret
      BY <3>2 DEF EditorHeld, Editing, Open
    <3>3. CASE editor[s] # NoEditor /\ SameContent(editor'[s], editor[s])
      <4>1. EditorHeld(s)
        BY VersionParts
      <4> QED
        BY <2>1, <3>3, <4>1 DEF EditorHeld, Editing, Open, SameContent, Held
    <3>4. CASE /\ editor'[s].id \in Present(rows)
               /\ editor'[s].version = rows[editor'[s].id].version
      BY <2>1, <2>2, <3>4 DEF EditorHeld, Held
    <3> QED
      BY <1>3, <3>1, <3>2, <3>3, <3>4 DEF PageStep, PageEditors
  <2>4. req'[s] = req[s] \/ req'[s] = NoRequest \/ Sent(s, req'[s])
    BY <1>3 DEF PageStep, PageRequests, Typed, TypeOK
  <2>5. CASE req'[s] = req[s]
    <3>1. req'[s] = NoRequest => RequestHeld(s)'
      BY DEF RequestHeld
    <3> QED
      BY <2>3, <2>5, <3>1, RequestsStayHeld
  <2>6. CASE req'[s] = NoRequest
    BY <2>3, <2>6 DEF RequestHeld, ReadsFormer, OpsBeforeReads, At
  <2>7. CASE Sent(s, req'[s])
    <3>1. ReadsFormer(s)' /\ OpsBeforeReads(s)'
      BY <2>7 DEF Sent, ReadsFormer, OpsBeforeReads, At
    <3>2. CASE req'[s].op.type \in {"create", "key", "delete"}
      BY <2>3, <3>1, <3>2 DEF RequestHeld
    <3>3. CASE req'[s].op.id \in Present(rows) /\ req'[s].op.version = rows[req'[s].op.id].version
      BY <2>1, <2>2, <2>3, <3>1, <3>3 DEF RequestHeld, Held
    <3>4. CASE req[s] # NoRequest /\ req'[s].op = req[s].op
      <4>1. RequestHeld(s)
        BY VersionParts
      <4> QED
        BY <2>1, <2>3, <3>1, <3>4, <4>1 DEF RequestHeld, Held
    <3>5. CASE /\ Editing(s) /\ req'[s].op.id = editor[s].id
               /\ req'[s].op.version = editor[s].version
      <4>1. EditorHeld(s)
        BY VersionParts
      <4> QED
        BY <2>1, <2>3, <3>1, <3>5, <4>1 DEF EditorHeld, RequestHeld, Held
    <3> QED
      BY <2>7, <3>2, <3>3, <3>4, <3>5 DEF Sent
  <2> QED
    BY <2>4, <2>5, <2>6, <2>7
<1>4. \A s \in Tabs : Kept(s)
  BY <1>1, <1>2, <1>3, StepsAreOfThreeKinds
<1> QED
  BY <1>4, VersionParts DEF VersionInv, Carries, EditorHeld, RequestHeld, ReadsFormer,
     OpsBeforeReads, At

-----------------------------------------------------------------------------
(* Every step is one of SecretRows *)

\* The call that SecretRows sees of a request.
CallOf(q) ==
    IF q = NoRequest THEN NoRequest
    ELSE [op |-> q.op,
          status |-> IF q.pc # "answered" THEN "pending"
                     ELSE IF q.applied THEN "done" ELSE "refused"]

Calls == [t \in Tabs |-> CallOf(req[t])]

\* The row a handler has read is the one it writes over, if the version it
\* expects is still there.
LEMMA WritesAreChanges ==
  ASSUME Typed, VersionInv, NEW t \in Tabs, At(t, "write"),
         req[t].op.type \in {"save", "rename", "key"},
         rows[req[t].op.id] # NoRow,
         rows[req[t].op.id].version = ExpectedVersion(t)
  PROVE  Written(t) = Table!Changed(rows[req[t].op.id], req[t].op)
<1> DEFINE i == req[t].op.id
<1>1. req[t] \in Request /\ req[t].op \in Ops /\ i \in Ids
  BY OpsAreTyped DEF At, Typed, TypeOK, Request
<1>2. req[t].read[i] \in Row /\ rows[i] \in Row /\ req[t].read[i] # NoRow
  BY <1>1 DEF Typed, TypeOK, Progress, Request
<1>3. req[t].read[i] = rows[i] \/ req[t].read[i].version < rows[i].version
  BY <1>1, <1>2 DEF VersionInv, Former
<1>4. req[t].op.type \in {"save", "rename"} =>
        req[t].op.version <= req[t].read[i].version
  BY DEF VersionInv
<1>5. rows[i].version \in Nat /\ req[t].read[i].version \in Nat
  BY <1>2 DEF Row, Versions
<1>6. req[t].read[i] = rows[i]
  <2>1. rows[i].version <= req[t].read[i].version
    BY <1>4, <1>5 DEF ExpectedVersion
  <2> QED
    BY <1>3, <1>5, <2>1
<1>7. PICK n : n = Table!Changed(rows[i], req[t].op)
  OBVIOUS
<1>8. n \in [name : Names, data : Data, version : Nat] /\ n.version = rows[i].version + 1
  <2>1. n = [name |-> n.name, data |-> n.data, version |-> rows[i].version + 1]
    BY <1>1, <1>2, <1>7, ChangesAreTyped
  <2>2. n.name \in Names /\ n.data \in Data /\ n.version = rows[i].version + 1
    BY <1>1, <1>2, <1>7, ChangesAreTyped
  <2> QED
    BY <1>5, <2>1, <2>2
<1>9. [n EXCEPT !.version = n.version] = n
  BY <1>8
<1> QED
  BY <1>6, <1>7, <1>8, <1>9 DEF Written

LEMMA InitIsTableInit == Init => Table!Init
<1> SUFFICES ASSUME Init PROVE Table!Init
  OBVIOUS
<1>1. PICK S \in SUBSET Ids :
        \E f \in [S -> [name : Names, data : {EmptyData}, version : {1}]] :
           rows = [i \in Ids |-> IF i \in S THEN f[i] ELSE NoRow]
  BY DEF Init
<1>2. PICK f \in [S -> [name : Names, data : {EmptyData}, version : {1}]] :
        rows = [i \in Ids |-> IF i \in S THEN f[i] ELSE NoRow]
  BY <1>1
<1>3. \A i \in S : f[i] \in [name : Names, data : Table!Data, version : {1}]
  BY <1>2, DataIsTable DEF Data
<1>4. rows \in [Ids -> [name : Names, data : Table!Data, version : {1}] \cup {NoRow}]
  BY <1>2, <1>3
<1> QED
  BY <1>4 DEF Init, Table!Init

LEMMA CallsMove ==
  ASSUME req \in [Tabs -> Request \cup {NoRequest}], NEW t \in Tabs,
         \A s \in Tabs \ {t} : req'[s] = req[s]
  PROVE  Calls' = [Calls EXCEPT ![t] = CallOf(req'[t])]
BY DEF Calls

\* The actions of SecretRows in terms of Calls.
LEMMA TableActions ==
  ASSUME NEW t \in Tabs
  PROVE  /\ Calls' = Calls /\ UNCHANGED <<rows, others>> => UNCHANGED Table!vars
         /\ /\ Calls[t] = NoRequest \/ Calls[t].status # "pending"
            /\ Calls'[t] # NoRequest
            /\ Calls' = [Calls EXCEPT ![t] = [op |-> Calls'[t].op, status |-> "pending"]]
            /\ UNCHANGED <<rows, others>>
            => Table!Submit(t)
         /\ /\ Calls[t] # NoRequest /\ Calls[t].status = "pending"
            /\ Table!TakesEffect(Calls[t].op)
            /\ Calls' = [Calls EXCEPT ![t].status = "done"]
            /\ UNCHANGED others
            => Table!Apply(t)
         /\ /\ Calls[t] # NoRequest /\ Calls[t].status = "pending"
            /\ Calls' = [Calls EXCEPT ![t].status = "refused"]
            /\ UNCHANGED <<rows, others>>
            => Table!Refuse(t)
         /\ /\ Calls[t] # NoRequest
            /\ Calls' = [Calls EXCEPT ![t] = NoRequest]
            /\ UNCHANGED <<rows, others>>
            => Table!Return(t)
         /\ others' # others /\ Calls' = Calls => Table!Elsewhere
BY DEF Calls, CallOf, Table!vars, Table!Submit, Table!Apply, Table!Refuse,
       Table!Return, Table!Elsewhere

LEMMA CallsAre ==
  ASSUME NEW q \in Request, q # NoRequest
  PROVE  /\ CallOf(q) # NoRequest /\ CallOf(q).op = q.op
         /\ q.pc # "answered" => CallOf(q) = [op |-> q.op, status |-> "pending"]
         /\ q.pc = "answered" /\ q.applied => CallOf(q) = [op |-> q.op, status |-> "done"]
         /\ q.pc = "answered" /\ ~q.applied
            => CallOf(q) = [op |-> q.op, status |-> "refused"]
<1>1. q.op \in Ops
  BY DEF Request
<1>2. CallOf(q) \in [op : Ops, status : {"pending", "done", "refused"}]
  BY <1>1 DEF CallOf
<1> QED
  BY <1>2, NullsAreNone DEF CallOf

LEMMA StatusesChange ==
  ASSUME NEW o, NEW r, NEW c, c = [op |-> o, status |-> "pending"]
  PROVE  /\ [c EXCEPT !.status = r] = [op |-> o, status |-> r]
         /\ c.op = o /\ c.status = "pending"
OBVIOUS

\* A handler's step: its call takes effect, is refused, or goes on.
LEMMA HandlersAreTableSteps ==
  ASSUME Typed, VersionInv, Typed', NEW t \in Tabs, Handles(t)
  PROVE  Table!Apply(t) \/ Table!Refuse(t) \/ UNCHANGED Table!vars
<1>1. HandlerEffect(t)
  BY HandlersHaveEffect
<1>2. /\ Moved(t) /\ UNCHANGED others
      /\ req \in [Tabs -> Request \cup {NoRequest}]
      /\ req[t] \in Request /\ req[t] # NoRequest
      /\ req'[t] \in Request /\ req'[t] # NoRequest
      /\ req'[t].op = req[t].op /\ req[t].op \in Ops
  BY <1>1 DEF HandlerEffect, Moved, Typed, TypeOK, Request
<1>3. Calls' = [Calls EXCEPT ![t] = CallOf(req'[t])]
  BY <1>2, CallsMove DEF Moved
<1>4. Calls[t] = CallOf(req[t]) /\ Calls \in [Tabs -> {CallOf(req[s]) : s \in Tabs}]
  BY DEF Calls
<1>5. Calls' = Calls /\ UNCHANGED rows => UNCHANGED Table!vars
  BY <1>2, TableActions
<1>6. CallOf(req'[t]) = CallOf(req[t]) => Calls' = Calls
  BY <1>3, <1>4
<1>7. CASE Reads(t)
  <2>1. CallOf(req'[t]) = CallOf(req[t]) /\ UNCHANGED rows
    BY <1>2, <1>7, CallsAre DEF Reads
  <2> QED
    BY <1>5, <1>6, <2>1
<1>8. CASE Declines(t)
  <2>1. CASE req[t].pc = "answered"
    <3>1. CallOf(req'[t]) = CallOf(req[t])
      BY <1>2, <1>8, <2>1 DEF Declines, CallOf
    <3> QED
      BY <1>5, <1>6, <1>8, <3>1 DEF Declines
  <2>2. CASE req[t].pc # "answered" /\ req'[t].pc = "answered"
    <3>1. CallOf(req'[t]) = [op |-> req[t].op, status |-> "refused"]
      BY <1>2, <1>8, <2>2, CallsAre DEF Declines
    <3>2. CallOf(req[t]) = [op |-> req[t].op, status |-> "pending"] /\ CallOf(req[t]) # NoRequest
      BY <1>2, <2>2, CallsAre
    <3>3. /\ [Calls[t] EXCEPT !.status = "refused"] = CallOf(req'[t])
          /\ Calls[t].status = "pending" /\ Calls[t] # NoRequest
      BY <1>4, <3>1, <3>2, StatusesChange
    <3>4. Calls' = [Calls EXCEPT ![t].status = "refused"]
      BY <1>3, <3>3
    <3> QED
      BY <1>2, <1>8, <3>3, <3>4, TableActions DEF Declines
  <2>3. CASE req'[t].pc = "reread" /\ req[t].pc = "write"
    <3>1. CallOf(req'[t]) = CallOf(req[t])
      BY <1>2, <2>3, CallsAre
    <3> QED
      BY <1>5, <1>6, <1>8, <3>1 DEF Declines
  <2> QED
    BY <1>8, <2>1, <2>2, <2>3 DEF Declines
<1>9. ASSUME NEW i \in Ids, NEW row, Commits(t, i, row), Table!TakesEffect(req[t].op)
      PROVE  Table!Apply(t)
  <2>1. CallOf(req'[t]) = [op |-> req[t].op, status |-> "done"]
    BY <1>2, <1>9, CallsAre DEF Commits
  <2>2. /\ CallOf(req[t]) = [op |-> req[t].op, status |-> "pending"]
        /\ CallOf(req[t]) # NoRequest
    BY <1>2, <1>9, CallsAre DEF Commits, At
  <2>3. /\ [Calls[t] EXCEPT !.status = "done"] = CallOf(req'[t])
        /\ Calls[t].op = req[t].op /\ Calls[t].status = "pending"
    BY <1>4, <2>1, <2>2, StatusesChange
  <2>4. Calls' = [Calls EXCEPT ![t].status = "done"]
    BY <1>3, <2>3
  <2> QED
    BY <1>2, <1>4, <1>9, <2>2, <2>3, <2>4, TableActions
<1>10. CASE /\ req[t].op.type = "create"
            /\ \E i \in unused :
                  /\ ~NameTaken(rows, req[t].op.name, i)
                  /\ Commits(t, i, [name |-> req[t].op.name,
                                    data |-> req[t].op.data, version |-> 1])
  <2>1. PICK i \in unused :
          /\ ~NameTaken(rows, req[t].op.name, i)
          /\ Commits(t, i, [name |-> req[t].op.name,
                            data |-> req[t].op.data, version |-> 1])
    BY <1>10
  <2>2. i \in Ids /\ i \notin Table!Present(rows)
    BY DEF Typed, TypeOK, Present
  <2>3. \A j \in Table!Present(rows) : rows[j].name # req[t].op.name
    BY <2>1, <2>2 DEF NameTaken, Table!NameTaken
  <2>4. Table!TakesEffect(req[t].op)
    BY <1>10, <2>1, <2>2, <2>3 DEF Table!TakesEffect, Table!Admits, Commits
  <2> QED
    BY <1>9, <2>1, <2>2, <2>4
<1>11. CASE /\ req[t].op.type \in {"save", "rename", "key"}
            /\ rows[req[t].op.id] # NoRow
            /\ rows[req[t].op.id].version = ExpectedVersion(t)
            /\ ~NameTaken(rows, Written(t).name, req[t].op.id)
            /\ Commits(t, req[t].op.id, Written(t))
  <2> DEFINE i == req[t].op.id
  <2>1. i \in Ids /\ rows[i] \in Row
    BY <1>2, <1>11, OpsAreTyped DEF Typed, TypeOK
  <2>2. Written(t) = Table!Changed(rows[i], req[t].op)
    BY <1>11, WritesAreChanges DEF Commits
  <2>3. req[t].op.type # "key" => rows[i].version = req[t].op.version
    BY <1>11 DEF ExpectedVersion
  <2>4. req[t].op.type = "rename" => Written(t).name = req[t].op.name
    <3>1. req[t].op.type = "rename" => Table!Changed(rows[i], req[t].op).name = req[t].op.name
      BY <1>2, <2>1, ChangesAreTyped
    <3> QED
      BY <2>2, <3>1
  <2>5. Table!Admits(rows, req[t].op)
    BY <1>11, <2>3, <2>4 DEF Table!Admits, NameTaken
  <2>6. rows' = [rows EXCEPT ![i] = Table!Changed(rows[i], req[t].op)]
    BY <1>11, <2>2 DEF Commits
  <2>7. Table!TakesEffect(req[t].op)
    BY <1>11, <2>5, <2>6 DEF Table!TakesEffect
  <2> QED
    BY <1>9, <1>11, <2>1, <2>7
<1>12. CASE req[t].op.type = "delete" /\ Commits(t, req[t].op.id, NoRow)
  <2>1. req[t].op.id \in Ids
    BY <1>2, <1>12, OpsAreTyped
  <2>2. Table!Changed(rows[req[t].op.id], req[t].op) = NoRow
    BY <1>12 DEF Table!Changed
  <2>3. Table!TakesEffect(req[t].op)
    BY <1>12, <2>2 DEF Table!TakesEffect, Table!Admits, Commits
  <2> QED
    BY <1>9, <1>12, <2>1, <2>3
<1> QED
  BY <1>1, <1>7, <1>8, <1>10, <1>11, <1>12 DEF HandlerEffect

\* A page submits a call, returns from one, or does nothing to the table.
LEMMA PagesAreTableSteps ==
  ASSUME Typed, PageStep
  PROVE  (\E t \in Tabs : Table!Submit(t) \/ Table!Return(t)) \/ UNCHANGED Table!vars
<1>1. UNCHANGED <<rows, others>> /\ PageRequests
      /\ req \in [Tabs -> Request \cup {NoRequest}]
  BY DEF PageStep, server, Typed, TypeOK
<1>2. \A s \in Tabs : req[s] # NoRequest => CallOf(req[s]) # NoRequest /\ Calls[s] = CallOf(req[s])
  BY <1>1, CallsAre DEF Calls
<1>3. CASE req' = req
  BY <1>1, <1>3 DEF Table!vars
<1>4. ASSUME NEW t \in Tabs, req[t] # NoRequest, req' = [req EXCEPT ![t] = NoRequest]
      PROVE  Table!Return(t)
  <2>1. req'[t] = NoRequest /\ \A s \in Tabs \ {t} : req'[s] = req[s]
    BY <1>1, <1>4
  <2>2. Calls' = [Calls EXCEPT ![t] = CallOf(req'[t])]
    BY <1>1, <2>1, CallsMove
  <2>3. CallOf(req'[t]) = NoRequest
    BY <2>1 DEF CallOf
  <2> QED
    BY <1>1, <1>2, <1>4, <2>2, <2>3, TableActions
<1>5. ASSUME NEW t \in Tabs, NEW n \in Request,
             req[t] = NoRequest \/ req[t].pc = "answered",
             req' = [req EXCEPT ![t] = n], Sent(t, n)
      PROVE  Table!Submit(t)
  <2>1. req'[t] = n /\ \A s \in Tabs \ {t} : req'[s] = req[s]
    BY <1>1, <1>5
  <2>2. Calls' = [Calls EXCEPT ![t] = CallOf(n)]
    BY <1>1, <2>1, CallsMove
  <2>3. CallOf(n) = [op |-> n.op, status |-> "pending"] /\ CallOf(n) # NoRequest
    BY <1>5, CallsAre, NullsAreNone DEF Sent
  <2>4. Calls[t] = NoRequest \/ Calls[t].status # "pending"
    BY <1>1, <1>5 DEF Calls, CallOf
  <2>5. Calls'[t] = CallOf(n)
    BY <2>1 DEF Calls
  <2>6. CallOf(n).op = n.op
    BY <2>3
  <2>7. Calls' = [Calls EXCEPT ![t] = [op |-> Calls'[t].op, status |-> "pending"]]
    BY <2>2, <2>3, <2>5, <2>6
  <2> QED
    BY <1>1, <2>3, <2>4, <2>5, <2>7, TableActions
<1> QED
  BY <1>1, <1>3, <1>4, <1>5 DEF PageRequests

LEMMA OthersAreTableSteps ==
  ASSUME Typed, OthersStep
  PROVE  Table!Elsewhere
<1>1. Calls' = Calls
  BY DEF OthersStep, Replace, OldReplicaWrites, Calls
<1>2. others' # others
  <2>1. others \in [sync : 0 .. MaxOthers, old : 0 .. MaxOthers]
    BY DEF Typed, TypeOK
  <2>2. others'.sync = others.sync + 1 \/ others'.old = others.old + 1
    BY <2>1 DEF OthersStep, Replace, OldReplicaWrites
  <2>3. others.sync \in Nat /\ others.old \in Nat
    BY <2>1, BoundsAreNatural
  <2> QED
    BY <2>2, <2>3
<1> QED
  BY <1>1, <1>2 DEF Calls, CallOf, Table!Elsewhere

\* Whatever the list that a handler has read, the locks, the retries and the
\* other writers, every call takes effect at one moment on the rows as they
\* are then, or not at all: the specification implements that of SecretRows.
THEOREM TableIsRefined == Spec => RefinesTable
<1>1. Init => VersionInv /\ Table!Init
  BY InitIsTableInit DEF Init, VersionInv, Editing, Open, At
<1>2. Typed /\ VersionInv /\ [Next]_vars => VersionInv'
  BY VersionSteps
<1>3. Typed /\ VersionInv /\ [Next]_vars => [Table!Next]_(Table!vars)
  <2> SUFFICES ASSUME Typed, VersionInv, [Next]_vars
               PROVE  [Table!Next]_(Table!vars)
    OBVIOUS
  <2>1. ASSUME NEW t \in Tabs, Handles(t) PROVE [Table!Next]_(Table!vars)
    BY <2>1, StepsAreTyped, HandlersAreTableSteps DEF Table!Next
  <2>2. CASE OthersStep
    BY <2>2, OthersAreTableSteps DEF Table!Next
  <2>3. CASE PageStep
    BY <2>3, PagesAreTableSteps DEF Table!Next
  <2> QED
    BY <2>1, <2>2, <2>3, StepsAreOfThreeKinds
<1> QED
  BY <1>1, <1>2, <1>3, AlwaysTyped, PTL DEF Spec, RefinesTable, Table!Spec
=============================================================================
