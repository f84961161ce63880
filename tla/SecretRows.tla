----------------------------- MODULE SecretRows -----------------------------
(***************************************************************************)
(* What the secrets routes promise about the secrets of one project: every  *)
(* call takes effect at one moment between its submission and its answer,   *)
(* or not at all; an update of a secret needs the version that was read, an *)
(* update of a key changes that key of whatever the secret then holds.      *)
(***************************************************************************)
EXTENDS Naturals

CONSTANTS
    Callers,
    Ids,          \* of secrets; an id names one secret for ever
    Names, Keys,
    Values,       \* of a key, absence included
    NoRow, NoCall

VARIABLES
    rows,         \* the secret of each id, or NoRow
    call,         \* [op, status] of each caller, or NoCall
    others        \* what sync operations and old replicas have written so far

vars == <<rows, call, others>>

Data == [Keys -> Values]

Create(n, d) == [type |-> "create", name |-> n, data |-> d]
Save(i, v, d) == [type |-> "save", id |-> i, version |-> v, data |-> d]
Rename(i, v, n) == [type |-> "rename", id |-> i, version |-> v, name |-> n]
SetKey(i, k, x) == [type |-> "key", id |-> i, key |-> k, value |-> x]
Delete(i) == [type |-> "delete", id |-> i]

Present(rs) == {i \in Ids : rs[i] # NoRow}
NameTaken(rs, n, i) == \E j \in Present(rs) \ {i} : rs[j].name = n

\* When a call takes effect, and what the rows are then.  A new secret may
\* take any id that holds no row (SecretEditing gives it one never used).
Admits(rs, op) ==
    \/ op.type = "create" /\ \A j \in Present(rs) : rs[j].name # op.name
    \/ op.type = "save" /\ rs[op.id] # NoRow /\ rs[op.id].version = op.version
    \/ /\ op.type = "rename" /\ rs[op.id] # NoRow
       /\ rs[op.id].version = op.version /\ ~NameTaken(rs, op.name, op.id)
    \/ op.type = "key" /\ rs[op.id] # NoRow
    \/ op.type = "delete"

Changed(row, op) ==
    CASE op.type = "save" -> [row EXCEPT !.data = op.data, !.version = @ + 1]
      [] op.type = "rename" -> [row EXCEPT !.name = op.name, !.version = @ + 1]
      [] op.type = "key" ->
            [row EXCEPT !.data = [@ EXCEPT ![op.key] = op.value],
                        !.version = @ + 1]
      [] OTHER -> NoRow

TakesEffect(op) ==
    /\ Admits(rows, op)
    /\ \/ /\ op.type = "create"
          /\ \E i \in Ids \ Present(rows) :
                rows' = [rows EXCEPT ![i] =
                    [name |-> op.name, data |-> op.data, version |-> 1]]
       \/ /\ op.type # "create"
          /\ rows' = [rows EXCEPT ![op.id] = Changed(@, op)]

Submit(c) ==
    /\ call[c] = NoCall \/ call[c].status # "pending"
    /\ call'[c] # NoCall
    /\ call' = [call EXCEPT ![c] = [op |-> call'[c].op, status |-> "pending"]]
    /\ UNCHANGED <<rows, others>>

Apply(c) ==
    /\ call[c] # NoCall /\ call[c].status = "pending"
    /\ TakesEffect(call[c].op)
    /\ call' = [call EXCEPT ![c].status = "done"]
    /\ UNCHANGED others

Refuse(c) ==
    /\ call[c] # NoCall /\ call[c].status = "pending"
    /\ call' = [call EXCEPT ![c].status = "refused"]
    /\ UNCHANGED <<rows, others>>

\* The call is over; if it was pending, it never takes effect.
Return(c) ==
    /\ call[c] # NoCall
    /\ call' = [call EXCEPT ![c] = NoCall]
    /\ UNCHANGED <<rows, others>>

Elsewhere == others' # others /\ UNCHANGED call

Init ==
    /\ rows \in [Ids -> [name : Names, data : Data, version : {1}] \cup {NoRow}]
    /\ call = [c \in Callers |-> NoCall]

Next ==
    \/ \E c \in Callers : Submit(c) \/ Apply(c) \/ Refuse(c) \/ Return(c)
    \/ Elsewhere

Spec == Init /\ [][Next]_vars
=============================================================================
