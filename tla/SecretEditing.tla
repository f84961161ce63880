--------------------------- MODULE SecretEditing ---------------------------
(***************************************************************************)
(* The secrets of one project, edited from browser tabs (pages/projects/    *)
(* [id].vue) through the secrets routes (secrets/SecretsRoutes.ts) of any   *)
(* number of replicas, beside sync operations that replace all secrets and  *)
(* old replicas that do not take the project write lock.                    *)
(*                                                                         *)
(* A tab has one request at a time; its user goes on while it is answered.  *)
(* When a session expires, the unsaved edits are kept for the next login.   *)
(* The tabs share the token of the browser, but each keeps its user in      *)
(* memory and its draft in a store of its own.                              *)
(***************************************************************************)
EXTENDS Naturals, FiniteSets

CONSTANTS
    Tabs, Users,
    Ids,          \* of secrets, a fresh one for each secret (a UUID)
    Names, Keys,
    Values,       \* of a key
    Absent,       \* the value of a key that the secret does not have
    NoRow, NoRequest, NoEditor, NoDraft,
    NoTab,        \* the write lock is free
    NoUser,       \* the tab shows the login page
    NewSecret,    \* the editor creates a secret
    NoVersion,    \* history: the user has seen no version
    Attempts,     \* PARTIAL_UPDATE_ATTEMPTS
    MaxVersion,   \* bound: updates of a secret
    MaxGestures,  \* bound: editors opened, requests sent and sessions ended,
                  \* in all tabs, but for the saves of restored drafts
    MaxOthers,    \* bound: writes of sync operations and of old replicas
    SessionsEnd   \* do sessions expire, do users log out?

ASSUME NamedNulls ==
    /\ Absent \in Values /\ NewSecret \notin Ids
    /\ NoTab \notin Tabs /\ NoUser \notin Users /\ NoVersion \notin Nat
ASSUME BoundsAreNatural ==
    /\ MaxVersion \in Nat \ {0} /\ MaxGestures \in Nat
    /\ MaxOthers \in Nat /\ Attempts \in Nat \ {0} /\ SessionsEnd \in BOOLEAN

VARIABLES
    rows,         \* table secrets: the row of each id, or NoRow
    unused,       \* ids that were never given to a secret
    hash,         \* the project's currentContentHash
    others,       \* writes of sync operations and of old replicas
    lock,         \* tab whose request holds the project write lock
    gestures,     \* editors opened, requests sent, sessions ended so far
    req,          \* the request of each tab, in flight or answered
    token,        \* localStorage: the user of the token that all tabs send
    session,      \* authStore.user of each tab
    editor,       \* the secret editor of each tab
    stored,       \* draft in the tab's sessionStorage
    pending       \* authStore.pendingDraft

server == <<rows, unused, hash, others, lock>>
account == <<token, session>>
page == <<account, editor, stored, pending>>
vars ==
    <<rows, unused, hash, others, lock, gestures, req, account, editor, stored, pending>>

Table == INSTANCE SecretRows WITH
    Callers <- Tabs, NoCall <- NoRequest,
    call <- [t \in Tabs |->
        IF req[t] = NoRequest THEN NoRequest
        ELSE [op |-> req[t].op,
              status |-> IF req[t].pc # "answered" THEN "pending"
                         ELSE IF req[t].applied THEN "done" ELSE "refused"]]

Data == Table!Data
EmptyData == [k \in Keys |-> Absent]
NoList == [i \in Ids |-> NoRow]
Versions == 1 .. MaxVersion
Row == [name : Names, data : Data, version : Versions]
Present(rs) == Table!Present(rs)
NameTaken(rs, n, i) == Table!NameTaken(rs, n, i)

\* computeSecretsHash: of names and data, without ids and versions.
HashOf(rs) == {<<rs[i].name, rs[i].data>> : i \in Present(rs)}

Ops ==
    [type : {"create"}, name : Names, data : Data]
    \cup [type : {"save"}, id : Ids, version : Versions, data : Data]
    \cup [type : {"rename"}, id : Ids, version : Versions, name : Names]
    \cup [type : {"key"}, id : Ids, key : Keys, value : Values]
    \cup [type : {"delete"}, id : Ids]

Outcomes == {"none", "ok", "not_found", "version_conflict", "name_conflict", "error"}

\* pc: on its way to the write lock; about to read the list again; about to
\* write; answered.  read is the list it has read, attempt counts the
\* compare-and-sets, retried says that the page has sent it again.
\* saves: it was sent by the Save button of the editor.  History: applied, and
\* of a save which version its user knew and whether it restores a draft.
Request ==
    [pc : {"sent", "reread", "write", "answered"}, op : Ops,
     read : [Ids -> Row \cup {NoRow}], attempt : 0 .. Attempts,
     retried : BOOLEAN, saves : BOOLEAN,
     outcome : Outcomes, applied : BOOLEAN,
     known : Versions \cup {NoVersion}, restored : BOOLEAN]

\* version and base are those of editingSecret; known is history: the version
\* whose content the user was shown, or was told that it had replaced it.
Editor ==
    [id : Ids \cup {NewSecret}, version : Versions \cup {NoVersion},
     base : Data, form : Data,
     known : Versions \cup {NoVersion}, restored : BOOLEAN]

\* SecretDraft: it has no version (known is history).
Draft == [id : Ids \cup {NewSecret}, form : Data, user : Users,
          known : Versions \cup {NoVersion}]

ASSUME NullsAreNone ==
    /\ NoRow \notin Row /\ NoEditor \notin Editor /\ NoDraft \notin Draft
    /\ NoRequest \notin Request
    /\ NoRequest \notin [op : Ops, status : {"pending", "done", "refused"}]

TypeOK ==
    /\ rows \in [Ids -> Row \cup {NoRow}]
    /\ unused \in SUBSET Ids /\ unused \cap Present(rows) = {}
    /\ hash \in SUBSET (Names \X Data)
    /\ others \in [sync : 0 .. MaxOthers, old : 0 .. MaxOthers]
    /\ lock \in Tabs \cup {NoTab}
    /\ gestures \in 0 .. MaxGestures
    /\ req \in [Tabs -> Request \cup {NoRequest}]
    /\ token \in Users \cup {NoUser}
    /\ session \in [Tabs -> Users \cup {NoUser}]
    /\ editor \in [Tabs -> Editor \cup {NoEditor}]
    /\ stored \in [Tabs -> Draft \cup {NoDraft}]
    /\ pending \in [Tabs -> Draft \cup {NoDraft}]

\* Secrets without a key exist already.
Init ==
    /\ \E S \in SUBSET Ids :
          /\ \E f \in [S -> [name : Names, data : {EmptyData}, version : {1}]] :
                /\ \A i, j \in S : i # j => f[i].name # f[j].name
                /\ rows = [i \in Ids |-> IF i \in S THEN f[i] ELSE NoRow]
          /\ unused = Ids \ S
    /\ hash = HashOf(rows)
    /\ others = [sync |-> 0, old |-> 0]
    /\ lock = NoTab /\ gestures = 0
    /\ req = [t \in Tabs |-> NoRequest]
    /\ token \in Users
    /\ session = [t \in Tabs |-> token]
    /\ editor = [t \in Tabs |-> NoEditor]
    /\ stored = [t \in Tabs |-> NoDraft]
    /\ pending = [t \in Tabs |-> NoDraft]

Open(t) == editor[t] # NoEditor
Editing(t) == Open(t) /\ editor[t].id # NewSecret
Dirty(t) == Open(t) /\ editor[t].form # editor[t].base
At(t, pc) == req[t] # NoRequest /\ req[t].pc = pc
Idle(t) == session[t] # NoUser /\ req[t] = NoRequest

OthersWrite == others.sync + others.old < MaxOthers

-----------------------------------------------------------------------------
(* The secrets routes *)

\* The request is answered; if it held the write lock, it is released.
Answered(q, outcome, applied) ==
    [q EXCEPT !.pc = "answered", !.outcome = outcome, !.applied = applied,
              !.read = NoList, !.attempt = 0]

AnswerWith(t, outcome, applied) ==
    /\ req' = [req EXCEPT ![t] = Answered(@, outcome, applied)]
    /\ lock' = IF lock = t THEN NoTab ELSE lock

Answer(t, outcome) == AnswerWith(t, outcome, outcome = "ok")

\* What a handler refuses with the list it has read.
Refusal(rs, op) ==
    CASE op.type = "create" ->
            IF \E i \in Present(rs) : rs[i].name = op.name
            THEN "name_conflict" ELSE "none"
      [] op.type # "create" /\ rs[op.id] = NoRow -> "not_found"
      [] op.type = "rename" /\ rs[op.id] # NoRow ->
            IF NameTaken(rs, op.name, op.id) THEN "name_conflict" ELSE "none"
      [] OTHER -> "none"

\* ProjectWriteLocksRun: the lock is taken and the list is read; a refusal
\* releases it again.
Enter(t) ==
    /\ At(t, "sent") /\ lock = NoTab
    /\ \/ /\ Refusal(rows, req[t].op) = "none"
          /\ lock' = t
          /\ req' = [req EXCEPT ![t].pc = "write", ![t].read = rows,
                                ![t].attempt = 1]
       \/ /\ Refusal(rows, req[t].op) # "none"
          /\ Answer(t, Refusal(rows, req[t].op))
    /\ UNCHANGED <<rows, unused, hash, others, gestures, page>>

\* The next attempt of a key update reads the list again.
Reread(t) ==
    /\ At(t, "reread")
    /\ \/ /\ rows[req[t].op.id] # NoRow
          /\ req' = [req EXCEPT ![t].pc = "write", ![t].read = rows,
                                ![t].attempt = @ + 1]
          /\ UNCHANGED lock
       \/ rows[req[t].op.id] = NoRow /\ Answer(t, "not_found")
    /\ UNCHANGED <<rows, unused, hash, others, gestures, page>>

\* The row an UPDATE writes: name and data come from the list that was read,
\* changed by the request; the version is counted by the database.
Written(t) ==
    LET op == req[t].op IN
    [Table!Changed(req[t].read[op.id], op) EXCEPT
        !.version = rows[op.id].version + 1]

\* Mutant: a conditional update without its condition.
AnyVersion(t) == rows[req[t].op.id].version

\* The version in the WHERE clause: the client's, or for one key the one read.
ExpectedVersion(t) ==
    IF req[t].op.type = "key" THEN req[t].read[req[t].op.id].version
    ELSE req[t].op.version

\* Mutant: the hash of the list before the change.
HashBefore(t, i, row) == HashOf(req[t].read)

\* The hash is computed from the list that was read and the change.
HashAfter(t, i, row) == HashOf([req[t].read EXCEPT ![i] = row])

\* SecretsDataAdd; the unique index refuses a name that was taken meanwhile.
Insert(t, i) ==
    LET op == req[t].op
        row == [name |-> op.name, data |-> op.data, version |-> 1]
    IN
    /\ At(t, "write") /\ op.type = "create" /\ i \in unused
    /\ \/ /\ ~NameTaken(rows, op.name, i)
          /\ rows' = [rows EXCEPT ![i] = row]
          /\ unused' = unused \ {i}
          /\ hash' = HashAfter(t, i, row)
          /\ Answer(t, "ok")
       \/ /\ NameTaken(rows, op.name, i)
          /\ Answer(t, "name_conflict")
          /\ UNCHANGED <<rows, unused, hash>>
    /\ UNCHANGED <<others, gestures, page>>

\* SecretsDataUpdate, for a save, a rename or a key.
Update(t) ==
    LET op == req[t].op IN
    /\ At(t, "write") /\ op.type \in {"save", "rename", "key"}
    /\ \/ /\ rows[op.id] # NoRow /\ rows[op.id].version = ExpectedVersion(t)
          /\ ~NameTaken(rows, Written(t).name, op.id)
          /\ rows[op.id].version < MaxVersion
          /\ rows' = [rows EXCEPT ![op.id] = Written(t)]
          /\ hash' = HashAfter(t, op.id, Written(t))
          /\ Answer(t, "ok")
       \/ /\ rows[op.id] # NoRow /\ rows[op.id].version = ExpectedVersion(t)
          /\ NameTaken(rows, Written(t).name, op.id)
          /\ Answer(t, "name_conflict")
          /\ UNCHANGED <<rows, hash>>
       \/ /\ rows[op.id] = NoRow
          /\ Answer(t, "not_found")
          /\ UNCHANGED <<rows, hash>>
       \/ /\ rows[op.id] # NoRow /\ rows[op.id].version # ExpectedVersion(t)
          /\ IF op.type = "key" /\ req[t].attempt < Attempts
             THEN req' = [req EXCEPT ![t].pc = "reread"] /\ UNCHANGED lock
             ELSE Answer(t, "version_conflict")
          /\ UNCHANGED <<rows, hash>>
    /\ UNCHANGED <<unused, others, gestures, page>>

\* SecretsDataDelete: the hash is written whether or not a row was deleted.
Remove(t) ==
    /\ At(t, "write") /\ req[t].op.type = "delete"
    /\ rows' = [rows EXCEPT ![req[t].op.id] = NoRow]
    /\ hash' = HashAfter(t, req[t].op.id, NoRow)
    /\ Answer(t, "ok")
    /\ UNCHANGED <<unused, others, gestures, page>>

\* A query fails or the replica dies before the commit, or the answer is lost
\* after it.
Fail(t) ==
    /\ req[t] # NoRequest /\ req[t].outcome # "error"
    /\ AnswerWith(t, "error", req[t].applied)
    /\ UNCHANGED <<rows, unused, hash, others, gestures, page>>

\* SecretsDataReplaceForProject, in a write section of its own: all secrets
\* go, those of the snapshot come with fresh ids.
Replace ==
    /\ lock = NoTab /\ OthersWrite
    /\ \E S \in SUBSET unused :
          /\ S # {}
          /\ \E f \in [S -> [name : Names, data : Data, version : {1}]] :
                /\ \A i, j \in S : i # j => f[i].name # f[j].name
                /\ rows' = [i \in Ids |-> IF i \in S THEN f[i] ELSE NoRow]
          /\ unused' = unused \ S
    /\ hash' = HashOf(rows')
    /\ others' = [others EXCEPT !.sync = @ + 1]
    /\ UNCHANGED <<lock, gestures, req, page>>

WritesOver(i, op) ==
    /\ Refusal(rows, op) = "none"
    /\ rows' = [rows EXCEPT ![i] = Table!Changed(@, op)]

\* An old replica renames a secret, sets a key of it or deletes it, without
\* the lock.
OldReplicaWrites(i) ==
    /\ OthersWrite /\ i \in Present(rows)
    /\ \/ rows' = [rows EXCEPT ![i] = NoRow]
       \/ /\ rows[i].version < MaxVersion
          /\ \/ \E n \in Names : WritesOver(i, Table!Rename(i, rows[i].version, n))
             \/ \E k \in Keys, x \in Values : WritesOver(i, Table!SetKey(i, k, x))
    /\ hash' = HashOf(rows')
    /\ others' = [others EXCEPT !.old = @ + 1]
    /\ UNCHANGED <<unused, lock, gestures, req, page>>

-----------------------------------------------------------------------------
(* The page: what its user does *)

NewRequest(op) ==
    [pc |-> "sent", op |-> op, read |-> NoList, attempt |-> 0,
     retried |-> FALSE, saves |-> FALSE,
     outcome |-> "none", applied |-> FALSE, known |-> NoVersion, restored |-> FALSE]

\* A request that is sent without a token does not get past 401 (Unsigned).
Send(t, op) ==
    /\ Idle(t) /\ token # NoUser /\ gestures < MaxGestures
    /\ gestures' = gestures + 1
    /\ req' = [req EXCEPT ![t] = NewRequest(op)]
    /\ UNCHANGED <<server, page>>

EditorOf(i) ==
    [id |-> i, version |-> rows[i].version, base |-> rows[i].data,
     form |-> rows[i].data, known |-> rows[i].version, restored |-> FALSE]

EmptyEditor ==
    [id |-> NewSecret, version |-> NoVersion, base |-> EmptyData,
     form |-> EmptyData, known |-> NoVersion, restored |-> FALSE]

SetEditor(t, e) ==
    /\ editor' = [editor EXCEPT ![t] = e]
    /\ UNCHANGED <<server, req, account, stored, pending>>

OpenEditSecret(t, i) ==
    /\ session[t] # NoUser /\ ~Open(t) /\ i \in Present(rows)
    /\ gestures < MaxGestures /\ gestures' = gestures + 1
    /\ SetEditor(t, EditorOf(i))

OpenCreateSecret(t) ==
    /\ session[t] # NoUser /\ ~Open(t)
    /\ gestures < MaxGestures /\ gestures' = gestures + 1
    /\ SetEditor(t, EmptyEditor)

\* Rows are added, changed, removed or imported.  What is typed while no
\* request is in flight shows only when it is saved: SaveSecret types it.
Type(t, d) ==
    /\ Open(t) /\ req[t] # NoRequest /\ d # editor[t].form
    /\ SetEditor(t, [editor[t] EXCEPT !.form = d])
    /\ UNCHANGED gestures

\* Cancel, and the confirmation when there are unsaved edits.
Close(t) == Open(t) /\ SetEditor(t, NoEditor) /\ UNCHANGED gestures

\* saveSecret: a new secret under a name of the form, or the open one with
\* the version it was read with.
SaveSecret(t, d) ==
    LET e == editor[t] IN
    /\ Idle(t) /\ token # NoUser /\ Open(t)
    /\ \/ gestures < MaxGestures /\ gestures' = gestures + 1
       \/ e.restored /\ UNCHANGED gestures
    /\ editor' = [editor EXCEPT ![t].form = d]
    /\ \E n \in Names :
          LET op == IF e.id = NewSecret THEN Table!Create(n, d)
                    ELSE Table!Save(e.id, e.version, d)
          IN  req' = [req EXCEPT ![t] =
                  [NewRequest(op) EXCEPT !.saves = TRUE, !.known = e.known,
                                         !.restored = e.restored]]
    /\ UNCHANGED <<server, account, stored, pending>>

\* Duplicate, rename and delete are menu actions of the list; a key is copied
\* from the open editor to another secret.
ExecuteDuplicate(t, i, n) ==
    /\ ~Open(t) /\ i \in Present(rows)
    /\ Send(t, Table!Create(n, rows[i].data))

ExecuteRename(t, i, n) ==
    /\ ~Open(t) /\ i \in Present(rows)
    /\ Send(t, Table!Rename(i, rows[i].version, n))

ExecuteDelete(t, i) ==
    /\ ~Open(t) /\ i \in Present(rows)
    /\ Send(t, Table!Delete(i))

ExecuteCopyKey(t, i, k, x) ==
    /\ Open(t) /\ i \in Present(rows) /\ i # editor[t].id
    /\ x \in {editor[t].form[j] : j \in Keys} \ {Absent}
    /\ Send(t, Table!SetKey(i, k, x))

-----------------------------------------------------------------------------
(* The page: what an answer does *)

Done(t) == req' = [req EXCEPT ![t] = NoRequest]

\* closeSecretModal and clearPendingDraft, whatever the editor shows by now.
Saved(t) ==
    /\ At(t, "answered") /\ req[t].outcome = "ok"
    /\ req[t].saves
    /\ editor' = [editor EXCEPT ![t] = NoEditor]
    /\ pending' = [pending EXCEPT ![t] = NoDraft]
    /\ Done(t)
    /\ UNCHANGED <<server, gestures, account, stored>>

\* The edits are kept and become a new secret.
Orphaned(e) ==
    [e EXCEPT !.id = NewSecret, !.version = NoVersion, !.base = EmptyData,
              !.known = NoVersion, !.restored = FALSE]

Conflicting(t) ==
    /\ req[t].saves /\ Editing(t)
    /\ req[t].outcome \in {"version_conflict", "not_found"}

\* reloadAfterSaveConflict: the edits are kept, the version moves to the
\* latest one, and the user is told; a 404 goes on with a new secret.  When
\* the reload fails, the list and the version stay.
SaveConflict(t) ==
    LET e == editor[t] IN
    /\ At(t, "answered") /\ Conflicting(t)
    /\ \/ /\ req[t].outcome = "not_found" \/ rows[e.id] = NoRow
          /\ editor' = [editor EXCEPT ![t] = Orphaned(e)]
       \/ /\ req[t].outcome = "version_conflict" /\ rows[e.id] # NoRow
          /\ editor' = [editor EXCEPT ![t].version = rows[e.id].version,
                                      ![t].base = rows[e.id].data,
                                      ![t].known = rows[e.id].version,
                                      ![t].restored = FALSE]
       \/ /\ req[t].outcome = "version_conflict"
          /\ UNCHANGED editor
    /\ Done(t)
    /\ UNCHANGED <<server, gestures, account, stored, pending>>

\* A rename or a key that lost against another writer is sent once more, with
\* the latest version, or with the same when the reload fails.
Resendable(t) ==
    /\ req[t].outcome = "version_conflict" /\ ~req[t].retried
    /\ req[t].op.type \in {"rename", "key"}

SendAgain(t) ==
    LET op == req[t].op IN
    /\ At(t, "answered") /\ Resendable(t)
    /\ \E again \in {op} \cup
            (IF op.type = "rename" /\ rows[op.id] # NoRow
             THEN {Table!Rename(op.id, rows[op.id].version, op.name)} ELSE {}) :
          req' = [req EXCEPT ![t] =
                     [NewRequest(again) EXCEPT !.retried = TRUE]]
    /\ UNCHANGED <<server, gestures, page>>

\* Every other answer: a message, and after a change the list is loaded.
Informed(t) ==
    /\ At(t, "answered")
    /\ req[t].saves =>
          /\ req[t].outcome # "ok"
          /\ Editing(t) => req[t].outcome \notin {"version_conflict", "not_found"}
    /\ Resendable(t) => rows[req[t].op.id] = NoRow
    /\ Done(t)
    /\ UNCHANGED <<server, gestures, page>>

-----------------------------------------------------------------------------
(* Sessions and drafts *)

\* Mutant: the user's name is read after the session has been forgotten.
CapturedLate(t, form) ==
    IF Open(t) /\ form # editor[t].base
    THEN [id |-> editor[t].id, form |-> form, user |-> NoUser,
          known |-> editor[t].known]
    ELSE stored[t]

\* captureUnsavedEdits, when the editor shows form.
Captured(t, form) ==
    IF Open(t) /\ form # editor[t].base
    THEN [id |-> editor[t].id, form |-> form, user |-> session[t],
          known |-> editor[t].known]
    ELSE stored[t]

\* An answer is 401: the edits are stored, the token is removed for all tabs,
\* and the browser loads the login page, which loses everything that this
\* tab had in memory.
SessionLost(t, form) ==
    /\ gestures < MaxGestures /\ gestures' = gestures + 1
    /\ stored' = [stored EXCEPT ![t] = Captured(t, form)]
    /\ token' = NoUser
    /\ session' = [session EXCEPT ![t] = NoUser]
    /\ editor' = [editor EXCEPT ![t] = NoEditor]
    /\ pending' = [pending EXCEPT ![t] = NoDraft]
    /\ Done(t)
    /\ UNCHANGED server

\* It answers a request of the user, the load of the list that follows a
\* conflict, or the loads of a page that is opened.
Unauthorized(t) ==
    /\ SessionsEnd
    /\ \/ At(t, "sent")
       \/ At(t, "answered") /\ Conflicting(t)
       \/ Idle(t) /\ ~Open(t)
    /\ SessionLost(t, editor[t].form)

\* What is typed in an editor is sent after another tab has lost the token.
Unsigned(t, d) ==
    /\ Idle(t) /\ Open(t) /\ token = NoUser
    /\ SessionLost(t, d)

\* Mutant: a draft is offered to whoever logs in.
TakenByAnyone(t, u) == stored[t]

\* takeSecretDraftForUser.
TakenBy(t, u) ==
    IF stored[t] # NoDraft /\ stored[t].user = u THEN stored[t] ELSE NoDraft

\* The login form of one tab replaces the token of all.
Login(t, u) ==
    /\ session[t] = NoUser
    /\ token' = u
    /\ session' = [session EXCEPT ![t] = u]
    /\ pending' = [pending EXCEPT ![t] = TakenBy(t, u)]
    /\ stored' = [stored EXCEPT ![t] = NoDraft]
    /\ UNCHANGED <<server, gestures, req, editor>>

\* The menu, which no open editor (a modal dialog) lets through, or init() with
\* an expired token.  The other tabs keep their user and their draft in memory.
Logout(t) ==
    /\ SessionsEnd /\ Idle(t) /\ ~Open(t)
    /\ gestures < MaxGestures /\ gestures' = gestures + 1
    /\ token' = NoUser
    /\ session' = [session EXCEPT ![t] = NoUser]
    /\ pending' = [pending EXCEPT ![t] = NoDraft]
    /\ stored' = [stored EXCEPT ![t] = NoDraft]
    /\ UNCHANGED <<server, req, editor>>

\* authStore.init(), when a page is mounted: a token takes the tab over to its
\* user, the login page included, with the drafts of the tab as they are.
\* Without a token nothing changes.
Mount(t) ==
    /\ req[t] = NoRequest /\ ~Open(t) /\ token # NoUser
    /\ session' = [session EXCEPT ![t] = token]
    /\ UNCHANGED <<server, gestures, req, token, editor, stored, pending>>

\* The browser reloads the page: what the tab had in memory is lost.
Reload(t) ==
    /\ req[t] = NoRequest /\ ~Open(t)
    /\ session' = [session EXCEPT ![t] = token]
    /\ pending' = [pending EXCEPT ![t] = NoDraft]
    /\ UNCHANGED <<server, gestures, req, token, editor, stored>>

\* SECRET_DRAFT_TTL_MS has passed at the next login.
DraftExpires(t) ==
    /\ stored[t] # NoDraft
    /\ stored' = [stored EXCEPT ![t] = NoDraft]
    /\ UNCHANGED <<server, gestures, req, account, editor, pending>>

DiscardDraftRestore(t) ==
    /\ pending[t] # NoDraft /\ ~Open(t)
    /\ pending' = [pending EXCEPT ![t] = NoDraft]
    /\ UNCHANGED <<server, gestures, req, account, editor, stored>>

\* restoreDraftEdits: the edits of the draft with the version of today, or as
\* a new secret when theirs is gone.
RestoreDraftEdits(t) ==
    LET d == pending[t]
        i == d.id
    IN
    /\ d # NoDraft /\ ~Open(t)
    /\ editor' = [editor EXCEPT ![t] =
           IF i # NewSecret /\ i \in Present(rows)
           THEN [EditorOf(i) EXCEPT !.form = d.form, !.known = d.known,
                                    !.restored = TRUE]
           ELSE [EmptyEditor EXCEPT !.form = d.form]]
    /\ pending' = [pending EXCEPT ![t] = NoDraft]
    /\ UNCHANGED <<server, gestures, req, account, stored>>

Next ==
    \/ \E t \in Tabs :
          \/ Enter(t) \/ Reread(t) \/ Update(t) \/ Remove(t) \/ Fail(t)
          \/ \E i \in Ids : Insert(t, i) \/ OpenEditSecret(t, i)
                            \/ ExecuteDelete(t, i)
          \/ \E i \in Ids, n \in Names : ExecuteDuplicate(t, i, n)
                                         \/ ExecuteRename(t, i, n)
          \/ \E i \in Ids, k \in Keys, x \in Values : ExecuteCopyKey(t, i, k, x)
          \/ OpenCreateSecret(t) \/ Close(t)
          \/ \E d \in Data : Type(t, d) \/ SaveSecret(t, d) \/ Unsigned(t, d)
          \/ Saved(t) \/ SaveConflict(t) \/ SendAgain(t) \/ Informed(t)
          \/ Unauthorized(t) \/ Logout(t) \/ DraftExpires(t)
          \/ Mount(t) \/ Reload(t)
          \/ \E u \in Users : Login(t, u)
          \/ DiscardDraftRestore(t) \/ RestoreDraftEdits(t)
    \/ Replace
    \/ \E i \in Ids : OldReplicaWrites(i)

Spec == Init /\ [][Next]_vars

-----------------------------------------------------------------------------
(* Properties *)

\* Every call of a route takes effect at one moment or not at all, as its
\* answer says; a save changes the version that was read and a key update
\* that key only.  The code writes a whole row (name and data) computed from
\* a list it read before, with old replicas writing in between.
RefinesTable == Table!Spec

\* The stored hash is that of the stored secrets, whatever was refused,
\* retried, replaced or lost, as long as all writers take the lock.
HashMatchesRows == others.old = 0 => hash = HashOf(rows)

CommitsSave(t) ==
    /\ At(t, "write") /\ req[t].op.type = "save"
    /\ req'[t] # NoRequest /\ req'[t].outcome = "ok"

\* A save replaces a content its user has seen in the editor, or has been
\* told about by a version conflict (the editor moves to the latest version
\* and keeps the edits); saves of restored drafts apart.
SavesAreInformed ==
    [][\A t \in Tabs :
          CommitsSave(t) /\ ~req[t].restored
          => req[t].known = rows[req[t].op.id].version]_vars

\* The same of restored drafts, which take the version of the secret as it is
\* when they are restored.
RestoredSavesAreInformed ==
    [][\A t \in Tabs :
          CommitsSave(t) /\ req[t].restored
          => req[t].known = rows[req[t].op.id].version]_vars

OfferedToAnother(t) == pending[t] # NoDraft /\ pending[t].user # session[t]

\* A draft is offered to the user who typed it, through expiry, logout, the
\* login of somebody else in the same tab and whatever other tabs do with the
\* token: nothing but a page mounted with the token of another user, while
\* the offer stands, brings it before somebody else.
DraftsStayWithTheirOwner ==
    [][\A t \in Tabs :
          OfferedToAnother(t)' => OfferedToAnother(t) \/ Mount(t)]_vars

\* The same without the exception, as the documentation has it.
DraftsAreNeverOfferedToOthers == \A t \in Tabs : ~OfferedToAnother(t)

\* An answer closes the editor only over the edits it has saved; all other
\* edits are discarded by their user alone.
AnswersKeepEdits ==
    [][\A t \in Tabs :
          /\ At(t, "answered") /\ req'[t] # req[t]
          /\ Dirty(t) /\ editor'[t] = NoEditor
          => req[t].op.data = editor[t].form]_vars
=============================================================================
