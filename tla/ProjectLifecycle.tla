-------------------------- MODULE ProjectLifecycle --------------------------
(***************************************************************************)
(* Creation and deletion of projects on several replicas                    *)
(* (projects/ProjectsRoutes.ts), the catalogue of project scopes that each  *)
(* replica keeps in memory (projects/ProjectScopes.ts), and the scopes in   *)
(* the user records, which the shared user routes check against it.         *)
(***************************************************************************)
EXTENDS Naturals, FiniteSets

CONSTANTS
    Replicas, Users,
    Ids,          \* of projects, a fresh one for each (a UUID)
    Names,
    Prefixes,     \* of repositories, without slashes and spaces around them
    Slug,         \* default prefix of a name
    Blank,        \* the creation gives no prefix
    Requests,     \* of administrators
    NoRow, NoRequest, NoRefresh, Nobody,
    MaxEvents     \* bound: changes of user records and restarts of replicas

ASSUME SlugIsAPrefix == Slug \in [Names -> Prefixes] /\ Blank \notin Prefixes
ASSUME SpecialValues ==
    /\ NoRow \notin [name : Names, target : Prefixes]
    /\ Nobody \notin Requests
    /\ MaxEvents \in Nat

VARIABLES
    rows,         \* table projects
    free,         \* ids that were never used
    createLock,   \* advisory lock "project_create"
    writeLock,    \* project write locks
    scopes,       \* table users: the projects in the scopes of each user
    catalogue,    \* User.ALL_SCOPES of each replica
    revision,     \* scopesRevision
    refresh,      \* refreshInFlight
    req,
    events,
    decided,      \* history: the scopes each user was last given
    raced,        \* history: users changed while a prune was changing them
    gone          \* history: ids each replica has removed from its catalogue

database == <<rows, free, createLock, writeLock>>
memory == <<catalogue, revision, refresh, gone>>
people == <<scopes, decided, raced>>
vars == <<database, memory, people, req, events>>

Project == [name : Names, target : Prefixes]
Present == {i \in Ids : rows[i] # NoRow}

Creation ==
    [kind : {"create"}, at : Replicas, id : Ids, project : Project,
     pc : {"lock", "name", "target", "insert", "announce", "done"}]

\* users: the records read by the prune, as far as they are to be written.
Deletion ==
    [kind : {"delete"}, at : Replicas, id : Ids,
     pc : {"lock", "delete", "forget", "list", "prune", "finish", "done"},
     users : [Users -> SUBSET Ids], left : SUBSET Users]

\* loaded: it has read the table.
Refresh == [since : Nat, loaded : BOOLEAN, read : SUBSET Ids]

TypeOK ==
    /\ rows \in [Ids -> Project \cup {NoRow}]
    /\ free \in SUBSET Ids
    /\ createLock \in Requests \cup {Nobody}
    /\ writeLock \in [Ids -> Requests \cup {Nobody}]
    /\ scopes \in [Users -> SUBSET Ids] /\ decided \in [Users -> SUBSET Ids]
    /\ raced \in SUBSET Users /\ gone \in [Replicas -> SUBSET Ids]
    /\ catalogue \in [Replicas -> SUBSET Ids]
    /\ revision \in [Replicas -> Nat]
    /\ refresh \in [Replicas -> Refresh \cup {NoRefresh}]
    /\ req \in [Requests -> Creation \cup Deletion \cup {NoRequest}]
    /\ events \in 0 .. MaxEvents

\* Projects exist, all replicas know them, users have some of their scopes.
Init ==
    /\ \E S \in SUBSET Ids : \E f \in [S -> Project] :
          /\ \A i, j \in S : i # j => f[i].name # f[j].name /\ f[i].target # f[j].target
          /\ rows = [i \in Ids |-> IF i \in S THEN f[i] ELSE NoRow]
          /\ free = Ids \ S
    /\ createLock = Nobody /\ writeLock = [i \in Ids |-> Nobody]
    /\ scopes \in [Users -> SUBSET Present]
    /\ catalogue = [r \in Replicas |-> Present]
    /\ revision = [r \in Replicas |-> 0]
    /\ refresh = [r \in Replicas |-> NoRefresh]
    /\ req = [q \in Requests |-> NoRequest]
    /\ events = 0
    /\ decided = scopes /\ raced = {} /\ gone = [r \in Replicas |-> {}]

At(q, kind, pc) ==
    req[q] # NoRequest /\ req[q].kind = kind /\ req[q].pc = pc

Goto(q, pc) == req' = [req EXCEPT ![q].pc = pc]

-----------------------------------------------------------------------------
(* The catalogue *)

\* ProjectScopesRefresh, called by the timer or after a change: a call while
\* one is in flight joins it.
Refreshed(r) ==
    IF refresh[r] # NoRefresh THEN refresh
    ELSE [refresh EXCEPT ![r] =
             [since |-> revision[r], loaded |-> FALSE, read |-> {}]]

\* The same just after a local change, which has bumped the revision.
RefreshedAfterChange(r) ==
    IF refresh[r] # NoRefresh THEN refresh
    ELSE [refresh EXCEPT ![r] =
             [since |-> revision[r] + 1, loaded |-> FALSE, read |-> {}]]

RefreshStart(r) ==
    /\ refresh[r] = NoRefresh
    /\ refresh' = Refreshed(r)
    /\ UNCHANGED <<database, people, catalogue, revision, gone, req, events>>

RefreshRead(r) ==
    /\ refresh[r] # NoRefresh /\ ~refresh[r].loaded
    /\ refresh' = [refresh EXCEPT ![r].loaded = TRUE, ![r].read = Present]
    /\ UNCHANGED <<database, people, catalogue, revision, gone, req, events>>

\* Mutant: the list that was read replaces the one of the memory.
IsAlwaysCurrent(r) == TRUE

\* Mutant: no local change since the replica was started.
IsUnchanged(r) == revision[r] = 0

\* No local change since the refresh was started.
IsCurrent(r) == revision[r] = refresh[r].since

RefreshEnd(r) ==
    /\ refresh[r] # NoRefresh /\ refresh[r].loaded
    /\ catalogue' = IF IsCurrent(r)
                    THEN [catalogue EXCEPT ![r] = refresh[r].read]
                    ELSE catalogue
    /\ refresh' = [refresh EXCEPT ![r] = NoRefresh]
    /\ UNCHANGED <<database, people, revision, gone, req, events>>

\* The database fails: the last list stays.
RefreshFails(r) ==
    /\ refresh[r] # NoRefresh
    /\ refresh' = [refresh EXCEPT ![r] = NoRefresh]
    /\ UNCHANGED <<database, people, catalogue, revision, gone, req, events>>

-----------------------------------------------------------------------------
(* POST / *)

\* repoTargetKey: the default prefix is the slug of the name.
Target(name, prefix) == IF prefix = Blank THEN Slug[name] ELSE prefix

Create(q, r, i, name, prefix) ==
    /\ req[q] = NoRequest /\ i \in free
    /\ free' = free \ {i}
    /\ req' = [req EXCEPT ![q] =
           [kind |-> "create", at |-> r, id |-> i, pc |-> "lock",
            project |-> [name |-> name, target |-> Target(name, prefix)]]]
    /\ UNCHANGED <<rows, createLock, writeLock, memory, people, events>>

\* Mutant: a creation does not wait for another one.
Unlocked == TRUE

CreationsFree == createLock = Nobody

CreateLock(q) ==
    /\ At(q, "create", "lock") /\ CreationsFree
    /\ createLock' = q
    /\ Goto(q, "name")
    /\ UNCHANGED <<rows, free, writeLock, memory, people, events>>

\* The lock is given back with the answer: a conflict, or an error.
CreateRefused(q) ==
    /\ createLock' = IF createLock = q THEN Nobody ELSE createLock
    /\ Goto(q, "done")
    /\ UNCHANGED <<rows, free, writeLock, memory, people, events>>

CheckName(q) ==
    LET taken == \E j \in Present : rows[j].name = req[q].project.name IN
    /\ At(q, "create", "name")
    /\ \/ taken /\ CreateRefused(q)
       \/ /\ ~taken
          /\ Goto(q, "target")
          /\ UNCHANGED <<database, memory, people, events>>

CheckTarget(q) ==
    LET taken == \E j \in Present : rows[j].target = req[q].project.target IN
    /\ At(q, "create", "target")
    /\ \/ taken /\ CreateRefused(q)
       \/ /\ ~taken
          /\ Goto(q, "insert")
          /\ UNCHANGED <<database, memory, people, events>>

CreateFails(q) ==
    /\ req[q] # NoRequest /\ req[q].kind = "create"
    /\ req[q].pc \in {"name", "target", "insert"}
    /\ CreateRefused(q)

Insert(q) ==
    /\ At(q, "create", "insert")
    /\ rows' = [rows EXCEPT ![req[q].id] = req[q].project]
    /\ createLock' = IF createLock = q THEN Nobody ELSE createLock
    /\ Goto(q, "announce")
    /\ UNCHANGED <<free, writeLock, memory, people, events>>

\* ProjectScopesAdd and the refresh, once the lock is released.
Announce(q) ==
    LET r == req[q].at  i == req[q].id IN
    /\ At(q, "create", "announce")
    /\ catalogue' = [catalogue EXCEPT ![r] = @ \cup {i}]
    /\ revision' = [revision EXCEPT ![r] = @ + 1]
    /\ refresh' = RefreshedAfterChange(r)
    /\ gone' = [gone EXCEPT ![r] = @ \ {i}]
    /\ Goto(q, "done")
    /\ UNCHANGED <<database, people, events>>

-----------------------------------------------------------------------------
(* DELETE /:id *)

Delete(q, r, i) ==
    /\ req[q] = NoRequest /\ i \in Present
    /\ req' = [req EXCEPT ![q] =
           [kind |-> "delete", at |-> r, id |-> i, pc |-> "lock",
            users |-> [u \in Users |-> {}], left |-> {}]]
    /\ UNCHANGED <<database, memory, people, events>>

\* The project write lock, and the second look at the project.
DeleteLock(q) ==
    LET i == req[q].id IN
    /\ At(q, "delete", "lock") /\ writeLock[i] = Nobody
    /\ \/ /\ i \in Present
          /\ writeLock' = [writeLock EXCEPT ![i] = q]
          /\ Goto(q, "delete")
       \/ /\ i \notin Present
          /\ Goto(q, "done")
          /\ UNCHANGED writeLock
    /\ UNCHANGED <<rows, free, createLock, memory, people, events>>

\* ProjectsDataDeleteCascade, which may fail and roll back.
DeleteCascade(q) ==
    /\ At(q, "delete", "delete")
    /\ \/ /\ rows' = [rows EXCEPT ![req[q].id] = NoRow]
          /\ Goto(q, "forget")
          /\ UNCHANGED writeLock
       \/ /\ writeLock' = [writeLock EXCEPT ![req[q].id] = Nobody]
          /\ Goto(q, "done")
          /\ UNCHANGED rows
    /\ UNCHANGED <<free, createLock, memory, people, events>>

\* ProjectScopesRemove.
Forget(q) ==
    LET r == req[q].at  i == req[q].id IN
    /\ At(q, "delete", "forget")
    /\ catalogue' = [catalogue EXCEPT ![r] = @ \ {i}]
    /\ revision' = [revision EXCEPT ![r] = @ + 1]
    /\ gone' = [gone EXCEPT ![r] = @ \cup {i}]
    /\ Goto(q, "list")
    /\ UNCHANGED <<database, people, refresh, events>>

\* ProjectScopesPruneFromUsers: all users are read at once.
ListUsers(q) ==
    /\ At(q, "delete", "list")
    /\ req' = [req EXCEPT ![q].users = scopes, ![q].pc = "prune",
                          ![q].left = {u \in Users : req[q].id \in scopes[u]}]
    /\ UNCHANGED <<database, memory, people, events>>

\* Mutant: the user loses all projects.
PrunedToNothing(q, u) == {}

\* The record as it was read, without the scope.
Pruned(q, u) == req[q].users[u] \ {req[q].id}

\* Those who were changed by somebody else since a prune has read them.
Overlaps(u, q) ==
    \E p \in Requests \ {q} : At(p, "delete", "prune") /\ u \in req[p].left

\* UsersDataUpdateUser writes the whole record, one user after the other.
PruneUser(q, u) ==
    /\ At(q, "delete", "prune") /\ u \in req[q].left
    /\ scopes' = [scopes EXCEPT ![u] = Pruned(q, u)]
    /\ raced' = IF Overlaps(u, q) THEN raced \cup {u} ELSE raced
    /\ req' = [req EXCEPT ![q].left = @ \ {u}]
    /\ UNCHANGED <<database, memory, decided, events>>

EndPrune(q) ==
    /\ At(q, "delete", "prune") /\ req[q].left = {}
    /\ req' = [req EXCEPT ![q].pc = "finish",
                          ![q].users = [u \in Users |-> {}]]
    /\ UNCHANGED <<database, memory, people, events>>

\* A failed prune is logged; the deletion is complete.
PruneFails(q) ==
    /\ At(q, "delete", "list") \/ At(q, "delete", "prune")
    /\ req' = [req EXCEPT ![q].pc = "finish", ![q].left = {},
                          ![q].users = [u \in Users |-> {}]]
    /\ UNCHANGED <<database, memory, people, events>>

\* The lock is released, and the catalogue is refreshed.
Finish(q) ==
    /\ At(q, "delete", "finish")
    /\ writeLock' = [writeLock EXCEPT ![req[q].id] = Nobody]
    /\ refresh' = Refreshed(req[q].at)
    /\ Goto(q, "done")
    /\ UNCHANGED <<rows, free, createLock, catalogue, revision, gone, people, events>>

-----------------------------------------------------------------------------
\* The shared user routes, on a replica: of the scopes that are asked for,
\* those that its catalogue knows.
UpdateUser(r, u, S) ==
    /\ events < MaxEvents /\ S # scopes[u]
    /\ scopes' = [scopes EXCEPT ![u] = S \cap catalogue[r]]
    /\ decided' = [decided EXCEPT ![u] = S \cap catalogue[r]]
    /\ raced' = IF Overlaps(u, Nobody) THEN raced \cup {u} ELSE raced
    /\ events' = events + 1
    /\ UNCHANGED <<database, memory, req>>

\* A replica dies and starts again: ProjectScopesSync.
Restart(r) ==
    LET dead == {q \in Requests :
                    req[q] # NoRequest /\ req[q].at = r /\ req[q].pc # "done"}
    IN
    /\ events < MaxEvents /\ events' = events + 1
    /\ catalogue' = [catalogue EXCEPT ![r] = Present]
    /\ revision' = [revision EXCEPT ![r] = 0]
    /\ refresh' = [refresh EXCEPT ![r] = NoRefresh]
    /\ createLock' = IF createLock \in dead THEN Nobody ELSE createLock
    /\ writeLock' = [i \in Ids |->
           IF writeLock[i] \in dead THEN Nobody ELSE writeLock[i]]
    /\ req' = [q \in Requests |->
           IF q \in dead THEN [req[q] EXCEPT !.pc = "done"] ELSE req[q]]
    /\ UNCHANGED <<rows, free, people, gone>>

CreateStep(q) ==
    \/ CreateLock(q) \/ CheckName(q) \/ CheckTarget(q) \/ CreateFails(q)
    \/ Insert(q) \/ Announce(q)

DeleteStep(q) ==
    \/ DeleteLock(q) \/ DeleteCascade(q) \/ Forget(q) \/ ListUsers(q)
    \/ \E u \in Users : PruneUser(q, u)
    \/ EndPrune(q) \/ PruneFails(q) \/ Finish(q)

Next ==
    \/ \E q \in Requests :
          \/ CreateStep(q) \/ DeleteStep(q)
          \/ \E r \in Replicas, i \in Ids :
                \/ Delete(q, r, i)
                \/ \E n \in Names, p \in Prefixes \cup {Blank} : Create(q, r, i, n, p)
    \/ \E r \in Replicas :
          \/ RefreshStart(r) \/ RefreshRead(r) \/ RefreshEnd(r) \/ RefreshFails(r)
          \/ Restart(r)
          \/ \E u \in Users, S \in SUBSET Ids : UpdateUser(r, u, S)

Spec == Init /\ [][Next]_vars

\* Requests come to their end, the timer of each replica starts refreshes for
\* ever, and the database does not fail all of them.
Fairness ==
    /\ \A q \in Requests : WF_vars(CreateStep(q)) /\ WF_vars(DeleteStep(q))
    /\ \A r \in Replicas :
          WF_vars(RefreshStart(r)) /\ SF_vars(RefreshRead(r)) /\ SF_vars(RefreshEnd(r))

FairSpec == Spec /\ Fairness

-----------------------------------------------------------------------------
(* Properties *)

\* No two projects have one name or one repository target, on whatever
\* replicas and under whatever spelling they were created.
TargetsAreUnique ==
    \A i, j \in Present :
        i # j => rows[i].name # rows[j].name /\ rows[i].target # rows[j].target

\* A replica knows each project that it has created as long as it exists, and
\* none that it has deleted: no refresh undoes a change that was made here.
LocalChangesStay ==
    \A r \in Replicas :
        /\ \A q \in Requests :
              At(q, "create", "done") /\ req[q].at = r /\ req[q].id \in Present
              => req[q].id \in catalogue[r]
        /\ gone[r] \cap catalogue[r] = {}

\* A prune takes nothing else from a user, and gives nothing back, unless
\* somebody else changed that user while the prune was at work.
OnlyRacesChangeScopes ==
    \A u \in Users : u \notin raced =>
        scopes[u] \cap Present = decided[u] \cap Present

\* Every catalogue becomes that of the projects that exist.
CataloguesConverge ==
    <>[](\A r \in Replicas : catalogue[r] = Present)
=============================================================================
