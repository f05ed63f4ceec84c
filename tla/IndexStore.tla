----------------------------- MODULE IndexStore -----------------------------
(***************************************************************************)
(* The project index of internal/index/store.go and the two operations     *)
(* that go through it: refreshWithStore of cmd/whichrepo/main.go (load the *)
(* configuration, scan the workspace, replace the index in a transaction)  *)
(* and Store.Projects (list the index row by row).                         *)
(*                                                                         *)
(* Actors are requests that may run at the same time: HTTP handlers of one *)
(* dashboard process, the tool calls of an MCP process, a CLI command.     *)
(* They share the database file, and those of one process die together.    *)
(*                                                                         *)
(* SQLite itself is external and modelled by what the code relies on: one  *)
(* writer at a time (the write lock is taken by the first statement of the *)
(* transaction, DELETE), a commit that waits until no statement is reading,*)
(* a rollback on error or crash, and a primary key on the project's name.  *)
(***************************************************************************)
EXTENDS Naturals

CONSTANTS
    Refreshers,     \* requests that may refresh the index
    Listers,        \* requests that may list it
    Processes,      \* operating-system processes
    ProcessOf,      \* [Actors -> Processes]
    Roots,          \* workspaces that use this database file
    RootOf,         \* [Actors -> Roots]: the workspace a was configured with
    Dirs,           \* project directories
    BaseName,       \* [Dirs -> names]: filepath.Base, the primary key
    MaxEdition,     \* bound on the number of states a workspace goes through
    Workspace,      \* [Roots -> [1..MaxEdition -> SUBSET Dirs]]
    NoActor         \* nobody holds the write lock

Actors == Refreshers \cup Listers

ASSUME ActorsAssumption == /\ ProcessOf \in [Actors -> Processes]
                           /\ RootOf \in [Actors -> Roots]
                           /\ NoActor \notin Actors
ASSUME WorkspaceAssumption ==
    /\ MaxEdition \in Nat \ {0}
    /\ Workspace \in [Roots -> [1..MaxEdition -> SUBSET Dirs]]

VARIABLES
    disk,       \* disk[w]: which edition of workspace w is on the disk now
    schema,     \* the table's columns: none, before identifiers, or today's
    table,      \* the committed rows of projects_v2
    writer,     \* who holds SQLite's write lock
    store,      \* store[p]: how far process p is in index.Open
    pc,         \* pc[a]: where request a is
    since,      \* since[a]: the edition on the disk when a began to scan
    todo,       \* todo[a]: discovered directories a has still to scan
    scan,       \* scan[a]: the projects a has scanned
    draft,      \* draft[a]: the rows of a's open transaction
    seen        \* seen[a]: the rows a has read

external == <<disk>>
database == <<schema, table, writer>>
vars == <<disk, schema, table, writer, store, pc, since, todo, scan, draft, seen>>

Editions == 1..MaxEdition

\* A row: a project directory as it was when it was scanned.
Rows == [dir : Dirs, edition : Editions]

NameOf(row) == BaseName[row.dir]

Steps == {"idle", "scanning", "replacing", "refreshed", "reading", "listed", "failed"}

TypeOK ==
    /\ disk \in [Roots -> Editions]
    /\ schema \in {"absent", "v2", "current"}
    /\ table \in SUBSET Rows
    /\ writer \in Actors \cup {NoActor}
    /\ store \in [Processes -> {"closed", "created", "open"}]
    /\ pc \in [Actors -> Steps]
    /\ since \in [Actors -> Editions]
    /\ todo \in [Actors -> SUBSET Dirs]
    /\ scan \in [Actors -> SUBSET Rows]
    /\ draft \in [Actors -> SUBSET Rows]
    /\ seen \in [Actors -> SUBSET Rows]

Init ==
    /\ disk = [w \in Roots |-> 1]
    /\ schema \in {"absent", "v2"}
    /\ table = {}
    /\ writer = NoActor
    /\ store = [p \in Processes |-> "closed"]
    /\ pc = [a \in Actors |-> "idle"]
    /\ since = [a \in Actors |-> 1]
    /\ todo = [a \in Actors |-> {}]
    /\ scan = [a \in Actors |-> {}]
    /\ draft = [a \in Actors |-> {}]
    /\ seen = [a \in Actors |-> {}]

Readers == {a \in Actors : pc[a] = "reading"}
Root(a) == RootOf[a]
Open(a) == store[ProcessOf[a]] = "open"

Go(a, step) == pc' = [pc EXCEPT ![a] = step]

\* What the request holds in memory is gone once it is answered.
Forget(a) ==
    /\ since' = [since EXCEPT ![a] = 1]
    /\ todo' = [todo EXCEPT ![a] = {}]
    /\ scan' = [scan EXCEPT ![a] = {}]
    /\ draft' = [draft EXCEPT ![a] = {}]
    /\ seen' = [seen EXCEPT ![a] = {}]

-----------------------------------------------------------------------------
(* index.Open: create the table, then add the column that v2 did not have. *)

CreateTable(p) ==
    /\ store[p] = "closed"
    /\ schema' = IF schema = "absent" THEN "current" ELSE schema
    /\ store' = [store EXCEPT ![p] = "created"]
    /\ UNCHANGED <<disk, table, writer, pc, since, todo, scan, draft, seen>>

\* Mutation: the ALTER TABLE is dropped, CREATE TABLE IF NOT EXISTS does it all.
AddColumnForgotten(p) ==
    /\ store[p] = "created"
    /\ store' = [store EXCEPT ![p] = "open"]
    /\ UNCHANGED <<disk, schema, table, writer, pc, since, todo, scan, draft, seen>>

\* A column that is there already is an error the code takes for success.
AddColumn(p) ==
    /\ store[p] = "created"
    /\ schema' = "current"
    /\ store' = [store EXCEPT ![p] = "open"]
    /\ UNCHANGED <<disk, table, writer, pc, since, todo, scan, draft, seen>>

-----------------------------------------------------------------------------
(* refreshWithStore *)

\* LoadWorkspace and discoverProjects succeed.
StartRefresh(a) ==
    /\ a \in Refreshers /\ pc[a] = "idle" /\ Open(a)
    /\ Go(a, "scanning")
    /\ since' = [since EXCEPT ![a] = disk[Root(a)]]
    /\ todo' = [todo EXCEPT ![a] = Workspace[Root(a)][disk[Root(a)]]]
    /\ UNCHANGED <<external, database, store, scan, draft, seen>>

\* The configuration is invalid or the workspace's root cannot be read.
RefuseRefresh(a) ==
    /\ a \in Refreshers /\ pc[a] = "idle" /\ Open(a)
    /\ Go(a, "failed")
    /\ UNCHANGED <<external, database, store, since, todo, scan, draft, seen>>

\* Mutation: scanned files are cached and may be as old as any edition.
ScanProjectFromCache(a) ==
    /\ pc[a] = "scanning"
    /\ \E d \in todo[a], e \in 1..disk[Root(a)] :
        /\ todo' = [todo EXCEPT ![a] = @ \ {d}]
        /\ scan' = [scan EXCEPT ![a] = @ \cup {[dir |-> d, edition |-> e]}]
    /\ UNCHANGED <<external, database, store, pc, since, draft, seen>>

\* scanProject of the next directory; the workspace may have moved on since
\* it was discovered, and a directory that vanished scans to no files.
ScanProject(a) ==
    /\ pc[a] = "scanning"
    /\ \E d \in todo[a] :
        /\ todo' = [todo EXCEPT ![a] = @ \ {d}]
        /\ scan' = [scan EXCEPT ![a] = @ \cup {[dir |-> d, edition |-> disk[Root(a)]]}]
    /\ UNCHANGED <<external, database, store, pc, since, draft, seen>>

\* Mutation: the DELETE is not part of the transaction.
DeleteOutsideTransaction(a) ==
    /\ pc[a] = "scanning" /\ todo[a] = {}
    /\ writer = NoActor
    /\ writer' = a
    /\ table' = {}
    /\ Go(a, "replacing")
    /\ draft' = [draft EXCEPT ![a] = {}]
    /\ UNCHANGED <<external, schema, store, since, todo, scan, seen>>

\* Mutation: the lock is booked on the process instead of the request.
LockByProcess(a) ==
    /\ pc[a] = "scanning" /\ todo[a] = {}
    /\ writer = NoActor
    /\ writer' = ProcessOf[a]
    /\ Go(a, "replacing")
    /\ draft' = [draft EXCEPT ![a] = {}]
    /\ UNCHANGED <<external, schema, table, store, since, todo, scan, seen>>

\* BeginTx and DELETE FROM projects_v2.
BeginReplace(a) ==
    /\ pc[a] = "scanning" /\ todo[a] = {}
    /\ writer = NoActor
    /\ writer' = a
    /\ Go(a, "replacing")
    /\ draft' = [draft EXCEPT ![a] = {}]
    /\ UNCHANGED <<external, schema, table, store, since, todo, scan, seen>>

Clashes(a, row) == \E other \in draft[a] : NameOf(other) = NameOf(row)

\* INSERT INTO projects_v2, one project.
InsertProject(a) ==
    /\ pc[a] = "replacing"
    /\ schema = "current"
    /\ \E row \in scan[a] \ draft[a] :
        /\ ~ Clashes(a, row)
        /\ draft' = [draft EXCEPT ![a] = @ \cup {row}]
    /\ UNCHANGED <<external, database, store, pc, since, todo, scan, seen>>

\* Mutation: the error returns without the deferred Rollback.
InsertConflictKeepsLock(a) ==
    /\ pc[a] = "replacing"
    /\ \E row \in scan[a] \ draft[a] : Clashes(a, row)
    /\ Go(a, "failed")
    /\ draft' = [draft EXCEPT ![a] = {}]
    /\ UNCHANGED <<external, database, store, since, todo, scan, seen>>

\* The INSERT breaks the primary key; the deferred Rollback gives up the lock.
InsertConflict(a) ==
    /\ pc[a] = "replacing"
    /\ \E row \in scan[a] \ draft[a] : Clashes(a, row)
    /\ writer' = NoActor
    /\ Go(a, "failed")
    /\ draft' = [draft EXCEPT ![a] = {}]
    /\ UNCHANGED <<external, schema, table, store, since, todo, scan, seen>>

\* Mutation: a failed INSERT is skipped and the rest is committed.
CommitWhatWasInserted(a) ==
    /\ pc[a] = "replacing"
    /\ Readers = {}
    /\ table' = draft[a]
    /\ writer' = NoActor
    /\ Go(a, "refreshed")
    /\ draft' = [draft EXCEPT ![a] = {}]
    /\ UNCHANGED <<external, schema, store, since, todo, scan, seen>>

CommitReplace(a) ==
    /\ pc[a] = "replacing"
    /\ draft[a] = scan[a]
    /\ Readers = {}
    /\ table' = draft[a]
    /\ writer' = NoActor
    /\ Go(a, "refreshed")
    /\ draft' = [draft EXCEPT ![a] = {}]
    /\ UNCHANGED <<external, schema, store, since, todo, scan, seen>>

\* Mutation: the error of ReplaceProjects is dropped.
AbortReportsSuccess(a) ==
    /\ \/ pc[a] = "scanning" /\ todo[a] = {}
       \/ pc[a] = "replacing"
    /\ writer' = IF writer = a THEN NoActor ELSE writer
    /\ Go(a, "refreshed")
    /\ draft' = [draft EXCEPT ![a] = {}]
    /\ UNCHANGED <<external, schema, table, store, since, todo, scan, seen>>

\* Mutation: neither a deadline nor the busy wait ends a refresh.
NeverAborts(a) == FALSE /\ UNCHANGED <<vars, a>>

\* The request is cancelled, its three minutes are over, or SQLite gave up
\* waiting for a lock: BeginTx, a statement or Commit fails, and the deferred
\* Rollback ends the transaction if there is one.
AbortReplace(a) ==
    /\ \/ pc[a] = "scanning" /\ todo[a] = {}
       \/ pc[a] = "replacing"
    /\ writer' = IF writer = a THEN NoActor ELSE writer
    /\ Go(a, "failed")
    /\ draft' = [draft EXCEPT ![a] = {}]
    /\ UNCHANGED <<external, schema, table, store, since, todo, scan, seen>>

-----------------------------------------------------------------------------
(* Store.Projects *)

StartList(a) ==
    /\ a \in Listers /\ pc[a] = "idle" /\ Open(a)
    /\ Go(a, "reading")
    /\ UNCHANGED <<external, database, store, since, todo, scan, draft, seen>>

\* rows.Next and rows.Scan, one row.
ReadRow(a) ==
    /\ pc[a] = "reading"
    /\ \E row \in table \ seen[a] : seen' = [seen EXCEPT ![a] = @ \cup {row}]
    /\ UNCHANGED <<external, database, store, pc, since, todo, scan, draft>>

\* Mutation: rows.Err is not looked at, a broken read ends the list early.
FinishListEarly(a) ==
    /\ pc[a] = "reading"
    /\ Go(a, "listed")
    /\ UNCHANGED <<external, database, store, since, todo, scan, draft, seen>>

FinishList(a) ==
    /\ pc[a] = "reading"
    /\ table \subseteq seen[a]
    /\ Go(a, "listed")
    /\ UNCHANGED <<external, database, store, since, todo, scan, draft, seen>>

\* The query or a row fails; what was read so far is dropped.
AbortList(a) ==
    /\ pc[a] = "reading"
    /\ Go(a, "failed")
    /\ seen' = [seen EXCEPT ![a] = {}]
    /\ UNCHANGED <<external, database, store, since, todo, scan, draft>>

-----------------------------------------------------------------------------
Answer(a) ==
    /\ pc[a] \in {"refreshed", "listed", "failed"}
    /\ Go(a, "idle")
    /\ Forget(a)
    /\ UNCHANGED <<external, database, store>>

\* A repository or a manifest of workspace w changes on the disk.
Edit(w) ==
    /\ disk[w] < MaxEdition
    /\ disk' = [disk EXCEPT ![w] = @ + 1]
    /\ UNCHANGED <<database, store, pc, since, todo, scan, draft, seen>>

\* Process p ends, or is killed between any two steps of its requests. SQLite
\* rolls back what was not committed when the file is next opened.
Crash(p) ==
    LET Gone == {a \in Actors : ProcessOf[a] = p}
        Clear(f, value) == [a \in Actors |-> IF a \in Gone THEN value ELSE f[a]]
    IN  /\ store[p] # "closed"
        /\ store' = [store EXCEPT ![p] = "closed"]
        /\ writer' = IF writer \in Gone THEN NoActor ELSE writer
        /\ pc' = Clear(pc, "idle")
        /\ since' = Clear(since, 1)
        /\ todo' = Clear(todo, {})
        /\ scan' = Clear(scan, {})
        /\ draft' = Clear(draft, {})
        /\ seen' = Clear(seen, {})
        /\ UNCHANGED <<external, schema, table>>

-----------------------------------------------------------------------------
\* The steps that go on with a request once it was made.
Continue(a) ==
    \/ ScanProject(a) \/ BeginReplace(a)
    \/ InsertProject(a) \/ InsertConflict(a) \/ CommitReplace(a) \/ AbortReplace(a)
    \/ ReadRow(a) \/ FinishList(a) \/ AbortList(a)
    \/ Answer(a)

Request(a) == StartRefresh(a) \/ RefuseRefresh(a) \/ StartList(a)

Next ==
    \/ \E a \in Actors : Request(a) \/ Continue(a)
    \/ \E p \in Processes : CreateTable(p) \/ AddColumn(p) \/ Crash(p)
    \/ \E w \in Roots : Edit(w)

Spec == Init /\ [][Next]_vars

\* A request that can go on does: the goroutine is scheduled, SQLite's busy
\* wait and the three minutes of refreshWithStore both end by themselves.
FairSpec == Spec /\ \A a \in Actors : WF_vars(Continue(a))

-----------------------------------------------------------------------------
(* Properties *)

\* rows is one whole scan of one workspace: exactly the directories that were
\* discovered at some edition up to now, each as it was then or later, and no
\* two of one name.
DirsOf(rows) == {row.dir : row \in rows}

UniqueNames(rows) == \A r1, r2 \in rows : NameOf(r1) = NameOf(r2) => r1 = r2

ScanOf(w, e, rows, now) ==
    /\ DirsOf(rows) = Workspace[w][e]
    /\ \A row \in rows : e <= row.edition /\ row.edition <= now[w]

WholeAt(rows, now) ==
    /\ rows = {} \/ \E w \in Roots, e \in Editions : e <= now[w] /\ ScanOf(w, e, rows, now)
    /\ UniqueNames(rows)

Whole(rows) == WholeAt(rows, disk)

\* The index is the result of one whole refresh, or empty: no refresh that was
\* cancelled, that broke the primary key on its third project, that lost its
\* process half way or that ran beside another leaves a part of its rows.
IndexIsWhole == Whole(table)

\* A listing that is answered is one whole refresh as well, although its rows
\* are fetched one by one while refreshes of other processes try to commit.
ListingIsWhole == \A a \in Actors : pc[a] = "listed" => Whole(seen[a])

\* The write lock belongs to the one request that is inside its transaction:
\* no error path of ReplaceProjects, and no crash, leaves it taken.
LockFollowsTransaction == \A a \in Actors : writer = a <=> pc[a] = "replacing"

\* Nobody is served from a table that lacks the identifiers column, whichever
\* of several processes created or altered it.
OpenIsMigrated ==
    /\ \A p \in Processes : store[p] = "open" => schema = "current"
    /\ \A a \in Actors : pc[a] # "idle" => schema = "current"

\* The directories of workspace w in any of its editions.
Within(w) == UNION {Workspace[w][e] : e \in Editions}

\* A refresh that reports success left the index at least as new as the
\* workspace was when that refresh was asked for, or another workspace's
\* refresh has taken its place meanwhile: it holds no older row of this one.
RefreshTakesHold ==
    \A a \in Actors : pc[a] = "refreshed" =>
        \A row \in table : row.dir \in Within(Root(a)) => row.edition >= since[a]

\* The index only moves forward: a commit never replaces a project's row by
\* an older state of the same project, whoever commits.
IndexNeverGoesBack ==
    [][\A old \in table, new \in table' : old.dir = new.dir => new.edition >= old.edition]_table

\* Every request that was made comes to its end: an answer, or the end of its
\* process. Nothing waits for a lock for ever.
RequestsEnd == \A a \in Actors : (pc[a] # "idle") ~> (pc[a] = "idle")

\* The rows a request asks the store for, and what it was answered, as a call
\* of the abstract index.
CallOf(step) ==
    CASE step = "replacing" -> "replacing"
      [] step = "refreshed" -> "replaced"
      [] step = "reading" -> "listing"
      [] step = "listed" -> "listed"
      [] OTHER -> "none"

ArgOf(a) ==
    CASE pc[a] \in {"replacing", "refreshed"} -> scan[a]
      [] pc[a] = "listed" -> seen[a]
      [] OTHER -> {}

CallMap == [a \in Actors |-> CallOf(pc[a])]
ArgMap == [a \in Actors |-> ArgOf(a)]

Abstract == INSTANCE AtomicIndex WITH
    Contents <- SUBSET Rows,
    Blank <- {},
    index <- table,
    call <- CallMap,
    arg <- ArgMap

\* The store, transaction by transaction and row by row, is the atomic index.
ImplementsAtomicIndex == Abstract!Spec
=============================================================================
