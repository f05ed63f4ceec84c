-------------------------- MODULE IndexStoreProofs --------------------------
(***************************************************************************)
(* What the index promises, proved for any number of requests, processes,  *)
(* workspaces, projects and editions of them.                              *)
(***************************************************************************)
EXTENDS IndexStore, TLAPS

-----------------------------------------------------------------------------
(* The inductive invariant *)

\* What a refresh holds in memory: its scan, and the directories still to be
\* scanned, are the ones it discovered; its transaction holds a part of it.
ScanOfRequest(a) ==
    /\ pc[a] \in {"scanning", "replacing"} =>
        /\ since[a] <= disk[Root(a)]
        /\ DirsOf(scan[a]) \cup todo[a] = Workspace[Root(a)][since[a]]
        /\ \A row \in scan[a] : since[a] <= row.edition /\ row.edition <= disk[Root(a)]
    /\ pc[a] = "replacing" =>
        /\ todo[a] = {}
        /\ draft[a] \subseteq scan[a]
        /\ UniqueNames(draft[a])

\* A listing under way has read rows of the index as it still is; a request
\* that is not under way holds nothing.
ReadOfRequest(a) ==
    /\ pc[a] = "reading" => seen[a] \subseteq table
    /\ pc[a] = "idle" => scan[a] = {} /\ seen[a] = {}

RequestInv == \A a \in Actors : ScanOfRequest(a) /\ ReadOfRequest(a)

IInv ==
    /\ TypeOK
    /\ OpenIsMigrated
    /\ LockFollowsTransaction
    /\ RequestInv
    /\ IndexIsWhole
    /\ ListingIsWhole

-----------------------------------------------------------------------------
\* Every action that goes on with a request, by name.
LEMMA NextCases ==
    ASSUME Next
    PROVE  \/ \E a \in Actors : \/ StartRefresh(a) \/ RefuseRefresh(a) \/ StartList(a)
                                \/ ScanProject(a) \/ BeginReplace(a) \/ InsertProject(a)
                                \/ InsertConflict(a) \/ CommitReplace(a) \/ AbortReplace(a)
                                \/ ReadRow(a) \/ FinishList(a) \/ AbortList(a) \/ Answer(a)
           \/ \E p \in Processes : CreateTable(p) \/ AddColumn(p) \/ Crash(p)
           \/ \E w \in Roots : Edit(w)
  BY DEF Next, Request, Continue

-----------------------------------------------------------------------------
(* Type correctness *)

\* The initial states have their types.
LEMMA InitType == Init => TypeOK
  BY WorkspaceAssumption DEF Init, TypeOK, Steps, Editions

\* Every step keeps the types.
LEMMA StepType == TypeOK /\ [Next]_vars => TypeOK'
<1> SUFFICES ASSUME TypeOK, [Next]_vars PROVE TypeOK'
  OBVIOUS
<1> USE ActorsAssumption, WorkspaceAssumption
<1>1. ASSUME NEW a \in Actors, StartRefresh(a) PROVE TypeOK'
  BY <1>1 DEF StartRefresh, TypeOK, Steps, Editions, Go, Root, external, database
<1>2. ASSUME NEW a \in Actors, RefuseRefresh(a) PROVE TypeOK'
  BY <1>2 DEF RefuseRefresh, TypeOK, Steps, Go, external, database
<1>3. ASSUME NEW a \in Actors, StartList(a) PROVE TypeOK'
  BY <1>3 DEF StartList, TypeOK, Steps, Go, external, database
<1>4. ASSUME NEW a \in Actors, ScanProject(a) PROVE TypeOK'
  BY <1>4 DEF ScanProject, TypeOK, Rows, Root, external, database
<1>5. ASSUME NEW a \in Actors, BeginReplace(a) PROVE TypeOK'
  BY <1>5 DEF BeginReplace, TypeOK, Steps, Go, external
<1>6. ASSUME NEW a \in Actors, InsertProject(a) PROVE TypeOK'
  BY <1>6 DEF InsertProject, TypeOK, external, database
<1>7. ASSUME NEW a \in Actors, InsertConflict(a) PROVE TypeOK'
  BY <1>7 DEF InsertConflict, TypeOK, Steps, Go, external
<1>8. ASSUME NEW a \in Actors, CommitReplace(a) PROVE TypeOK'
  BY <1>8 DEF CommitReplace, TypeOK, Steps, Go, external
<1>9. ASSUME NEW a \in Actors, AbortReplace(a) PROVE TypeOK'
  BY <1>9 DEF AbortReplace, TypeOK, Steps, Go, external
<1>10. ASSUME NEW a \in Actors, ReadRow(a) PROVE TypeOK'
  BY <1>10 DEF ReadRow, TypeOK, external, database
<1>11. ASSUME NEW a \in Actors, FinishList(a) PROVE TypeOK'
  BY <1>11 DEF FinishList, TypeOK, Steps, Go, external, database
<1>12. ASSUME NEW a \in Actors, AbortList(a) PROVE TypeOK'
  BY <1>12 DEF AbortList, TypeOK, Steps, Go, external, database
<1>13. ASSUME NEW a \in Actors, Answer(a) PROVE TypeOK'
  BY <1>13 DEF Answer, Forget, TypeOK, Steps, Editions, Go, external, database
<1>14. ASSUME NEW p \in Processes, CreateTable(p) PROVE TypeOK'
  BY <1>14 DEF CreateTable, TypeOK
<1>15. ASSUME NEW p \in Processes, AddColumn(p) PROVE TypeOK'
  BY <1>15 DEF AddColumn, TypeOK
<1>16. ASSUME NEW p \in Processes, Crash(p) PROVE TypeOK'
  BY <1>16 DEF Crash, TypeOK, Steps, Editions, external
<1>17. ASSUME NEW w \in Roots, Edit(w) PROVE TypeOK'
  BY <1>17 DEF Edit, TypeOK, Editions, database
<1>18. CASE UNCHANGED vars
  BY <1>18 DEF vars, TypeOK
<1> QED
  BY <1>1, <1>2, <1>3, <1>4, <1>5, <1>6, <1>7, <1>8, <1>9, <1>10, <1>11, <1>12,
     <1>13, <1>14, <1>15, <1>16, <1>17, <1>18, NextCases

\* The store's variables have their types in every reachable state.
THEOREM TypeCorrect == Spec => []TypeOK
<1>1. Init => TypeOK
  BY InitType
<1>2. TypeOK /\ [Next]_vars => TypeOK'
  BY StepType
<1> QED
  BY <1>1, <1>2, PTL DEF Spec

-----------------------------------------------------------------------------
(* The write lock and the schema *)

\* Every step keeps the write lock with the request in its transaction: each exit
\* of ReplaceProjects, and a crash, gives it up.
LEMMA StepLock ==
    TypeOK /\ LockFollowsTransaction /\ [Next]_vars => LockFollowsTransaction'
<1> SUFFICES ASSUME TypeOK, LockFollowsTransaction, [Next]_vars
             PROVE  LockFollowsTransaction'
  OBVIOUS
<1> USE ActorsAssumption DEF TypeOK, LockFollowsTransaction
<1>1. ASSUME NEW a \in Actors,
             \/ StartRefresh(a) \/ RefuseRefresh(a) \/ StartList(a) \/ ScanProject(a)
             \/ InsertProject(a) \/ ReadRow(a) \/ FinishList(a) \/ AbortList(a) \/ Answer(a)
      PROVE LockFollowsTransaction'
  BY <1>1 DEF StartRefresh, RefuseRefresh, StartList, ScanProject, InsertProject, ReadRow,
              FinishList, AbortList, Answer, Go, external, database
<1>2. ASSUME NEW a \in Actors, BeginReplace(a) PROVE LockFollowsTransaction'
  BY <1>2 DEF BeginReplace, Go
<1>3. ASSUME NEW a \in Actors, InsertConflict(a) PROVE LockFollowsTransaction'
  BY <1>3 DEF InsertConflict, Go
<1>4. ASSUME NEW a \in Actors, CommitReplace(a) PROVE LockFollowsTransaction'
  BY <1>4 DEF CommitReplace, Go
<1>5. ASSUME NEW a \in Actors, AbortReplace(a) PROVE LockFollowsTransaction'
  BY <1>5 DEF AbortReplace, Go
<1>6. ASSUME NEW p \in Processes, CreateTable(p) \/ AddColumn(p)
      PROVE LockFollowsTransaction'
  BY <1>6 DEF CreateTable, AddColumn
<1>7. ASSUME NEW p \in Processes, Crash(p) PROVE LockFollowsTransaction'
  BY <1>7 DEF Crash
<1>8. ASSUME NEW w \in Roots, Edit(w) PROVE LockFollowsTransaction'
  BY <1>8 DEF Edit, database
<1>9. CASE UNCHANGED vars
  BY <1>9 DEF vars
<1> QED
  BY <1>1, <1>2, <1>3, <1>4, <1>5, <1>6, <1>7, <1>8, <1>9, NextCases

\* Every step keeps the table migrated for the processes that opened it.
LEMMA StepMigrated ==
    TypeOK /\ OpenIsMigrated /\ [Next]_vars => OpenIsMigrated'
<1> SUFFICES ASSUME TypeOK, OpenIsMigrated, [Next]_vars PROVE OpenIsMigrated'
  OBVIOUS
<1> USE ActorsAssumption DEF TypeOK, OpenIsMigrated
<1>1. ASSUME NEW a \in Actors, StartRefresh(a) \/ RefuseRefresh(a) \/ StartList(a)
      PROVE OpenIsMigrated'
  BY <1>1 DEF StartRefresh, RefuseRefresh, StartList, Open, Go, external, database
<1>2. ASSUME NEW a \in Actors,
             \/ ScanProject(a) \/ BeginReplace(a) \/ InsertProject(a) \/ InsertConflict(a)
             \/ CommitReplace(a) \/ AbortReplace(a) \/ ReadRow(a) \/ FinishList(a)
             \/ AbortList(a) \/ Answer(a)
      PROVE OpenIsMigrated'
  BY <1>2 DEF ScanProject, BeginReplace, InsertProject, InsertConflict, CommitReplace,
              AbortReplace, ReadRow, FinishList, AbortList, Answer, Go, external, database
<1>3. ASSUME NEW p \in Processes, CreateTable(p) \/ AddColumn(p) PROVE OpenIsMigrated'
  BY <1>3 DEF CreateTable, AddColumn
<1>4. ASSUME NEW p \in Processes, Crash(p) PROVE OpenIsMigrated'
  BY <1>4 DEF Crash
<1>5. ASSUME NEW w \in Roots, Edit(w) PROVE OpenIsMigrated'
  BY <1>5 DEF Edit, database
<1>6. CASE UNCHANGED vars
  BY <1>6 DEF vars
<1> QED
  BY <1>1, <1>2, <1>3, <1>4, <1>5, <1>6, NextCases

-----------------------------------------------------------------------------
(* Scans, transactions and listings *)

\* Scanning one more directory adds that directory to a scan, and no other.
LEMMA DirsOfOneMore ==
    ASSUME NEW rows, NEW d, NEW e
    PROVE  DirsOf(rows \cup {[dir |-> d, edition |-> e]}) = DirsOf(rows) \cup {d}
<1> DEFINE row == [dir |-> d, edition |-> e]
<1>1. row.dir = d
  OBVIOUS
<1> HIDE DEF row
<1>2. DirsOf(rows \cup {row}) = DirsOf(rows) \cup {row.dir}
  BY DEF DirsOf
<1> QED
  BY <1>1, <1>2 DEF row

\* Every step keeps what is known of the requests under way: the directories they
\* have still to scan, the rows they inserted and the rows they read.
LEMMA StepRequests == IInv /\ [Next]_vars => RequestInv'
<1> SUFFICES ASSUME IInv, [Next]_vars PROVE RequestInv'
  OBVIOUS
<1> USE ActorsAssumption, WorkspaceAssumption
<1> USE DEF IInv, TypeOK, LockFollowsTransaction, RequestInv, ScanOfRequest, ReadOfRequest,
            DirsOf, UniqueNames, Root
<1>1. ASSUME NEW a \in Actors, StartRefresh(a) PROVE RequestInv'
  BY <1>1 DEF StartRefresh, Go, Editions, external, database
<1>2. ASSUME NEW a \in Actors, RefuseRefresh(a) \/ StartList(a) PROVE RequestInv'
  BY <1>2 DEF RefuseRefresh, StartList, Go, external, database
<1>3. ASSUME NEW a \in Actors, ScanProject(a) PROVE RequestInv'
  <2>1. PICK d \in todo[a] :
          /\ todo' = [todo EXCEPT ![a] = @ \ {d}]
          /\ scan' = [scan EXCEPT ![a] = @ \cup {[dir |-> d, edition |-> disk[Root(a)]]}]
    BY <1>3 DEF ScanProject
  <2>2. UNCHANGED <<disk, table, pc, since, draft, seen>> /\ pc[a] = "scanning"
    BY <1>3 DEF ScanProject, external, database
  <2>3. disk[Root(a)] <= disk[Root(a)]
    BY DEF Editions
  <2>4. DirsOf(scan[a])' \cup todo'[a] = DirsOf(scan[a]) \cup todo[a]
    <3>1. scan'[a] = scan[a] \cup {[dir |-> d, edition |-> disk[Root(a)]]}
      BY <2>1
    <3>2. DirsOf(scan[a])' = DirsOf(scan[a]) \cup {d}
      <4>1. DirsOf(scan[a])' = DirsOf(scan'[a])
        OBVIOUS
      <4> HIDE DEF DirsOf, IInv, TypeOK
      <4>2. DirsOf(scan[a] \cup {[dir |-> d, edition |-> disk[Root(a)]]}) = DirsOf(scan[a]) \cup {d}
        BY DirsOfOneMore
      <4> QED
        BY <3>1, <4>1, <4>2, Zenon
    <3>3. todo'[a] = todo[a] \ {d}
      BY <2>1
    <3> QED
      BY <3>2, <3>3
  <2>5. ASSUME NEW b \in Actors PROVE ScanOfRequest(b)'
    <3>1. CASE b = a
      BY <2>1, <2>2, <2>3, <2>4, <3>1
    <3>2. CASE b # a
      BY <2>1, <2>2, <3>2
    <3> QED
      BY <3>1, <3>2
  <2>6. ASSUME NEW b \in Actors PROVE ReadOfRequest(b)'
    BY <2>1, <2>2
  <2> QED
    BY <2>5, <2>6
<1>4. ASSUME NEW a \in Actors, BeginReplace(a) PROVE RequestInv'
  <2>1. ASSUME NEW b \in Actors PROVE ScanOfRequest(b)'
    BY <1>4, <2>1 DEF BeginReplace, Go, external
  <2>2. ASSUME NEW b \in Actors PROVE ReadOfRequest(b)'
    BY <1>4, <2>2 DEF BeginReplace, Go, external
  <2> QED
    BY <2>1, <2>2
<1>5. ASSUME NEW a \in Actors, InsertProject(a) PROVE RequestInv'
  <2>1. ASSUME NEW b \in Actors PROVE ScanOfRequest(b)'
    BY <1>5, <2>1 DEF InsertProject, Clashes, external, database
  <2>2. ASSUME NEW b \in Actors PROVE ReadOfRequest(b)'
    BY <1>5, <2>2 DEF InsertProject, external, database
  <2> QED
    BY <2>1, <2>2
<1>6. ASSUME NEW a \in Actors, InsertConflict(a) \/ AbortReplace(a) PROVE RequestInv'
  <2>1. CASE InsertConflict(a)
    BY <2>1 DEF InsertConflict, Go, external
  <2>2. CASE AbortReplace(a)
    BY <2>2 DEF AbortReplace, Go, external
  <2> QED
    BY <1>6, <2>1, <2>2
<1>7. ASSUME NEW a \in Actors, CommitReplace(a) PROVE RequestInv'
  BY <1>7 DEF CommitReplace, Readers, Go, external
<1>8. ASSUME NEW a \in Actors, ReadRow(a) \/ FinishList(a) \/ AbortList(a) PROVE RequestInv'
  BY <1>8 DEF ReadRow, FinishList, AbortList, Go, external, database
<1>9. ASSUME NEW a \in Actors, Answer(a) PROVE RequestInv'
  BY <1>9 DEF Answer, Forget, Go, external, database
<1>10. ASSUME NEW p \in Processes, CreateTable(p) \/ AddColumn(p) PROVE RequestInv'
  BY <1>10 DEF CreateTable, AddColumn
<1>11. ASSUME NEW p \in Processes, Crash(p) PROVE RequestInv'
  BY <1>11 DEF Crash, external
<1>12. ASSUME NEW w \in Roots, Edit(w) PROVE RequestInv'
  <2>1. \A x \in Roots : disk[x] <= disk'[x]
    BY <1>12 DEF Edit, Editions
  <2>2. disk' \in [Roots -> Nat] /\ disk \in [Roots -> Nat] /\ since \in [Actors -> Nat]
    BY <1>12 DEF Edit, Editions
  <2>3. \A a \in Actors : \A row \in scan[a] : row.edition \in Nat
    BY DEF Rows, Editions
  <2>4. UNCHANGED <<pc, since, todo, scan, draft, seen, table>>
    BY <1>12 DEF Edit, database
  <2>5. ASSUME NEW a \in Actors PROVE ScanOfRequest(a)'
    <3>1. RootOf[a] \in Roots
      OBVIOUS
    <3> QED
      BY <2>1, <2>2, <2>3, <2>4, <3>1
  <2>6. ASSUME NEW a \in Actors PROVE ReadOfRequest(a)'
    BY <2>4
  <2> QED
    BY <2>5, <2>6
<1>13. CASE UNCHANGED vars
  BY <1>13 DEF vars
<1> QED
  BY <1>1, <1>2, <1>3, <1>4, <1>5, <1>6, <1>7, <1>8, <1>9, <1>10, <1>11, <1>12,
     <1>13, NextCases

-----------------------------------------------------------------------------
(* The index and every listing are one whole scan *)

\* A workspace that moves on does not make an older scan less whole.
LEMMA WholeStays ==
    ASSUME NEW rows \in SUBSET Rows,
           NEW now \in [Roots -> Nat], NEW later \in [Roots -> Nat],
           \A w \in Roots : now[w] <= later[w],
           WholeAt(rows, now)
    PROVE  WholeAt(rows, later)
<1>1. \A row \in rows : row.edition \in Nat
  BY WorkspaceAssumption DEF Rows, Editions
<1>2. ASSUME NEW w \in Roots, NEW e \in Editions, e <= now[w], ScanOf(w, e, rows, now)
      PROVE  e <= later[w] /\ ScanOf(w, e, rows, later)
  BY <1>1, <1>2, WorkspaceAssumption DEF ScanOf, Editions
<1> QED
  BY <1>2 DEF WholeAt

\* The transaction that commits holds a whole scan.
LEMMA CommitIsWhole ==
    ASSUME TypeOK, RequestInv, NEW a \in Actors, CommitReplace(a)
    PROVE  Whole(draft[a])
<1> USE ActorsAssumption, WorkspaceAssumption
<1>1. pc[a] = "replacing" /\ draft[a] = scan[a]
  BY DEF CommitReplace
<1>2. ScanOfRequest(a)
  BY DEF RequestInv
<1>3. DirsOf(draft[a]) = Workspace[Root(a)][since[a]]
  <2>1. DirsOf(scan[a]) \cup todo[a] = Workspace[Root(a)][since[a]] /\ todo[a] = {}
    BY <1>1, <1>2 DEF ScanOfRequest
  <2> QED
    BY <1>1, <2>1
<1>4. /\ since[a] <= disk[Root(a)]
      /\ \A row \in draft[a] : since[a] <= row.edition /\ row.edition <= disk[Root(a)]
      /\ UniqueNames(draft[a])
  BY <1>1, <1>2 DEF ScanOfRequest
<1>5. Root(a) \in Roots /\ since[a] \in Editions
  BY DEF TypeOK, Root
<1> QED
  BY <1>3, <1>4, <1>5 DEF Whole, WholeAt, ScanOf

\* Every step keeps the index and the answered listings whole.
LEMMA StepWhole == IInv /\ [Next]_vars => IndexIsWhole' /\ ListingIsWhole'
<1> SUFFICES ASSUME IInv, [Next]_vars PROVE IndexIsWhole' /\ ListingIsWhole'
  OBVIOUS
<1> USE ActorsAssumption, WorkspaceAssumption
<1> USE DEF IInv, TypeOK, IndexIsWhole, ListingIsWhole, Whole
<1>1. ASSUME NEW a \in Actors,
             \/ StartRefresh(a) \/ RefuseRefresh(a) \/ StartList(a) \/ ScanProject(a)
             \/ BeginReplace(a) \/ InsertProject(a) \/ InsertConflict(a)
             \/ AbortReplace(a) \/ AbortList(a) \/ Answer(a) \/ ReadRow(a)
      PROVE IndexIsWhole' /\ ListingIsWhole'
  <2>1. disk' = disk /\ table' = table
    BY <1>1 DEF StartRefresh, RefuseRefresh, StartList, ScanProject, BeginReplace,
        InsertProject, InsertConflict, AbortReplace, AbortList, Answer, ReadRow,
        external, database
  <2>2. \A b \in Actors : pc'[b] = "listed" => pc[b] = "listed" /\ seen'[b] = seen[b]
    BY <1>1 DEF StartRefresh, RefuseRefresh, StartList, ScanProject, BeginReplace,
        InsertProject, InsertConflict, AbortReplace, AbortList, Answer, ReadRow, Forget, Go
  <2> QED
    BY <2>1, <2>2
<1>2. ASSUME NEW a \in Actors, FinishList(a) PROVE IndexIsWhole' /\ ListingIsWhole'
  <2>1. UNCHANGED <<disk, table, seen>> /\ seen[a] = table
    BY <1>2 DEF FinishList, external, database, RequestInv, ReadOfRequest
  <2>2. \A b \in Actors : pc'[b] = "listed" => pc[b] = "listed" \/ b = a
    BY <1>2 DEF FinishList, Go
  <2> QED
    BY <2>1, <2>2
<1>3. ASSUME NEW a \in Actors, CommitReplace(a) PROVE IndexIsWhole' /\ ListingIsWhole'
  <2>1. Whole(draft[a])
    BY <1>3, CommitIsWhole
  <2>2. disk' = disk /\ table' = draft[a] /\ seen' = seen
    BY <1>3 DEF CommitReplace, external
  <2>3. \A b \in Actors : pc'[b] = "listed" => pc[b] = "listed"
    BY <1>3 DEF CommitReplace, Go
  <2> QED
    BY <2>1, <2>2, <2>3
<1>4. ASSUME NEW p \in Processes, CreateTable(p) \/ AddColumn(p) \/ Crash(p)
      PROVE IndexIsWhole' /\ ListingIsWhole'
  <2>1. disk' = disk /\ table' = table
    BY <1>4 DEF CreateTable, AddColumn, Crash, external
  <2>2. \A b \in Actors : pc'[b] = "listed" => pc[b] = "listed" /\ seen'[b] = seen[b]
    BY <1>4 DEF CreateTable, AddColumn, Crash
  <2> QED
    BY <2>1, <2>2
<1>5. ASSUME NEW w \in Roots, Edit(w) PROVE IndexIsWhole' /\ ListingIsWhole'
  <2>1. /\ disk \in [Roots -> Nat] /\ disk' \in [Roots -> Nat]
        /\ \A x \in Roots : disk[x] <= disk'[x]
    BY <1>5 DEF Edit, Editions
  <2>2. UNCHANGED <<table, pc, seen>>
    BY <1>5 DEF Edit, database
  <2> QED
    BY <2>1, <2>2, WholeStays
<1>6. CASE UNCHANGED vars
  <2>1. UNCHANGED <<disk, table, pc, seen>>
    BY <1>6 DEF vars
  <2> QED
    BY <2>1
<1> QED
  BY <1>1, <1>2, <1>3, <1>4, <1>5, <1>6, NextCases

-----------------------------------------------------------------------------
(* The theorems *)

\* The inductive invariant holds initially.
LEMMA InitInv == Init => IInv
<1> SUFFICES ASSUME Init PROVE IInv
  OBVIOUS
<1>1. OpenIsMigrated /\ LockFollowsTransaction /\ RequestInv
  BY ActorsAssumption DEF Init, OpenIsMigrated, LockFollowsTransaction, RequestInv,
      ScanOfRequest, ReadOfRequest
<1>2. IndexIsWhole /\ ListingIsWhole
  BY DEF Init, IndexIsWhole, ListingIsWhole, Whole, WholeAt, UniqueNames
<1> QED
  BY <1>1, <1>2, InitType DEF IInv

\* Every step keeps the inductive invariant.
LEMMA StepInv == IInv /\ [Next]_vars => IInv'
  BY StepType, StepMigrated, StepLock, StepRequests, StepWhole DEF IInv

\* The inductive invariant holds in every reachable state.
THEOREM Invariance == Spec => []IInv
  BY InitInv, StepInv, PTL DEF Spec

\* Whatever requests run side by side, fail or die, the index is the result of
\* one whole refresh (store.go, ReplaceProjects).
THEOREM IndexAlwaysWhole == Spec => []IndexIsWhole
<1>1. IInv => IndexIsWhole
  BY DEF IInv
<1> QED
  BY <1>1, Invariance, PTL

\* Every listing that is answered is one whole refresh (store.go, Projects).
THEOREM ListingAlwaysWhole == Spec => []ListingIsWhole
<1>1. IInv => ListingIsWhole
  BY DEF IInv
<1> QED
  BY <1>1, Invariance, PTL

\* No failure of ReplaceProjects leaves the write lock taken.
THEOREM LockAlwaysFollows == Spec => []LockFollowsTransaction
<1>1. IInv => LockFollowsTransaction
  BY DEF IInv
<1> QED
  BY <1>1, Invariance, PTL

\* No request is served before the table has today's columns.
THEOREM AlwaysMigrated == Spec => []OpenIsMigrated
<1>1. IInv => OpenIsMigrated
  BY DEF IInv
<1> QED
  BY <1>1, Invariance, PTL

-----------------------------------------------------------------------------
(* What RequestsEnd rests on, next to fairness *)

\* a can go on without a deadline or SQLite's busy timeout: the guards of what
\* Continue(a) has besides AbortReplace and AbortList.
GoesOn(a) ==
    \/ pc[a] = "scanning" /\ (todo[a] # {} \/ writer = NoActor)
    \/ /\ pc[a] = "replacing"
       /\ \/ \E row \in scan[a] \ draft[a] : Clashes(a, row) \/ schema = "current"
          \/ draft[a] = scan[a] /\ Readers = {}
    \/ pc[a] = "reading"
    \/ pc[a] \in {"refreshed", "listed", "failed"}

\* A request that cannot go on waits for the one transaction there is, which goes
\* on or waits for listings, which wait for nobody.
NobodyWaitsInACircle ==
    \A a \in Actors : pc[a] # "idle" =>
        \/ GoesOn(a)
        \/ /\ writer \in Actors /\ pc[writer] = "replacing"
           /\ GoesOn(writer) \/ \E r \in Readers : GoesOn(r)

\* No requests ever wait for each other in a circle: it takes no timeout to get
\* out of a deadlock (store.go, ReplaceProjects and Projects).
THEOREM NeverWaitsInACircle == Spec => []NobodyWaitsInACircle
<1>1. IInv => NobodyWaitsInACircle
  <2> SUFFICES ASSUME IInv, NEW a \in Actors, pc[a] # "idle", ~ GoesOn(a)
               PROVE  /\ writer \in Actors /\ pc[writer] = "replacing"
                      /\ GoesOn(writer) \/ \E r \in Readers : GoesOn(r)
    BY DEF NobodyWaitsInACircle
  <2>1. pc[a] \in {"scanning", "replacing"}
    BY DEF IInv, TypeOK, Steps, GoesOn
  <2>2. writer \in Actors /\ pc[writer] = "replacing"
    <3>1. CASE pc[a] = "scanning"
      BY <3>1 DEF IInv, TypeOK, LockFollowsTransaction, GoesOn
    <3>2. CASE pc[a] = "replacing"
      BY <3>2 DEF IInv, LockFollowsTransaction
    <3> QED
      BY <2>1, <3>1, <3>2
  <2>3. ASSUME ~ GoesOn(writer) PROVE \E r \in Readers : GoesOn(r)
    <3>1. draft[writer] \subseteq scan[writer] /\ schema = "current"
      BY <2>2 DEF IInv, RequestInv, ScanOfRequest, OpenIsMigrated
    <3>2. draft[writer] = scan[writer]
      BY <2>2, <2>3, <3>1 DEF GoesOn
    <3>3. Readers # {}
      BY <2>2, <2>3, <3>2 DEF GoesOn
    <3> QED
      BY <3>3 DEF Readers, GoesOn
  <2> QED
    BY <2>2, <2>3
<1> QED
  BY <1>1, Invariance, PTL

\* How far a request is from its end.
Distance(step) ==
    CASE step = "idle" -> 0
      [] step \in {"refreshed", "listed", "failed"} -> 1
      [] step \in {"replacing", "reading"} -> 2
      [] step = "scanning" -> 3

Own(a) == <<pc[a], todo[a], scan[a], draft[a], seen[a]>>

Grows(old, new, bound) == old \subseteq new /\ old # new /\ new \subseteq bound

\* The request has come nearer to its end, or has one directory, one row of its
\* scan or one row of a table that does not change meanwhile, the less to do.
Nearer(a) ==
    \/ Distance(pc'[a]) < Distance(pc[a])
    \/ /\ pc'[a] = pc[a]
       /\ \/ Grows(todo'[a], todo[a], todo[a])
          \/ todo'[a] = todo[a] /\ scan'[a] = scan[a] /\ Grows(draft[a], draft'[a], scan[a])
          \/ table' = table /\ Grows(seen[a], seen'[a], table)

\* Nothing that a request does, or that is done around it, takes it back.
NobodyIsTakenBack ==
    [][\A a \in Actors : pc[a] # "idle" =>
          /\ UNCHANGED Own(a) \/ Nearer(a)
          /\ pc[a] = "reading" /\ pc'[a] = "reading" => table' = table]_vars

LEMMA Distances ==
    /\ Distance("idle") = 0 /\ Distance("refreshed") = 1 /\ Distance("listed") = 1
    /\ Distance("failed") = 1 /\ Distance("replacing") = 2 /\ Distance("reading") = 2
    /\ Distance("scanning") = 3
  BY DEF Distance

\* The step of one request is no step of another.
LEMMA OthersStay ==
    ASSUME TypeOK, NEW b \in Actors, Request(b) \/ Continue(b), NEW a \in Actors, a # b
    PROVE  UNCHANGED Own(a)
<1> USE DEF TypeOK, Go, Forget, external, database
<1>1. /\ pc'[a] = pc[a] /\ todo'[a] = todo[a] /\ scan'[a] = scan[a]
      /\ draft'[a] = draft[a] /\ seen'[a] = seen[a]
  <2>1. CASE Request(b)
    BY <2>1 DEF Request, StartRefresh, RefuseRefresh, StartList
  <2>2. CASE ScanProject(b) \/ BeginReplace(b) \/ InsertProject(b)
    BY <2>2 DEF ScanProject, BeginReplace, InsertProject
  <2>3. CASE InsertConflict(b) \/ CommitReplace(b) \/ AbortReplace(b)
    BY <2>3 DEF InsertConflict, CommitReplace, AbortReplace
  <2>4. CASE ReadRow(b) \/ FinishList(b) \/ AbortList(b) \/ Answer(b)
    BY <2>4 DEF ReadRow, FinishList, AbortList, Answer
  <2> QED
    BY <2>1, <2>2, <2>3, <2>4 DEF Continue
<1> QED
  BY <1>1 DEF Own

\* Whatever changes of a request under way brings it nearer to its end, or leaves
\* it one of its directories or rows the less to do; no step of another takes it
\* back, and the table stays as it is while it is read (store.go; main.go,
\* refreshWithStore).
THEOREM NeverTakenBack == Spec => NobodyIsTakenBack
<1> DEFINE Kept == \A a \in Actors : pc[a] # "idle" =>
                      /\ UNCHANGED Own(a) \/ Nearer(a)
                      /\ pc[a] = "reading" /\ pc'[a] = "reading" => table' = table
<1>1. ASSUME IInv, Next PROVE Kept
  <2>0. TypeOK /\ RequestInv
    BY <1>1 DEF IInv
  <2>1. ASSUME NEW b \in Actors, Request(b) \/ Continue(b), pc[b] = "idle" \/ Nearer(b),
               table' = table
        PROVE  Kept
    BY <2>0, <2>1, OthersStay
  <2>2. ASSUME NEW b \in Actors, StartRefresh(b) \/ RefuseRefresh(b) \/ StartList(b)
        PROVE  Kept
    <3>1. Request(b) /\ pc[b] = "idle" /\ table' = table
      BY <2>2 DEF Request, StartRefresh, RefuseRefresh, StartList, database
    <3> QED
      BY <2>1, <3>1
  <2>3. ASSUME NEW b \in Actors, ScanProject(b) PROVE Kept
    <3>1. Continue(b) /\ pc' = pc /\ table' = table
      BY <2>3 DEF Continue, ScanProject, database
    <3>2. Grows(todo'[b], todo[b], todo[b])
      BY <2>0, <2>3 DEF TypeOK, ScanProject, Grows
    <3>3. Nearer(b)
      BY <3>1, <3>2 DEF Nearer
    <3> QED
      BY <2>1, <3>1, <3>3
  <2>4. ASSUME NEW b \in Actors, InsertProject(b) PROVE Kept
    <3>1. Continue(b) /\ pc' = pc /\ todo' = todo /\ scan' = scan /\ table' = table
      BY <2>4 DEF Continue, InsertProject, database
    <3>2. Grows(draft[b], draft'[b], scan[b])
      BY <2>0, <2>4 DEF TypeOK, InsertProject, Grows, RequestInv, ScanOfRequest
    <3>3. Nearer(b)
      BY <3>1, <3>2 DEF Nearer
    <3> QED
      BY <2>1, <3>1, <3>3
  <2>5. ASSUME NEW b \in Actors, ReadRow(b) PROVE Kept
    <3>1. Continue(b) /\ pc' = pc /\ table' = table
      BY <2>5 DEF Continue, ReadRow, database
    <3>2. Grows(seen[b], seen'[b], table)
      BY <2>0, <2>5 DEF TypeOK, ReadRow, Grows, RequestInv, ReadOfRequest
    <3>3. Nearer(b)
      BY <3>1, <3>2 DEF Nearer
    <3> QED
      BY <2>1, <3>1, <3>3
  <2>6. ASSUME NEW b \in Actors,
               \/ BeginReplace(b) \/ InsertConflict(b) \/ AbortReplace(b)
               \/ FinishList(b) \/ AbortList(b) \/ Answer(b)
        PROVE  Kept
    <3>1. Continue(b) /\ table' = table
      BY <2>6 DEF Continue, BeginReplace, InsertConflict, AbortReplace, FinishList, AbortList,
         Answer, database
    <3>2. \/ pc[b] = "scanning" /\ pc'[b] \in {"replacing", "failed"}
          \/ pc[b] \in {"replacing", "reading"} /\ pc'[b] \in {"listed", "failed"}
          \/ pc[b] \in {"refreshed", "listed", "failed"} /\ pc'[b] = "idle"
      BY <2>0, <2>6 DEF TypeOK, BeginReplace, InsertConflict, AbortReplace, FinishList,
         AbortList, Answer, Go
    <3>3. Distance(pc'[b]) < Distance(pc[b])
      BY <3>2, Distances
    <3>4. Nearer(b)
      BY <3>3 DEF Nearer
    <3> QED
      BY <2>1, <3>1, <3>4
  <2>7. ASSUME NEW b \in Actors, CommitReplace(b) PROVE Kept
    <3>1. /\ Continue(b) /\ \A a \in Actors : pc[a] # "reading"
          /\ pc[b] = "replacing" /\ pc'[b] = "refreshed"
      BY <2>0, <2>7 DEF TypeOK, Continue, CommitReplace, Readers, Go
    <3>2. Nearer(b)
      BY <3>1, Distances DEF Nearer
    <3> QED
      BY <2>0, <3>1, <3>2, OthersStay
  <2>8. ASSUME NEW p \in Processes, Crash(p) PROVE Kept
    <3>1. ASSUME NEW a \in Actors
          PROVE  \/ pc'[a] = "idle"
                 \/ /\ pc'[a] = pc[a] /\ todo'[a] = todo[a] /\ scan'[a] = scan[a]
                    /\ draft'[a] = draft[a] /\ seen'[a] = seen[a]
      BY <2>8 DEF Crash
    <3>2. ASSUME NEW a \in Actors, pc[a] # "idle", pc'[a] = "idle" PROVE Nearer(a)
      <4>1. pc[a] \in Steps
        BY <2>0 DEF TypeOK
      <4>2. Distance(pc'[a]) < Distance(pc[a])
        BY <3>2, <4>1, Distances DEF Steps
      <4> QED
        BY <4>2 DEF Nearer
    <3>3. table' = table
      BY <2>8 DEF Crash
    <3> QED
      BY <3>1, <3>2, <3>3 DEF Own
  <2>9. CASE \/ \E p \in Processes : CreateTable(p) \/ AddColumn(p)
             \/ \E w \in Roots : Edit(w)
    BY <2>9 DEF CreateTable, AddColumn, Edit, Own, database
  <2> QED
    BY <1>1, <2>2, <2>3, <2>4, <2>5, <2>6, <2>7, <2>8, <2>9, NextCases
<1>2. IInv /\ [Next]_vars => [Kept]_vars
  BY <1>1
<1> QED
  BY <1>2, Invariance, PTL DEF Spec, NobodyIsTakenBack

-----------------------------------------------------------------------------
(* The store implements the atomic index *)

\* The initial states of the store are initial states of the atomic index.
LEMMA InitMapped == Init => Abstract!Init
  BY DEF Init, Abstract!Init, CallMap, ArgMap, CallOf, ArgOf

\* Every step of the store is a step of the atomic index, or none.
LEMMA StepMapped ==
    ASSUME IInv, [Next]_vars
    PROVE  [Abstract!Next]_(Abstract!vars)
<1> USE ActorsAssumption
<1> USE DEF IInv, TypeOK, CallMap, ArgMap, CallOf, ArgOf
<1>1. ASSUME NEW a \in Actors,
             \/ StartRefresh(a) \/ RefuseRefresh(a) \/ ScanProject(a) \/ ReadRow(a)
             \/ InsertProject(a)
      PROVE  UNCHANGED Abstract!vars
  BY <1>1 DEF StartRefresh, RefuseRefresh, ScanProject, ReadRow, InsertProject,
      external, database, Go, Abstract!vars
<1>2. ASSUME NEW a \in Actors, BeginReplace(a) PROVE Abstract!CallReplace(a)
  <2>1. ArgMap' = [ArgMap EXCEPT ![a] = scan[a]]
    BY <1>2 DEF BeginReplace, Go, external
  <2>2. CallMap[a] = "none" /\ CallMap' = [CallMap EXCEPT ![a] = "replacing"]
    BY <1>2 DEF BeginReplace, Go, external
  <2>3. UNCHANGED table
    BY <1>2 DEF BeginReplace
  <2>4. scan[a] \in SUBSET Rows
    OBVIOUS
  <2> HIDE DEF CallMap, ArgMap
  <2> QED
    BY <2>1, <2>2, <2>3, <2>4 DEF Abstract!CallReplace
<1>3. ASSUME NEW a \in Actors, CommitReplace(a) PROVE Abstract!TakeEffect(a)
  BY <1>3 DEF CommitReplace, Go, external, Abstract!TakeEffect
<1>4. ASSUME NEW a \in Actors, StartList(a) PROVE Abstract!CallList(a)
  BY <1>4 DEF StartList, Go, external, database, Abstract!CallList
<1>5. ASSUME NEW a \in Actors, FinishList(a) PROVE Abstract!Observe(a)
  <2>1. seen[a] = table
    BY <1>5 DEF FinishList, RequestInv, ReadOfRequest
  <2> QED
    BY <1>5, <2>1 DEF FinishList, Go, external, database, Abstract!Observe
<1>6. ASSUME NEW a \in Actors, InsertConflict(a) PROVE Abstract!Reject(a)
  BY <1>6 DEF InsertConflict, Go, external, Abstract!Reject
<1>7. ASSUME NEW a \in Actors, AbortReplace(a)
      PROVE  Abstract!Reject(a) \/ UNCHANGED Abstract!vars
  <2>1. CASE pc[a] = "replacing"
    BY <1>7, <2>1 DEF AbortReplace, Go, external, Abstract!Reject
  <2>2. CASE pc[a] = "scanning"
    BY <1>7, <2>2 DEF AbortReplace, Go, external, Abstract!vars
  <2> QED
    BY <1>7, <2>1, <2>2 DEF AbortReplace
<1>8. ASSUME NEW a \in Actors, AbortList(a) PROVE Abstract!Reject(a)
  BY <1>8 DEF AbortList, Go, external, database, Abstract!Reject
<1>9. ASSUME NEW a \in Actors, Answer(a)
      PROVE  Abstract!Answer(a) \/ UNCHANGED Abstract!vars
  <2>1. CASE pc[a] \in {"refreshed", "listed"}
    BY <1>9, <2>1 DEF Answer, Forget, Go, external, database, Abstract!Answer
  <2>2. CASE pc[a] = "failed"
    BY <1>9, <2>2 DEF Answer, Forget, Go, external, database, Abstract!vars
  <2> QED
    BY <1>9, <2>1, <2>2 DEF Answer
<1>10. ASSUME NEW p \in Processes, CreateTable(p) \/ AddColumn(p)
       PROVE  UNCHANGED Abstract!vars
  BY <1>10 DEF CreateTable, AddColumn, Abstract!vars
<1>11. ASSUME NEW p \in Processes, Crash(p)
       PROVE  Abstract!Vanish({a \in Actors : ProcessOf[a] = p})
  BY <1>11 DEF Crash, external, Abstract!Vanish
<1>12. ASSUME NEW w \in Roots, Edit(w) PROVE UNCHANGED Abstract!vars
  BY <1>12 DEF Edit, database, Abstract!vars
<1>13. CASE UNCHANGED vars
  BY <1>13 DEF vars, Abstract!vars
<1>14. \A p \in Processes : {a \in Actors : ProcessOf[a] = p} \in SUBSET Actors
  OBVIOUS
<1> QED
  BY <1>1, <1>2, <1>3, <1>4, <1>5, <1>6, <1>7, <1>8, <1>9, <1>10, <1>11, <1>12,
     <1>13, <1>14, NextCases DEF Abstract!Next

\* The store, transaction by transaction and row by row, with its crashes and
\* failures, implements an index that is read and replaced in one step.
THEOREM Refinement == Spec => ImplementsAtomicIndex
<1>1. Init => Abstract!Init
  BY InitMapped
<1>2. IInv /\ [Next]_vars => [Abstract!Next]_(Abstract!vars)
  BY StepMapped
<1> QED
  BY <1>1, <1>2, Invariance, PTL DEF Spec, ImplementsAtomicIndex, Abstract!Spec

-----------------------------------------------------------------------------
(* Refreshes of one workspace that do not overlap *)

\* No directory lies in two of the workspaces that share this database.
WorkspacesAreApart ==
    \A a, b \in Refreshers :
        RootOf[a] # RootOf[b] => Within(RootOf[a]) \cap Within(RootOf[b]) = {}

\* No two refreshes of one workspace are between LoadWorkspace and Commit at the
\* same time.
Refreshing(a) == pc[a] \in {"scanning", "replacing"}
InTurn == \A a, b \in Actors :
    Refreshing(a) /\ Refreshing(b) /\ RootOf[a] = RootOf[b] => a = b

\* What the table has of a workspace is no newer than the disk, no newer than the
\* scan of its refresh under way, and no older than those that have just succeeded.
RowsOf(w) == {row \in table : row.dir \in Within(w)}

SerialInv ==
    \A a \in Actors :
        /\ Refreshing(a) \/ pc[a] = "refreshed" => a \in Refreshers
        /\ pc[a] = "refreshed" =>
              /\ since[a] <= disk[Root(a)]
              /\ \A row \in RowsOf(Root(a)) : since[a] <= row.edition
              /\ \A b \in Actors :
                    Refreshing(b) /\ RootOf[b] = RootOf[a] => since[a] <= since[b]
        /\ a \in Refreshers => \A row \in RowsOf(Root(a)) : row.edition <= disk[Root(a)]
        /\ Refreshing(a) => \A row \in RowsOf(Root(a)) : row.edition <= since[a]

\* While no two refreshes of one workspace overlap, every step keeps SerialInv.
LEMMA SerialStep ==
    ASSUME WorkspacesAreApart, InTurn, IInv, SerialInv, [Next]_vars
    PROVE  SerialInv'
<1> USE ActorsAssumption, WorkspaceAssumption
<1> USE DEF TypeOK, SerialInv, Refreshing, Root
<1>0. TypeOK /\ RequestInv
  BY DEF IInv
<1>8. table' = table => \A w : RowsOf(w)' = RowsOf(w)
  BY DEF RowsOf
<1>1. ASSUME NEW a \in Actors, StartRefresh(a) PROVE SerialInv'
  <2>1. /\ a \in Refreshers /\ UNCHANGED <<disk, table>>
        /\ pc' = [pc EXCEPT ![a] = "scanning"]
        /\ since' = [since EXCEPT ![a] = disk[Root(a)]]
    BY <1>1 DEF StartRefresh, Go, external, database
  <2>2. \A b \in Actors : b # a => pc'[b] = pc[b] /\ since'[b] = since[b]
    BY <1>0, <2>1
  <2>3. pc'[a] = "scanning" /\ since'[a] = disk[Root(a)]
    BY <1>0, <2>1
  <2>4. \A b \in Actors : RootOf[b] = RootOf[a] => disk[Root(b)] = disk[Root(a)]
    OBVIOUS
  <2> HIDE DEF Root
  <2> QED
    BY <1>8, <2>1, <2>2, <2>3, <2>4
<1>2. ASSUME NEW a \in Actors,
             \/ RefuseRefresh(a) \/ StartList(a) \/ ScanProject(a) \/ BeginReplace(a)
             \/ InsertProject(a)
      PROVE SerialInv'
  <2>1. UNCHANGED <<disk, table, since>>
    BY <1>2 DEF RefuseRefresh, StartList, ScanProject, BeginReplace, InsertProject,
        external, database
  <2>2. \A b \in Actors :
          /\ pc'[b] = "refreshed" => pc[b] = "refreshed"
          /\ pc'[b] \in {"scanning", "replacing"} => pc[b] \in {"scanning", "replacing"}
    BY <1>0, <1>2 DEF RefuseRefresh, StartList, ScanProject, BeginReplace, InsertProject,
        Go, external, database
  <2> QED
    BY <1>0, <1>8, <2>1, <2>2
<1>3. ASSUME NEW a \in Actors, CommitReplace(a) PROVE SerialInv'
  <2>1. pc[a] = "replacing" /\ a \in Refreshers
    BY <1>3 DEF CommitReplace
  <2>2. /\ disk' = disk /\ table' = draft[a] /\ since' = since
        /\ pc' = [pc EXCEPT ![a] = "refreshed"]
    BY <1>3 DEF CommitReplace, Go, external
  <2>3. \A row \in draft[a] :
          /\ since[a] <= row.edition /\ row.edition <= disk[Root(a)]
          /\ row.dir \in Within(Root(a))
    <3>1. \A row \in draft[a] :
            since[a] <= row.edition /\ row.edition <= disk[Root(a)]
      BY <1>0, <1>3 DEF CommitReplace, RequestInv, ScanOfRequest
    <3>2. \A row \in draft[a] : row.dir \in Workspace[Root(a)][since[a]]
      BY <1>0, <1>3 DEF CommitReplace, RequestInv, ScanOfRequest, DirsOf
    <3> QED
      BY <1>0, <3>1, <3>2 DEF Within
  <2>4. \A b \in Actors :
          pc'[b] \in {"scanning", "replacing"} => RootOf[b] # RootOf[a] /\ pc'[b] = pc[b]
    BY <1>0, <2>1, <2>2 DEF InTurn
  <2>5. \A b \in Refreshers : RootOf[b] # RootOf[a] => RowsOf(Root(b))' = {}
    BY <2>1, <2>2, <2>3 DEF WorkspacesAreApart, RowsOf
  <2>6. pc'[a] = "refreshed" /\ \A b \in Actors : b # a => pc'[b] = pc[b]
    BY <1>0, <2>2
  <2>7. \A b \in Actors : pc[b] = "refreshed" /\ RootOf[b] = RootOf[a] => since[b] <= since[a]
    BY <2>1
  <2>8. \A b \in Actors : since[b] \in Nat /\ \A row \in draft[b] : row.edition \in Nat
    BY <1>0 DEF Editions, Rows
  <2>9. \A b \in Actors : RowsOf(Root(b))' \subseteq draft[a]
    BY <2>2 DEF RowsOf
  <2>10. \A b \in Actors : RootOf[b] = RootOf[a] =>
           /\ \A row \in RowsOf(Root(b))' : row.edition <= disk[Root(b)]
           /\ pc'[b] = "refreshed" =>
                /\ \A row \in RowsOf(Root(b))' : since[b] <= row.edition
                /\ since[b] <= disk[Root(b)]
    <3>1. ASSUME NEW b \in Actors, RootOf[b] = RootOf[a]
          PROVE  \A row \in RowsOf(Root(b))' : row.edition <= disk[Root(b)]
      BY <2>3, <2>9, <3>1
    <3>2. ASSUME NEW b \in Actors, RootOf[b] = RootOf[a], pc'[b] = "refreshed"
          PROVE  since[b] <= since[a]
      BY <2>6, <2>7, <2>8, <3>2
    <3>3. ASSUME NEW b \in Actors, RootOf[b] = RootOf[a], pc'[b] = "refreshed"
          PROVE  \A row \in RowsOf(Root(b))' : since[b] <= row.edition
      BY <2>3, <2>8, <2>9, <3>2, <3>3
    <3>4. since[a] <= disk[Root(a)]
      BY <1>0, <2>1 DEF RequestInv, ScanOfRequest
    <3>5. ASSUME NEW b \in Actors, RootOf[b] = RootOf[a], pc'[b] = "refreshed"
          PROVE  since[b] <= disk[Root(b)]
      <4>1. disk[Root(a)] \in Nat
        BY <1>0 DEF Editions
      <4> QED
        BY <2>8, <3>2, <3>4, <3>5, <4>1
    <3> QED
      BY <3>1, <3>3, <3>5
  <2> HIDE DEF Root
  <2>11. \A b \in Actors : Root(b) = RootOf[b]
    BY DEF Root
  <2> QED
    BY <2>1, <2>2, <2>4, <2>5, <2>6, <2>10
<1>4. ASSUME NEW a \in Actors,
             \/ InsertConflict(a) \/ AbortReplace(a) \/ ReadRow(a) \/ FinishList(a)
             \/ AbortList(a) \/ Answer(a)
      PROVE SerialInv'
  <2>1. UNCHANGED <<disk, table>>
    BY <1>4 DEF InsertConflict, AbortReplace, ReadRow, FinishList, AbortList, Answer,
        external, database
  <2>2. \A b \in Actors : pc'[b] \in {"scanning", "replacing", "refreshed"} =>
          pc'[b] = pc[b] /\ since'[b] = since[b]
    BY <1>0, <1>4 DEF InsertConflict, AbortReplace, ReadRow, FinishList, AbortList, Answer,
        Forget, Go, external, database
  <2> QED
    BY <1>0, <1>8, <2>1, <2>2
<1>5. ASSUME NEW p \in Processes, CreateTable(p) \/ AddColumn(p) \/ Crash(p)
      PROVE SerialInv'
  <2>1. UNCHANGED <<disk, table>>
    BY <1>5 DEF CreateTable, AddColumn, Crash, external
  <2>2. \A b \in Actors : pc'[b] \in {"scanning", "replacing", "refreshed"} =>
          pc'[b] = pc[b] /\ since'[b] = since[b]
    BY <1>0, <1>5 DEF CreateTable, AddColumn, Crash
  <2> QED
    BY <1>0, <1>8, <2>1, <2>2
<1>6. ASSUME NEW w \in Roots, Edit(w) PROVE SerialInv'
  <2>1. UNCHANGED <<table, pc, since>>
    BY <1>6 DEF Edit, database
  <2>2. /\ disk \in [Roots -> Nat] /\ disk' \in [Roots -> Nat]
        /\ \A x \in Roots : disk[x] <= disk'[x]
    BY <1>0, <1>6 DEF Edit, Editions
  <2>3. \A row \in table : row.edition \in Nat
    BY <1>0 DEF Rows, Editions
  <2>4. \A a \in Actors : RootOf[a] \in Roots
    OBVIOUS
  <2>5. ASSUME NEW a \in Refreshers, NEW row \in RowsOf(RootOf[a])
        PROVE  row.edition <= disk'[RootOf[a]]
    <3>1. row.edition <= disk[RootOf[a]] /\ row.edition \in Nat /\ RootOf[a] \in Roots
      BY <2>3, <2>4 DEF Actors, RowsOf
    <3>2. /\ disk[RootOf[a]] \in Nat /\ disk'[RootOf[a]] \in Nat
          /\ disk[RootOf[a]] <= disk'[RootOf[a]]
      BY <2>2, <3>1
    <3> QED
      BY <3>1, <3>2
  <2>6. \A a \in Actors : since[a] <= disk[RootOf[a]] => since[a] <= disk'[RootOf[a]]
    <3>1. \A a \in Actors : since[a] \in Nat
      BY <1>0 DEF Editions
    <3> QED
      BY <2>2, <2>4, <3>1
  <2> QED
    BY <1>8, <2>1, <2>5, <2>6
<1>7. CASE UNCHANGED vars
  BY <1>7, <1>8 DEF vars
<1> QED
  BY <1>1, <1>2, <1>3, <1>4, <1>5, <1>6, <1>7, NextCases

\* SerialInv holds initially.
LEMMA SerialInit == Init => SerialInv
  BY DEF Init, SerialInv, Refreshing, RowsOf

\* Where no two refreshes of one workspace overlap, one that reports success left
\* an index at least as new as the workspace was when it began, whatever those of
\* other workspaces do meanwhile: overlapping is all that can take this away
\* (main.go, refreshWithStore).
THEOREM SerialRefreshTakesHold ==
    ASSUME WorkspacesAreApart
    PROVE  Spec /\ []InTurn => []RefreshTakesHold
<1>1. InTurn /\ IInv /\ SerialInv /\ [Next]_vars => SerialInv'
  BY SerialStep
<1>2. IInv /\ SerialInv => RefreshTakesHold
  BY WorkspaceAssumption DEF IInv, TypeOK, SerialInv, RefreshTakesHold, RowsOf, Rows, Editions
<1> QED
  BY <1>1, <1>2, SerialInit, Invariance, PTL DEF Spec

\* Where no two refreshes of one workspace overlap, a commit never takes a project
\* back to an older state, whoever commits in between (store.go, ReplaceProjects).
THEOREM SerialNeverGoesBack ==
    ASSUME WorkspacesAreApart
    PROVE  Spec /\ []InTurn => IndexNeverGoesBack
<1> DEFINE Forward ==
        \A old \in table, new \in table' : old.dir = new.dir => new.edition >= old.edition
<1>1. ASSUME IInv, SerialInv, [Next]_vars PROVE [Forward]_table
  <2>1. ASSUME NEW a \in Actors, CommitReplace(a) PROVE Forward
    <3>1. table' = draft[a] /\ pc[a] = "replacing"
      BY <2>1 DEF CommitReplace
    <3>2. \A new \in draft[a] : since[a] <= new.edition /\ new.dir \in Within(Root(a))
      <4>1. \A new \in draft[a] :
              since[a] <= new.edition /\ new.dir \in Workspace[Root(a)][since[a]]
        BY <1>1, <2>1 DEF CommitReplace, IInv, RequestInv, ScanOfRequest, DirsOf
      <4> QED
        BY <1>1, <4>1 DEF IInv, TypeOK, Within
    <3>3. \A old \in table : old.dir \in Within(Root(a)) => old.edition <= since[a]
      BY <1>1, <3>1 DEF SerialInv, Refreshing, RowsOf
    <3>4. /\ since[a] \in Nat
          /\ \A row \in table \cup draft[a] : row.edition \in Nat
      BY <1>1, WorkspaceAssumption DEF IInv, TypeOK, Rows, Editions
    <3> QED
      BY <3>1, <3>2, <3>3, <3>4
  <2>2. ASSUME NEW a \in Actors, ~ CommitReplace(a),
               \/ StartRefresh(a) \/ RefuseRefresh(a) \/ StartList(a)
               \/ ScanProject(a) \/ BeginReplace(a) \/ InsertProject(a)
               \/ InsertConflict(a) \/ AbortReplace(a)
               \/ ReadRow(a) \/ FinishList(a) \/ AbortList(a) \/ Answer(a)
        PROVE  table' = table
    BY <2>2 DEF StartRefresh, RefuseRefresh, StartList, ScanProject, BeginReplace,
        InsertProject, InsertConflict, AbortReplace, ReadRow, FinishList, AbortList,
        Answer, external, database
  <2>3. ASSUME NEW p \in Processes, CreateTable(p) \/ AddColumn(p) \/ Crash(p)
        PROVE  table' = table
    BY <2>3 DEF CreateTable, AddColumn, Crash
  <2>4. ASSUME NEW w \in Roots, Edit(w) PROVE table' = table
    BY <2>4 DEF Edit, database
  <2>5. CASE UNCHANGED vars
    BY <2>5 DEF vars
  <2> QED
    BY <1>1, <2>1, <2>2, <2>3, <2>4, <2>5, NextCases
<1>2. InTurn /\ IInv /\ SerialInv /\ [Next]_vars => SerialInv'
  BY SerialStep
<1> QED
  BY <1>1, <1>2, SerialInit, Invariance, PTL DEF Spec, IndexNeverGoesBack

\* With one request that refreshes each workspace, as an MCP process has it that
\* serves its calls one after another, all are in turn (server.go, Serve).
THEOREM OneRefresherIsInTurn ==
    ASSUME \A a, b \in Refreshers : RootOf[a] = RootOf[b] => a = b
    PROVE  Spec => []InTurn
<1> DEFINE OnlyRefreshers == \A a \in Actors : Refreshing(a) => a \in Refreshers
<1>1. Init => OnlyRefreshers
  BY DEF Init, Refreshing
<1>2. ASSUME TypeOK, OnlyRefreshers, [Next]_vars PROVE OnlyRefreshers'
  <2>1. ASSUME NEW a \in Actors, StartRefresh(a) PROVE OnlyRefreshers'
    BY <1>2, <2>1 DEF StartRefresh, Go, TypeOK, Refreshing
  <2>2. ASSUME NEW a \in Actors,
               \/ RefuseRefresh(a) \/ StartList(a) \/ ScanProject(a) \/ BeginReplace(a)
               \/ InsertProject(a) \/ InsertConflict(a) \/ CommitReplace(a) \/ AbortReplace(a)
               \/ ReadRow(a) \/ FinishList(a) \/ AbortList(a) \/ Answer(a)
        PROVE  OnlyRefreshers'
    <3>1. \A b \in Actors : Refreshing(b)' => Refreshing(b)
      BY <1>2, <2>2 DEF RefuseRefresh, StartList, ScanProject, BeginReplace, InsertProject,
         InsertConflict, CommitReplace, AbortReplace, ReadRow, FinishList, AbortList, Answer,
         Go, TypeOK, Refreshing, external, database
    <3> QED
      BY <1>2, <3>1
  <2>3. ASSUME NEW p \in Processes, CreateTable(p) \/ AddColumn(p) \/ Crash(p)
        PROVE  OnlyRefreshers'
    BY <1>2, <2>3 DEF CreateTable, AddColumn, Crash, Refreshing
  <2>4. CASE (\E w \in Roots : Edit(w)) \/ UNCHANGED vars
    BY <1>2, <2>4 DEF Edit, vars, Refreshing
  <2> QED
    BY <1>2, <2>1, <2>2, <2>3, <2>4, NextCases
<1>3. OnlyRefreshers => InTurn
  BY DEF InTurn
<1> QED
  BY <1>1, <1>2, <1>3, TypeCorrect, PTL DEF Spec
=============================================================================
