---------------------------- MODULE SchemaProofs ----------------------------
(***************************************************************************)
(* What holds of the schema migration of module Schema for any number of   *)
(* workers, keys and copies.  The lock alone does not make the migration   *)
(* safe: what does is that the open migrations and no others hold it       *)
(* (LockInv), that the rows a migration has deleted leave one of each key  *)
(* and no more (GoneInv, NoCopyLeft), and that whoever takes the schema as *)
(* ready has seen the index (IndexInv).                                    *)
(***************************************************************************)
EXTENDS Schema, TLAPS

LockInv ==
    /\ \A v, w \in lock : v = w
    /\ \A w \in Workers : pc[w] \in Migrating <=> w \in lock

GoneInv ==
    \A w \in Workers : \A k \in Keys :
        gone[w][k] > 0 => pc[w] = "build" /\ gone[w][k] < rows[k]

IndexInv ==
    /\ ready # {} => indexed
    /\ SchemaInOrder

(* Once the index is there no finding is counted twice.                    *)
RowsUnique == indexed => \A k \in Keys : rows[k] <= 1

IInv == TypeOK /\ LockInv /\ GoneInv /\ NoCopyLeft /\ IndexInv /\ RowsUnique

USE SchemaAssumption

(* Deleting nothing is a count of rows per key like any other.             *)
LEMMA NothingType == Nothing \in [Keys -> 0..MaxCopies]
  BY DEF Nothing

(* The invariant holds at the start.                                       *)
LEMMA InitIInv == Init => IInv
<1> SUFFICES ASSUME Init PROVE IInv
  OBVIOUS
<1>1. TypeOK
  BY NothingType DEF Init, TypeOK, States, Migrating
<1>2. LockInv /\ IndexInv /\ RowsUnique
  BY DEF Init, LockInv, IndexInv, SchemaInOrder, RowsUnique, Migrating
<1>3. GoneInv /\ NoCopyLeft
  BY DEF Init, GoneInv, NoCopyLeft, Nothing
<1>4. QED
  BY <1>1, <1>2, <1>3 DEF IInv

(* Every step keeps the types.                                             *)
LEMMA TypeStep ==
    ASSUME IInv, [Next]_vars
    PROVE  TypeOK'
<1> USE DEF States, Migrating
<1>1. ASSUME NEW k \in Keys, InsertUnguarded(k) PROVE TypeOK'
  BY <1>1 DEF IInv, TypeOK, InsertUnguarded
<1>2. ASSUME NEW w \in Workers, EndMigration(w, "idle") \/ EndMigration(w, "insert")
      PROVE  /\ lock' \subseteq Workers
             /\ pc' \in [Workers -> States]
             /\ gone' \in [Workers -> [Keys -> 0..MaxCopies]]
  BY <1>2, NothingType DEF IInv, TypeOK, EndMigration
<1>3. ASSUME NEW w \in Workers, Begin(w) PROVE TypeOK'
  BY <1>3 DEF IInv, TypeOK, Begin
<1>4. ASSUME NEW w \in Workers, AcquireLock(w) PROVE TypeOK'
  BY <1>4 DEF IInv, TypeOK, AcquireLock
<1>5. ASSUME NEW w \in Workers, CheckIndex(w) PROVE TypeOK'
  BY <1>2, <1>5 DEF IInv, TypeOK, CheckIndex
<1>6. ASSUME NEW w \in Workers, RemoveDuplicates(w) PROVE TypeOK'
  <2>1. \A k \in Keys : Surplus(k) \in 0..MaxCopies
    BY DEF IInv, TypeOK, Surplus
  <2>2. QED
    BY <1>6, <2>1 DEF IInv, TypeOK, RemoveDuplicates
<1>7. ASSUME NEW w \in Workers, BuildIndex(w) PROVE TypeOK'
  <2>1. \A k \in Keys : rows[k] - gone[w][k] \in 0..MaxCopies
    BY DEF IInv, TypeOK, GoneInv
  <2>2. rows' \in [Keys -> 0..MaxCopies]
    BY <1>7, <2>1 DEF BuildIndex
  <2>3. QED
    BY <1>2, <1>7, <2>2 DEF IInv, TypeOK, BuildIndex
<1>8. ASSUME NEW w \in Workers, Insert(w) PROVE TypeOK'
  BY <1>8 DEF IInv, TypeOK, Insert
<1>9. ASSUME NEW w \in Workers, Abort(w) \/ Crash(w) PROVE TypeOK'
  BY <1>2, <1>9 DEF IInv, TypeOK, Abort, Crash
<1>10. CASE UNCHANGED vars
  BY <1>10 DEF IInv, TypeOK, vars
<1>11. QED
  BY <1>1, <1>3, <1>4, <1>5, <1>6, <1>7, <1>8, <1>9, <1>10 DEF Next, WorkerStep

(* One migration is open at a time, and it holds the lock.                 *)
LEMMA LockStep ==
    ASSUME IInv, [Next]_vars
    PROVE  LockInv'
<1> USE DEF IInv, TypeOK, LockInv, Migrating
<1>1. ASSUME NEW k \in Keys, InsertUnguarded(k) PROVE LockInv'
  BY <1>1 DEF InsertUnguarded
<1>2. ASSUME NEW w \in Workers, Begin(w) PROVE LockInv'
  BY <1>2 DEF Begin
<1>3. ASSUME NEW w \in Workers, AcquireLock(w) PROVE LockInv'
  BY <1>3 DEF AcquireLock
<1>4. ASSUME NEW w \in Workers, CheckIndex(w) PROVE LockInv'
  BY <1>4 DEF CheckIndex, EndMigration
<1>5. ASSUME NEW w \in Workers, RemoveDuplicates(w) PROVE LockInv'
  BY <1>5 DEF RemoveDuplicates
<1>6. ASSUME NEW w \in Workers, BuildIndex(w) PROVE LockInv'
  BY <1>6 DEF BuildIndex, EndMigration
<1>7. ASSUME NEW w \in Workers, Insert(w) PROVE LockInv'
  BY <1>7 DEF Insert
<1>8. ASSUME NEW w \in Workers, Abort(w) \/ Crash(w) PROVE LockInv'
  BY <1>8 DEF Abort, Crash, EndMigration
<1>9. CASE UNCHANGED vars
  BY <1>9 DEF vars
<1>10. QED
  BY <1>1, <1>2, <1>3, <1>4, <1>5, <1>6, <1>7, <1>8, <1>9 DEF Next, WorkerStep

(* While w has a migration open in its last two steps, nobody else has.    *)
LEMMA Alone ==
    ASSUME LockInv, NEW v \in Workers, NEW w \in Workers,
           pc[v] \in Migrating, pc[w] \in Migrating
    PROVE  v = w
  BY DEF LockInv

(* What an open migration has deleted leaves a row of every key it touched.*)
LEMMA GoneStep ==
    ASSUME IInv, [Next]_vars
    PROVE  GoneInv'
<1> USE DEF IInv, TypeOK
<1>1. ASSUME NEW k \in Keys, InsertUnguarded(k) PROVE GoneInv'
  BY <1>1 DEF InsertUnguarded, GoneInv
<1>2. ASSUME NEW w \in Workers, Begin(w) PROVE GoneInv'
  BY <1>2 DEF Begin, GoneInv
<1>3. ASSUME NEW w \in Workers, AcquireLock(w) PROVE GoneInv'
  BY <1>3 DEF AcquireLock, GoneInv
<1>4. ASSUME NEW w \in Workers, UNCHANGED rows,
             EndMigration(w, "idle") \/ EndMigration(w, "insert")
      PROVE  GoneInv'
  BY <1>4 DEF EndMigration, GoneInv, Nothing
<1>5. ASSUME NEW w \in Workers, CheckIndex(w) PROVE GoneInv'
  <2>1. CASE ~indexed /\ pc' = [pc EXCEPT ![w] = "dedupe"] /\ UNCHANGED gone
    BY <1>5, <2>1 DEF CheckIndex, GoneInv
  <2>2. QED
    BY <1>4, <1>5, <2>1 DEF CheckIndex
<1>6. ASSUME NEW w \in Workers, RemoveDuplicates(w) PROVE GoneInv'
  <2>1. \A k \in Keys : Surplus(k) > 0 => Surplus(k) < rows[k]
    BY DEF Surplus
  <2>2. QED
    BY <1>6, <2>1 DEF RemoveDuplicates, GoneInv
<1>7. ASSUME NEW w \in Workers, BuildIndex(w) PROVE GoneInv'
  <2>1. gone' = [gone EXCEPT ![w] = Nothing]
    BY <1>7 DEF BuildIndex, EndMigration
  <2>2. ASSUME NEW v \in Workers, NEW k \in Keys PROVE gone'[v][k] = 0
    <3>1. CASE v = w
      BY <2>1, <3>1 DEF Nothing
    <3>2. CASE v # w
      <4>1. pc[v] # "build"
        BY <1>7, <3>2, Alone DEF BuildIndex, Migrating
      <4>2. QED
        BY <2>1, <3>2, <4>1 DEF GoneInv
    <3>3. QED
      BY <3>1, <3>2
  <2>3. QED
    BY <2>2 DEF GoneInv
<1>8. ASSUME NEW w \in Workers, Insert(w) PROVE GoneInv'
  BY <1>8 DEF Insert, GoneInv
<1>9. ASSUME NEW w \in Workers, Abort(w) \/ Crash(w) PROVE GoneInv'
  BY <1>4, <1>9 DEF Abort, Crash
<1>10. CASE UNCHANGED vars
  BY <1>10 DEF vars, GoneInv
<1>11. QED
  BY <1>1, <1>2, <1>3, <1>5, <1>6, <1>7, <1>8, <1>9, <1>10 DEF Next, WorkerStep

(* After the DELETE nobody adds a copy: old writers wait for the table     *)
(* lock, and the other workers for the index.                              *)
LEMMA NoCopyStep ==
    ASSUME IInv, [Next]_vars
    PROVE  NoCopyLeft'
<1> USE DEF IInv, TypeOK, NoCopyLeft, Distinct
<1>1. ASSUME NEW k \in Keys, InsertUnguarded(k) PROVE NoCopyLeft'
  BY <1>1 DEF InsertUnguarded, TableLocked
<1>2. ASSUME NEW w \in Workers, Begin(w) PROVE NoCopyLeft'
  BY <1>2 DEF Begin
<1>3. ASSUME NEW w \in Workers, AcquireLock(w) PROVE NoCopyLeft'
  BY <1>3 DEF AcquireLock
<1>4. ASSUME NEW w \in Workers, UNCHANGED rows,
             EndMigration(w, "idle") \/ EndMigration(w, "insert")
      PROVE  NoCopyLeft'
  BY <1>4 DEF EndMigration
<1>5. ASSUME NEW w \in Workers, CheckIndex(w) PROVE NoCopyLeft'
  <2>1. CASE ~indexed /\ pc' = [pc EXCEPT ![w] = "dedupe"] /\ UNCHANGED gone
    BY <1>5, <2>1 DEF CheckIndex
  <2>2. QED
    BY <1>4, <1>5, <2>1 DEF CheckIndex
<1>6. ASSUME NEW w \in Workers, RemoveDuplicates(w) PROVE NoCopyLeft'
  <2>1. \A k \in Keys : rows[k] - Surplus(k) <= 1
    BY DEF Surplus
  <2>2. QED
    BY <1>6, <2>1 DEF RemoveDuplicates
<1>7. ASSUME NEW w \in Workers, BuildIndex(w) PROVE NoCopyLeft'
  <2>1. \A v \in Workers \ {w} : pc[v] \notin Migrating
    BY <1>7, Alone DEF BuildIndex, Migrating
  <2>2. pc' \in {[pc EXCEPT ![w] = "insert"], [pc EXCEPT ![w] = "idle"]}
    BY <1>7 DEF BuildIndex, EndMigration
  <2>3. \A v \in Workers : pc'[v] # "build"
    BY <2>1, <2>2 DEF Migrating
  <2>4. QED
    BY <2>3
<1>8. ASSUME NEW w \in Workers, Insert(w) PROVE NoCopyLeft'
  <2>1. \A v \in Workers : pc[v] # "build"
    BY <1>8 DEF Insert, IndexInv, SchemaInOrder
  <2>2. \A v \in Workers : pc'[v] # "build"
    BY <1>8, <2>1 DEF Insert
  <2>3. QED
    BY <2>2
<1>9. ASSUME NEW w \in Workers, Abort(w) \/ Crash(w) PROVE NoCopyLeft'
  BY <1>4, <1>9 DEF Abort, Crash
<1>10. CASE UNCHANGED vars
  BY <1>10 DEF vars
<1>11. QED
  BY <1>1, <1>2, <1>3, <1>5, <1>6, <1>7, <1>8, <1>9, <1>10 DEF Next, WorkerStep

(* Nobody builds an index that is there, nor inserts before it is.         *)
LEMMA IndexStep ==
    ASSUME IInv, [Next]_vars
    PROVE  IndexInv'
<1> USE DEF IInv, TypeOK, IndexInv, SchemaInOrder
<1>1. ASSUME NEW k \in Keys, InsertUnguarded(k) PROVE IndexInv'
  BY <1>1 DEF InsertUnguarded
<1>2. ASSUME NEW w \in Workers, Begin(w) PROVE IndexInv'
  BY <1>2 DEF Begin
<1>3. ASSUME NEW w \in Workers, AcquireLock(w) PROVE IndexInv'
  BY <1>3 DEF AcquireLock
<1>4. ASSUME NEW w \in Workers, CheckIndex(w) PROVE IndexInv'
  BY <1>4 DEF CheckIndex, EndMigration
<1>5. ASSUME NEW w \in Workers, RemoveDuplicates(w) PROVE IndexInv'
  BY <1>5 DEF RemoveDuplicates
<1>6. ASSUME NEW w \in Workers, BuildIndex(w) PROVE IndexInv'
  <2>1. \A v \in Workers \ {w} : pc[v] \notin Migrating
    BY <1>6, Alone DEF BuildIndex, Migrating
  <2>2. pc' \in {[pc EXCEPT ![w] = "insert"], [pc EXCEPT ![w] = "idle"]}
    BY <1>6 DEF BuildIndex, EndMigration
  <2>3. \A v \in Workers : pc'[v] \notin {"dedupe", "build"}
    BY <2>1, <2>2 DEF Migrating
  <2>4. QED
    BY <1>6, <2>3 DEF BuildIndex
<1>7. ASSUME NEW w \in Workers, Insert(w) PROVE IndexInv'
  BY <1>7 DEF Insert
<1>8. ASSUME NEW w \in Workers, Abort(w) \/ Crash(w) PROVE IndexInv'
  BY <1>8 DEF Abort, Crash, EndMigration
<1>9. CASE UNCHANGED vars
  BY <1>9 DEF vars
<1>10. QED
  BY <1>1, <1>2, <1>3, <1>4, <1>5, <1>6, <1>7, <1>8, <1>9 DEF Next, WorkerStep

(* Under the index no key has two rows.                                    *)
LEMMA UniqueStep ==
    ASSUME IInv, [Next]_vars
    PROVE  RowsUnique'
<1> USE DEF IInv, TypeOK, RowsUnique
<1>1. ASSUME NEW k \in Keys, InsertUnguarded(k) PROVE RowsUnique'
  BY <1>1 DEF InsertUnguarded
<1>2. ASSUME NEW w \in Workers, BuildIndex(w) PROVE RowsUnique'
  BY <1>2 DEF BuildIndex, Distinct
<1>3. ASSUME NEW w \in Workers, Insert(w) PROVE RowsUnique'
  BY <1>3 DEF Insert
<1>4. CASE UNCHANGED <<rows, indexed>>
  BY <1>4
<1>5. QED
  BY <1>1, <1>2, <1>3, <1>4
  DEF Next, WorkerStep, Begin, AcquireLock, CheckIndex, RemoveDuplicates, Abort, Crash, vars

(* The strengthening is inductive, so it holds in every reachable state.   *)
THEOREM Invariance == Spec => []IInv
<1>1. IInv /\ [Next]_vars => IInv'
  BY TypeStep, LockStep, GoneStep, NoCopyStep, IndexStep, UniqueStep DEF IInv
<1>2. QED
  BY InitIInv, <1>1, PTL DEF Spec

(* The variables keep their types: row counts never fall below zero.       *)
THEOREM TypeCorrect == Spec => []TypeOK
<1>1. IInv => TypeOK
  BY DEF IInv
<1>2. QED
  BY Invariance, <1>1, PTL

(* The migration's DELETE under the table's SHARE lock: CREATE UNIQUE      *)
(* INDEX finds no copy, however many old writers there are.                *)
THEOREM IndexFindsNoCopy == Spec => []NoCopyLeft
<1>1. IInv => NoCopyLeft
  BY DEF IInv
<1>2. QED
  BY Invariance, <1>1, PTL

(* findings_store.py, "One row per resource per audit": from the commit of *)
(* the index on, no (audit, resource) has two rows.                        *)
THEOREM UniqueRows == Spec => []RowsUnique
<1>1. IInv => RowsUnique
  BY DEF IInv
<1>2. QED
  BY Invariance, <1>1, PTL

(* ensure_schema under its advisory lock: no worker builds an index that   *)
(* another has built, and none inserts ON CONFLICT before it exists.       *)
THEOREM OrderedSchema == Spec => []SchemaInOrder
<1>1. IInv => SchemaInOrder
  BY DEF IInv, IndexInv
<1>2. QED
  BY Invariance, <1>1, PTL

(* A step that touches the rows of a key that has some leaves it one.      *)
LEMMA KeptStep ==
    ASSUME IInv, [Next]_vars, NEW k \in Keys, rows[k] > 0
    PROVE  rows'[k] > 0
<1> USE DEF IInv, TypeOK
<1>1. ASSUME NEW j \in Keys, InsertUnguarded(j) PROVE rows'[k] > 0
  BY <1>1 DEF InsertUnguarded
<1>2. ASSUME NEW w \in Workers, BuildIndex(w) PROVE rows'[k] > 0
  BY <1>2 DEF BuildIndex, GoneInv
<1>3. ASSUME NEW w \in Workers, Insert(w) PROVE rows'[k] > 0
  BY <1>3 DEF Insert
<1>4. CASE UNCHANGED rows
  BY <1>4
<1>5. QED
  BY <1>1, <1>2, <1>3, <1>4
  DEF Next, WorkerStep, Begin, AcquireLock, CheckIndex, RemoveDuplicates, Abort, Crash, vars

(* The migration's DELETE removes copies only: a finding that has a row    *)
(* has one after every step, of whichever worker or old writer it is.      *)
THEOREM KeptFindings == Spec => FindingsKept
<1>1. IInv /\ [Next]_vars => [\A k \in Keys : rows[k] > 0 => rows'[k] > 0]_vars
  BY KeptStep
<1>2. QED
  BY Invariance, <1>1, PTL DEF Spec, FindingsKept

(* What holds the lock is a migration that is open, and at most one: a     *)
(* worker that waits at pg_advisory_xact_lock waits for one that does not. *)
LockHeldByMigration ==
    /\ \A v, w \in lock : v = w
    /\ \A w \in Workers :
           pc[w] = "lock" => lock = {} \/ \E v \in lock : pc[v] \in Migrating /\ v # w

(* No failure, commit or death leaves the schema lock behind, which is the *)
(* safety half of CallsEnd: the lock is free or its holder is at work.     *)
THEOREM LockNotLeftBehind == Spec => []LockHeldByMigration
<1>1. IInv => LockHeldByMigration
  BY DEF IInv, TypeOK, LockInv, LockHeldByMigration, Migrating
<1>2. QED
  BY Invariance, <1>1, PTL

-----------------------------------------------------------------------------
(* The abstract table of Schema, with its variables read off the rows.     *)
USE DEF Table!tableVars

(* The table starts in a state of the abstract one.                        *)
LEMMA TableInit == Init => Table!Init
  BY DEF Init, Table!Init

(* An old writer's INSERT adds a finding, or one more copy of it.          *)
LEMMA UnguardedIsAdd ==
    ASSUME IInv, NEW k \in Keys, InsertUnguarded(k)
    PROVE  Table!Add(k)
<1> USE DEF IInv, TypeOK, InsertUnguarded
<1>1. rows[k] \in Nat /\ rows' = [rows EXCEPT ![k] = rows[k] + 1]
  OBVIOUS
<1>2. {j \in Keys : rows'[j] > 0} = {j \in Keys : rows[j] > 0} \cup {k}
  BY <1>1
<1>3. {j \in Keys : rows'[j] > 1} =
      {j \in Keys : rows[j] > 1} \cup ({k} \cap {j \in Keys : rows[j] > 0})
  BY <1>1
<1>4. QED
  BY <1>2, <1>3 DEF Table!Add

(* The commit of the migration drops the copies and nothing else: GoneInv  *)
(* leaves a row of each key, and CREATE UNIQUE INDEX has found only one.   *)
LEMMA BuildIsMigrate ==
    ASSUME IInv, NEW w \in Workers, BuildIndex(w)
    PROVE  Table!Migrate
<1> USE DEF IInv, TypeOK, BuildIndex
<1>1. ASSUME NEW k \in Keys
      PROVE  /\ rows'[k] > 0 <=> rows[k] > 0
             /\ ~(rows'[k] > 1)
  BY <1>1 DEF GoneInv, Distinct
<1>2. {k \in Keys : rows'[k] > 0} = {k \in Keys : rows[k] > 0}
  BY <1>1
<1>3. {k \in Keys : rows'[k] > 1} = {}
  BY <1>1
<1>4. QED
  BY <1>2, <1>3 DEF Table!Migrate

(* record_findings inserts the keys of its batch that have no row yet.     *)
LEMMA InsertIsRecord ==
    ASSUME IInv, NEW w \in Workers, Insert(w)
    PROVE  Table!Record(batch[w]) \/ UNCHANGED Table!tableVars
<1> USE DEF IInv, TypeOK, Insert
<1>1. ASSUME NEW k \in Keys
      PROVE  /\ rows'[k] > 0 <=> rows[k] > 0 \/ k \in batch[w]
             /\ rows'[k] > 1 <=> rows[k] > 1
  BY <1>1
<1>2. {k \in Keys : rows'[k] > 0} = {k \in Keys : rows[k] > 0} \cup batch[w]
  BY <1>1
<1>3. {k \in Keys : rows'[k] > 1} = {k \in Keys : rows[k] > 1}
  BY <1>1
<1>4. CASE batch[w] = {}
  BY <1>2, <1>3, <1>4
<1>5. CASE batch[w] # {}
  BY <1>2, <1>3, <1>5 DEF Table!Record
<1>6. QED
  BY <1>4, <1>5

(* Locks, rollbacks, deaths and old and new writers together are a table   *)
(* that becomes unique in one step and loses nothing: the queries of       *)
(* findings_store.py need not know how far a migration has come.           *)
THEOREM TableImplementation == Spec => ImplementsFindingsTable
<1>1. IInv /\ [Next]_vars => [Table!Next]_(Table!tableVars)
  <2> SUFFICES ASSUME IInv, [Next]_vars PROVE [Table!Next]_(Table!tableVars)
    OBVIOUS
  <2>1. ASSUME NEW k \in Keys, InsertUnguarded(k) PROVE Table!Next
    BY <2>1, UnguardedIsAdd DEF Table!Next
  <2>2. ASSUME NEW w \in Workers, BuildIndex(w) PROVE Table!Next
    BY <2>2, BuildIsMigrate DEF Table!Next
  <2>3. ASSUME NEW w \in Workers, Insert(w) PROVE Table!Next \/ UNCHANGED Table!tableVars
    <3>1. batch[w] \in SUBSET Keys
      BY DEF IInv, TypeOK
    <3>2. Table!Record(batch[w]) \/ UNCHANGED Table!tableVars
      BY <2>3, InsertIsRecord
    <3>3. QED
      BY <3>1, <3>2 DEF Table!Next, Table!Record
  <2>4. CASE UNCHANGED <<rows, indexed>>
    BY <2>4
  <2>5. QED
    BY <2>1, <2>2, <2>3, <2>4
    DEF Next, WorkerStep, Begin, AcquireLock, CheckIndex, RemoveDuplicates, Abort, Crash, vars
<1>2. QED
  BY TableInit, Invariance, <1>1, PTL DEF Spec, ImplementsFindingsTable, Table!Spec

Found == {k \in Keys : rows[k] > 0}
Doubled == {k \in Keys : rows[k] > 1}

(* What the queries over the table get out of that, by the abstraction     *)
(* alone: no finding is counted twice once the table is unique, which it   *)
(* then stays, and none disappears.                                        *)
THEOREM TablePromises ==
    ImplementsFindingsTable =>
        /\ [](indexed => Doubled = {})
        /\ [][Found \subseteq Found' /\ (indexed => indexed')]_<<Found, Doubled, indexed>>
<1> DEFINE OneEach == indexed => Doubled = {}
           Grows == Found \subseteq Found' /\ (indexed => indexed')
<1>1. Table!Init => OneEach
  BY DEF Table!Init
<1>2. OneEach /\ [Table!Next]_(Table!tableVars) => OneEach'
  BY DEF Table!Next, Table!Add, Table!Migrate, Table!Record, Table!tableVars, Found, Doubled
<1>3. [Table!Next]_(Table!tableVars) => [Grows]_<<Found, Doubled, indexed>>
  BY DEF Table!Next, Table!Add, Table!Migrate, Table!Record, Table!tableVars, Found, Doubled
<1>4. QED
  BY <1>1, <1>2, <1>3, PTL DEF ImplementsFindingsTable, Table!Spec
=============================================================================
