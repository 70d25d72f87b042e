------------------------------- MODULE Schema -------------------------------
(***************************************************************************)
(* The findings table in PostgreSQL (src/reporter/findings_store.py):      *)
(* record_findings and the queries of several worker processes, each of    *)
(* which first makes sure of the schema, beside writers of the release     *)
(* before the unique index, which a rolling upgrade leaves running for a   *)
(* while.  A row's key is (audit_id, resource_name); rows[k] counts copies. *)
(***************************************************************************)
EXTENDS Naturals

CONSTANTS
    Workers,      \* worker processes of this release
    Keys,         \* (audit, resource) pairs
    MaxCopies     \* bound on the copies an old writer may leave of one key

ASSUME SchemaAssumption == MaxCopies \in Nat \ {0}

VARIABLES
    rows,       \* committed rows, per key
    indexed,    \* findings_audit_resource_uidx is committed
    lock,       \* holders of the advisory lock
    pc,         \* pc[w]: where the call of worker w is
    batch,      \* batch[w]: the keys it records, none for a query
    gone,       \* gone[w]: rows its open migration has deleted, per key
    ready       \* workers with _schema_ready

vars == <<rows, indexed, lock, pc, batch, gone, ready>>

Migrating == {"check", "dedupe", "build"}
States == {"idle", "lock", "insert"} \cup Migrating
Nothing == [k \in Keys |-> 0]

Init ==
    /\ rows \in [Keys -> 0..MaxCopies]
    /\ indexed = FALSE
    /\ lock = {}
    /\ pc = [w \in Workers |-> "idle"]
    /\ batch = [w \in Workers |-> {}]
    /\ gone = [w \in Workers |-> Nothing]
    /\ ready = {}

(* Mutant: only CREATE UNIQUE INDEX itself locks the table.                *)
LockedByBuild == FALSE
(* CREATE INDEX IF NOT EXISTS, before the migration looks for the unique   *)
(* index, takes a SHARE lock on the table and keeps it to the end: from    *)
(* then on nobody else writes.                                             *)
TableLocked == \E w \in Workers : pc[w] \in {"dedupe", "build"}

(* A writer from before the index.                                         *)
InsertUnguarded(k) ==
    /\ ~indexed
    /\ ~TableLocked
    /\ rows[k] < MaxCopies
    /\ rows' = [rows EXCEPT ![k] = @ + 1]
    /\ UNCHANGED <<indexed, lock, pc, batch, gone, ready>>

(* record_findings, query_findings or summary has its connection.          *)
Begin(w) ==
    /\ pc[w] = "idle"
    /\ \E keys \in SUBSET Keys : batch' = [batch EXCEPT ![w] = keys]
    /\ pc' = [pc EXCEPT ![w] = IF w \in ready THEN "insert" ELSE "lock"]
    /\ UNCHANGED <<rows, indexed, lock, gone, ready>>

(* Mutant: nobody waits for the lock.                                      *)
SkipLock(w) ==
    /\ pc[w] = "lock"
    /\ lock' = lock \cup {w}
    /\ pc' = [pc EXCEPT ![w] = "check"]
    /\ UNCHANGED <<rows, indexed, batch, gone, ready>>

(* pg_advisory_xact_lock, at the start of the migration's transaction.     *)
AcquireLock(w) ==
    /\ pc[w] = "lock" /\ lock = {}
    /\ lock' = {w}
    /\ pc' = [pc EXCEPT ![w] = "check"]
    /\ UNCHANGED <<rows, indexed, batch, gone, ready>>

(* The transaction of w ends: its lock goes with it.                       *)
EndMigration(w, next) ==
    /\ lock' = lock \ {w}
    /\ gone' = [gone EXCEPT ![w] = Nothing]
    /\ pc' = [pc EXCEPT ![w] = next]

(* IF NOT EXISTS (pg_indexes ...): with the index there, nothing to do.    *)
CheckIndex(w) ==
    /\ pc[w] = "check"
    /\ \/ indexed /\ EndMigration(w, "insert") /\ ready' = ready \cup {w}
       \/ /\ ~indexed
          /\ pc' = [pc EXCEPT ![w] = "dedupe"]
          /\ UNCHANGED <<lock, gone, ready>>
    /\ UNCHANGED <<rows, indexed, batch>>

(* Mutant: a.id >= b.id, which deletes the row that was to stay as well.   *)
EveryCopy(k) == rows[k]
(* DELETE ... WHERE a.id > b.id: all copies of a key but the oldest.       *)
Surplus(k) == IF rows[k] > 1 THEN rows[k] - 1 ELSE 0

RemoveDuplicates(w) ==
    /\ pc[w] = "dedupe"
    /\ gone' = [gone EXCEPT ![w] = [k \in Keys |-> Surplus(k)]]
    /\ pc' = [pc EXCEPT ![w] = "build"]
    /\ UNCHANGED <<rows, indexed, lock, batch, ready>>

(* What CREATE UNIQUE INDEX asks for.                                      *)
Distinct(w) == \A k \in Keys : rows[k] - gone[w][k] <= 1

(* CREATE UNIQUE INDEX and COMMIT; no writer comes between the two.        *)
(* The answer to the COMMIT may be lost: done, but not known to be.        *)
BuildIndex(w) ==
    /\ pc[w] = "build" /\ ~indexed /\ Distinct(w)
    /\ rows' = [k \in Keys |-> rows[k] - gone[w][k]]
    /\ indexed' = TRUE
    /\ \/ EndMigration(w, "insert") /\ ready' = ready \cup {w}
       \/ EndMigration(w, "idle") /\ UNCHANGED ready
    /\ UNCHANGED batch

(* INSERT ... ON CONFLICT (audit_id, resource_name) DO NOTHING, which      *)
(* PostgreSQL refuses without the index, or the SELECT of a query.         *)
Insert(w) ==
    /\ pc[w] = "insert"
    /\ batch[w] # {} => indexed
    /\ rows' = [k \in Keys |-> IF k \in batch[w] /\ rows[k] = 0 THEN 1 ELSE rows[k]]
    /\ pc' = [pc EXCEPT ![w] = "idle"]
    /\ UNCHANGED <<indexed, lock, batch, gone, ready>>

(* Mutants: a session lock, kept when the transaction fails; the schema    *)
(* counts as ready after a failure.                                        *)
AbortKeepsLock(w) ==
    /\ pc[w] # "idle"
    /\ gone' = [gone EXCEPT ![w] = Nothing]
    /\ pc' = [pc EXCEPT ![w] = "idle"]
    /\ UNCHANGED <<rows, indexed, batch, lock, ready>>
AbortReady(w) ==
    /\ pc[w] # "idle"
    /\ EndMigration(w, "idle")
    /\ ready' = ready \cup {w}
    /\ UNCHANGED <<rows, indexed, batch>>

(* A statement fails (a lost connection) and the transaction is rolled     *)
(* back; the next call tries again.                                        *)
Abort(w) ==
    /\ pc[w] # "idle"
    /\ EndMigration(w, "idle")
    /\ UNCHANGED <<rows, indexed, batch, ready>>

(* The worker dies; the process that replaces it knows of no schema.       *)
Crash(w) ==
    /\ EndMigration(w, "idle")
    /\ ready' = ready \ {w}
    /\ UNCHANGED <<rows, indexed, batch>>

WorkerStep(w) ==
    \/ CheckIndex(w) \/ RemoveDuplicates(w) \/ BuildIndex(w) \/ Insert(w)
    \/ Abort(w)

Next ==
    \/ \E k \in Keys : InsertUnguarded(k)
    \/ \E w \in Workers : Begin(w) \/ AcquireLock(w) \/ WorkerStep(w) \/ Crash(w)

Spec == Init /\ [][Next]_vars

(* Statements end or fail, and PostgreSQL grants a lock in the order in    *)
(* which it was asked for: whoever waits has it at last.  Nothing makes a  *)
(* wait for the lock fail (there is no lock_timeout), though it may.       *)
FairSpec ==
    /\ Spec
    /\ \A w \in Workers :
           /\ WF_vars(pc[w] # "lock" /\ WorkerStep(w))
           /\ SF_vars(AcquireLock(w))
-----------------------------------------------------------------------------
TypeOK ==
    /\ rows \in [Keys -> 0..MaxCopies]
    /\ indexed \in BOOLEAN
    /\ lock \subseteq Workers
    /\ pc \in [Workers -> States]
    /\ batch \in [Workers -> SUBSET Keys]
    /\ gone \in [Workers -> [Keys -> 0..MaxCopies]]
    /\ ready \subseteq Workers

(* "Rows duplicated before the index existed are removed first": when the  *)
(* index is built no copy is left, whatever old writers did meanwhile, so  *)
(* the migration does not fail on its own table.                           *)
NoCopyLeft == \A w \in Workers : pc[w] = "build" => Distinct(w)

(* "The advisory lock stops their concurrent CREATE ... statements from    *)
(* racing": nobody builds an index another worker has built meanwhile, and *)
(* nobody inserts ON CONFLICT before it exists.                            *)
SchemaInOrder ==
    \A w \in Workers :
        /\ pc[w] \in {"dedupe", "build"} => ~indexed
        /\ pc[w] = "insert" => indexed

(* The migration drops copies, never a finding.                            *)
FindingsKept == [][\A k \in Keys : rows[k] > 0 => rows'[k] > 0]_vars

(* For whoever reads it, the table is one that becomes unique in a single  *)
(* step and never loses a finding, and a batch is recorded as a whole.     *)
Table == INSTANCE FindingsTable WITH
    found <- {k \in Keys : rows[k] > 0},
    doubled <- {k \in Keys : rows[k] > 1},
    unique <- indexed
ImplementsFindingsTable == Table!Spec

(* No call waits for ever for the schema lock, however migrations end.     *)
CallsEnd == \A w \in Workers : pc[w] # "idle" ~> pc[w] = "idle"
=============================================================================
