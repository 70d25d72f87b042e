------------------------------ MODULE AuditLog ------------------------------
(***************************************************************************)
(* What POST /ingest promises about an audit, with no handler, retry or    *)
(* failure in sight: the stored audit comes first ("DynamoDB stays the     *)
(* source of truth"), and an acknowledgement, a row in the findings store  *)
(* or a Slack message exists only for an audit that is stored.  Nothing    *)
(* recorded is ever taken back.                                            *)
(***************************************************************************)

CONSTANT AuditIds

VARIABLES
    stored,    \* audits the table holds
    acked,     \* audits a caller was told are ingested
    indexed,   \* audits with rows in the findings store
    alerted    \* audits Slack was told about

logVars == <<stored, acked, indexed, alerted>>

Init ==
    /\ stored = {}
    /\ acked = {}
    /\ indexed = {}
    /\ alerted = {}

Store(id) ==
    /\ stored' = stored \cup {id}
    /\ UNCHANGED <<acked, indexed, alerted>>

Acknowledge(id) ==
    /\ id \in stored
    /\ acked' = acked \cup {id}
    /\ UNCHANGED <<stored, indexed, alerted>>

Index(id) ==
    /\ id \in stored
    /\ indexed' = indexed \cup {id}
    /\ UNCHANGED <<stored, acked, alerted>>

Alert(id) ==
    /\ id \in stored
    /\ alerted' = alerted \cup {id}
    /\ UNCHANGED <<stored, acked, indexed>>

Next ==
    \E id \in AuditIds :
        Store(id) \/ Acknowledge(id) \/ Index(id) \/ Alert(id)

Spec == Init /\ [][Next]_logVars
=============================================================================
