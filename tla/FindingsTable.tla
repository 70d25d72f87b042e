---------------------------- MODULE FindingsTable ----------------------------
(***************************************************************************)
(* What the queries over the findings table may count on while old and new *)
(* releases write to it: a finding that is there stays, and may be counted *)
(* more than once only until the table becomes unique, which it does once  *)
(* and in one step, however many processes, locks and transactions it      *)
(* takes.                                                                  *)
(***************************************************************************)
CONSTANTS Keys

VARIABLES
    found,      \* findings with a row
    doubled,    \* findings with more than one
    unique      \* there is one row per finding, for good

tableVars == <<found, doubled, unique>>

Init ==
    /\ found \subseteq Keys
    /\ doubled \subseteq found
    /\ unique = FALSE

(* A writer that does not look whether the finding is there already.       *)
Add(k) ==
    /\ ~unique
    /\ found' = found \cup {k}
    /\ doubled' = doubled \cup ({k} \cap found)
    /\ UNCHANGED unique

Migrate ==
    /\ ~unique
    /\ unique' = TRUE
    /\ doubled' = {}
    /\ UNCHANGED found

(* A whole batch is recorded, or nothing of it.                            *)
Record(keys) ==
    /\ unique
    /\ found' = found \cup keys
    /\ UNCHANGED <<doubled, unique>>

Next ==
    \/ \E k \in Keys : Add(k)
    \/ Migrate
    \/ \E keys \in SUBSET Keys : Record(keys)

Spec == Init /\ [][Next]_tableVars
=============================================================================
