------------------------------ MODULE Workflow ------------------------------
(***************************************************************************)
(* One execution of the Step Functions workflow                            *)
(* (src/statemachine/audit-workflow.asl.json): invoke the auditor, invoke  *)
(* the reporter with the result, publish to SNS when something was found.  *)
(* Its Retry and Catch see how the invocation ended, never the HTTP status *)
(* the reporter put into its answer.  The execution name is sent as the    *)
(* Idempotency-Key of every invocation.                                    *)
(***************************************************************************)
EXTENDS Integers

CONSTANT MaxAttempts    \* one invocation and Retry.MaxAttempts more

VARIABLES
    attempt,      \* attempt[s]: invocations of the reporter so far
    phase,        \* phase[s]: the state execution s is in
    published     \* executions whose alert SNS has

Outcomes == {"AuditComplete", "AuditFailed", "ReportingFailed", "SendAlertFailed"}
States == {"idle", "ProcessFindings", "waiting", "retry", "CheckVulnerabilities",
           "SendAlert"} \cup Outcomes

Goto(s, from, to) ==
    /\ phase[s] = from
    /\ phase' = [phase EXCEPT ![s] = to]

RunAuditor(s) ==
    /\ \E next \in {"ProcessFindings", "AuditFailed"} : Goto(s, "idle", next)
    /\ UNCHANGED <<attempt, published>>

ProcessFindings(s) ==
    /\ \E from \in {"ProcessFindings", "retry"} : Goto(s, from, "waiting")
    /\ attempt' = [attempt EXCEPT ![s] = @ + 1]
    /\ UNCHANGED published

(* The invocation succeeds, whatever the reporter answered.                *)
Invoked(s) ==
    /\ Goto(s, "waiting", "CheckVulnerabilities")
    /\ UNCHANGED <<attempt, published>>

(* Mutant: States.ALL is caught as if the findings had been processed.     *)
CatchGoesOn(s) ==
    /\ \/ attempt[s] < MaxAttempts /\ Goto(s, "waiting", "retry")
       \/ Goto(s, "waiting", "CheckVulnerabilities")
    /\ UNCHANGED <<attempt, published>>

(* The invocation fails: with an error Retry lists and attempts left it is *)
(* tried again, otherwise Catch ends the execution.                        *)
InvocationFails(s) ==
    /\ \/ attempt[s] < MaxAttempts /\ Goto(s, "waiting", "retry")
       \/ Goto(s, "waiting", "ReportingFailed")
    /\ UNCHANGED <<attempt, published>>

CheckVulnerabilities(s, found) ==
    /\ Goto(s, "CheckVulnerabilities", IF found THEN "SendAlert" ELSE "AuditComplete")
    /\ UNCHANGED <<attempt, published>>

(* Mutant: an error of SNS is caught on the way to AuditComplete.          *)
CatchPublish(s) ==
    /\ Goto(s, "SendAlert", "AuditComplete")
    /\ published' \in {published, published \cup {s}}
    /\ UNCHANGED attempt

(* No Retry and no Catch: an error of SNS ends the execution, and its      *)
(* answer may be lost.                                                     *)
SendAlert(s) ==
    /\ \/ /\ Goto(s, "SendAlert", "AuditComplete")
          /\ published' = published \cup {s}
       \/ /\ Goto(s, "SendAlert", "SendAlertFailed")
          /\ published' \in {published, published \cup {s}}
    /\ UNCHANGED attempt
=============================================================================
