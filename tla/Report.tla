------------------------------- MODULE Report -------------------------------
(***************************************************************************)
(* The auditor's side of delivery (src/auditor/Program.cs, ReportAsync):   *)
(* one POST of a scan's result, tried again after a transient failure,     *)
(* every attempt with the same Idempotency-Key.  What travels between the  *)
(* two sides is the business of Delivery; here an attempt gets a status or *)
(* no answer at all.                                                       *)
(***************************************************************************)
EXTENDS Integers

CONSTANTS
    Scans,         \* results to deliver, each under an Idempotency-Key
    MaxAttempts    \* ReportOptions.MaxAttempts

ASSUME ReportAssumption == MaxAttempts \in Nat \ {0}

VARIABLES
    attempt,    \* attempt[s]: POSTs sent so far
    phase       \* phase[s]: where ReportAsync is

clientVars == <<attempt, phase>>

Outcomes == {"delivered", "rejected", "gaveup"}
Phases == {"idle", "waiting", "backoff"} \cup Outcomes

(* Mutant: only a 5xx counts as a failure.                                 *)
IsBelow500(status) == status < 500
IsSuccess(status) == status \in 200..299
IsTransient(status) == status \in {408, 429} \/ status >= 500

Init ==
    /\ attempt = [s \in Scans |-> 0]
    /\ phase = [s \in Scans |-> "idle"]

Send(s) ==
    /\ phase[s] \in {"idle", "backoff"}
    /\ attempt' = [attempt EXCEPT ![s] = @ + 1]
    /\ phase' = [phase EXCEPT ![s] = "waiting"]

AfterFailure(s) == IF attempt[s] >= MaxAttempts THEN "gaveup" ELSE "backoff"

Answer(s, status) ==
    /\ phase[s] = "waiting"
    /\ phase' = [phase EXCEPT ![s] =
           CASE IsSuccess(status) -> "delivered"
             [] IsTransient(status) -> AfterFailure(s)
             [] OTHER -> "rejected"]
    /\ UNCHANGED attempt

(* Mutant: an unanswered last attempt is waited for.                       *)
NoAnswerYet(s) ==
    /\ phase[s] = "waiting"
    /\ attempt[s] < MaxAttempts
    /\ phase' = [phase EXCEPT ![s] = "backoff"]
    /\ UNCHANGED attempt

(* HttpRequestException, or the 30 s timeout of HttpClient.                *)
NoAnswer(s) ==
    /\ phase[s] = "waiting"
    /\ phase' = [phase EXCEPT ![s] = AfterFailure(s)]
    /\ UNCHANGED attempt
=============================================================================
