------------------------------ MODULE Delivery ------------------------------
(***************************************************************************)
(* The clients of POST /ingest and the reporter together.  A scan is       *)
(* delivered by the CLI auditor's ReportAsync, over HTTP, or by the Step   *)
(* Functions workflow, which invokes the reporter's Lambda.  Every POST    *)
(* that arrives is one execution of the ingest handler.  Requests and      *)
(* answers can be lost, and a request the client gave up on may still be   *)
(* running, or arrive, while its retry is served: HttpClient waits 30      *)
(* seconds, the handler's own calls may take longer.                       *)
(***************************************************************************)
EXTENDS Report, FiniteSets

CONSTANTS
    Executions,      \* scans the workflow delivers; the others are the CLI's
    Background,      \* scans whose reporter alerts in the background
    ScanFindings,    \* ScanFindings[s]: the at-risk buckets of scan s
    MaxBegun,        \* bound on the scans delivered in one behaviour
    Buckets, SdkAttempts, StoreEnabled, Webhook, CacheFails, StaleReads

(* In Lambda alerts are sent before the answer.                            *)
ASSUME DeliveryAssumption ==
    /\ ScanFindings \in [Scans -> SUBSET Buckets]
    /\ Executions \subseteq Scans
    /\ Background \subseteq Scans \ Executions

ASSUME ServerAssumption ==
    /\ SdkAttempts \in Nat \ {0}
    /\ {StoreEnabled, Webhook, CacheFails, StaleReads} \subseteq BOOLEAN

VARIABLES
    abandoned,    \* posts the client gave up on before their handler was done
    overlooked,   \* posts whose lookup missed an item of their scan (history)
    published     \* executions whose alert SNS has

VARIABLES pc, table, tally, cache, rows, confirmed, metered, slack, posted,
          notified

(* The n-th POST of scan s.                                                *)
Posts == Scans \X (1..MaxAttempts)
PostsOf(s) == {s} \X (1..MaxAttempts)

Server == INSTANCE Ingest WITH
    Deliveries <- Posts,
    AuditIds <- Scans,
    AuditId <- [d \in Posts |-> d[1]],
    Keyed <- Posts,
    Async <- Background \X (1..MaxAttempts),
    Findings <- [d \in Posts |-> ScanFindings[d[1]]]

Flow == INSTANCE Workflow

serverVars == <<pc, table, tally, cache, rows, confirmed, metered, slack,
                posted, notified>>
allVars == <<clientVars, abandoned, overlooked, published, serverVars>>

DeliveryInit ==
    Init /\ abandoned = {} /\ overlooked = {} /\ published = {} /\ Server!Init

(* The statuses a handler's answer can carry.                              *)
StatusesOf(answer) ==
    CASE answer = "created" -> {201}
      [] answer = "duplicate" -> {200}
      [] answer = "rejected" -> {400, 401, 413, 422, 503}
      [] answer = "error" -> {500}

Current(s) == <<s, attempt[s]>>
Waiting(s) == phase[s] = "waiting"
Begun(s) ==
    \/ phase[s] # "idle"
    \/ Cardinality({t \in Scans : phase[t] # "idle"}) < MaxBegun

Submit(s) ==
    /\ Begun(s)
    /\ IF s \in Executions THEN Flow!ProcessFindings(s)
       ELSE Send(s) /\ UNCHANGED published
    /\ UNCHANGED <<abandoned, overlooked, serverVars>>

(* A request reaches the reporter, possibly after the client gave up on it. *)
Arrive(d) ==
    /\ d[2] <= attempt[d[1]]
    /\ Server!Admit(d) \/ Server!Refuse(d)
    /\ UNCHANGED <<clientVars, abandoned, overlooked, published>>

Reply(s) ==
    /\ Waiting(s)
    /\ pc[Current(s)] \in Server!Answered
    /\ IF s \in Executions THEN Flow!Invoked(s)
       ELSE /\ \E status \in StatusesOf(pc[Current(s)]) : Answer(s, status)
            /\ UNCHANGED published
    /\ UNCHANGED <<abandoned, overlooked, serverVars>>

(* The request or its answer is lost, or the client times out.             *)
Lose(s) ==
    /\ Waiting(s)
    /\ IF s \in Executions THEN Flow!InvocationFails(s)
       ELSE NoAnswer(s) /\ UNCHANGED published
    /\ abandoned' = abandoned \cup
           {d \in {Current(s)} : pc[d] \in {"idle"} \cup Server!Running}
    /\ UNCHANGED <<overlooked, serverVars>>

(* The states of the workflow before and after it talks to the reporter.   *)
Orchestrate(s) ==
    /\ s \in Executions /\ Begun(s)
    /\ \/ Flow!RunAuditor(s)
       \/ Flow!CheckVulnerabilities(s, ScanFindings[s] # {})
       \/ Flow!SendAlert(s)
    /\ UNCHANGED <<abandoned, overlooked, serverVars>>

(* The lookup lets d go on to the put although its scan has an item.       *)
Overlooks(d) == pc[d] = "lookup" /\ pc'[d] = "put" /\ Server!Found(d)

Serve(d) ==
    /\ Server!HandlerStep(d)
    /\ overlooked' = overlooked \cup {e \in {d} : Overlooks(e)}
    /\ UNCHANGED <<clientVars, abandoned, published>>

Notify(d) ==
    /\ Server!AlertStep(d)
    /\ UNCHANGED <<clientVars, abandoned, overlooked, published>>

Disturb(d) ==
    /\ Server!Crash(d)
    /\ UNCHANGED <<clientVars, abandoned, overlooked, published>>

ClientStep(s) == Submit(s) \/ Reply(s) \/ Lose(s) \/ Orchestrate(s)

DeliveryNext ==
    \/ \E s \in Scans : ClientStep(s)
    \/ \E d \in Posts : Arrive(d) \/ Serve(d) \/ Notify(d) \/ Disturb(d)

DeliverySpec == DeliveryInit /\ [][DeliveryNext]_allVars

(* ReportAsync and executions keep going: HttpClient's and the Lambda's    *)
(* timeouts bound every wait.  Requests need not arrive, nor be served.    *)
DeliveryFairSpec ==
    /\ DeliverySpec
    /\ \A s \in Scans : WF_allVars(ClientStep(s))
-----------------------------------------------------------------------------
DeliveryTypeOK ==
    /\ attempt \in [Scans -> 0..MaxAttempts]
    /\ phase \in [Scans -> Phases \cup Flow!States]
    /\ published \subseteq Executions
    /\ abandoned \subseteq Posts
    /\ overlooked \subseteq Posts
    /\ Server!TypeOK

(* When ReportAsync returns normally the audit is in the reporter's table. *)
DeliveredIsStored ==
    \A s \in Scans : phase[s] = "delivered" => Server!ItemsOf(s) # {}

(* However often a scan is posted it is stored at most once: Program.cs,   *)
(* "a retry after a response was lost cannot store the audit twice", and   *)
(* the workflow, "a redelivered audit is stored once".                     *)
StoredOnce == \A s \in Scans : Cardinality(Server!ItemsOf(s)) <= 1

(* A scan is stored, and alerts Slack, once more only for a post that its  *)
(* client abandoned or whose lookup, a Query without ConsistentRead, did   *)
(* not see the item that was there: no failure after the put, no crash and *)
(* no lost answer does it by itself.                                       *)
SettledStoredOnce ==
    \A s \in Scans :
        /\ Cardinality(Server!ItemsOf(s) \ (abandoned \cup overlooked)) <= 1
        /\ Cardinality((posted \cap PostsOf(s)) \ (abandoned \cup overlooked)) <= 1

(* Every delivery comes to an end: the scan is delivered, rejected or      *)
(* given up on after MaxAttempts, the execution completed or failed.       *)
ScanSettles ==
    \A s \in Scans :
        phase[s] = "waiting" ~> phase[s] \in Outcomes \cup Flow!Outcomes

(* The workflow: "Every audit is recorded, clean ones included".           *)
CompletedIsRecorded ==
    \A s \in Executions : phase[s] = "AuditComplete" => Server!ItemsOf(s) # {}

(* What of it holds: an execution gets past ProcessFindings only with an   *)
(* answer of the reporter, so its audit is stored unless that answer, in   *)
(* the payload, says that it was not taken.                                *)
RecordedUnlessRefused ==
    \A s \in Executions :
        phase[s] \in {"CheckVulnerabilities", "SendAlert", "AuditComplete"} =>
            Server!ItemsOf(s) # {} \/ pc[Current(s)] \in {"rejected", "error"}

(* Whatever becomes of the audit and its Slack alert in the reporter, an   *)
(* execution with findings ends announced to SNS or visibly failed.        *)
FindingsAreAnnounced ==
    \A s \in Executions :
        phase[s] = "AuditComplete" /\ ScanFindings[s] # {} => s \in published

Quiet(s) ==
    \A d \in PostsOf(s) :
        pc[d] \notin Server!Running /\ slack[d] \notin Server!InFlight

(* POST /ingest "alerts Slack if any vulnerabilities were found": once the *)
(* dust has settled, an alert for a delivered scan with findings was at    *)
(* least tried.                                                            *)
DeliveredIsAlerted ==
    \A s \in Scans :
        phase[s] = "delivered" /\ ScanFindings[s] # {} /\ Webhook /\ Quiet(s)
            => \E d \in PostsOf(s) : slack[d] # "none"

(* The same, when no delivery of the scan died or failed on the way.       *)
DeliveredIsAlertedUnlessFailed ==
    \A s \in Scans :
        phase[s] = "delivered" /\ ScanFindings[s] # {} /\ Webhook /\ Quiet(s)
        /\ (\A d \in PostsOf(s) : pc[d] \notin {"error", "crashed"})
            => \E d \in PostsOf(s) : slack[d] # "none"

(* What a phase of ReportAsync, or a state of the workflow, says of how    *)
(* the handover of its scan ended.                                         *)
OutcomeOf(p) ==
    CASE p = "delivered" -> "delivered"
      [] p = "AuditComplete" -> "completed"
      [] p \in {"rejected", "gaveup", "AuditFailed", "ReportingFailed", "SendAlertFailed"} -> "failed"
      [] OTHER -> "open"

(* What a handler's answer says of its audit.                              *)
VerdictOf(answer) ==
    CASE answer \in {"created", "duplicate"} -> "taken"
      [] answer \in {"rejected", "error"} -> "refused"
      [] OTHER -> "none"

Contract == INSTANCE Handover WITH
    Vulnerable <- {s \in Scans : ScanFindings[s] # {}},
    Requests <- Posts,
    ScanOf <- [d \in Posts |-> d[1]],
    items <- table,
    alerted <- posted,
    verdict <- [d \in Posts |-> VerdictOf(pc[d])],
    announced <- published,
    outcome <- [s \in Scans |-> OutcomeOf(phase[s])]

(* Clients, network and handlers together keep the promises of Handover:   *)
(* a scan is stored again only for posts that were abandoned or overlooked *)
(* its item, a client that was told so, or an execution that completes,    *)
(* can rely on what that says of the table and of SNS, and no end is ever  *)
(* revised.                                                                *)
ImplementsHandover == Contract!Spec
=============================================================================
