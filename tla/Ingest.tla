------------------------------- MODULE Ingest -------------------------------
(***************************************************************************)
(* POST /ingest of the reporter (src/reporter/app.py, ingest_findings):    *)
(* handlers that run concurrently in the threads, workers and replicas of  *)
(* the reporter and share the DynamoDB table, the Redis cache, the         *)
(* PostgreSQL findings store and the Slack webhook.                        *)
(*                                                                         *)
(* One element of Deliveries is one execution of the handler.  Between any *)
(* two calls that leave the process another handler may run, a call may    *)
(* fail, and the worker may die.  A table item is named by the delivery    *)
(* that put it: its key is (auditId, timestamp), and timestamps taken by   *)
(* two executions are distinct.                                            *)
(***************************************************************************)
EXTENDS Integers, FiniteSets

CONSTANTS
    Deliveries,    \* executions of the handler
    AuditIds,      \* audit ids: uuid5 of the key, or a fresh uuid4
    AuditId,       \* AuditId[d]: the id delivery d computes
    Keyed,         \* deliveries that carry an Idempotency-Key
    Buckets,       \* names of S3 buckets
    Findings,      \* Findings[d]: the at-risk buckets in d's payload
    SdkAttempts,   \* how often botocore may send one DynamoDB call
    Async,         \* deliveries served where notifier.is_async() holds
    StoreEnabled,  \* findings_store.enabled()
    Webhook,       \* a Slack webhook is configured
    CacheFails,    \* a Redis call may fail
    StaleReads     \* a read may miss a recent write (no ConsistentRead)

ASSUME DeliveriesAssumption ==
    /\ AuditId \in [Deliveries -> AuditIds]
    /\ Keyed \subseteq Deliveries
    /\ \A d, e \in Deliveries :
           AuditId[d] = AuditId[e] => d = e \/ {d, e} \subseteq Keyed

ASSUME PayloadAssumption == Findings \in [Deliveries -> SUBSET Buckets]

ASSUME ConfigurationAssumption ==
    /\ SdkAttempts \in Nat \ {0}
    /\ Async \subseteq Deliveries
    /\ {StoreEnabled, Webhook, CacheFails, StaleReads} \subseteq BOOLEAN

Tallies == [Deliveries -> 0..SdkAttempts]

(* What the dashboard shows: the items it lists, and which of them it      *)
(* shows as notified.                                                      *)
Views == [listed : SUBSET Deliveries, flagged : SUBSET Deliveries]

VARIABLES
    pc,          \* how far each handler got, or how it answered
    table,       \* items in DynamoDB, each named by the delivery that put it
    tally,       \* tally[d]: how many times the STATS item counted d's audit
    cache,       \* the views under the dashboard key in Redis: one, or none
    rows,        \* rows of the findings table, as <<auditId, bucket>>
    confirmed,   \* deliveries answered with findingsIndexed = true
    metered,     \* deliveries recorded in the worker's metrics
    slack,       \* how far the Slack alert of each delivery got
    posted,      \* deliveries whose alert Slack accepted at least once
    notified     \* items with slackNotified = true

tableVars == <<table, tally>>
sideVars == <<rows, confirmed, metered>>
alertVars == <<slack, posted, notified>>
vars == <<pc, tableVars, cache, sideVars, alertVars>>

Running == {"lookup", "put", "stats", "invalidate", "index", "metrics",
            "alert", "alerting", "respond"}
Acked == {"created", "duplicate"}
Answered == Acked \cup {"rejected", "error"}
HandlerStates == {"idle"} \cup Running \cup Answered \cup {"crashed"}

InFlight == {"queued", "sent", "failed", "marked"}
AlertStates == {"none", "skipped", "done", "unmarked", "lost"} \cup InFlight

ItemsOf(id) == {d \in table : AuditId[d] = id}
RowsOf(d) == {AuditId[d]} \X Findings[d]

EmptyView == [listed |-> {}, flagged |-> {}]

Init ==
    /\ pc = [d \in Deliveries |-> "idle"]
    /\ table = {}
    /\ tally = [d \in Deliveries |-> 0]
    /\ cache \in {{}, {EmptyView}}
    /\ rows = {}
    /\ confirmed = {}
    /\ metered = {}
    /\ slack = [d \in Deliveries |-> "none"]
    /\ posted = {}
    /\ notified = {}

(* cache.delete; a Redis error is logged and the old view stays.           *)
Uncached == IF CacheFails THEN {{}, cache} ELSE {{}}

Goto(d, from, to) ==
    /\ pc[d] = from
    /\ pc' = [pc EXCEPT ![d] = to]

(* A delivery with a key is looked up first.  Mutant: the key is ignored.  *)
IgnoreKey(d) == "put"
FirstCall(d) == IF d \in Keyed THEN "lookup" ELSE "put"

(***************************************************************************)
(* Admission: authentication, size, JSON, validation and key length come   *)
(* before anything is stored.  A payload validate_audit cannot digest      *)
(* (an integer too large for a float) escapes as an unhandled 500.         *)
(***************************************************************************)
Admit(d) ==
    /\ Goto(d, "idle", FirstCall(d))
    /\ UNCHANGED <<tableVars, cache, sideVars, alertVars>>

Refuse(d) ==
    /\ \E answer \in {"rejected", "error"} : Goto(d, "idle", answer)
    /\ UNCHANGED <<tableVars, cache, sideVars, alertVars>>

(* find_existing_audit: a Query for the key's audit id, Limit 1.  Without  *)
(* ConsistentRead it may miss an item that is there, for as long as that   *)
(* takes DynamoDB to replicate: nothing in the code depends on how long.   *)
(* Mutant: a delivery with the same key that has started counts as found.  *)
Started(d) == \E e \in Deliveries \ {d} : AuditId[e] = AuditId[d] /\ pc[e] # "idle"
Found(d) == ItemsOf(AuditId[d]) # {}
Missing(d) == StaleReads \/ ~Found(d)

FindExistingAudit(d) ==
    /\ \/ Found(d) /\ Goto(d, "lookup", "duplicate")
       \/ Missing(d) /\ Goto(d, "lookup", "put")
    /\ UNCHANGED <<tableVars, cache, sideVars, alertVars>>

(* The lookup or the put raises and nothing was stored.                    *)
StorageError(d) ==
    /\ \E call \in {"lookup", "put"} : Goto(d, call, "error")
    /\ UNCHANGED <<tableVars, cache, sideVars, alertVars>>

(* Mutant: a put that raised is logged and ignored.                        *)
SwallowPutError(d) ==
    /\ Goto(d, "put", "stats")
    /\ table' \in {table, table \cup {d}}
    /\ UNCHANGED <<tally, cache, sideVars, alertVars>>

(* put_item, unconditional.  Its answer may be lost on every attempt, in   *)
(* which case the call raises although the item is there.                  *)
PutItem(d) ==
    /\ \E next \in {"stats", "error"} : Goto(d, "put", next)
    /\ table' = table \cup {d}
    /\ UNCHANGED <<tally, cache, sideVars, alertVars>>

(* update_item ADD, whose failure is swallowed.  botocore sends the call   *)
(* again when an answer is lost, so it lands 0 to SdkAttempts times.       *)
AddToStats(d) ==
    /\ Goto(d, "stats", "invalidate")
    /\ \E landed \in 0..SdkAttempts : tally' = [tally EXCEPT ![d] = landed]
    /\ UNCHANGED <<table, cache, sideVars, alertVars>>

DeleteCache(d) ==
    /\ Goto(d, "invalidate", IF StoreEnabled THEN "index" ELSE "metrics")
    /\ cache' \in Uncached
    /\ UNCHANGED <<tableVars, sideVars, alertVars>>

(* Mutant: findingsIndexed is set whether or not the write went through.   *)
ConfirmAnyway(d) ==
    /\ Goto(d, "index", "metrics")
    /\ rows' \in {rows, rows \cup RowsOf(d)}
    /\ confirmed' = confirmed \cup {d}
    /\ UNCHANGED <<tableVars, cache, metered, alertVars>>

(* record_findings: one transaction, ON CONFLICT DO NOTHING, or no call at *)
(* all for a clean audit.  The transaction may raise before its commit or  *)
(* after it; either way findingsIndexed stays false.                       *)
RecordFindings(d) ==
    /\ Goto(d, "index", "metrics")
    /\ \/ /\ rows' = rows \cup RowsOf(d)
          /\ confirmed' = confirmed \cup {d}
       \/ /\ Findings[d] # {}
          /\ rows' \in {rows, rows \cup RowsOf(d)}
          /\ UNCHANGED confirmed
    /\ UNCHANGED <<tableVars, cache, metered, alertVars>>

RecordMetrics(d) ==
    /\ Goto(d, "metrics", IF Findings[d] = {} THEN "respond" ELSE "alert")
    /\ metered' = metered \cup {d}
    /\ UNCHANGED <<tableVars, cache, rows, confirmed, alertVars>>

(* alert_slack: skipped without a webhook, handed to the background pool   *)
(* when asynchronous, otherwise delivered by the handler itself.           *)
(* Mutant: only audits whose rows were written are alerted.                *)
AlertConfirmed(d) ==
    IF d \notin confirmed THEN "none" ELSE IF Webhook THEN "queued" ELSE "skipped"
AlertAll(d) == IF Webhook THEN "queued" ELSE "skipped"

AlertSlack(d) ==
    /\ Goto(d, "alert", IF Webhook /\ d \notin Async THEN "alerting" ELSE "respond")
    /\ slack' = [slack EXCEPT ![d] = AlertAll(d)]
    /\ UNCHANGED <<tableVars, cache, sideVars, posted, notified>>

(* Reading the webhook's secret, or submitting to the pool, raises.        *)
AlertError(d) ==
    /\ Goto(d, "alert", "error")
    /\ UNCHANGED <<tableVars, cache, sideVars, alertVars>>

(***************************************************************************)
(* Delivery to Slack: by a thread of the notifier's pool, or by the        *)
(* handler waiting at "alerting".  An attempt Slack accepted may still     *)
(* look failed to the sender (the response is lost), so giving up says     *)
(* nothing about whether a message went out.                               *)
(***************************************************************************)
PostAlert(d) ==
    /\ slack[d] = "queued"
    /\ d \notin posted
    /\ posted' = posted \cup {d}
    /\ UNCHANGED <<pc, tableVars, cache, sideVars, slack, notified>>

FinishDelivery(d) ==
    /\ slack[d] = "queued"
    /\ \/ /\ d \in posted
          /\ slack' = [slack EXCEPT ![d] = "sent"]
       \/ slack' = [slack EXCEPT ![d] = "failed"]
    /\ UNCHANGED <<pc, tableVars, cache, sideVars, posted, notified>>

(* An error send_slack_alert does not catch (a malformed webhook URL) ends *)
(* a synchronous delivery and its request; the pool takes it as a failure. *)
DeliveryRaises(d) ==
    /\ slack[d] = "queued"
    /\ Goto(d, "alerting", "error")
    /\ slack' = [slack EXCEPT ![d] = "unmarked"]
    /\ UNCHANGED <<tableVars, cache, sideVars, posted, notified>>

(* Mutant: a failure clears the flag of every item with the audit's id.    *)
FlagById(d) ==
    IF slack[d] = "sent" THEN notified \cup {d}
    ELSE notified \ ItemsOf(AuditId[d])

(* Writing the flag: mark_slack_result's update_item.                      *)
Flag(d) == IF slack[d] = "sent" THEN notified \cup {d} ELSE notified \ {d}

MarkSlackResult(d) ==
    /\ slack[d] \in {"sent", "failed"}
    /\ notified' = Flag(d)
    /\ slack' = [slack EXCEPT ![d] = "marked"]
    /\ UNCHANGED <<pc, tableVars, cache, sideVars, posted>>

(* The update raises, applied or not; the cache is then left alone.        *)
MarkError(d) ==
    /\ slack[d] \in {"sent", "failed"}
    /\ notified' \in {notified, Flag(d)}
    /\ slack' = [slack EXCEPT ![d] = "unmarked"]
    /\ UNCHANGED <<pc, tableVars, cache, sideVars, posted>>

DeleteMarkedView(d) ==
    /\ slack[d] = "marked"
    /\ cache' \in Uncached
    /\ slack' = [slack EXCEPT ![d] = "done"]
    /\ UNCHANGED <<pc, tableVars, sideVars, posted, notified>>

(* Mutant: the handler only knows outcomes that could be recorded.         *)
AwaitRecorded(d) ==
    /\ slack[d] = "done" /\ Goto(d, "alerting", "respond")
    /\ UNCHANGED <<tableVars, cache, sideVars, alertVars>>

(* Synchronous delivery: the handler goes on with the outcome, and an      *)
(* update that raised makes the whole request a 500.                       *)
FinishAlert(d) ==
    /\ \/ slack[d] = "done" /\ Goto(d, "alerting", "respond")
       \/ slack[d] = "unmarked" /\ Goto(d, "alerting", "error")
    /\ UNCHANGED <<tableVars, cache, sideVars, alertVars>>

(* Mutant: an audit that meanwhile is stored twice is called a duplicate.  *)
RespondLate(d) ==
    /\ Goto(d, "respond", IF ItemsOf(AuditId[d]) = {d} THEN "created" ELSE "duplicate")
    /\ UNCHANGED <<tableVars, cache, sideVars, alertVars>>
Respond(d) ==
    /\ Goto(d, "respond", "created")
    /\ UNCHANGED <<tableVars, cache, sideVars, alertVars>>

(* The worker dies: its handler never answers and an alert it still held   *)
(* in memory is gone.  Nothing of either is persisted.                     *)
Crash(d) ==
    /\ pc[d] \in Running \/ slack[d] \in InFlight
    /\ pc' = [pc EXCEPT ![d] = IF @ \in Running THEN "crashed" ELSE @]
    /\ slack' = [slack EXCEPT ![d] = IF @ \in InFlight THEN "lost" ELSE @]
    /\ UNCHANGED <<tableVars, cache, sideVars, posted, notified>>

HandlerStep(d) ==
    \/ FindExistingAudit(d) \/ StorageError(d) \/ PutItem(d)
    \/ AddToStats(d) \/ DeleteCache(d) \/ RecordFindings(d)
    \/ RecordMetrics(d) \/ AlertSlack(d) \/ AlertError(d)
    \/ FinishAlert(d) \/ Respond(d)

AlertStep(d) ==
    \/ PostAlert(d) \/ FinishDelivery(d) \/ DeliveryRaises(d)
    \/ MarkSlackResult(d) \/ MarkError(d) \/ DeleteMarkedView(d)

Step(d) ==
    \/ Admit(d) \/ Refuse(d) \/ HandlerStep(d) \/ AlertStep(d) \/ Crash(d)

Next == \E d \in Deliveries : Step(d)

Spec == Init /\ [][Next]_vars

(* A thread that has started keeps running: its calls to DynamoDB, Redis   *)
(* and Slack have timeouts, and PostgreSQL answers or drops the connection *)
(* although a statement has none.  Requests need not arrive and workers    *)
(* need not die.                                                           *)
Fairness ==
    \A d \in Deliveries : WF_vars(HandlerStep(d)) /\ WF_vars(AlertStep(d))

FairSpec == Spec /\ Fairness
-----------------------------------------------------------------------------
TypeOK ==
    /\ pc \in [Deliveries -> HandlerStates]
    /\ table \subseteq Deliveries
    /\ tally \in Tallies
    /\ cache \subseteq Views
    /\ rows \subseteq AuditIds \X Buckets
    /\ confirmed \subseteq Deliveries
    /\ metered \subseteq Deliveries
    /\ slack \in [Deliveries -> AlertStates]
    /\ posted \subseteq Deliveries
    /\ notified \subseteq Deliveries

(* An audit the caller was told is ingested (201, or 200 "duplicate") is   *)
(* in the table: the source of truth never trails an acknowledgement.      *)
AckedIsStored ==
    \A d \in Deliveries : pc[d] \in Acked => ItemsOf(AuditId[d]) # {}

(* Totals, findings rows, metrics and Slack messages are only about audits *)
(* that are stored, and Slack hears only of audits with findings.          *)
EffectsBacked ==
    /\ \A d \in Deliveries : tally[d] > 0 => d \in table
    /\ \A r \in rows : \E d \in ItemsOf(r[1]) : r[2] \in Findings[d]
    /\ metered \subseteq table
    /\ \A d \in posted : d \in table /\ Findings[d] # {}

(* A delivery answered as a duplicate left no trace of its own: not in the *)
(* table, the totals, the metrics or Slack.                                *)
DuplicateLeavesNoTrace ==
    \A d \in Deliveries : pc[d] = "duplicate" =>
        d \notin table \cup metered \cup posted /\ tally[d] = 0

(* A 201 tells the truth: findingsIndexed means the rows are there, and    *)
(* without a crash an audit with findings had its alert attempted; when    *)
(* delivery is synchronous it has been settled and its flag written.       *)
SuccessIsTruthful ==
    \A d \in Deliveries : pc[d] = "created" =>
        /\ d \in confirmed => RowsOf(d) \subseteq rows
        /\ Webhook /\ Findings[d] # {} =>
              slack[d] \in IF d \in Async THEN AlertStates \ {"none", "skipped"}
                           ELSE {"done"}

(* slackNotified = true is never shown for an alert Slack did not accept.  *)
FlagTruthful == notified \subseteq posted

(* A handler that has started is answered, unless its worker dies.         *)
HandlerSettles ==
    \A d \in Deliveries :
        pc[d] \in Running ~> pc[d] \in Answered \cup {"crashed"}

(* A stored audit with findings is alerted to the end: delivered or given  *)
(* up on, with the outcome recorded.  The exceptions are a handler that    *)
(* died or failed before alerting, and an outcome that could not be kept.  *)
AlertSettles ==
    \A d \in Deliveries :
        d \in table /\ Findings[d] # {} /\ Webhook ~>
            slack[d] \in {"done", "unmarked", "lost"}
            \/ pc[d] \in {"error", "crashed"}

(* Nothing recorded is taken back: items, rows, metrics and Slack messages *)
(* only grow, and an item's slackNotified never goes back to false.        *)
NothingTakenBack ==
    [][/\ table \subseteq table'
       /\ rows \subseteq rows'
       /\ posted \subseteq posted'
       /\ notified \subseteq notified']_vars

Log == INSTANCE AuditLog WITH
    stored  <- {AuditId[d] : d \in table},
    acked   <- {AuditId[d] : d \in {e \in Deliveries : pc[e] \in Acked}},
    indexed <- {r[1] : r \in rows},
    alerted <- {AuditId[d] : d \in posted}

(* The handlers together keep the promise of AuditLog.                     *)
ImplementsAuditLog == Log!Spec
=============================================================================
