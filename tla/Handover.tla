------------------------------ MODULE Handover ------------------------------
(***************************************************************************)
(* What a caller of POST /ingest may count on when it sends the result of  *)
(* a scan again and again under one Idempotency-Key, with no handler, no   *)
(* network and no retry policy in sight.  The requests of one scan fill    *)
(* one register: a request its caller still waits for, or has an answer    *)
(* to, adds the audit only if no other such request did, unless it         *)
(* overlooked what was there.  The handover of a scan ends once, and how   *)
(* it ends says what the reporter and SNS have.                            *)
(***************************************************************************)
CONSTANTS
    Scans,         \* results to hand over
    Vulnerable,    \* scans that found something
    Requests,      \* every POST that may be sent
    ScanOf         \* ScanOf[r]: the scan whose result r carries

VARIABLES
    items,        \* requests whose audit is stored
    alerted,      \* requests whose audit Slack was told about
    verdict,      \* verdict[r]: how the reporter answered r, if it did
    abandoned,    \* requests their caller gave up on before that
    overlooked,   \* requests that did not see an item of their scan
    announced,    \* scans SNS was told about
    outcome       \* outcome[s]: how the handover of s ended, if it did

handoverVars ==
    <<items, alerted, verdict, abandoned, overlooked, announced, outcome>>

RequestsOf(s) == {r \in Requests : ScanOf[r] = s}

(* What SNS may be told about scan s: nothing, if nothing was found.       *)
Announcements(s) == {s} \cap Vulnerable

Init ==
    /\ items = {}
    /\ alerted = {}
    /\ verdict = [r \in Requests |-> "none"]
    /\ abandoned = {}
    /\ overlooked = {}
    /\ announced = {}
    /\ outcome = [s \in Scans |-> "open"]

(* A request that was answered keeps its answer.                           *)
Answer(r, with) ==
    /\ verdict[r] = "none"
    /\ verdict' = [verdict EXCEPT ![r] = with]

(* An item of the scan is there, and r does not see it.                    *)
Overlook(r) ==
    /\ verdict[r] = "none"
    /\ r \notin items
    /\ RequestsOf(ScanOf[r]) \cap items # {}
    /\ overlooked' = overlooked \cup {r}
    /\ UNCHANGED <<items, alerted, verdict, abandoned, announced, outcome>>

(* The scan of r is stored, once, or once more for a request that was      *)
(* abandoned or overlooked it; the answer may even so be that it was not.  *)
Store(r) ==
    /\ r \notin items
    /\ \/ r \in overlooked
       \/ \A q \in RequestsOf(ScanOf[r]) \cap items : {q, r} \cap abandoned # {}
    /\ items' = items \cup {r}
    /\ UNCHANGED verdict \/ Answer(r, "refused")
    /\ UNCHANGED <<alerted, abandoned, overlooked, announced, outcome>>

(* "ingested", or "duplicate": some request of the scan has been stored.   *)
Take(r) ==
    /\ RequestsOf(ScanOf[r]) \cap items # {}
    /\ Answer(r, "taken")
    /\ UNCHANGED <<items, alerted, abandoned, overlooked, announced, outcome>>

Refuse(r) ==
    /\ Answer(r, "refused")
    /\ UNCHANGED <<items, alerted, abandoned, overlooked, announced, outcome>>

Alert(r) ==
    /\ r \in items \ alerted
    /\ ScanOf[r] \in Vulnerable
    /\ alerted' = alerted \cup {r}
    /\ UNCHANGED <<items, verdict, abandoned, overlooked, announced, outcome>>

(* The caller stops waiting for r, and perhaps gives the scan up.          *)
Abandon(r) ==
    /\ verdict[r] = "none"
    /\ outcome[ScanOf[r]] = "open"
    /\ abandoned' = abandoned \cup {r}
    /\ outcome' \in {outcome, [outcome EXCEPT ![ScanOf[r]] = "failed"]}
    /\ UNCHANGED <<items, alerted, verdict, overlooked, announced>>

(* A handover that is open ends, once and for all.                         *)
End(s, with) ==
    /\ outcome[s] = "open"
    /\ outcome' = [outcome EXCEPT ![s] = with]
    /\ UNCHANGED <<items, alerted, verdict, abandoned, overlooked>>

(* ReportAsync returns normally.                                           *)
Deliver(s) ==
    /\ \E r \in RequestsOf(s) : verdict[r] = "taken"
    /\ End(s, "delivered")
    /\ UNCHANGED announced

(* An execution reaches AuditComplete: with an answer of the reporter,     *)
(* whatever it says, and, if there is something to announce, announced.    *)
Complete(s) ==
    /\ \E r \in RequestsOf(s) : verdict[r] # "none"
    /\ End(s, "completed")
    /\ announced' = announced \cup Announcements(s)

Fail(s) ==
    /\ End(s, "failed")
    /\ announced' \in {announced, announced \cup Announcements(s)}

Next ==
    \/ \E r \in Requests :
           \/ Overlook(r) \/ Store(r) \/ Take(r) \/ Refuse(r)
           \/ Alert(r) \/ Abandon(r)
    \/ \E s \in Scans : Deliver(s) \/ Complete(s) \/ Fail(s)

Spec == Init /\ [][Next]_handoverVars
=============================================================================
