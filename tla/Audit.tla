------------------------------- MODULE Audit -------------------------------
(***************************************************************************)
(* From a scan to the reporter's door: the report RunAuditAsync returns,   *)
(* serialized in camelCase, is what /ingest gets, from the CLI auditor     *)
(* with a bearer token or from the workflow, which invokes the Lambda with *)
(* an event that has no Content-Length.  Beside them are other callers of  *)
(* /ingest, who may send anything.                                         *)
(***************************************************************************)
EXTENDS Scan, Admission, SequencesExt

auditVars == <<vars, requestVars>>

AuditInit == Init /\ request = <<>> /\ answer = "none"

SeverityNames == <<"LOW", "MEDIUM", "HIGH", "CRITICAL">>

(* BucketRiskInfo of the finding of b.                                     *)
RiskInfo(b) ==
    [bucketName |-> "name", creationDate |-> "date", riskFactors |-> "list",
     severity |-> SeverityNames[severity[b]]]

AtRisk == {b \in Buckets : severity[b] > 0}

(* Mutant: only buckets anyone can reach now count as vulnerabilities.     *)
CriticalFound == \E b \in AtRisk : severity[b] = 4
VulnerabilitiesFound == AtRisk # {}

AuditResponse ==
    LET order == SetToSeq(AtRisk)
    IN  [buckets |-> <<"list", [i \in DOMAIN order |-> RiskInfo(order[i])]>>,
         flag |-> IF VulnerabilitiesFound THEN "true" ELSE "false",
         total |-> <<"int", Cardinality(Buckets)>>,
         duration |-> "seconds", timestamp |-> "iso", provider |-> "aws"]

(* ReportAsync's request, and the event of the workflow.                   *)
FromCli ==
    [lambda |-> FALSE, allowed |-> FALSE, configured |-> TRUE, bearer |-> TRUE,
     declared |-> TRUE, large |-> FALSE, json |-> "valid", longKey |-> FALSE,
     fits |-> TRUE]
FromWorkflow ==
    [FromCli EXCEPT !.lambda = TRUE, !.configured = FALSE, !.bearer = FALSE,
                    !.declared = FALSE]

(* A report may be larger than an item may be, or even than a request.     *)
Sizes == {<<FALSE, TRUE>>, <<FALSE, FALSE>>, <<TRUE, FALSE>>}
Sized(e, size) == [e EXCEPT !.large = size[1], !.fits = size[2]]
ReportEnvelopes ==
    {Sized(e, size) : e \in {FromCli, FromWorkflow}, size \in Sizes}

Scanning == answer = "none" /\ UNCHANGED requestVars

ScanStep == Scanning /\ Next

SubmitReport ==
    /\ audit = "reported"
    /\ \E e \in ReportEnvelopes :
           Post([envelope |-> e, payload |-> AuditResponse])
    /\ UNCHANGED vars

(* Others share nothing with the audit: it is enough to let them post in   *)
(* its place.                                                              *)
OthersPost ==
    /\ audit = "listing" /\ answer = "none"
    /\ \E r \in Requests : Post(r)
    /\ UNCHANGED vars

(* The auditor gives up a report that was refused; others may correct it.  *)
CorrectPayload == audit = "listing" /\ Correct /\ UNCHANGED vars

AuditNext == ScanStep \/ SubmitReport \/ OthersPost \/ CorrectPayload

AuditSpec == AuditInit /\ [][AuditNext]_auditVars

AuditFairSpec ==
    /\ AuditSpec
    /\ WF_auditVars(ListBuckets /\ Scanning) /\ WF_auditVars(WhenAll /\ Scanning)
    /\ \A b \in Buckets : WF_auditVars(BucketStep(b) /\ Scanning)
-----------------------------------------------------------------------------
(* "camelCase output is required", and the flag, the total and the         *)
(* severities have to be what validate_audit asks for: whatever the reads  *)
(* came to, by either way the report of an audit is stored unless its size *)
(* keeps it out.                                                           *)
ReportIsAccepted ==
    audit = "reported" /\ answer # "none" =>
        \/ answer = "stored"
        \/ answer = "too_large" /\ request.envelope.large
        \/ answer = "error" /\ ~request.envelope.fits
=============================================================================
