------------------------------ MODULE MCIngest ------------------------------
(* A delivery and its retry, with one Idempotency-Key, of an audit with a  *)
(* finding.  The first is served by a container, which alerts in the       *)
(* background, the retry by the Lambda, which alerts before it answers.    *)
EXTENDS Ingest

CONSTANTS first, retry, audit1, b1

MCDeliveries == {first, retry}
MCAsync == {first}
MCAuditIds == {audit1}
MCAuditId == [d \in MCDeliveries |-> audit1]
MCBuckets == {b1}
MCFindings == [d \in MCDeliveries |-> MCBuckets]
=============================================================================
