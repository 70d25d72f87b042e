----------------------------- MODULE MCDelivery -----------------------------
(* One scan at a time, posted up to MaxAttempts times: one of the CLI and  *)
(* two of the workflow, the last without findings.                         *)
EXTENDS Delivery

CONSTANTS scan1, exec1, exec2, b1

MCScans == {scan1, exec1, exec2}
MCExecutions == {exec1, exec2}
MCBackground == {scan1}
MCBuckets == {b1}
MCScanFindings == [s \in MCScans |-> IF s = exec2 THEN {} ELSE MCBuckets]
=============================================================================
