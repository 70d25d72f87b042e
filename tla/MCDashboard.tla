---------------------------- MODULE MCDashboard ----------------------------
(* A reader of the dashboard beside deliveries of two audits, of which the *)
(* page shows one.                                                         *)
EXTENDS Dashboard

CONSTANTS first, second, audit1, audit2, b1, r1

MCDeliveries == {first, second}
MCAuditIds == {audit1, audit2}
MCAuditId == [d \in Deliveries |-> IF d = first THEN audit1 ELSE audit2]
MCBuckets == {b1}
MCFindings == [d \in Deliveries |-> IF d = first THEN {b1} ELSE {}]
MCReaders == {r1}
MCStamp == [d \in Deliveries |-> IF d = first THEN 1 ELSE 2]
=============================================================================
