-------------------------------- MODULE Scan --------------------------------
(***************************************************************************)
(* One audit (src/auditor/Function.cs, RunAuditAsync): a task per bucket,  *)
(* at most MaxConcurrency of them inside the gate, each reading the Public *)
(* Access Block and then, when that leaves the bucket open, its policy and *)
(* ACL at the same time.  S3 errors are handled per bucket; any other      *)
(* exception makes the whole audit fail.  Meanwhile the owner of a bucket  *)
(* may change it, so a rating can rest on reads of different times.        *)
(***************************************************************************)
EXTENDS Exposure

CONSTANTS
    Buckets,           \* buckets ListBuckets returns
    Family,            \* Family[b]: the configurations b may have
    MaxConcurrency,    \* permits of the gate
    MaxChanges         \* bound on what owners change during the audit

ASSUME ScanAssumption ==
    /\ IsFiniteSet(Buckets)
    /\ Family \in [Buckets -> SUBSET Configurations]
    /\ MaxConcurrency \in Nat \ {0}
    /\ MaxChanges \in Nat

VARIABLES
    audit,      \* where RunAuditAsync is
    gate,       \* permits left
    task,       \* task[b]: where ScanBucketAsync is for b
    view,       \* view[b]: what its reads returned, as a configuration
    policy,     \* policy[b]: the state of the policy read
    acl,        \* acl[b]: the state of the ACL read
    result,     \* result[b]: what its scan came to
    severity,   \* severity[b]: the rating of its finding, 0 without one
    config,     \* config[b]: what b is configured to
    lived,      \* lived[b]: the configurations b had while it was scanned
    changes     \* changes owners made

ownerVars == <<config, lived, changes>>
readVars == <<view, policy, acl>>
vars == <<audit, gate, task, readVars, result, severity, ownerVars>>

Inside == {"block", "reads"}
Reads == {"none", "inflight", "ok", "failed", "threw"}
Results == {"none", "clean", "skipped", "finding", "threw"}

Unread == [configured |-> FALSE, block |-> {}, policy |-> {}, acl |-> {}]

Init ==
    /\ audit = "listing"
    /\ gate = MaxConcurrency
    /\ task = [b \in Buckets |-> "waiting"]
    /\ view = [b \in Buckets |-> Unread]
    /\ policy = [b \in Buckets |-> "none"]
    /\ acl = [b \in Buckets |-> "none"]
    /\ result = [b \in Buckets |-> "none"]
    /\ severity = [b \in Buckets |-> 0]
    /\ config \in {c \in [Buckets -> UNION {Family[b] : b \in Buckets}] :
                      \A b \in Buckets : c[b] \in Family[b]}
    /\ lived = [b \in Buckets |-> {}]
    /\ changes = 0

ListBuckets ==
    /\ audit = "listing"
    /\ audit' \in {"scanning", "failed"}
    /\ UNCHANGED <<gate, task, readVars, result, severity, ownerVars>>

EnterGate(b) ==
    /\ audit = "scanning" /\ task[b] = "waiting" /\ gate > 0
    /\ gate' = gate - 1
    /\ task' = [task EXCEPT ![b] = "block"]
    /\ lived' = [lived EXCEPT ![b] = {config[b]}]
    /\ UNCHANGED <<audit, readVars, result, severity, config, changes>>

(* Mutant: the permit is released only when the scan succeeded.            *)
LeaveOnSuccess(b, outcome, rating) ==
    /\ task' = [task EXCEPT ![b] = "ended"]
    /\ result' = [result EXCEPT ![b] = outcome]
    /\ severity' = [severity EXCEPT ![b] = rating]
    /\ gate' = IF outcome = "threw" THEN gate ELSE gate + 1

(* The task of b ends; its permit is released in the finally block.        *)
Leave(b, outcome, rating) ==
    /\ task' = [task EXCEPT ![b] = "ended"]
    /\ result' = [result EXCEPT ![b] = outcome]
    /\ severity' = [severity EXCEPT ![b] = rating]
    /\ gate' = gate + 1

(* GetPublicAccessBlock: an S3 error ends the scan without a finding, save *)
(* the one that says there is no block; so does a bucket fully blocked.    *)
BlockError(b) ==
    /\ task[b] = "block"
    /\ \E outcome \in {"skipped", "threw"} : Leave(b, outcome, 0)
    /\ UNCHANGED <<audit, readVars, ownerVars>>

ReadBlock(b) ==
    /\ task[b] = "block"
    /\ \/ IsFullyBlocked(config[b]) /\ Leave(b, "clean", 0) /\ UNCHANGED readVars
       \/ /\ ~IsFullyBlocked(config[b])
          /\ task' = [task EXCEPT ![b] = "reads"]
          /\ view' = [view EXCEPT ![b].configured = config[b].configured,
                                  ![b].block = config[b].block]
          /\ policy' = [policy EXCEPT ![b] = "inflight"]
          /\ acl' = [acl EXCEPT ![b] = "inflight"]
          /\ UNCHANGED <<gate, result, severity>>
    /\ UNCHANGED <<audit, ownerVars>>

(* ReadPolicyAsync and ReadAclAsync: an S3 error is a failed read, which   *)
(* counts as empty; other exceptions stay in the task until it is awaited. *)
ReadPolicy(b) ==
    /\ policy[b] = "inflight"
    /\ \/ /\ policy' = [policy EXCEPT ![b] = "ok"]
          /\ view' = [view EXCEPT ![b].policy = config[b].policy]
       \/ /\ \E error \in {"failed", "threw"} : policy' = [policy EXCEPT ![b] = error]
          /\ UNCHANGED view
    /\ UNCHANGED <<audit, gate, task, acl, result, severity, ownerVars>>

ReadAcl(b) ==
    /\ acl[b] = "inflight"
    /\ \/ /\ acl' = [acl EXCEPT ![b] = "ok"]
          /\ view' = [view EXCEPT ![b].acl = config[b].acl]
       \/ /\ \E error \in {"failed", "threw"} : acl' = [acl EXCEPT ![b] = error]
          /\ UNCHANGED view
    /\ UNCHANGED <<audit, gate, task, policy, result, severity, ownerVars>>

Read == {"ok", "failed"}

(* Mutant: the ACL is not awaited at all.                                  *)
EvaluateEarly(b) ==
    /\ task[b] = "reads"
    /\ \/ policy[b] = "threw" /\ Leave(b, "threw", 0)
       \/ policy[b] \in Read /\ Leave(b, "finding", Severity(view[b]))
    /\ UNCHANGED <<audit, readVars, ownerVars>>

(* await policyTask, then await aclTask: when the first throws the second  *)
(* is not waited for.                                                      *)
EvaluateExposure(b) ==
    /\ task[b] = "reads"
    /\ \/ policy[b] = "threw" /\ Leave(b, "threw", 0)
       \/ policy[b] \in Read /\ acl[b] = "threw" /\ Leave(b, "threw", 0)
       \/ /\ policy[b] \in Read /\ acl[b] \in Read
          /\ Leave(b, "finding", Severity(view[b]))
    /\ UNCHANGED <<audit, readVars, ownerVars>>

(* Task.WhenAll: waits for every task, then rethrows if one failed.        *)
WhenAll ==
    /\ audit = "scanning"
    /\ \A b \in Buckets : task[b] = "ended"
    /\ audit' = IF \E b \in Buckets : result[b] = "threw"
                THEN "failed" ELSE "reported"
    /\ UNCHANGED <<gate, task, readVars, result, severity, ownerVars>>

(* The owner of b sets its block, policy and ACL anew.                     *)
Reconfigure(b) ==
    /\ audit = "scanning" /\ changes < MaxChanges
    /\ changes' = changes + 1
    /\ \E c \in Family[b] \ {config[b]} :
           /\ config' = [config EXCEPT ![b] = c]
           /\ lived' = [lived EXCEPT ![b] = IF task[b] \in Inside THEN @ \cup {c} ELSE @]
    /\ UNCHANGED <<audit, gate, task, readVars, result, severity>>

BucketStep(b) ==
    \/ EnterGate(b) \/ BlockError(b) \/ ReadBlock(b) \/ EvaluateExposure(b)
    \/ ReadPolicy(b) \/ ReadAcl(b)

Next ==
    \/ ListBuckets \/ WhenAll
    \/ \E b \in Buckets : BucketStep(b) \/ Reconfigure(b)

Spec == Init /\ [][Next]_vars

(* Every S3 call returns or times out, and the thread pool runs the        *)
(* continuations; SemaphoreSlim hands a permit to some waiter.             *)
FairSpec ==
    /\ Spec
    /\ WF_vars(ListBuckets) /\ WF_vars(WhenAll)
    /\ \A b \in Buckets : WF_vars(BucketStep(b))
-----------------------------------------------------------------------------
TypeOK ==
    /\ audit \in {"listing", "scanning", "reported", "failed"}
    /\ gate \in 0..MaxConcurrency
    /\ task \in [Buckets -> {"waiting", "ended"} \cup Inside]
    /\ view \in [Buckets -> Configurations]
    /\ policy \in [Buckets -> Reads]
    /\ acl \in [Buckets -> Reads]
    /\ result \in [Buckets -> Results]
    /\ severity \in [Buckets -> 0..4]
    /\ config \in [Buckets -> Configurations]
    /\ lived \in [Buckets -> SUBSET Configurations]
    /\ changes \in 0..MaxChanges

(* "Scan a bounded number at once": permits and scans inside the gate add  *)
(* up, whichever way a scan ended.                                         *)
GateConserved ==
    gate + Cardinality({b \in Buckets : task[b] \in Inside}) = MaxConcurrency

(* A report is made only when every bucket was looked at and no S3 call is *)
(* still under way.  "No policy or ACL can make the bucket public": a      *)
(* bucket it leaves out was, at some time in its scan, closed, or its      *)
(* block could not be read.                                                *)
ReportIsComplete ==
    audit = "reported" => \A b \in Buckets :
        /\ task[b] = "ended" /\ "inflight" \notin {policy[b], acl[b]}
        /\ severity[b] = 0 =>
               \/ result[b] = "skipped"
               \/ \E c \in lived[b] : ~ExposedByPolicy(c) /\ ~ExposedByAcl(c)

(* A bucket that anyone could reach all through its scan, by its policy or *)
(* by its ACL, is CRITICAL in the report, even if its owner changed it     *)
(* between two reads; unless the read failed, of which the finding warns.  *)
ExposedIsCritical ==
    audit = "reported" => \A b \in Buckets :
        result[b] # "skipped" /\ severity[b] # 4 =>
            /\ (\A c \in lived[b] : ExposedByPolicy(c)) => policy[b] = "failed"
            /\ (\A c \in lived[b] : ExposedByAcl(c)) => acl[b] = "failed"

(* Closing a bucket further never makes its rating worse.                  *)
HardeningNeverHurts ==
    [][\A b \in Buckets : Hardens(config'[b], config[b]) =>
           Severity(config'[b]) <= Severity(config[b])]_vars

(* The audit ends: no bucket waits for ever for a permit that an exception *)
(* took with it.                                                           *)
AuditEnds == audit = "scanning" ~> audit \in {"reported", "failed"}
=============================================================================
