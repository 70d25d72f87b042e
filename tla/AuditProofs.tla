----------------------------- MODULE AuditProofs -----------------------------
(***************************************************************************)
(* What holds of an audit as modules Scan and Audit describe it, for any   *)
(* number of buckets, any permits, whatever owners change meanwhile and    *)
(* whatever callers send.  The invariant of the scan follows one bucket:   *)
(* what its reads have brought belongs to configurations it had while it   *)
(* was scanned (ViewInv), and how its scan ended says what those reads can *)
(* have been (EndInv).  The rating itself is the subject of the lemmas     *)
(* about module Exposure.  The invariant of the door, AnswerInv, ties an   *)
(* answer to the request it answers; what validate_audit makes of that     *)
(* request is the subject of the lemmas about module Admission.            *)
(***************************************************************************)
EXTENDS Audit, FiniteSetTheorems, TLAPS

(* A bucket the auditor calls fully blocked is reachable by nobody.        *)
LEMMA BlockedIsClosed ==
    ASSUME NEW c, IsFullyBlocked(c)
    PROVE  ~ExposedByPolicy(c) /\ ~ExposedByAcl(c)
  BY DEF IsFullyBlocked, Settings, ExposedByPolicy, ExposedByAcl

(* ScanBucketAsync reports every bucket that is not fully blocked.         *)
LEMMA OpenIsRated ==
    ASSUME NEW c, ~IsFullyBlocked(c)
    PROVE  Severity(c) \in 1..4
  BY DEF Severity, CalculateSeverity

(* A policy or an ACL that exposes the bucket makes it CRITICAL.           *)
LEMMA ExposedIsRatedCritical ==
    ASSUME NEW c \in Configurations, ~IsFullyBlocked(c),
           ExposedByPolicy(c) \/ ExposedByAcl(c)
    PROVE  Severity(c) = 4
<1>1. CASE ExposedByPolicy(c)
  <2>1. IsPublicPolicy(c.policy)
    BY <1>1 DEF ExposedByPolicy, IsPublicPolicy
  <2>2. QED
    BY <1>1, <2>1 DEF ExposedByPolicy, Severity, IsPublic, Evaluate, PolicyFactors
<1>2. CASE ExposedByAcl(c)
  <2>1. PICK g \in c.acl : g.grantee \in {"AllUsers", "AuthenticatedUsers"}
    BY <1>2 DEF ExposedByAcl
  <2>2. g \in PublicGrants(c.acl)
    BY <2>1 DEF PublicGrants
  <2>3. g.permission \in Permissions
    BY <2>1 DEF Configurations, Grants
  <2>4. PublicAclRead(c.acl) \/ PublicAclWrite(c.acl)
    BY <2>2, <2>3 DEF PublicAclRead, PublicAclWrite, Permissions
  <2>5. AclFactors(c) # {}
    BY <1>2, <2>4 DEF ExposedByAcl, AclFactors
  <2>6. QED
    BY <2>5 DEF Severity, IsPublic, Evaluate
<1>3. QED
  BY <1>1, <1>2

(* There are four settings, so no more than four can be off.               *)
LEMMA DisabledCount ==
    ASSUME NEW S \in SUBSET Settings, NEW T \in SUBSET S
    PROVE  /\ Cardinality(Settings \ S) \in 0..4
           /\ Cardinality(Settings \ S) <= Cardinality(Settings \ T)
           /\ Cardinality(Settings \ T) \in 0..4
<1> DEFINE One == {"BlockPublicAcls"}
           Two == One \cup {"IgnorePublicAcls"}
           Three == Two \cup {"BlockPublicPolicy"}
<1>1. IsFiniteSet({}) /\ Cardinality({}) = 0
  BY FS_EmptySet
<1>2. IsFiniteSet(One) /\ Cardinality(One) = 1
  <2>1. One = {} \cup {"BlockPublicAcls"}
    OBVIOUS
  <2>2. QED
    BY <1>1, <2>1, FS_AddElement
<1>3. IsFiniteSet(Two) /\ Cardinality(Two) = 2
  <2>1. "IgnorePublicAcls" \notin One
    OBVIOUS
  <2>2. QED
    BY <1>2, <2>1, FS_AddElement
<1>4. IsFiniteSet(Three) /\ Cardinality(Three) = 3
  <2>1. "BlockPublicPolicy" \notin Two
    OBVIOUS
  <2>2. QED
    BY <1>3, <2>1, FS_AddElement
<1>5. IsFiniteSet(Settings) /\ Cardinality(Settings) = 4
  <2>1. "RestrictPublicBuckets" \notin Three
    OBVIOUS
  <2>2. Settings = Three \cup {"RestrictPublicBuckets"}
    BY DEF Settings
  <2>3. QED
    BY <1>4, <2>1, <2>2, FS_AddElement
<1>6. IsFiniteSet(Settings \ T) /\ Cardinality(Settings \ T) <= 4
  BY <1>5, FS_Subset
<1>7. IsFiniteSet(Settings \ S) /\ Cardinality(Settings \ S) <= Cardinality(Settings \ T)
  <2>1. Settings \ S \in SUBSET (Settings \ T)
    OBVIOUS
  <2>2. QED
    BY <1>6, <2>1, FS_Subset
<1>8. Cardinality(Settings \ S) \in Nat /\ Cardinality(Settings \ T) \in Nat
  BY <1>6, <1>7, FS_CardinalityType
<1>9. QED
  BY <1>6, <1>7, <1>8

(* More settings on, fewer statements that allow and fewer grants never    *)
(* make the rating of a bucket worse.                                      *)
LEMMA HarderIsNotWorse ==
    ASSUME NEW c \in Configurations, NEW d \in Configurations, Hardens(c, d)
    PROVE  Severity(c) <= Severity(d)
<1>1. c.block \in SUBSET Settings /\ d.block \in SUBSET c.block
  BY DEF Hardens, Configurations
<1>2. CASE IsFullyBlocked(d)
  <2>1. IsFullyBlocked(c)
    BY <1>1, <1>2 DEF IsFullyBlocked, Hardens
  <2>2. QED
    BY <1>2, <2>1 DEF Severity
<1>3. CASE ~IsFullyBlocked(d) /\ (~d.configured \/ IsPublic(d))
  <2>1. Severity(d) = 4
    BY <1>3 DEF Severity
  <2>2. Severity(c) \in 0..4
    BY OpenIsRated DEF Severity
  <2>3. QED
    BY <2>1, <2>2
<1>4. CASE ~IsFullyBlocked(d) /\ d.configured /\ ~IsPublic(d)
  <2>1. Severity(d) = CalculateSeverity(d)
    BY <1>4 DEF Severity
  <2>2. c.configured
    BY <1>4 DEF Hardens
  <2>3. PolicyFactors(c) = {}
    <3>1. PolicyFactors(d) = {}
      BY <1>4 DEF IsPublic, Evaluate
    <3>2. IsPublicPolicy(c.policy) => IsPublicPolicy(d.policy)
      BY DEF IsPublicPolicy, Hardens
    <3>3. QED
      BY <1>1, <3>1, <3>2 DEF PolicyFactors
  <2>4. AclFactors(c) = {}
    <3>1. AclFactors(d) = {}
      BY <1>4 DEF IsPublic, Evaluate
    <3>2. PublicAclRead(c.acl) => PublicAclRead(d.acl)
      BY DEF PublicAclRead, PublicGrants, Hardens
    <3>3. PublicAclWrite(c.acl) => PublicAclWrite(d.acl)
      BY DEF PublicAclWrite, PublicGrants, Hardens
    <3>4. CASE "IgnorePublicAcls" \in d.block
      BY <1>1, <3>4 DEF AclFactors
    <3>5. CASE "IgnorePublicAcls" \notin d.block
      <4>1. ~PublicAclRead(d.acl) /\ ~PublicAclWrite(d.acl)
        BY <3>1, <3>5 DEF AclFactors
      <4>2. QED
        BY <3>2, <3>3, <4>1 DEF AclFactors
    <3>6. QED
      BY <3>4, <3>5
  <2>5. ~IsPublic(c)
    BY <2>3, <2>4 DEF IsPublic, Evaluate
  <2>6. CalculateSeverity(c) <= CalculateSeverity(d) /\ CalculateSeverity(d) \in 1..4
    BY <1>1, DisabledCount DEF CalculateSeverity
  <2>7. Severity(c) \in {0, CalculateSeverity(c)}
    BY <2>2, <2>5 DEF Severity
  <2>8. QED
    BY <2>1, <2>6, <2>7
<1>5. QED
  BY <1>2, <1>3, <1>4
-----------------------------------------------------------------------------
InsideGate == {b \in Buckets : task[b] \in Inside}

(* What the reads of b have brought was true of b at some time in its scan.*)
ViewInv ==
    \A b \in Buckets :
        /\ task[b] \in Inside => config[b] \in lived[b]
        /\ task[b] = "reads" \/ result[b] = "finding" =>
               /\ ~IsFullyBlocked(view[b])
               /\ \E c \in lived[b] :
                      view[b].configured = c.configured /\ view[b].block = c.block
               /\ policy[b] = "ok" => \E c \in lived[b] : view[b].policy = c.policy
               /\ acl[b] = "ok" => \E c \in lived[b] : view[b].acl = c.acl

(* How far b has got, and how its scan ended.                              *)
EndInv ==
    \A b \in Buckets :
        /\ result[b] = "none" <=> task[b] # "ended"
        /\ task[b] \in {"waiting", "block"} => policy[b] = "none" /\ acl[b] = "none"
        /\ task[b] = "reads" => policy[b] # "none" /\ acl[b] # "none"
        /\ result[b] \in {"clean", "skipped"} => policy[b] = "none" /\ acl[b] = "none"
        /\ result[b] = "clean" => \E c \in lived[b] : IsFullyBlocked(c)
        /\ result[b] = "finding" =>
               /\ policy[b] \in Read /\ acl[b] \in Read
               /\ severity[b] = Severity(view[b])

ReportInv ==
    audit = "reported" => \A b \in Buckets : task[b] = "ended" /\ result[b] # "threw"

IInv == TypeOK /\ GateConserved /\ ViewInv /\ EndInv /\ ReportInv

(* A view made of parts of two configurations is a configuration.          *)
LEMMA ViewTypes ==
    ASSUME NEW v \in Configurations, NEW c \in Configurations
    PROVE  /\ [v EXCEPT !.configured = c.configured, !.block = c.block]
                  \in Configurations
           /\ [v EXCEPT !.policy = c.policy] \in Configurations
           /\ [v EXCEPT !.acl = c.acl] \in Configurations
  BY DEF Configurations

(* The invariant holds at the start.                                       *)
LEMMA InitIInv == Init => IInv
<1> SUFFICES ASSUME Init PROVE IInv
  OBVIOUS
<1>1. Unread \in Configurations
  BY DEF Unread, Configurations
<1>2. config \in [Buckets -> Configurations]
  BY ScanAssumption DEF Init
<1>3. 0 \in 0..4 /\ 0 \in 0..MaxChanges /\ MaxConcurrency \in 0..MaxConcurrency
  BY ScanAssumption
<1>4. TypeOK
  BY <1>1, <1>2, <1>3 DEF Init, TypeOK, Reads, Results
<1>5. GateConserved
  <2>1. {b \in Buckets : task[b] \in Inside} = {}
    BY DEF Init, Inside
  <2>2. Cardinality({b \in Buckets : task[b] \in Inside}) = 0
    BY <2>1, FS_EmptySet
  <2>3. QED
    BY <2>2, ScanAssumption DEF Init, GateConserved
<1>6. ViewInv /\ EndInv /\ ReportInv
  BY DEF Init, ViewInv, EndInv, ReportInv, Inside
<1>7. QED
  BY <1>4, <1>5, <1>6 DEF IInv

(* The permits that are out are the scans inside the gate.                 *)
LEMMA GateCount ==
    ASSUME TypeOK, GateConserved
    PROVE  /\ IsFiniteSet(InsideGate)
           /\ Cardinality(InsideGate) \in Nat
           /\ gate + Cardinality(InsideGate) = MaxConcurrency
  BY ScanAssumption, FS_Subset, FS_CardinalityType DEF GateConserved, InsideGate

(* Leaving gives back one permit.                                          *)
LEMMA LeaveStep ==
    ASSUME TypeOK, GateConserved, NEW b \in Buckets, task[b] \in Inside,
           NEW outcome, NEW rating, Leave(b, outcome, rating)
    PROVE  GateConserved' /\ gate' \in 0..MaxConcurrency
<1>1. InsideGate' = InsideGate \ {b}
  BY DEF Leave, InsideGate, TypeOK, Inside
<1>2. b \in InsideGate
  BY DEF InsideGate
<1>3. Cardinality(InsideGate') = Cardinality(InsideGate) - 1
  BY <1>1, <1>2, GateCount, FS_RemoveElement
<1>4. Cardinality(InsideGate') \in Nat
  BY <1>1, GateCount, FS_RemoveElement, FS_CardinalityType
<1>5. gate' = gate + 1 /\ gate \in Nat
  BY DEF Leave, TypeOK
<1>6. gate' + Cardinality(InsideGate') = MaxConcurrency
  BY <1>3, <1>4, <1>5, GateCount
<1>7. QED
  BY <1>4, <1>5, <1>6, ScanAssumption DEF GateConserved, InsideGate

(* Every way through the gate keeps the count.                             *)
LEMMA GateStep ==
    ASSUME IInv, [Next]_vars
    PROVE  GateConserved' /\ gate' \in 0..MaxConcurrency
<1> USE DEF IInv
<1>1. ASSUME NEW b \in Buckets, EnterGate(b)
      PROVE  GateConserved' /\ gate' \in 0..MaxConcurrency
  <2>1. InsideGate' = InsideGate \cup {b} /\ b \notin InsideGate
    BY <1>1 DEF EnterGate, InsideGate, TypeOK, Inside
  <2>2. Cardinality(InsideGate') = Cardinality(InsideGate) + 1
    BY <2>1, GateCount, FS_AddElement
  <2>3. gate' = gate - 1 /\ gate > 0 /\ gate \in 0..MaxConcurrency
    BY <1>1 DEF EnterGate, TypeOK
  <2>4. QED
    BY <2>2, <2>3, GateCount, ScanAssumption DEF GateConserved, InsideGate
<1>2. ASSUME NEW b \in Buckets, ReadBlock(b)
      PROVE  GateConserved' /\ gate' \in 0..MaxConcurrency
  <2>1. CASE Leave(b, "clean", 0)
    BY <1>2, <2>1, LeaveStep DEF ReadBlock, Inside
  <2>2. CASE task' = [task EXCEPT ![b] = "reads"] /\ UNCHANGED gate
    <3>1. InsideGate' = InsideGate
      BY <1>2, <2>2 DEF ReadBlock, InsideGate, TypeOK, Inside
    <3>2. QED
      BY <2>2, <3>1 DEF GateConserved, InsideGate, TypeOK
  <2>3. QED
    BY <1>2, <2>1, <2>2 DEF ReadBlock
<1>3. ASSUME NEW b \in Buckets, BlockError(b) \/ EvaluateExposure(b)
      PROVE  GateConserved' /\ gate' \in 0..MaxConcurrency
  BY <1>3, LeaveStep DEF BlockError, EvaluateExposure, Inside
<1>4. CASE UNCHANGED <<gate, task>>
  BY <1>4 DEF GateConserved, TypeOK
<1>5. QED
  BY <1>1, <1>2, <1>3, <1>4
  DEF Next, BucketStep, ListBuckets, WhenAll, Reconfigure, ReadPolicy, ReadAcl,
      readVars, ownerVars, vars

(* Every step keeps the types.                                             *)
LEMMA TypeStep ==
    ASSUME IInv, [Next]_vars
    PROVE  TypeOK'
<1> USE ScanAssumption DEF IInv, ownerVars, readVars
<1>1. gate' \in 0..MaxConcurrency
  BY GateStep
<1>2. ASSUME NEW b \in Buckets, NEW outcome \in Results, NEW rating \in 0..4,
             Leave(b, outcome, rating), UNCHANGED <<audit, readVars, ownerVars>>
      PROVE  TypeOK'
  BY <1>1, <1>2 DEF Leave, TypeOK
<1>3. ASSUME NEW b \in Buckets, EnterGate(b) PROVE TypeOK'
  BY <1>1, <1>3 DEF EnterGate, TypeOK, Inside
<1>4. ASSUME NEW b \in Buckets, BlockError(b) PROVE TypeOK'
  BY <1>2, <1>4 DEF BlockError, Results
<1>5. ASSUME NEW b \in Buckets, ReadBlock(b) PROVE TypeOK'
  <2>1. CASE Leave(b, "clean", 0) /\ UNCHANGED readVars
    BY <1>2, <1>5, <2>1 DEF ReadBlock, Results
  <2>2. CASE ~Leave(b, "clean", 0) \/ ~UNCHANGED readVars
    <3>1. view' = [view EXCEPT ![b].configured = config[b].configured,
                               ![b].block = config[b].block]
      BY <1>5, <2>2 DEF ReadBlock
    <3>2. view' \in [Buckets -> Configurations]
      BY <3>1, ViewTypes DEF TypeOK
    <3>3. QED
      BY <1>1, <1>5, <2>2, <3>2 DEF ReadBlock, TypeOK, Inside, Reads
  <2>3. QED
    BY <2>1, <2>2
<1>6. ASSUME NEW b \in Buckets, ReadPolicy(b) PROVE TypeOK'
  <2>1. view' \in [Buckets -> Configurations]
    <3>1. \/ view' = view
          \/ view' = [view EXCEPT ![b] = [view[b] EXCEPT !.policy = config[b].policy]]
      BY <1>6 DEF ReadPolicy
    <3>2. [view[b] EXCEPT !.policy = config[b].policy] \in Configurations
      BY ViewTypes DEF TypeOK
    <3>3. QED
      BY <3>1, <3>2 DEF TypeOK
  <2>2. QED
    BY <1>6, <2>1 DEF ReadPolicy, TypeOK, Reads
<1>7. ASSUME NEW b \in Buckets, ReadAcl(b) PROVE TypeOK'
  <2>1. view' \in [Buckets -> Configurations]
    <3>1. \/ view' = view
          \/ view' = [view EXCEPT ![b] = [view[b] EXCEPT !.acl = config[b].acl]]
      BY <1>7 DEF ReadAcl
    <3>2. [view[b] EXCEPT !.acl = config[b].acl] \in Configurations
      BY ViewTypes DEF TypeOK
    <3>3. QED
      BY <3>1, <3>2 DEF TypeOK
  <2>2. QED
    BY <1>7, <2>1 DEF ReadAcl, TypeOK, Reads
<1>8. ASSUME NEW b \in Buckets, EvaluateExposure(b) PROVE TypeOK'
  <2>1. Severity(view[b]) \in 0..4
    BY OpenIsRated DEF Severity
  <2>2. QED
    BY <1>2, <1>8, <2>1 DEF EvaluateExposure, Results
<1>9. ASSUME NEW b \in Buckets, Reconfigure(b) PROVE TypeOK'
  <2>1. \A c \in Family[b] : c \in Configurations
    OBVIOUS
  <2>2. QED
    BY <1>9, <2>1 DEF Reconfigure, TypeOK
<1>10. CASE ListBuckets \/ WhenAll
  BY <1>10 DEF ListBuckets, WhenAll, TypeOK
<1>11. CASE UNCHANGED vars
  BY <1>11 DEF vars, TypeOK
<1>12. QED
  BY <1>3, <1>4, <1>5, <1>6, <1>7, <1>8, <1>9, <1>10, <1>11 DEF Next, BucketStep

(* A read brings what the bucket is configured to while it is scanned.     *)
LEMMA ViewStep ==
    ASSUME IInv, [Next]_vars
    PROVE  ViewInv'
<1> USE DEF IInv, TypeOK, ViewInv, EndInv, ownerVars, readVars, Inside
<1>1. ASSUME NEW b \in Buckets, EnterGate(b) PROVE ViewInv'
  BY <1>1 DEF EnterGate
<1>2. ASSUME NEW b \in Buckets, BlockError(b) PROVE ViewInv'
  BY <1>2 DEF BlockError, Leave
<1>3. ASSUME NEW b \in Buckets, ReadBlock(b) PROVE ViewInv'
  <2>1. CASE Leave(b, "clean", 0) /\ UNCHANGED readVars
    BY <1>3, <2>1 DEF ReadBlock, Leave
  <2>2. CASE ~Leave(b, "clean", 0) \/ ~UNCHANGED readVars
    <3>1. /\ view'[b].configured = config[b].configured
          /\ view'[b].block = config[b].block
      BY <1>3, <2>2 DEF ReadBlock, Configurations
    <3>2. ~IsFullyBlocked(view'[b])
      BY <1>3, <2>2, <3>1 DEF ReadBlock, IsFullyBlocked
    <3>3. policy'[b] = "inflight" /\ acl'[b] = "inflight"
      BY <1>3, <2>2 DEF ReadBlock
    <3>4. \A a \in Buckets \ {b} : view'[a] = view[a]
      BY <1>3, <2>2 DEF ReadBlock
    <3>5. QED
      BY <1>3, <2>2, <3>1, <3>2, <3>3, <3>4 DEF ReadBlock
  <2>3. QED
    BY <2>1, <2>2
<1>4. ASSUME NEW b \in Buckets, ReadPolicy(b) PROVE ViewInv'
  <2>1. task[b] = "reads" \/ result[b] \notin {"none", "finding"}
    BY <1>4 DEF ReadPolicy, Read
  <2>2. /\ view'[b].configured = view[b].configured
        /\ view'[b].block = view[b].block
        /\ view'[b].acl = view[b].acl
        /\ policy'[b] = "ok" => view'[b].policy = config[b].policy
    BY <1>4 DEF ReadPolicy, Configurations
  <2>3. \A a \in Buckets \ {b} : view'[a] = view[a] /\ policy'[a] = policy[a]
    BY <1>4 DEF ReadPolicy
  <2>4. IsFullyBlocked(view'[b]) = IsFullyBlocked(view[b])
    BY <2>2 DEF IsFullyBlocked
  <2>5. QED
    BY <1>4, <2>1, <2>2, <2>3, <2>4 DEF ReadPolicy
<1>5. ASSUME NEW b \in Buckets, ReadAcl(b) PROVE ViewInv'
  <2>1. task[b] = "reads" \/ result[b] \notin {"none", "finding"}
    BY <1>5 DEF ReadAcl, Read
  <2>2. /\ view'[b].configured = view[b].configured
        /\ view'[b].block = view[b].block
        /\ view'[b].policy = view[b].policy
        /\ acl'[b] = "ok" => view'[b].acl = config[b].acl
    BY <1>5 DEF ReadAcl, Configurations
  <2>3. \A a \in Buckets \ {b} : view'[a] = view[a] /\ acl'[a] = acl[a]
    BY <1>5 DEF ReadAcl
  <2>4. IsFullyBlocked(view'[b]) = IsFullyBlocked(view[b])
    BY <2>2 DEF IsFullyBlocked
  <2>5. QED
    BY <1>5, <2>1, <2>2, <2>3, <2>4 DEF ReadAcl
<1>6. ASSUME NEW b \in Buckets, EvaluateExposure(b) PROVE ViewInv'
  BY <1>6 DEF EvaluateExposure, Leave
<1>7. ASSUME NEW b \in Buckets, Reconfigure(b) PROVE ViewInv'
  <2>1. \A a \in Buckets : lived[a] \subseteq lived'[a]
    BY <1>7 DEF Reconfigure
  <2>2. \A a \in Buckets : task[a] \in Inside => config'[a] \in lived'[a]
    BY <1>7 DEF Reconfigure
  <2>3. QED
    BY <1>7, <2>1, <2>2 DEF Reconfigure
<1>8. CASE ListBuckets \/ WhenAll \/ UNCHANGED vars
  BY <1>8 DEF ListBuckets, WhenAll, vars
<1>9. QED
  BY <1>1, <1>2, <1>3, <1>4, <1>5, <1>6, <1>7, <1>8 DEF Next, BucketStep

(* A scan ends once, and what it ended with stays true.                    *)
LEMMA EndStep ==
    ASSUME IInv, [Next]_vars
    PROVE  EndInv'
<1> USE DEF IInv, TypeOK, EndInv, ownerVars, readVars, Inside
<1>1. ASSUME NEW b \in Buckets, EnterGate(b) PROVE EndInv'
  BY <1>1 DEF EnterGate
<1>2. ASSUME NEW b \in Buckets, BlockError(b) PROVE EndInv'
  BY <1>2 DEF BlockError, Leave
<1>3. ASSUME NEW b \in Buckets, ReadBlock(b) PROVE EndInv'
  <2>1. CASE Leave(b, "clean", 0) /\ UNCHANGED readVars
    <3>1. IsFullyBlocked(config[b]) /\ config[b] \in lived[b]
      BY <1>3, <2>1 DEF ReadBlock, Leave, ViewInv
    <3>2. QED
      BY <1>3, <2>1, <3>1 DEF ReadBlock, Leave
  <2>2. CASE ~Leave(b, "clean", 0) \/ ~UNCHANGED readVars
    <3>1. \A a \in Buckets \ {b} : view'[a] = view[a]
      BY <1>3, <2>2 DEF ReadBlock
    <3>2. QED
      BY <1>3, <2>2, <3>1 DEF ReadBlock
  <2>3. QED
    BY <2>1, <2>2
<1>4. ASSUME NEW b \in Buckets, ReadPolicy(b) PROVE EndInv'
  <2>1. \A a \in Buckets \ {b} : view'[a] = view[a]
    BY <1>4 DEF ReadPolicy
  <2>2. QED
    BY <1>4, <2>1 DEF ReadPolicy, Read
<1>5. ASSUME NEW b \in Buckets, ReadAcl(b) PROVE EndInv'
  <2>1. \A a \in Buckets \ {b} : view'[a] = view[a]
    BY <1>5 DEF ReadAcl
  <2>2. QED
    BY <1>5, <2>1 DEF ReadAcl, Read
<1>6. ASSUME NEW b \in Buckets, EvaluateExposure(b) PROVE EndInv'
  BY <1>6 DEF EvaluateExposure, Leave
<1>7. ASSUME NEW b \in Buckets, Reconfigure(b) PROVE EndInv'
  <2>1. \A a \in Buckets : lived[a] \subseteq lived'[a]
    BY <1>7 DEF Reconfigure
  <2>2. QED
    BY <1>7, <2>1 DEF Reconfigure
<1>8. CASE ListBuckets \/ WhenAll \/ UNCHANGED vars
  BY <1>8 DEF ListBuckets, WhenAll, vars
<1>9. QED
  BY <1>1, <1>2, <1>3, <1>4, <1>5, <1>6, <1>7, <1>8 DEF Next, BucketStep

(* The report is made when every scan has ended, and none ends after it.   *)
LEMMA ReportStep ==
    ASSUME IInv, [Next]_vars
    PROVE  ReportInv'
<1> USE DEF IInv, TypeOK, ReportInv, EndInv, ownerVars, readVars
<1>1. ASSUME NEW b \in Buckets, EnterGate(b) \/ Reconfigure(b) PROVE ReportInv'
  BY <1>1 DEF EnterGate, Reconfigure
<1>2. ASSUME NEW b \in Buckets, task[b] # "ended", UNCHANGED audit
      PROVE  ReportInv'
  BY <1>2
<1>3. ASSUME NEW b \in Buckets, BlockError(b) \/ ReadBlock(b) \/ EvaluateExposure(b)
      PROVE  ReportInv'
  BY <1>2, <1>3 DEF BlockError, ReadBlock, EvaluateExposure
<1>4. ASSUME NEW b \in Buckets, ReadPolicy(b) \/ ReadAcl(b) PROVE ReportInv'
  BY <1>4 DEF ReadPolicy, ReadAcl
<1>5. CASE ListBuckets \/ WhenAll
  BY <1>5 DEF ListBuckets, WhenAll
<1>6. CASE UNCHANGED vars
  BY <1>6 DEF vars
<1>7. QED
  BY <1>1, <1>3, <1>4, <1>5, <1>6 DEF Next, BucketStep

(* The strengthening is inductive, so it holds in every reachable state.   *)
THEOREM Invariance == Spec => []IInv
<1>1. IInv /\ [Next]_vars => IInv'
  BY TypeStep, GateStep, ViewStep, EndStep, ReportStep DEF IInv
<1>2. QED
  BY InitIInv, <1>1, PTL DEF Spec

(* The variables keep their types: no permit is lost or made up, no rating *)
(* is off the scale.                                                       *)
THEOREM TypeCorrect == Spec => []TypeOK
<1>1. IInv => TypeOK
  BY DEF IInv
<1>2. QED
  BY Invariance, <1>1, PTL

(* The finally block of ScanBucketAsync: permits and scans inside the gate *)
(* add up to MaxConcurrency, whichever way scans end.                      *)
THEOREM ConservedGate == Spec => []GateConserved
<1>1. IInv => GateConserved
  BY DEF IInv
<1>2. QED
  BY Invariance, <1>1, PTL

(* What b can do next: enter the gate when a permit is left, get an answer *)
(* from S3, or rate what its reads have brought.                           *)
CanMove(b) ==
    \/ task[b] = "waiting" /\ gate > 0
    \/ task[b] = "block" \/ policy[b] = "inflight" \/ acl[b] = "inflight"
    \/ /\ task[b] = "reads"
       /\ policy[b] = "threw" \/ (policy[b] \in Read /\ acl[b] \in Read \cup {"threw"})

SomeoneMoves == (\E b \in Buckets : task[b] # "ended") => \E b \in Buckets : CanMove(b)

(* SemaphoreSlim and the finally block: the scan never stands still.  A    *)
(* bucket that finds no permit waits for one that is inside the gate, and  *)
(* that one always has an answer to come or a rating to make.  This is the *)
(* safety half of AuditEnds.                                               *)
THEOREM NoStandstill == Spec => []SomeoneMoves
<1>1. IInv => SomeoneMoves
  <2> SUFFICES ASSUME IInv, NEW b \in Buckets, task[b] # "ended"
               PROVE  \E c \in Buckets : CanMove(c)
    BY DEF SomeoneMoves
  <2>1. ASSUME NEW c \in Buckets, task[c] \in Inside PROVE CanMove(c)
    <3>1. task[c] = "reads" => {policy[c], acl[c]} \subseteq Reads \ {"none"}
      BY DEF IInv, EndInv, TypeOK
    <3>2. QED
      BY <2>1, <3>1 DEF CanMove, Inside, Read, Reads
  <2>2. CASE InsideGate = {}
    <3>1. gate = MaxConcurrency
      BY <2>2, GateCount, FS_EmptySet DEF IInv, TypeOK
    <3>2. task[b] = "waiting"
      BY <2>2 DEF InsideGate, IInv, TypeOK
    <3>3. QED
      BY <3>1, <3>2, ScanAssumption DEF CanMove
  <2>3. QED
    BY <2>1, <2>2 DEF InsideGate
<1>2. QED
  BY Invariance, <1>1, PTL

(* Steps the scan of b can still take.                                     *)
StepsLeft(b) ==
    (CASE task[b] = "waiting" -> 5 [] task[b] = "block" -> 4
       [] task[b] = "reads" -> 1 [] task[b] = "ended" -> 0)
    + (IF policy[b] = "inflight" THEN 1 ELSE 0)
    + (IF acl[b] = "inflight" THEN 1 ELSE 0)

ScanStepsRunOut ==
    [][\A b \in Buckets : /\ StepsLeft(b) \in 0..5
                          /\ StepsLeft(b)' <= StepsLeft(b)
                          /\ BucketStep(b) => StepsLeft(b)' < StepsLeft(b)]_vars

(* ScanBucketAsync takes at most five steps for a bucket, however its      *)
(* reads end, and nothing an owner does or another bucket's scan makes it  *)
(* start again.                                                            *)
THEOREM ScansRunOut == Spec => ScanStepsRunOut
<1> DEFINE Same(a) == task'[a] = task[a] /\ policy'[a] = policy[a] /\ acl'[a] = acl[a]
<1>1. IInv /\ [Next]_vars =>
          \A b \in Buckets : /\ StepsLeft(b) \in 0..5
                             /\ StepsLeft(b)' <= StepsLeft(b)
                             /\ BucketStep(b) => StepsLeft(b)' < StepsLeft(b)
  <2> SUFFICES ASSUME IInv, [Next]_vars, NEW b \in Buckets
               PROVE  /\ StepsLeft(b) \in 0..5
                      /\ StepsLeft(b)' <= StepsLeft(b)
                      /\ BucketStep(b) => StepsLeft(b)' < StepsLeft(b)
    OBVIOUS
  <2>1. /\ StepsLeft(b) \in 0..5
        /\ task[b] \in {"waiting", "block", "reads", "ended"}
        /\ task[b] \in {"waiting", "block"} => policy[b] = "none" /\ acl[b] = "none"
    BY DEF IInv, TypeOK, EndInv, StepsLeft, Inside
  <2>2. Same(b) => StepsLeft(b)' = StepsLeft(b)
    BY DEF StepsLeft
  <2>3. BucketStep(b) => StepsLeft(b)' < StepsLeft(b)
    <3>1. CASE EnterGate(b)
      BY <2>1, <3>1 DEF EnterGate, readVars, StepsLeft, IInv, TypeOK
    <3>2. CASE BlockError(b)
      BY <2>1, <3>2 DEF BlockError, Leave, readVars, StepsLeft, IInv, TypeOK
    <3>3. CASE ReadBlock(b)
      BY <2>1, <3>3 DEF ReadBlock, Leave, readVars, StepsLeft, IInv, TypeOK
    <3>4. CASE EvaluateExposure(b)
      BY <2>1, <3>4 DEF EvaluateExposure, Leave, readVars, StepsLeft, IInv, TypeOK
    <3>5. CASE ReadPolicy(b)
      BY <2>1, <3>5 DEF ReadPolicy, StepsLeft, IInv, TypeOK
    <3>6. CASE ReadAcl(b)
      BY <2>1, <3>6 DEF ReadAcl, StepsLeft, IInv, TypeOK
    <3>7. QED
      BY <3>1, <3>2, <3>3, <3>4, <3>5, <3>6 DEF BucketStep
  <2>4. BucketStep(b) \/ Same(b)
    <3>1. ASSUME NEW a \in Buckets \ {b}, BucketStep(a) PROVE Same(b)
      BY <3>1 DEF BucketStep, EnterGate, BlockError, ReadBlock, EvaluateExposure,
                  ReadPolicy, ReadAcl, Leave, readVars, IInv, TypeOK
    <3>2. CASE ListBuckets \/ WhenAll \/ UNCHANGED vars
      BY <3>2 DEF ListBuckets, WhenAll, vars, readVars
    <3>3. ASSUME NEW a \in Buckets, Reconfigure(a) PROVE Same(b)
      BY <3>3 DEF Reconfigure, readVars
    <3>4. QED
      BY <3>1, <3>2, <3>3 DEF Next
  <2>5. StepsLeft(b)' \in Nat
    BY TypeStep DEF StepsLeft, TypeOK, Inside
  <2>6. QED
    BY <2>1, <2>2, <2>3, <2>4, <2>5
<1>2. QED
  BY Invariance, <1>1, PTL DEF Spec, ScanStepsRunOut

(* Task.WhenAll: a report has looked at every bucket, has no S3 call under *)
(* way, and a bucket it leaves out was closed at some time in its scan.    *)
THEOREM CompleteReport == Spec => []ReportIsComplete
<1>1. IInv => ReportIsComplete
  <2> SUFFICES ASSUME IInv, audit = "reported", NEW b \in Buckets
               PROVE  /\ task[b] = "ended" /\ "inflight" \notin {policy[b], acl[b]}
                      /\ severity[b] = 0 =>
                             \/ result[b] = "skipped"
                             \/ \E c \in lived[b] : ~ExposedByPolicy(c) /\ ~ExposedByAcl(c)
    BY DEF ReportIsComplete
  <2>1. task[b] = "ended" /\ result[b] \in {"clean", "skipped", "finding"}
    BY DEF IInv, ReportInv, EndInv, TypeOK, Results
  <2>2. "inflight" \notin {policy[b], acl[b]}
    BY <2>1 DEF IInv, EndInv, Read
  <2>3. CASE result[b] = "clean"
    BY <2>1, <2>2, <2>3, BlockedIsClosed DEF IInv, EndInv
  <2>4. CASE result[b] = "finding"
    BY <2>1, <2>2, <2>4, OpenIsRated DEF IInv, EndInv, ViewInv
  <2>5. QED
    BY <2>1, <2>2, <2>3, <2>4
<1>2. QED
  BY Invariance, <1>1, PTL

(* Reads of different times: a bucket anyone could reach all through its   *)
(* scan is CRITICAL in the report, or a read failed and the finding says   *)
(* so.                                                                     *)
THEOREM CriticalIfExposed == Spec => []ExposedIsCritical
<1>1. IInv => ExposedIsCritical
  <2> SUFFICES ASSUME IInv, audit = "reported", NEW b \in Buckets,
                      result[b] # "skipped", severity[b] # 4
               PROVE  /\ (\A c \in lived[b] : ExposedByPolicy(c)) => policy[b] = "failed"
                      /\ (\A c \in lived[b] : ExposedByAcl(c)) => acl[b] = "failed"
    BY DEF ExposedIsCritical
  <2>1. result[b] \in {"clean", "finding"}
    BY DEF IInv, ReportInv, EndInv, TypeOK, Results
  <2>2. CASE result[b] = "clean"
    BY <2>2, BlockedIsClosed DEF IInv, EndInv
  <2>3. CASE result[b] = "finding"
    <3>1. /\ ~IsFullyBlocked(view[b]) /\ view[b] \in Configurations
          /\ Severity(view[b]) # 4
      BY <2>3 DEF IInv, EndInv, ViewInv, TypeOK
    <3>2. ~ExposedByPolicy(view[b]) /\ ~ExposedByAcl(view[b])
      BY <3>1, ExposedIsRatedCritical
    <3>3. policy[b] \in {"ok", "failed"} /\ acl[b] \in {"ok", "failed"}
      BY <2>3 DEF IInv, EndInv, Read
    <3>4. PICK open \in lived[b] : view[b].block = open.block
      BY <2>3 DEF IInv, ViewInv
    <3>5. ASSUME policy[b] = "ok", \A c \in lived[b] : ExposedByPolicy(c)
          PROVE  FALSE
      <4>1. PICK c \in lived[b] : view[b].policy = c.policy
        BY <2>3, <3>5 DEF IInv, ViewInv
      <4>2. ExposedByPolicy(open) /\ ExposedByPolicy(c)
        BY <3>5
      <4>3. QED
        BY <3>2, <3>4, <4>1, <4>2 DEF ExposedByPolicy
    <3>6. ASSUME acl[b] = "ok", \A c \in lived[b] : ExposedByAcl(c)
          PROVE  FALSE
      <4>1. PICK c \in lived[b] : view[b].acl = c.acl
        BY <2>3, <3>6 DEF IInv, ViewInv
      <4>2. ExposedByAcl(open) /\ ExposedByAcl(c)
        BY <3>6
      <4>3. QED
        BY <3>2, <3>4, <4>1, <4>2 DEF ExposedByAcl
    <3>7. QED
      BY <3>3, <3>5, <3>6
  <2>4. QED
    BY <2>1, <2>2, <2>3
<1>2. QED
  BY Invariance, <1>1, PTL

(* Exposure.cs and its severity: whatever the owners of buckets change, a  *)
(* bucket closed further is not rated worse than it was.                   *)
THEOREM HardeningHelps == Spec => HardeningNeverHurts
<1> DEFINE Helps == \A b \in Buckets : Hardens(config'[b], config[b]) =>
                        Severity(config'[b]) <= Severity(config[b])
<1>1. TypeOK /\ TypeOK' => Helps
  BY HarderIsNotWorse DEF TypeOK
<1>2. IInv /\ IInv' /\ [Next]_vars => [Helps]_vars
  BY <1>1 DEF IInv
<1>3. QED
  BY Invariance, <1>2, PTL DEF Spec, HardeningNeverHurts
-----------------------------------------------------------------------------
USE ScanAssumption, AdmissionAssumption

(* SetToSeq lists a finite set.                                            *)
LEMMA OrderedSet ==
    ASSUME NEW S, IsFiniteSet(S)
    PROVE  /\ Cardinality(S) \in Nat
           /\ SetToSeq(S) \in [1..Cardinality(S) -> S]
<1>1. PICK f \in Bijection(1..Cardinality(S), S) : TRUE
  BY FS_CardinalityType DEF ExistsBijection
<1>2. f \in [1..Cardinality(S) -> S] /\ IsInjective(f)
  BY <1>1 DEF Bijection, Injection, Surjection
<1>3. QED
  BY <1>2, FS_CardinalityType DEF SetToSeq

(* The findings of a payload are a sequence, empty unless it has a list.   *)
LEMMA FindingsAreASequence ==
    ASSUME NEW p, IsPayload(p), p # NotObject
    PROVE  /\ Len(Findings(p)) \in Nat /\ Len(Judged(p)) \in Nat
           /\ Len(Judged(p)) <= MaxFindings
           /\ \E S : Judged(p) \in Seq(S)
           /\ \E S : Findings(p) \in Seq(S)
<1>1. CASE p.buckets \in {<<"null">>, <<"other">>}
  <2>1. p.buckets[1] # "list"
    BY <1>1
  <2>2. Findings(p) = <<>> /\ Judged(p) = <<>>
    BY <2>1 DEF Findings, Judged
  <2>3. <<>> \in Seq({}) /\ Len(<<>>) = 0
    OBVIOUS
  <2>4. QED
    BY <2>2, <2>3
<1>2. CASE /\ p.buckets = <<"list", p.buckets[2]>>
           /\ p.buckets[2] \in Seq(Elements(p.buckets[2]))
  <2>1. Findings(p) = p.buckets[2]
    BY <1>2 DEF Findings
  <2>2. Judged(p) \in Seq(Elements(p.buckets[2]))
    <3>1. Judged(p) = <<>> \/ Judged(p) = p.buckets[2]
      BY <2>1 DEF Judged
    <3>2. \A S : <<>> \in Seq(S)
      OBVIOUS
    <3>3. QED
      BY <1>2, <3>1, <3>2
  <2>3. Len(Findings(p)) \in Nat /\ Len(Judged(p)) \in Nat
    BY <1>2, <2>1, <2>2
  <2>4. Len(Judged(p)) <= MaxFindings
    BY <2>1, <2>3 DEF Judged, TooMany
  <2>5. QED
    BY <1>2, <2>1, <2>2, <2>3, <2>4
<1>3. QED
  BY <1>1, <1>2 DEF IsPayload

(* The errors of validate_audit are those of the findings it looks at and  *)
(* those of the payload itself.                                            *)
LEMMA ProblemsAre ==
    ASSUME NEW p, p # NotObject
    PROVE  /\ \A z \in Problems(p) :
                  /\ z = <<z[1], z[2]>>
                  /\ \/ z[1] = 0 /\ z[2] \in PayloadProblems(p)
                     \/ /\ z[1] \in 1..Len(Judged(p))
                        /\ z[2] \in BucketProblems(Judged(p)[z[1]])
           /\ \A c \in PayloadProblems(p) : <<0, c>> \in Problems(p)
           /\ \A i \in 1..Len(Judged(p)) : \A c \in BucketProblems(Judged(p)[i]) :
                  <<i, c>> \in Problems(p)
  BY DEF Problems

(* validate_audit appends an error for each field that is wrong: without   *)
(* errors, none is.                                                        *)
LEMMA NoProblems ==
    ASSUME NEW p, IsPayload(p), Problems(p) = {}
    PROVE  /\ p # NotObject
           /\ \A i \in 1..Len(Judged(p)) : BucketProblems(Judged(p)[i]) = {}
           /\ IsList(p) /\ ~TooMany(p) /\ p.flag # "other" /\ ~Mismatch(p)
           /\ ~OutOfRange(p) /\ ~TooSmall(p) /\ p.provider # "other"
<1>1. p # NotObject
  BY DEF Problems
<1>2. /\ PayloadProblems(p) = {}
      /\ \A i \in 1..Len(Judged(p)) : BucketProblems(Judged(p)[i]) = {}
  BY <1>1, ProblemsAre
<1>3. IsList(p)
  BY <1>2 DEF PayloadProblems
<1>4. ~TooMany(p)
  BY <1>2 DEF PayloadProblems
<1>5. p.flag # "other"
  BY <1>2 DEF PayloadProblems
<1>6. ~Mismatch(p)
  BY <1>2 DEF PayloadProblems
<1>7. ~OutOfRange(p)
  BY <1>2 DEF PayloadProblems
<1>8. ~TooSmall(p)
  BY <1>2 DEF PayloadProblems
<1>9. p.provider # "other"
  BY <1>2 DEF PayloadProblems
<1>10. QED
  BY <1>1, <1>2, <1>3, <1>4, <1>5, <1>6, <1>7, <1>8, <1>9

(* What StoredIsSound says of the audit kept of a payload.                 *)
Sound(p) ==
    LET kept == Normalised(p)
        found == kept.buckets[2]
    IN  /\ (kept.flag = "true") = (found # <<>>)
        /\ p.flag \in {"null", kept.flag}
        /\ Len(found) = Len(Findings(p))
        /\ Len(found) <= kept.total[2] /\ kept.total[2] <= MaxResources
        /\ \A i \in DOMAIN found :
               /\ found[i]["BucketName"] = "name"
               /\ found[i]["Severity"] \in Severities
        /\ kept.provider \in {"aws", "azure", "gcp"}

(* _validate_bucket: a finding without a problem is kept with a trimmed    *)
(* name and a known severity.                                              *)
LEMMA GoodBucket ==
    ASSUME NEW raw, BucketProblems(raw) = {}
    PROVE  /\ Bucket(raw)["BucketName"] = "name"
           /\ Bucket(raw)["Severity"] \in Severities
<1>1. raw # NotObject
  BY DEF BucketProblems
<1>2. /\ "bucketName" \notin BucketProblems(raw) /\ "longName" \notin BucketProblems(raw)
      /\ "severity" \notin BucketProblems(raw)
  OBVIOUS
<1>3. Strip(Name(raw)) = "name"
  <2>1. Name(raw) # "long"
    BY <1>1, <1>2 DEF BucketProblems
  <2>2. QED
    BY <1>1, <1>2, <2>1 DEF BucketProblems
<1>4. Upper(SeverityOf(raw)) \in Severities
  BY <1>1, <1>2 DEF BucketProblems
<1>5. Bucket(raw)["BucketName"] = Strip(Name(raw))
  BY DEF Bucket
<1>6. Bucket(raw)["Severity"] = Upper(SeverityOf(raw))
  BY DEF Bucket
<1>7. QED
  BY <1>3, <1>4, <1>5, <1>6

LEMMA ValidIsSound ==
    ASSUME NEW p, IsPayload(p), Problems(p) = {}
    PROVE  Sound(p)
<1> DEFINE kept == Normalised(p)
           found == [i \in 1..Len(Judged(p)) |-> Bucket(Judged(p)[i])]
<1>1. /\ kept.buckets[2] = found
      /\ kept.flag = IF Judged(p) = <<>> THEN "false" ELSE "true"
      /\ kept.total[2] = Total(p)
      /\ kept.provider = IF p.provider \in {"null", "AWS"} THEN "aws" ELSE p.provider
  BY DEF Normalised
<1>2. /\ \A i \in 1..Len(Judged(p)) : BucketProblems(Judged(p)[i]) = {}
      /\ IsList(p) /\ ~TooMany(p) /\ p.flag # "other" /\ ~Mismatch(p)
      /\ ~OutOfRange(p) /\ ~TooSmall(p) /\ p.provider # "other" /\ p # NotObject
  BY NoProblems
<1>3. /\ Judged(p) = Findings(p) /\ Len(Judged(p)) \in Nat
      /\ (Judged(p) = <<>>) <=> (Len(Judged(p)) = 0)
  <2>1. Judged(p) = Findings(p)
    BY <1>2 DEF Judged
  <2>2. PICK S : Judged(p) \in Seq(S)
    BY <1>2, FindingsAreASequence
  <2>3. QED
    BY <2>1, <2>2
<1>4. /\ Len(found) = Len(Judged(p))
      /\ (found = <<>>) <=> (Len(Judged(p)) = 0)
  <2>1. found \in Seq({Bucket(Judged(p)[i]) : i \in 1..Len(Judged(p))})
    BY <1>3
  <2>2. Len(found) = Len(Judged(p))
    BY <1>3
  <2>3. QED
    BY <2>1, <2>2
<1>5. (kept.flag = "true") = (found # <<>>)
  BY <1>1, <1>3, <1>4
<1>6. p.flag \in {"null", kept.flag}
  BY <1>1, <1>2, <1>3 DEF Mismatch, IsPayload
<1>7. Len(found) <= kept.total[2] /\ kept.total[2] <= MaxResources
  <2>1. Total(p) \in 0..MaxResources /\ ~(Total(p) < Len(Findings(p)))
    BY <1>2 DEF OutOfRange, TooSmall
  <2>2. QED
    BY <1>1, <1>3, <1>4, <2>1
<1>8. \A i \in DOMAIN found : /\ found[i]["BucketName"] = "name"
                             /\ found[i]["Severity"] \in Severities
  BY <1>2, GoodBucket
<1>9. kept.provider \in {"aws", "azure", "gcp"}
  BY <1>1, <1>2 DEF IsPayload
<1>10. QED
  BY <1>1, <1>3, <1>4, <1>5, <1>6, <1>7, <1>8, <1>9 DEF Sound

(* The report of an audit is a payload validate_audit finds nothing wrong  *)
(* with, if it has no more findings than one payload may have.             *)
LEMMA ReportIsAPayload ==
    ASSUME TypeOK
    PROVE  IsPayload(AuditResponse)
<1>1. IsFiniteSet(AtRisk)
  BY FS_Subset DEF AtRisk
<1>2. /\ Cardinality(AtRisk) \in Nat /\ Cardinality(Buckets) \in Nat
      /\ SetToSeq(AtRisk) \in [1..Cardinality(AtRisk) -> AtRisk]
  BY <1>1, OrderedSet, FS_CardinalityType
<1> DEFINE list == [i \in DOMAIN SetToSeq(AtRisk) |-> RiskInfo(SetToSeq(AtRisk)[i])]
<1>3. /\ AuditResponse.buckets = <<"list", list>>
      /\ AuditResponse.flag \in {"true", "false"}
      /\ AuditResponse.total = <<"int", Cardinality(Buckets)>>
      /\ AuditResponse.provider = "aws"
      /\ DOMAIN AuditResponse =
             {"buckets", "flag", "total", "duration", "timestamp", "provider"}
  BY DEF AuditResponse
<1>4. list \in Seq(Elements(list))
  BY <1>2 DEF Elements
<1>5. QED
  BY <1>2, <1>3, <1>4 DEF IsPayload, Fields

LEMMA ReportIsValid ==
    ASSUME TypeOK, Cardinality(Buckets) <= MaxFindings
    PROVE  Validated(AuditResponse) = "valid"
<1> DEFINE p == AuditResponse
           order == SetToSeq(AtRisk)
           list == [i \in DOMAIN order |-> RiskInfo(order[i])]
<1>1. IsFiniteSet(AtRisk) /\ Cardinality(AtRisk) <= Cardinality(Buckets)
  BY FS_Subset DEF AtRisk
<1>2. /\ Cardinality(AtRisk) \in Nat /\ Cardinality(Buckets) \in Nat
      /\ order \in [1..Cardinality(AtRisk) -> AtRisk]
  BY <1>1, OrderedSet, FS_CardinalityType
<1>3. /\ p.buckets = <<"list", list>>
      /\ p.flag = IF AtRisk # {} THEN "true" ELSE "false"
      /\ p.total = <<"int", Cardinality(Buckets)>>
      /\ p.duration = "seconds" /\ p.timestamp = "iso" /\ p.provider = "aws"
  BY DEF AuditResponse, VulnerabilitiesFound
<1>4. /\ Findings(p) = list /\ Len(list) = Cardinality(AtRisk)
      /\ (list # <<>>) <=> AtRisk # {}
  <2>1. Findings(p) = list
    BY <1>3 DEF Findings
  <2>2. list \in Seq(Elements(list)) /\ Len(list) = Cardinality(AtRisk)
    BY <1>2 DEF Elements
  <2>3. (Cardinality(AtRisk) = 0) <=> (AtRisk = {})
    BY <1>1, FS_EmptySet
  <2>4. QED
    BY <2>1, <2>2, <2>3
<1>5. ~TooMany(p) /\ Judged(p) = list /\ IsList(p)
  BY <1>1, <1>2, <1>3, <1>4 DEF TooMany, Judged, IsList
<1>6. p.flag # "other" /\ ~Mismatch(p)
  BY <1>3, <1>4, <1>5 DEF Mismatch
<1>7. ~OutOfRange(p) /\ ~TooSmall(p)
  BY <1>1, <1>2, <1>3, <1>4 DEF OutOfRange, TooSmall, Total
<1>8. ASSUME NEW b \in AtRisk PROVE BucketProblems(RiskInfo(b)) = {}
  <2>1. severity[b] \in 1..4
    BY DEF AtRisk, TypeOK
  <2>2. SeverityNames[severity[b]] \in Severities
    BY <2>1 DEF SeverityNames, Severities
  <2>3. RiskInfo(b) # NotObject
    <3>1. "severity" \in DOMAIN RiskInfo(b) /\ "severity" \notin DOMAIN NotObject
      BY DEF RiskInfo, NotObject
    <3>2. QED
      BY <3>1
  <2>4. /\ Name(RiskInfo(b)) = "name" /\ SeverityOf(RiskInfo(b)) \in Severities
        /\ RiskFactors(RiskInfo(b)) = "list" /\ Created(RiskInfo(b)) = "date"
    BY <2>2 DEF RiskInfo, Name, SeverityOf, RiskFactors, Created, Pick
  <2>5. Upper(SeverityOf(RiskInfo(b))) \in Severities /\ Strip(Name(RiskInfo(b))) = "name"
    BY <2>4 DEF Upper, Strip, Severities
  <2>6. QED
    BY <2>3, <2>4, <2>5 DEF BucketProblems
<1>9. Problems(p) = {}
  <2>1. \A i \in 1..Len(Judged(p)) : BucketProblems(Judged(p)[i]) = {}
    BY <1>2, <1>4, <1>5, <1>8
  <2>2. p # NotObject
    <3>1. "buckets" \in DOMAIN p /\ "buckets" \notin DOMAIN NotObject
      BY DEF AuditResponse, NotObject
    <3>2. QED
      BY <3>1
  <2>3. PayloadProblems(p) = {}
    BY <1>3, <1>5, <1>6, <1>7 DEF PayloadProblems
  <2>4. QED
    BY <2>1, <2>2, <2>3, ProblemsAre
<1>10. QED
  BY <1>3, <1>9 DEF Validated, Raises

(* What the answer to a request rests on: the request the reporter has     *)
(* been sent, which is the report of the audit once there is one.          *)
AnswerInv ==
    answer # "none" =>
        /\ answer = Verdict(request.envelope, request.payload)
        /\ DOMAIN request = {"envelope", "payload"}
        /\ IsPayload(request.payload)
        /\ audit \in {"listing", "reported"}
        /\ audit = "reported" => /\ request.envelope \in ReportEnvelopes
                                /\ request.payload = AuditResponse

LEMMA AnswerStep ==
    ASSUME TypeOK, AnswerInv, [AuditNext]_auditVars
    PROVE  AnswerInv'
<1>1. ASSUME ScanStep PROVE AnswerInv'
  BY <1>1 DEF ScanStep, Scanning, requestVars, AnswerInv
<1>2. ASSUME UNCHANGED vars PROVE AuditResponse' = AuditResponse
  BY <1>2 DEF vars, AuditResponse, AtRisk, RiskInfo, VulnerabilitiesFound
<1>3. ASSUME SubmitReport PROVE AnswerInv'
  <2>1. PICK e \in ReportEnvelopes :
            Post([envelope |-> e, payload |-> AuditResponse])
    BY <1>3 DEF SubmitReport
  <2>2. /\ request'.envelope = e /\ request'.payload = AuditResponse
        /\ DOMAIN request' = {"envelope", "payload"}
        /\ answer' = Verdict(e, AuditResponse)
    BY <2>1 DEF Post, Submit
  <2>3. UNCHANGED vars /\ audit' = "reported"
    BY <1>3 DEF SubmitReport, vars
  <2>4. AuditResponse' = AuditResponse
    BY <1>2, <2>3
  <2>5. QED
    BY <2>2, <2>3, <2>4, ReportIsAPayload DEF AnswerInv
<1>4. ASSUME OthersPost PROVE AnswerInv'
  <2>1. PICK r \in Requests : Post(r)
    BY <1>4 DEF OthersPost
  <2>2. /\ request' = r /\ answer' = Verdict(r.envelope, r.payload)
        /\ IsPayload(r.payload) /\ DOMAIN r = {"envelope", "payload"}
    BY <2>1 DEF Post, Submit
  <2>3. audit' = "listing"
    BY <1>4 DEF OthersPost, vars
  <2>4. QED
    BY <2>2, <2>3 DEF AnswerInv
<1>5. ASSUME CorrectPayload PROVE AnswerInv'
  <2>1. PICK q \in Corrections : Submit([request EXCEPT !.payload = q])
    BY <1>5 DEF CorrectPayload, Correct, CorrectionsOf
  <2>2. /\ answer = "invalid" /\ audit = "listing" /\ audit' = audit
        /\ DOMAIN request = {"envelope", "payload"}
    BY <1>5 DEF CorrectPayload, Correct, vars, AnswerInv
  <2>3. /\ request'.envelope = request.envelope /\ request'.payload = q
        /\ DOMAIN request' = {"envelope", "payload"}
        /\ answer' = Verdict(request.envelope, q)
    BY <2>1, <2>2 DEF Submit
  <2>4. audit' = "listing"
    BY <2>2
  <2>5. QED
    BY <2>3, <2>4 DEF AnswerInv
<1>6. CASE UNCHANGED auditVars
  <2>1. UNCHANGED vars /\ UNCHANGED <<audit, request, answer>>
    BY <1>6 DEF auditVars, vars, requestVars
  <2>2. AuditResponse' = AuditResponse
    BY <1>2, <2>1
  <2>3. QED
    BY <2>1, <2>2 DEF AnswerInv
<1>7. QED
  BY <1>1, <1>3, <1>4, <1>5, <1>6 DEF AuditNext

(* Requests beside it do not disturb an audit: all that is proved of Spec  *)
(* holds of AuditSpec.                                                     *)
THEOREM AuditIsAScan == AuditSpec => Spec
<1>1. AuditInit => Init
  BY DEF AuditInit
<1>2. [AuditNext]_auditVars => [Next]_vars
  BY DEF AuditNext, auditVars, ScanStep, SubmitReport, OthersPost, CorrectPayload
<1>3. QED
  BY <1>1, <1>2, PTL DEF AuditSpec, Spec

(* An answer is the verdict on the request the reporter has been sent,     *)
(* which is the report of the audit once there is one.                     *)
THEOREM Answers == AuditSpec => [](TypeOK /\ AnswerInv)
<1>1. AuditInit => AnswerInv
  BY DEF AuditInit, AnswerInv
<1>2. TypeOK /\ AnswerInv /\ [AuditNext]_auditVars => AnswerInv'
  BY AnswerStep
<1>3. AuditSpec => []TypeOK
  BY AuditIsAScan, TypeCorrect, PTL
<1>4. QED
  BY <1>1, <1>2, <1>3, PTL DEF AuditSpec

(* ingest_findings gets to the put only past check_ingest_auth and         *)
(* validate_audit.                                                         *)
LEMMA StoredPassed ==
    ASSUME NEW e, NEW p, Verdict(e, p) = "stored"
    PROVE  Denied(e) = "none" /\ Problems(p) = {} /\ ~Raises(p)
<1>1. Denied(e) = "none"
  BY DEF Verdict, Denied
<1>2. ~e.large
  BY <1>1 DEF Verdict
<1> DEFINE parsed == Parsed(EnsureContentLength(e))
<1>3. Verdict(e, p) = IF parsed = "deep" THEN "raised"
                      ELSE IF parsed = "invalid" THEN "malformed"
                      ELSE IF Validated(p) # "valid" THEN Validated(p)
                      ELSE IF e.longKey THEN "long_key"
                      ELSE IF Unstorable(e, p) THEN "error" ELSE "stored"
  BY <1>1, <1>2 DEF Verdict
<1>4. Validated(p) = "valid"
  BY <1>3 DEF Validated
<1>5. QED
  BY <1>1, <1>4 DEF Validated

(* What is stored is sound, and only a caller that may write got it there. *)
THEOREM SoundStores == AuditSpec => []StoredIsSound
<1>1. AnswerInv => StoredIsSound
  <2> SUFFICES ASSUME AnswerInv, answer = "stored" PROVE StoredIsSound
    BY DEF StoredIsSound
  <2>1. /\ Verdict(request.envelope, request.payload) = "stored"
        /\ IsPayload(request.payload)
    BY DEF AnswerInv
  <2>2. Sound(request.payload)
    BY <2>1, StoredPassed, ValidIsSound
  <2>3. request.envelope.bearer \/ ~request.envelope.configured
    BY <2>1, StoredPassed DEF Denied
  <2>4. QED
    BY <2>2, <2>3 DEF StoredIsSound, Sound
<1>2. QED
  BY Answers, <1>1, PTL

(* The 422 for a body that is no JSON object says so.                      *)
LEMMA ListedBody ==
    Listed(NotObject) = {<<0, "body">>}
<1> DEFINE z == <<0, "body">>
<1>1. Problems(NotObject) = {z}
  BY DEF Problems
<1>2. Place["body"] \in Nat
  <2>1. /\ "body" \in Elements(CheckOrder)
        /\ \E k \in DOMAIN CheckOrder : CheckOrder[k] = "body"
        /\ DOMAIN CheckOrder \subseteq Nat
    BY DEF CheckOrder, Elements
  <2>2. Place["body"] \in DOMAIN CheckOrder
    BY <2>1 DEF Place
  <2>3. QED
    BY <2>1, <2>2
<1>3. ~Earlier(z, z)
  BY <1>2 DEF Earlier
<1>4. {y \in Problems(NotObject) : Earlier(y, z)} = {}
  BY <1>1, <1>3
<1>5. Cardinality({}) = 0
  BY FS_EmptySet
<1>6. QED
  BY <1>1, <1>4, <1>5 DEF Listed

LEMMA Chains ==
    ASSUME NEW i
    PROVE  /\ LeadsTo(<<i, "bucketName">>, <<i, "longName">>)
           /\ LeadsTo(<<i, "riskFactors">>, <<i, "manyFactors">>)
           /\ LeadsTo(<<i, "flag">>, <<i, "mismatch">>)
           /\ LeadsTo(<<i, "total">>, <<i, "tooSmall">>)
           /\ LeadsTo(<<i, "buckets">>, <<i, "manyBuckets">>)
  BY DEF LeadsTo

(* Of two checks of one part, one leads to the other.                      *)
LEMMA SamePart ==
    ASSUME NEW i, NEW c, NEW d, PartOf(d) = PartOf(c)
    PROVE  c = d \/ LeadsTo(<<i, c>>, <<i, d>>) \/ LeadsTo(<<i, d>>, <<i, c>>)
<1>1. CASE PartOf(c) = "bucketName"
  <2>1. c \in {"bucketName", "longName"} /\ d \in {"bucketName", "longName"}
    BY <1>1 DEF PartOf
  <2>2. LeadsTo(<<i, "bucketName">>, <<i, "longName">>)
    BY Chains
  <2>3. QED
    BY <2>1, <2>2
<1>2. CASE PartOf(c) = "riskFactors"
  <2>1. {c, d} \subseteq {"riskFactors", "manyFactors"}
    BY <1>2 DEF PartOf
  <2>2. QED
    BY <2>1, Chains
<1>3. CASE PartOf(c) = "buckets"
  <2>1. {c, d} \subseteq {"buckets", "manyBuckets"}
    BY <1>3 DEF PartOf
  <2>2. QED
    BY <2>1, Chains
<1>4. CASE PartOf(c) = "flag"
  <2>1. {c, d} \subseteq {"flag", "mismatch"}
    BY <1>4 DEF PartOf
  <2>2. QED
    BY <2>1, Chains
<1>5. CASE PartOf(c) = "total"
  <2>1. {c, d} \subseteq {"total", "tooSmall"}
    BY <1>5 DEF PartOf
  <2>2. QED
    BY <2>1, Chains
<1>6. CASE PartOf(c) \notin {"bucketName", "riskFactors", "buckets", "flag", "total"}
  <2>1. PartOf(c) = c /\ PartOf(d) = d
    BY <1>6 DEF PartOf
  <2>2. QED
    BY <2>1
<1>7. QED
  BY <1>1, <1>2, <1>3, <1>4, <1>5, <1>6

(* In a corrected payload only what could not be listed is still wrong, or *)
(* what a listed check leads to.                                           *)
LEMMA CorrectedWell ==
    ASSUME NEW p, IsPayload(p), NEW q \in CorrectionsOf(p), NEW z \in Problems(q)
    PROVE  \/ z \in Problems(p) \ Listed(p)
           \/ \E y \in Listed(p) : LeadsTo(y, z)
<1> DEFINE parts == [i \in 0..MaxFindings |->
                        {PartOf(y[2]) : y \in {y \in Listed(p) : y[1] = i}}]
<1>1. IsPayload(q)
  BY DEF CorrectionsOf
<1>2. z \notin Listed(p) /\ \A y \in Listed(p) : ~LeadsTo(z, y)
  BY DEF CorrectionsOf
<1> SUFFICES ASSUME \A y \in Listed(p) : ~LeadsTo(y, z) PROVE z \in Problems(p)
  BY <1>2
<1>3. CASE p = NotObject
  <2>1. <<0, "body">> \in Listed(p)
    BY <1>3, ListedBody
  <2>2. z # <<0, "body">> /\ z[2] = "body"
    BY <1>2, <2>1 DEF LeadsTo
  <2>3. q # NotObject
    BY <2>2 DEF Problems
  <2>4. z[2] # "body"
    BY <2>3, ProblemsAre DEF PayloadProblems, BucketProblems
  <2>5. QED
    BY <2>2, <2>4
<1>4. CASE p # NotObject
  <2>1. /\ q # NotObject
        /\ \A field \in (Fields \ {"buckets"}) \ parts[0] : q[field] = p[field]
        /\ "buckets" \notin parts[0] =>
               /\ q.buckets[1] = p.buckets[1]
               /\ Len(Findings(q)) = Len(Findings(p))
               /\ \A i \in 1..Len(Judged(p)) :
                      \/ Findings(q)[i] = Findings(p)[i]
                      \/ SameBut(Findings(p)[i], Findings(q)[i], parts[i])
    BY <1>4 DEF CorrectionsOf
  <2>2. /\ Len(Findings(p)) \in Nat /\ Len(Judged(p)) \in Nat
        /\ Len(Findings(q)) \in Nat /\ Len(Judged(q)) \in Nat
        /\ Len(Judged(q)) <= MaxFindings /\ Len(Judged(p)) <= MaxFindings
        /\ (Findings(p) = <<>>) <=> (Len(Findings(p)) = 0)
        /\ (Findings(q) = <<>>) <=> (Len(Findings(q)) = 0)
    BY <1>1, <1>4, <2>1, FindingsAreASequence
  <2>3. \A i \in 0..MaxFindings : \A part \in parts[i] :
            \E y \in Listed(p) : y = <<i, y[2]>> /\ PartOf(y[2]) = part
    <3>1. Listed(p) \subseteq Problems(p)
      BY DEF Listed
    <3>2. \A y \in Listed(p) : y = <<y[1], y[2]>>
      BY <1>4, <3>1, ProblemsAre
    <3>3. QED
      BY <3>2
  <2>4. ASSUME "buckets" \notin parts[0]
        PROVE  /\ IsList(q) <=> IsList(p)
               /\ TooMany(q) <=> TooMany(p)
               /\ Len(Judged(q)) = Len(Judged(p))
               /\ (Findings(q) = <<>>) <=> (Findings(p) = <<>>)
    BY <2>1, <2>2, <2>4 DEF IsList, TooMany, Judged
  <2>5. CASE z[1] = 0 /\ z[2] \in PayloadProblems(q)
    <3> DEFINE c == z[2]
    <3>1. z = <<0, c>>
      BY <2>1, <2>5, ProblemsAre
    <3>2. SUFFICES c \in PayloadProblems(p)
      BY <1>4, <3>1, ProblemsAre
    <3>3. \A d : <<0, d>> \in Listed(p) =>
                     d # c /\ ~LeadsTo(z, <<0, d>>) /\ ~LeadsTo(<<0, d>>, z)
      BY <1>2, <3>1
    <3>4. PartOf(c) \notin parts[0]
      <4>1. ASSUME NEW d, <<0, d>> \in Listed(p), PartOf(d) = PartOf(c) PROVE FALSE
        BY <3>1, <3>3, <4>1, SamePart
      <4>2. 0 \in 0..MaxFindings
        OBVIOUS
      <4>3. QED
        BY <2>3, <4>1, <4>2
    <3>5. c \in {"manyBuckets", "mismatch", "tooSmall"} => "buckets" \notin parts[0]
      <4>1. ASSUME c \in {"manyBuckets", "mismatch", "tooSmall"},
                   NEW d, <<0, d>> \in Listed(p), PartOf(d) = "buckets"
            PROVE  FALSE
        <5>1. d \in {"buckets", "manyBuckets"}
          BY <4>1 DEF PartOf
        <5>2. d # c /\ ~LeadsTo(<<0, d>>, z)
          BY <3>3, <4>1
        <5>3. LeadsTo(<<0, d>>, z) \/ d = c
          BY <3>1, <4>1, <5>1 DEF LeadsTo
        <5>4. QED
          BY <5>2, <5>3
      <4>2. 0 \in 0..MaxFindings
        OBVIOUS
      <4>3. QED
        BY <2>3, <4>1, <4>2
    <3> HIDE DEF parts
    <3>6. /\ c = "buckets" => "buckets" \notin parts[0]
          /\ c \in {"flag", "mismatch"} => "flag" \notin parts[0]
          /\ c \in {"total", "tooSmall"} => "total" \notin parts[0]
          /\ c \in {"duration", "timestamp", "provider"} => c \notin parts[0]
      BY <3>4 DEF PartOf
    <3>7. \A field \in Fields \ {"buckets"} : field \notin parts[0] => q[field] = p[field]
      BY <2>1
    <3>8. CASE c \in {"buckets", "manyBuckets"}
      BY <2>4, <2>5, <3>5, <3>6, <3>8 DEF PayloadProblems
    <3>9. CASE c = "flag"
      <4>1. q.flag = p.flag
        BY <3>6, <3>7, <3>9 DEF Fields
      <4>2. QED
        BY <2>5, <3>9, <4>1 DEF PayloadProblems
    <3>10. CASE c = "mismatch"
      <4>1. q.flag = p.flag
        BY <3>6, <3>7, <3>10 DEF Fields
      <4>2. Mismatch(q)
        BY <2>5, <3>10 DEF PayloadProblems
      <4>3. Mismatch(p)
        BY <2>4, <3>5, <3>10, <4>1, <4>2 DEF Mismatch
      <4>4. QED
        BY <3>10, <4>3 DEF PayloadProblems
    <3>11. CASE c = "total"
      <4>1. q.total = p.total
        BY <3>6, <3>7, <3>11 DEF Fields
      <4>2. OutOfRange(q)
        BY <2>5, <3>11 DEF PayloadProblems
      <4>3. q.total[1] # "null"
        BY <2>2, <4>2 DEF OutOfRange, Total
      <4>4. OutOfRange(p)
        BY <4>1, <4>2, <4>3 DEF OutOfRange, Total
      <4>5. QED
        BY <3>11, <4>4 DEF PayloadProblems
    <3>12. CASE c = "tooSmall"
      <4>1. q.total = p.total
        BY <3>6, <3>7, <3>12 DEF Fields
      <4>2. TooSmall(q)
        BY <2>5, <3>12 DEF PayloadProblems
      <4>3. /\ IsList(q) <=> IsList(p)
            /\ Len(Judged(q)) = Len(Judged(p)) /\ Len(Findings(q)) = Len(Findings(p))
        BY <2>1, <2>4, <3>5, <3>12
      <4>4. Total(q) = Total(p)
        BY <4>1, <4>3 DEF Total
      <4>5. TooSmall(p)
        BY <4>1, <4>2, <4>3, <4>4 DEF TooSmall, OutOfRange
      <4>6. QED
        BY <3>12, <4>5 DEF PayloadProblems
    <3>13. CASE c \in {"duration", "timestamp", "provider"}
      <4>1. q[c] = p[c]
        BY <3>6, <3>7, <3>13 DEF Fields
      <4>2. QED
        BY <2>5, <3>13, <4>1 DEF PayloadProblems
    <3>14. c \in {"buckets", "manyBuckets", "flag", "mismatch", "total", "tooSmall",
                  "duration", "timestamp", "provider"}
      BY <2>5 DEF PayloadProblems
    <3>15. QED
      BY <3>8, <3>9, <3>10, <3>11, <3>12, <3>13, <3>14
  <2>6. CASE z[1] \in 1..Len(Judged(q)) /\ z[2] \in BucketProblems(Judged(q)[z[1]])
    <3> DEFINE i == z[1]
               c == z[2]
               old == Findings(p)[i]
               new == Findings(q)[i]
    <3>1. z = <<i, c>> /\ i # 0 /\ i \in 0..MaxFindings
      BY <2>1, <2>2, <2>6, ProblemsAre
    <3>2. "buckets" \notin parts[0]
      <4>1. ASSUME NEW y \in Listed(p), PartOf(y[2]) = "buckets" PROVE FALSE
        <5>1. y[2] \in {"buckets", "manyBuckets"}
          BY <4>1 DEF PartOf
        <5>2. LeadsTo(y, z)
          BY <3>1, <5>1 DEF LeadsTo
        <5>3. QED
          BY <5>2
      <4>2. 0 \in 0..MaxFindings
        OBVIOUS
      <4>3. QED
        BY <2>3, <4>1, <4>2
    <3>3. /\ i \in 1..Len(Judged(p))
          /\ Judged(p) = Findings(p) /\ Judged(q) = Findings(q)
      <4>1. ~TooMany(q)
        BY <2>6 DEF Judged
      <4>2. QED
        BY <2>4, <2>6, <3>2, <4>1 DEF Judged
    <3>4. SUFFICES c \in BucketProblems(old)
      BY <1>4, <3>1, <3>3, ProblemsAre
    <3>5. c \in BucketProblems(new)
      BY <2>6, <3>3
    <3>6. \A d : <<i, d>> \in Listed(p) =>
                     d # c /\ ~LeadsTo(z, <<i, d>>) /\ ~LeadsTo(<<i, d>>, z)
      BY <1>2, <3>1
    <3>7. \A part \in parts[i] : \E d : <<i, d>> \in Listed(p) /\ PartOf(d) = part
      BY <2>3, <3>1
    <3>8. CASE new = old
      BY <3>5, <3>8
    <3>9. CASE SameBut(old, new, parts[i])
      <4> HIDE DEF parts
      <4>1. new # NotObject /\ c # "object"
        BY <3>5, <3>9 DEF SameBut, BucketProblems
      <4>2. "object" \notin parts[i]
        <5>1. \A d : PartOf(d) = "object" => d = "object"
          BY DEF PartOf
        <5>2. LeadsTo(<<i, "object">>, z)
          BY <3>1, <4>1 DEF LeadsTo
        <5>3. QED
          BY <3>6, <3>7, <5>1, <5>2
      <4>3. /\ old # NotObject
            /\ "bucketName" \in parts[i] \/ Name(new) = Name(old)
            /\ "severity" \in parts[i] \/ SeverityOf(new) = SeverityOf(old)
            /\ "riskFactors" \in parts[i] \/ RiskFactors(new) = RiskFactors(old)
            /\ "creationDate" \in parts[i] \/ Created(new) = Created(old)
        BY <3>9, <4>2 DEF SameBut
      <4>4. PartOf(c) \notin parts[i]
        <5>1. ASSUME NEW d, <<i, d>> \in Listed(p), PartOf(d) = PartOf(c) PROVE FALSE
          BY <3>1, <3>6, <5>1, SamePart
        <5>2. QED
          BY <3>7, <5>1
      <4>5. CASE c \in {"bucketName", "longName"}
        <5>1. Name(new) = Name(old)
          BY <4>3, <4>4, <4>5 DEF PartOf
        <5>2. QED
          BY <3>5, <4>1, <4>3, <4>5, <5>1 DEF BucketProblems
      <4>6. CASE c \in {"riskFactors", "manyFactors"}
        <5>1. RiskFactors(new) = RiskFactors(old)
          BY <4>3, <4>4, <4>6 DEF PartOf
        <5>2. QED
          BY <3>5, <4>1, <4>3, <4>6, <5>1 DEF BucketProblems
      <4>7. CASE c \in {"severity", "creationDate"}
        <5>1. /\ c = "severity" => SeverityOf(new) = SeverityOf(old)
              /\ c = "creationDate" => Created(new) = Created(old)
          BY <4>3, <4>4, <4>7 DEF PartOf
        <5>2. QED
          BY <3>5, <4>1, <4>3, <4>7, <5>1 DEF BucketProblems
      <4>8. QED
        BY <3>5, <4>1, <4>5, <4>6, <4>7 DEF BucketProblems
    <3>10. QED
      BY <2>1, <3>2, <3>3, <3>8, <3>9
  <2>7. QED
    BY <2>1, <2>5, <2>6, ProblemsAre
<1>5. QED
  BY <1>3, <1>4

(* A caller who corrects what a 422 lists is refused again only for what   *)
(* had no room in it or for a check that one of those listed leads to.     *)
THEOREM NothingHides == AuditSpec => NothingElseHides
<1> DEFINE Told ==
        answer = "invalid" /\ answer' = "invalid" =>
            LET listed == Listed(request.payload)
            IN  \A z \in Problems(request'.payload) :
                    \/ z \in Problems(request.payload) \ listed
                    \/ \E y \in listed : LeadsTo(y, z)
<1>1. AnswerInv /\ [AuditNext]_auditVars => [Told]_requestVars
  <2> SUFFICES ASSUME AnswerInv, [AuditNext]_auditVars, answer = "invalid",
                      requestVars' # requestVars
               PROVE  Told
    OBVIOUS
  <2>1. CorrectPayload
    BY DEF AuditNext, ScanStep, Scanning, SubmitReport, OthersPost, Post,
           auditVars, requestVars
  <2>2. PICK q \in CorrectionsOf(request.payload) : Submit([request EXCEPT !.payload = q])
    BY <2>1 DEF CorrectPayload, Correct
  <2>3. request'.payload = q /\ IsPayload(request.payload)
    BY <2>2 DEF Submit, AnswerInv
  <2>4. QED
    BY <2>2, <2>3, CorrectedWell
<1>2. QED
  BY Answers, <1>1, PTL DEF AuditSpec, NothingElseHides

(* By either way the report of an audit reaches the store, as long as one  *)
(* payload may have a finding for every bucket.                            *)
THEOREM AcceptedReports ==
    Cardinality(Buckets) <= MaxFindings => (AuditSpec => []ReportIsAccepted)
<1> SUFFICES ASSUME Cardinality(Buckets) <= MaxFindings
             PROVE  AuditSpec => []ReportIsAccepted
  OBVIOUS
<1>1. TypeOK /\ AnswerInv => ReportIsAccepted
  <2> SUFFICES ASSUME TypeOK, AnswerInv, audit = "reported", answer # "none"
               PROVE  \/ answer = "stored"
                      \/ answer = "too_large" /\ request.envelope.large
                      \/ answer = "error" /\ ~request.envelope.fits
    BY DEF ReportIsAccepted
  <2>1. Validated(AuditResponse) = "valid" /\ AuditResponse.duration # "extreme"
    BY ReportIsValid DEF AuditResponse
  <2> DEFINE e == request.envelope
  <2>2. e \in ReportEnvelopes /\ answer = Verdict(e, AuditResponse)
    BY DEF AnswerInv
  <2>3. /\ Denied(e) = "none" /\ ~e.longKey
        /\ Parsed(EnsureContentLength(e)) = "valid"
    <3>1. PICK e0 \in {FromCli, FromWorkflow}, size \in Sizes : e = Sized(e0, size)
      BY <2>2 DEF ReportEnvelopes
    <3>2. CASE e0 = FromCli
      BY <3>1, <3>2 DEF Sized, FromCli, Denied, Parsed, EnsureContentLength
    <3>3. CASE e0 = FromWorkflow
      BY <3>1, <3>3 DEF Sized, FromCli, FromWorkflow, Denied, Parsed, EnsureContentLength
    <3>4. QED
      BY <3>2, <3>3
  <2> HIDE DEF e
  <2>4. answer = IF e.large THEN "too_large"
                 ELSE IF Unstorable(e, AuditResponse) THEN "error" ELSE "stored"
    BY <2>1, <2>2, <2>3 DEF Verdict
  <2>5. QED
    BY <2>1, <2>4 DEF Unstorable, e
<1>2. QED
  BY Answers, <1>1, PTL
=============================================================================
