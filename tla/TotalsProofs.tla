---------------------------- MODULE TotalsProofs ----------------------------
(***************************************************************************)
(* What holds of the running totals of module Totals for any number of     *)
(* audits and dashboard reads.  Two facts carry everything: as long as     *)
(* there is no STATS item no audit is counted and no ADD has succeeded     *)
(* (CountInv), and a rebuild past its scan has every legacy audit in       *)
(* memory, tagged or about to be (ScanInv).                                *)
(***************************************************************************)
EXTENDS Totals, TLAPS

(* An audit is stored before it is added, and stored with its recordType.  *)
IngestInv ==
    \A a \in New :
        /\ ingest[a] = "idle" <=> a \notin items
        /\ a \in items => a \in tagged

(* How often an audit can be in the totals by now.                         *)
CountInv ==
    /\ \A a \in Audits : counted[a] > 0 => a \in items /\ present
    /\ \A a \in New : ingest[a] \in {"idle", "stored"} => counted[a] <= 1
    /\ \A a \in New : ingest[a] = "added" => counted[a] >= 1
    /\ \A a \in Legacy : counted[a] <= 1

(* How far a rebuild has got with the legacy audits.                       *)
ScanInv ==
    \A l \in Loaders :
        /\ load[l] = "idle" => seen[l] = {}
        /\ load[l] = "scan" => Legacy \subseteq unread[l] \cup seen[l]
        /\ load[l] = "tag" => Legacy \subseteq seen[l]
        /\ load[l] \in {"scan", "tag"} =>
               Legacy \cap seen[l] \subseteq tagged \cup untagged[l]
        /\ load[l] = "rebuilt" =>
               present /\ \A a \in Legacy : a \in tagged /\ counted[a] = 1

IInv == TypeOK /\ IngestInv /\ CountInv /\ ScanInv

USE TotalsAssumption DEF New, tableVars, loaderVars

(* A count a rebuild writes is one of the counts there are.                *)
LEMMA CountRange == 0 \in 0..MaxCount /\ 1 \in 0..MaxCount
  BY DEF MaxCount

(* The invariant holds at the start.                                       *)
LEMMA InitIInv == Init => IInv
<1> SUFFICES ASSUME Init PROVE IInv
  OBVIOUS
<1>1. TypeOK
  <2>1. counted \in [Audits -> 0..MaxCount]
    BY CountRange DEF Init
  <2>2. QED
    BY <2>1 DEF Init, TypeOK, IngestStates, LoadStates
<1>2. IngestInv /\ CountInv /\ ScanInv
  BY DEF Init, IngestInv, CountInv, ScanInv
<1>3. QED
  BY <1>1, <1>2 DEF IInv

(* What a page of the scan adds to a rebuild's memory is stored, and what  *)
(* of it has no recordType is from before there was one.                   *)
LEMMA PageTypes ==
    ASSUME TypeOK, IngestInv, NEW got \in SUBSET items
    PROVE  got \ tagged \subseteq Legacy
  BY DEF TypeOK, IngestInv

(* Every step keeps the types.                                             *)
LEMMA TypeStep ==
    ASSUME IInv, [Next]_vars
    PROVE  TypeOK'
<1> USE DEF IInv
<1>1. ASSUME NEW a \in New, PutAudit(a) PROVE TypeOK'
  BY <1>1 DEF PutAudit, TypeOK, IngestStates
<1>2. ASSUME NEW a \in New, AddToStats(a) PROVE TypeOK'
  BY <1>2 DEF AddToStats, TypeOK, CountInv, IngestStates, MaxCount
<1>3. ASSUME NEW a \in New, AddFails(a) PROVE TypeOK'
  BY <1>3 DEF AddFails, TypeOK, CountInv, IngestStates, MaxCount
<1>4. ASSUME NEW l \in Loaders, GetStats(l) PROVE TypeOK'
  BY <1>4 DEF GetStats, TypeOK, LoadStates, Loaded
<1>5. ASSUME NEW l \in Loaders, ScanPage(l) PROVE TypeOK'
  BY <1>5, PageTypes DEF ScanPage, TypeOK, LoadStates
<1>6. ASSUME NEW l \in Loaders, TagAudit(l) PROVE TypeOK'
  BY <1>6 DEF TagAudit, TypeOK
<1>7. ASSUME NEW l \in Loaders, PutStats(l) PROVE TypeOK'
  <2>1. counted' \in [Audits -> 0..MaxCount]
    BY <1>7, CountRange DEF PutStats, TypeOK
  <2>2. load' \in [Loaders -> LoadStates]
    BY <1>7 DEF PutStats, TypeOK, LoadStates, Loaded
  <2>3. present' \in BOOLEAN
    BY <1>7 DEF PutStats, TypeOK
  <2>4. QED
    BY <1>7, <2>1, <2>2, <2>3 DEF PutStats, TypeOK
<1>8. ASSUME NEW l \in Loaders, Reload(l) \/ LoadFails(l) PROVE TypeOK'
  BY <1>8 DEF Reload, LoadFails, TypeOK, LoadStates, Loaded
<1>9. CASE UNCHANGED vars
  BY <1>9 DEF vars, TypeOK
<1>10. QED
  BY <1>1, <1>2, <1>3, <1>4, <1>5, <1>6, <1>7, <1>8, <1>9 DEF Next

(* Storing comes before adding.                                            *)
LEMMA IngestStep ==
    ASSUME IInv, [Next]_vars
    PROVE  IngestInv'
<1> USE DEF IInv, TypeOK, IngestInv
<1>1. ASSUME NEW a \in New, PutAudit(a) PROVE IngestInv'
  BY <1>1 DEF PutAudit
<1>2. ASSUME NEW a \in New, AddToStats(a) \/ AddFails(a) PROVE IngestInv'
  BY <1>2 DEF AddToStats, AddFails
<1>3. ASSUME NEW l \in Loaders, TagAudit(l) PROVE IngestInv'
  BY <1>3 DEF TagAudit
<1>4. CASE UNCHANGED <<items, tagged, ingest>>
  BY <1>4
<1>5. QED
  BY <1>1, <1>2, <1>3, <1>4
  DEF Next, GetStats, ScanPage, PutStats, Reload, LoadFails, vars

(* A rebuild overwrites counts only while there are none.                  *)
LEMMA CountStep ==
    ASSUME IInv, [Next]_vars
    PROVE  CountInv'
<1> USE DEF IInv, TypeOK, CountInv
<1>1. ASSUME NEW a \in New, PutAudit(a) PROVE CountInv'
  BY <1>1 DEF PutAudit
<1>2. ASSUME NEW a \in New, AddToStats(a) PROVE CountInv'
  BY <1>2 DEF AddToStats, IngestInv, MaxCount
<1>3. ASSUME NEW a \in New, AddFails(a) PROVE CountInv'
  <2> PICK landed \in 0..SdkAttempts :
         /\ counted' = [counted EXCEPT ![a] = @ + landed]
         /\ present' = (present \/ landed > 0)
    BY <1>3 DEF AddFails
  <2>1. landed > 0 => present'
    OBVIOUS
  <2>2. present => present'
    OBVIOUS
  <2>3. counted'[a] = counted[a] + landed
    OBVIOUS
  <2>4. \A b \in Audits \ {a} : counted'[b] = counted[b]
    OBVIOUS
  <2>5. a \in items
    BY <1>3 DEF AddFails, IngestInv
  <2>6. \A b \in Audits : counted'[b] > 0 => b \in items /\ present'
    BY <2>1, <2>2, <2>3, <2>4, <2>5 DEF MaxCount
  <2>7. QED
    BY <1>3, <2>2, <2>3, <2>4, <2>6 DEF AddFails, MaxCount
<1>4. ASSUME NEW l \in Loaders, PutStats(l) PROVE CountInv'
  <2>1. CASE UNCHANGED <<present, counted>>
    BY <1>4, <2>1 DEF PutStats
  <2>2. CASE ~present /\ present'
             /\ counted' = [a \in Audits |-> IF a \in seen[l] THEN 1 ELSE 0]
    <3>1. \A a \in New : ingest[a] # "added"
      BY <2>2
    <3>2. \A a \in Audits : counted'[a] > 0 => a \in items
      BY <2>2
    <3>3. QED
      BY <1>4, <2>2, <3>1, <3>2 DEF PutStats
  <2>3. QED
    BY <1>4, <2>1, <2>2 DEF PutStats
<1>5. CASE UNCHANGED <<items, present, counted, ingest>>
  BY <1>5
<1>6. QED
  BY <1>1, <1>2, <1>3, <1>4, <1>5
  DEF Next, GetStats, ScanPage, TagAudit, Reload, LoadFails, vars

(* No rebuild loses sight of a legacy audit before it is tagged.           *)
LEMMA ScanStep ==
    ASSUME IInv, [Next]_vars
    PROVE  ScanInv'
<1> USE DEF IInv, TypeOK, ScanInv
<1>1. ASSUME NEW a \in New, PutAudit(a) PROVE ScanInv'
  BY <1>1 DEF PutAudit
<1>2. ASSUME NEW a \in New, AddToStats(a) \/ AddFails(a) PROVE ScanInv'
  BY <1>2 DEF AddToStats, AddFails
<1>3. ASSUME NEW l \in Loaders, GetStats(l) PROVE ScanInv'
  BY <1>3 DEF GetStats
<1>4. ASSUME NEW l \in Loaders, ScanPage(l) PROVE ScanInv'
  <2> PICK page \in SUBSET unread[l], got \in SUBSET items :
         /\ Legacy \cap page \subseteq got
         /\ unread' = [unread EXCEPT ![l] = @ \ page]
         /\ seen' = [seen EXCEPT ![l] = @ \cup got]
         /\ untagged' = [untagged EXCEPT ![l] = @ \cup (got \ tagged)]
    BY <1>4 DEF ScanPage
  <2>1. Legacy \subseteq unread'[l] \cup seen'[l]
    BY <1>4 DEF ScanPage
  <2>2. Legacy \cap seen'[l] \subseteq tagged' \cup untagged'[l]
    BY <1>4 DEF ScanPage
  <2>3. QED
    BY <1>4, <2>1, <2>2 DEF ScanPage
<1>5. ASSUME NEW l \in Loaders, TagAudit(l) PROVE ScanInv'
  BY <1>5 DEF TagAudit
<1>6. ASSUME NEW l \in Loaders, PutStats(l) PROVE ScanInv'
  <2>1. CASE present
    BY <1>6, <2>1 DEF PutStats
  <2>2. CASE ~present
    <3>1. Legacy \subseteq seen[l] /\ Legacy \subseteq tagged
      BY <1>6 DEF PutStats
    <3>2. \A a \in Legacy : counted'[a] = 1 /\ a \in tagged'
      BY <1>6, <2>2, <3>1 DEF PutStats
    <3>3. QED
      BY <1>6, <2>2, <3>2 DEF PutStats
  <2>3. QED
    BY <2>1, <2>2
<1>7. ASSUME NEW l \in Loaders, Reload(l) \/ LoadFails(l) PROVE ScanInv'
  BY <1>7 DEF Reload, LoadFails
<1>8. CASE UNCHANGED vars
  BY <1>8 DEF vars
<1>9. QED
  BY <1>1, <1>2, <1>3, <1>4, <1>5, <1>6, <1>7, <1>8 DEF Next

(* The strengthening is inductive, so it holds in every reachable state.   *)
THEOREM Invariance == Spec => []IInv
<1>1. IInv /\ [Next]_vars => IInv'
  BY TypeStep, IngestStep, CountStep, ScanStep DEF IInv
<1>2. QED
  BY InitIInv, <1>1, PTL DEF Spec

(* The variables keep their types: no audit is counted more often than its *)
(* ADD was sent, plus once by a rebuild.                                   *)
THEOREM TypeCorrect == Spec => []TypeOK
<1>1. IInv => TypeOK
  BY DEF IInv
<1>2. QED
  BY Invariance, <1>1, PTL

(* rebuild_stats: totals it created include every audit from before STATS  *)
(* existed, exactly once, and all of those have been tagged.               *)
THEOREM CompleteRebuild == Spec => []RebuildIsComplete
<1>1. IInv => RebuildIsComplete
  BY DEF IInv, ScanInv, RebuildIsComplete
<1>2. QED
  BY Invariance, <1>1, PTL

(* The conditional put of rebuild_stats: an audit whose ADD succeeded is   *)
(* never left out by a rebuild that runs beside it.                        *)
THEOREM CountedOnceAdded == Spec => []AddedIsCounted
<1>1. IInv => AddedIsCounted
  BY DEF IInv, CountInv, AddedIsCounted
<1>2. QED
  BY Invariance, <1>1, PTL

(* The same put: once there are totals, no count in them ever shrinks.     *)
THEOREM GrowingTotals == Spec => TotalsOnlyGrow
<1> DEFINE Grows == present => /\ present'
                               /\ \A a \in Audits : counted'[a] >= counted[a]
<1>1. ASSUME IInv, [Next]_vars
      PROVE  Grows
  <2> USE <1>1 DEF IInv, TypeOK
  <2>1. ASSUME NEW a \in New, AddToStats(a) PROVE Grows
    BY <2>1 DEF AddToStats, MaxCount
  <2>2. ASSUME NEW a \in New, AddFails(a) PROVE Grows
    <3> PICK landed \in 0..SdkAttempts :
           /\ counted' = [counted EXCEPT ![a] = @ + landed]
           /\ present' = (present \/ landed > 0)
      BY <2>2 DEF AddFails
    <3>1. present => present'
      OBVIOUS
    <3>2. \A b \in Audits : counted'[b] >= counted[b]
      BY DEF MaxCount
    <3>3. QED
      BY <3>1, <3>2
  <2>3. ASSUME NEW l \in Loaders, PutStats(l) PROVE Grows
    BY <2>3 DEF PutStats, MaxCount
  <2>4. CASE UNCHANGED <<present, counted>>
    BY <2>4 DEF MaxCount
  <2>5. QED
    BY <2>1, <2>2, <2>3, <2>4
    DEF Next, PutAudit, GetStats, ScanPage, TagAudit, Reload, LoadFails, vars
<1>2. IInv /\ [Next]_vars => [Grows]_vars
  BY <1>1
<1>3. QED
  BY Invariance, <1>2, PTL DEF Spec, TotalsOnlyGrow

-----------------------------------------------------------------------------
(* An audit counted more often than its own ADDs account for was seen by a *)
(* rebuild that has finished its scan.                                     *)
Own(a) == IF a \in New /\ ingest[a] \in {"added", "uncounted"} THEN SdkAttempts ELSE 0

SurplusInv ==
    \A a \in Audits : counted[a] > Own(a) =>
        \E l \in Loaders : load[l] # "scan" /\ a \in seen[l]

(* Whoever has seen an audit and has finished its scan never forgets it.   *)
LEMMA WitnessStep ==
    ASSUME IInv, [Next]_vars, NEW a \in Audits,
           NEW l \in Loaders, load[l] # "scan", a \in seen[l]
    PROVE  load'[l] # "scan" /\ a \in seen'[l]
<1> USE DEF IInv, TypeOK, ScanInv
<1>1. ASSUME NEW k \in Loaders, GetStats(k) PROVE load'[l] # "scan" /\ a \in seen'[l]
  BY <1>1 DEF GetStats
<1>2. ASSUME NEW k \in Loaders, ScanPage(k) PROVE load'[l] # "scan" /\ a \in seen'[l]
  BY <1>2 DEF ScanPage
<1>3. ASSUME NEW k \in Loaders, PutStats(k) PROVE load'[l] # "scan" /\ a \in seen'[l]
  BY <1>3 DEF PutStats
<1>4. ASSUME NEW k \in Loaders, Reload(k) \/ LoadFails(k)
      PROVE  load'[l] # "scan" /\ a \in seen'[l]
  BY <1>4 DEF Reload, LoadFails
<1>5. CASE UNCHANGED <<load, seen>>
  BY <1>5
<1>6. QED
  BY <1>1, <1>2, <1>3, <1>4, <1>5
  DEF Next, PutAudit, AddToStats, AddFails, TagAudit, loaderVars, vars

(* Only an ADD and a rebuild's put change a count.                         *)
LEMMA SurplusStep ==
    ASSUME IInv, SurplusInv, [Next]_vars
    PROVE  SurplusInv'
<1> SUFFICES ASSUME NEW a \in Audits, counted'[a] > Own(a)'
             PROVE  \E l \in Loaders : load'[l] # "scan" /\ a \in seen'[l]
  BY DEF SurplusInv
<1> USE DEF IInv, TypeOK, MaxCount
<1>1. CASE counted[a] > Own(a)
  BY <1>1, WitnessStep DEF SurplusInv
<1>2. CASE counted[a] <= Own(a)
  <2>1. ASSUME NEW b \in New, AddToStats(b) \/ AddFails(b)
        PROVE  counted'[a] <= Own(a)'
    <3>1. CASE a = b
      BY <1>2, <2>1, <3>1 DEF AddToStats, AddFails, Own
    <3>2. CASE a # b
      BY <1>2, <2>1, <3>2 DEF AddToStats, AddFails, Own
    <3>3. QED
      BY <3>1, <3>2
  <2>2. ASSUME NEW b \in New, PutAudit(b) PROVE counted'[a] <= Own(a)'
    BY <1>2, <2>2 DEF PutAudit, Own
  <2>3. ASSUME NEW l \in Loaders, PutStats(l)
        PROVE  \/ counted'[a] <= Own(a)'
               \/ a \in seen[l] /\ load'[l] # "scan" /\ seen' = seen
    BY <1>2, <2>3 DEF PutStats, Own
  <2>4. CASE UNCHANGED <<counted, ingest>>
    BY <1>2, <2>4 DEF Own
  <2>5. Own(a)' \in Nat /\ counted'[a] \in Int
    BY TypeStep DEF Own
  <2>6. QED
    BY <2>1, <2>2, <2>3, <2>4, <2>5
    DEF Next, GetStats, ScanPage, TagAudit, Reload, LoadFails, vars
<1>3. Own(a) \in Nat
  BY DEF Own
<1>4. QED
  BY <1>1, <1>2, <1>3

(* add_to_stats against rebuild_stats: how far the totals can be off.  An  *)
(* audit from before STATS is counted once at most; a new one no oftener   *)
(* than its ADD was sent, plus one for a rebuild that saw it before.       *)
THEOREM BoundedCounts == Spec => []CountsBounded
<1>1. Init => SurplusInv
  BY DEF Init, SurplusInv, Own
<1>2. SurplusInv /\ IInv /\ [Next]_vars => SurplusInv'
  BY SurplusStep
<1>3. IInv /\ SurplusInv => CountsBounded
  BY DEF IInv, TypeOK, CountInv, SurplusInv, Own, CountsBounded, MaxCount
<1>4. QED
  BY Invariance, <1>1, <1>2, <1>3, PTL DEF Spec
=============================================================================
