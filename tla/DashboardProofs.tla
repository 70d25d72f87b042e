-------------------------- MODULE DashboardProofs --------------------------
(***************************************************************************)
(* The ingest handlers beside the dashboard's readers: what IngestProofs   *)
(* shows of the handlers alone survives readers that fill the cache and a  *)
(* TTL that clears it, and no view a reader holds or caches is made up.    *)
(* A view is put together from an earlier state; it stays true because the *)
(* table and what Slack accepted only grow.                                *)
(***************************************************************************)
EXTENDS Dashboard, IngestProofs, FiniteSetTheorems

USE DEF tableVars, sideVars, alertVars

DInv == IInv /\ DashboardTypeOK /\ ViewsAreReal

(* A handler never writes a view: it leaves the cache alone or empties it. *)
LEMMA HandlersOnlyDelete ==
    ASSUME [Next]_vars
    PROVE  cache' \in {{}, cache}
<1>1. ASSUME NEW d \in Deliveries, Step(d)
      PROVE  cache' \in {{}, cache}
  <2>1. CASE DeleteCache(d) \/ DeleteMarkedView(d)
    BY <2>1 DEF DeleteCache, DeleteMarkedView, Uncached
  <2>2. CASE ~(DeleteCache(d) \/ DeleteMarkedView(d))
    BY <1>1, <2>2
    DEF Step, HandlerStep, AlertStep, Admit, Refuse, FindExistingAudit, StorageError,
        PutItem, AddToStats, RecordFindings, RecordMetrics, AlertSlack, AlertError,
        FinishAlert, Respond, PostAlert, FinishDelivery, DeliveryRaises,
        MarkSlackResult, MarkError, Crash
  <2>3. QED
    BY <2>1, <2>2
<1>2. CASE UNCHANGED vars
  BY <1>2 DEF vars
<1>3. QED
  BY <1>1, <1>2 DEF Next

(* Only the type of the cache, of all that IInv says, is about the cache.  *)
LEMMA CacheFrame ==
    ASSUME IInv, cache' \subseteq Views,
           UNCHANGED <<pc, tableVars, sideVars, alertVars>>
    PROVE  IInv'
<1>1. TypeOK'
  BY DEF IInv, TypeOK
<1>2. StoredInv' /\ EffectsInv'
  BY DEF IInv, StoredInv, EffectsInv
<1>3. RowsInv' /\ AlertInv'
  BY DEF IInv, RowsInv, AlertInv
<1>4. QED
  BY <1>1, <1>2, <1>3 DEF IInv

(* At most one view is cached, before and after.                           *)
LEMMA OneView ==
    ASSUME NEW view
    PROVE  Cardinality({}) <= 1 /\ Cardinality({view}) <= 1
<1>1. Cardinality({}) = 0 /\ IsFiniteSet({})
  BY FS_EmptySet
<1>2. Cardinality({} \cup {view}) = 1
  BY <1>1, FS_AddElement
<1>3. {} \cup {view} = {view}
  OBVIOUS
<1>4. QED
  BY <1>1, <1>2, <1>3

(* The invariant holds at the start.                                       *)
LEMMA InitDInv == DashboardInit => DInv
<1> SUFFICES ASSUME DashboardInit PROVE DInv
  OBVIOUS
<1>1. IInv /\ EmptyView \in Views
  BY InitIInv DEF DashboardInit, EmptyView, Views
<1>2. DashboardTypeOK
  BY <1>1, OneView DEF DashboardInit, Init, DashboardTypeOK, ReaderStates, IInv
<1>3. ViewsAreReal
  BY DEF DashboardInit, Init, ViewsAreReal, Cached, EmptyView
<1>4. QED
  BY <1>1, <1>2, <1>3 DEF DInv

(* A view that is real stays real while handlers run.                      *)
LEMMA IngestKeepsViews ==
    ASSUME DInv, IngestNext
    PROVE  DInv'
<1>1. IInv'
  BY StepIInv DEF DInv, IngestNext
<1>2. cache' \in {{}, cache} /\ UNCHANGED <<reader, draft, indexed>>
  BY HandlersOnlyDelete DEF IngestNext
<1>3. table \subseteq table' /\ posted \subseteq posted'
  BY NothingShrinks DEF DInv, IngestNext
<1>4. DashboardTypeOK'
  BY <1>1, <1>2, <1>3, OneView DEF DInv, DashboardTypeOK, IInv
<1>5. Cached' \subseteq Cached
  BY <1>2 DEF Cached
<1>6. ViewsAreReal'
  BY <1>3, <1>5 DEF DInv, ViewsAreReal
<1>7. QED
  BY <1>1, <1>4, <1>6 DEF DInv

(* A reader makes its view from the table and the flags as they are.       *)
LEMMA ReaderKeepsViews ==
    ASSUME DInv, NEW r \in Readers, ReaderStep(r)
    PROVE  DInv'
<1> USE DEF DInv, DashboardTypeOK, ReaderStates
<1>1. CASE LookUpCache(r)
  <2>1. UNCHANGED <<pc, tableVars, cache, sideVars, alertVars, indexed>>
    BY <1>1 DEF LookUpCache, vars
  <2>2. reader' \in [Readers -> ReaderStates] /\ draft' \in [Readers -> Views]
    BY <1>1 DEF LookUpCache, IInv, TypeOK
  <2>3. Cached' \subseteq Cached
    BY <1>1, <2>1 DEF LookUpCache, Cached
  <2>4. IInv' /\ DashboardTypeOK'
    BY <2>1, <2>2, CacheFrame DEF IInv, TypeOK
  <2>5. QED
    BY <2>1, <2>3, <2>4 DEF ViewsAreReal
<1>2. CASE QueryAuditPage(r)
  <2>1. UNCHANGED <<pc, tableVars, cache, sideVars, alertVars, indexed>>
    BY <1>2 DEF QueryAuditPage, vars
  <2>2. \E shown \in SUBSET table : \E marked \in SUBSET (notified \cap shown) :
            draft' = [draft EXCEPT ![r] = [listed |-> shown, flagged |-> marked]]
    <3>1. PICK seen \in SUBSET table :
              \E marked \in SUBSET (notified \cap FirstPage(seen)) :
                  draft' = [draft EXCEPT ![r] =
                                [listed |-> FirstPage(seen), flagged |-> marked]]
      BY <1>2 DEF QueryAuditPage
    <3>2. FirstPage(seen) \subseteq table
      BY DEF FirstPage
    <3>3. QED
      BY <3>1, <3>2
  <2> PICK shown \in SUBSET table :
           \E marked \in SUBSET (notified \cap shown) :
               draft' = [draft EXCEPT ![r] = [listed |-> shown, flagged |-> marked]]
    BY <2>2
  <2> PICK marked \in SUBSET (notified \cap shown) :
           draft' = [draft EXCEPT ![r] = [listed |-> shown, flagged |-> marked]]
    OBVIOUS
  <2>3. notified \subseteq posted /\ table \subseteq Deliveries
    BY DEF IInv, TypeOK, AlertInv
  <2>4. [listed |-> shown, flagged |-> marked] \in Views
    BY <2>3 DEF Views, IInv, TypeOK
  <2>5. IInv' /\ DashboardTypeOK'
    BY <1>2, <2>1, <2>4, CacheFrame DEF QueryAuditPage, IInv, TypeOK
  <2>6. \A view \in Cached' : view \in Cached \/ view = [listed |-> shown, flagged |-> marked]
    BY <2>1 DEF Cached
  <2>7. ViewsAreReal'
    BY <2>1, <2>3, <2>6 DEF ViewsAreReal
  <2>8. QED
    BY <2>5, <2>7
<1>3. CASE FillCache(r)
  <2>1. /\ cache' \in {{draft[r]}, cache}
        /\ UNCHANGED <<pc, tableVars, sideVars, alertVars, draft, indexed>>
    BY <1>3 DEF FillCache
  <2>2. cache' \subseteq Views /\ Cardinality(cache') <= 1
    BY <2>1, OneView DEF IInv, TypeOK
  <2>3. IInv'
    BY <2>1, <2>2, CacheFrame
  <2>4. DashboardTypeOK'
    BY <1>3, <2>1, <2>2, <2>3 DEF FillCache, IInv
  <2>5. Cached' \subseteq Cached
    BY <2>1 DEF Cached
  <2>6. QED
    BY <2>1, <2>3, <2>4, <2>5 DEF ViewsAreReal
<1>4. CASE Serve(r)
  <2>1. UNCHANGED <<pc, tableVars, cache, sideVars, alertVars, indexed>>
    BY <1>4 DEF Serve, vars
  <2>2. EmptyView \in Views
    BY DEF EmptyView, Views
  <2>3. IInv' /\ DashboardTypeOK'
    BY <1>4, <2>1, <2>2, CacheFrame DEF Serve, IInv, TypeOK
  <2>4. \A view \in Cached' : view \in Cached \/ view = EmptyView
    BY <1>4, <2>1 DEF Serve, Cached
  <2>5. ViewsAreReal'
    BY <2>1, <2>4 DEF ViewsAreReal, EmptyView
  <2>6. QED
    BY <2>3, <2>5
<1>5. QED
  BY <1>1, <1>2, <1>3, <1>4 DEF ReaderStep

(* The handlers' invariant and the views' hold together.                   *)
THEOREM DashboardInvariance == DashboardSpec => []DInv
<1>1. DInv /\ [DashboardNext]_dashboardVars => DInv'
  <2> SUFFICES ASSUME DInv, [DashboardNext]_dashboardVars PROVE DInv'
    OBVIOUS
  <2>1. CASE Expire
    <3>1. cache' = {} /\ UNCHANGED <<pc, tableVars, sideVars, alertVars, reader, draft, indexed>>
      BY <2>1 DEF Expire
    <3>2. IInv'
      BY <3>1, CacheFrame DEF DInv
    <3>3. QED
      BY <3>1, <3>2, OneView DEF DInv, DashboardTypeOK, ViewsAreReal, Cached, IInv
  <2>2. CASE UNCHANGED dashboardVars
    <3>1. UNCHANGED <<pc, tableVars, cache, sideVars, alertVars, reader, draft, indexed>>
      BY <2>2 DEF dashboardVars, vars
    <3>2. IInv'
      BY <3>1, CacheFrame DEF DInv, IInv, TypeOK
    <3>3. QED
      BY <3>1, <3>2 DEF DInv, DashboardTypeOK, ViewsAreReal, Cached, IInv
  <2>3. ASSUME NEW d \in Deliveries, CatchUp(d)
        PROVE  DInv'
    <3>1. UNCHANGED <<pc, tableVars, cache, sideVars, alertVars, reader, draft>>
      BY <2>3 DEF CatchUp, vars
    <3>2. IInv'
      BY <3>1, CacheFrame DEF DInv, IInv, TypeOK
    <3>3. indexed' \subseteq table'
      BY <2>3, <3>1 DEF CatchUp, DInv, DashboardTypeOK
    <3>4. QED
      BY <3>1, <3>2, <3>3 DEF DInv, DashboardTypeOK, ViewsAreReal, Cached, IInv
  <2>4. QED
    BY <2>1, <2>2, <2>3, IngestKeepsViews, ReaderKeepsViews DEF DashboardNext
<1>2. QED
  BY InitDInv, <1>1, PTL DEF DashboardSpec

(* Handlers, readers and the cache are well typed; Redis holds one view    *)
(* under the dashboard's key, or none.                                     *)
THEOREM DashboardTypeCorrect == DashboardSpec => []DashboardTypeOK
<1>1. DInv => DashboardTypeOK
  BY DEF DInv
<1>2. QED
  BY <1>1, DashboardInvariance, PTL

(* load_dashboard and its cache: no view, cached or about to be served,    *)
(* lists an audit that is not stored or shows one as notified that Slack   *)
(* did not accept.                                                         *)
THEOREM RealViews == DashboardSpec => []ViewsAreReal
<1>1. DInv => ViewsAreReal
  BY DEF DInv
<1>2. QED
  BY <1>1, DashboardInvariance, PTL

(* ingest_findings beside load_dashboard: also when readers fill the cache *)
(* an acknowledged audit is stored, its effects are those of stored        *)
(* audits, a duplicate leaves no trace and a 201 tells the truth.          *)
THEOREM IngestSafeWithReaders ==
    DashboardSpec => [](/\ AckedIsStored /\ EffectsBacked
                        /\ DuplicateLeavesNoTrace /\ SuccessIsTruthful)
<1>1. IInv => AckedIsStored
  BY DEF IInv, StoredInv, AckedIsStored, Acked, AfterPut, ItemsOf
<1>2. IInv => DuplicateLeavesNoTrace
  BY DEF IInv, TypeOK, Tallies, StoredInv, EffectsInv, AfterPut,
         DuplicateLeavesNoTrace
<1>3. IInv => SuccessIsTruthful
  BY DEF IInv, RowsInv, AlertInv, SuccessIsTruthful
<1>4. DInv => /\ AckedIsStored /\ EffectsBacked
              /\ DuplicateLeavesNoTrace /\ SuccessIsTruthful
  BY <1>1, <1>2, <1>3, BackedEffects DEF DInv
<1>5. QED
  BY <1>4, DashboardInvariance, PTL

(* A step beside the handlers touches nothing the handlers have recorded,  *)
(* answered or posted.                                                     *)
LEMMA ReadersOnlyCache ==
    ASSUME [DashboardNext]_dashboardVars, ~IngestNext
    PROVE  UNCHANGED <<pc, tableVars, sideVars, alertVars>>
<1>1. CASE Expire
  BY <1>1 DEF Expire
<1>2. ASSUME NEW r \in Readers, ReaderStep(r)
      PROVE  UNCHANGED <<pc, tableVars, sideVars, alertVars>>
  BY <1>2 DEF ReaderStep, LookUpCache, QueryAuditPage, FillCache, Serve, vars
<1>3. ASSUME NEW d \in Deliveries, CatchUp(d)
      PROVE  UNCHANGED <<pc, tableVars, sideVars, alertVars>>
  BY <1>3 DEF CatchUp, vars
<1>4. CASE UNCHANGED dashboardVars
  BY <1>4 DEF dashboardVars, vars
<1>5. QED
  BY <1>1, <1>2, <1>3, <1>4 DEF DashboardNext

(* Nothing is taken back beside readers and a cache that expires: what a   *)
(* reader writes is only ever a view, never a flag or an item.             *)
THEOREM NothingTakenBackWithReaders == DashboardSpec => NothingTakenBack
<1>1. DInv /\ [DashboardNext]_dashboardVars =>
          [/\ table \subseteq table' /\ rows \subseteq rows'
           /\ posted \subseteq posted' /\ notified \subseteq notified']_vars
  <2>1. ASSUME DInv, IngestNext
        PROVE  /\ table \subseteq table' /\ rows \subseteq rows'
               /\ posted \subseteq posted' /\ notified \subseteq notified'
    BY <2>1, NothingShrinks DEF DInv, IngestNext
  <2>2. QED
    BY <2>1, ReadersOnlyCache
<1>2. QED
  BY <1>1, DashboardInvariance, PTL DEF DashboardSpec, NothingTakenBack

(* The dashboard is invisible in the audit log: handlers beside readers    *)
(* still implement it.                                                     *)
THEOREM ImplementationWithReaders == DashboardSpec => ImplementsAuditLog
<1>1. DashboardInit => Log!Init
  BY DEF DashboardInit, Init, Log!Init, Acked
<1>2. DInv /\ DInv' /\ [DashboardNext]_dashboardVars => [Log!Next]_(Log!logVars)
  <2> SUFFICES ASSUME DInv, DInv', [DashboardNext]_dashboardVars
               PROVE  Log!Next \/ UNCHANGED Log!logVars
    OBVIOUS
  <2>1. UNCHANGED logState => UNCHANGED Log!logVars
    BY DEF Log!logVars, logState, StoredIds, AckedIds, Ackers, IndexedIds, AlertedIds
  <2>2. CASE IngestNext
    BY <2>1, <2>2, LogStep DEF DInv, IngestNext, Next
  <2>3. CASE ~IngestNext
    <3>1. UNCHANGED <<pc, table, rows, posted>>
      BY <2>3, ReadersOnlyCache
    <3>2. QED
      BY <2>1, <3>1, Invisible DEF Ackers
  <2>4. QED
    BY <2>2, <2>3
<1>3. QED
  BY <1>1, <1>2, DashboardInvariance, PTL DEF DashboardSpec, Log!Spec, ImplementsAuditLog
=============================================================================
