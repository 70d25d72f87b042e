----------------------------- MODULE Dashboard -----------------------------
(***************************************************************************)
(* The dashboard's first page (src/reporter/app.py, load_dashboard) read   *)
(* beside the ingest handlers: a read-through cache in Redis that ingest   *)
(* deletes, readers fill and a TTL clears.  The totals on the page are the *)
(* subject of Totals; here a view is the audits it lists and their flags.  *)
(***************************************************************************)
EXTENDS Ingest

CONSTANTS
    Readers,    \* threads serving GET /
    PageSize,   \* PAGE_SIZE
    Stamp       \* the timestamps of the audits: the index is ordered by them

(* Handlers on different machines stamp their audits: nothing ties the     *)
(* order of the stamps to that of the puts.                                *)
ASSUME DashboardAssumption ==
    /\ PageSize \in Nat \ {0}
    /\ Stamp \in [Deliveries -> Nat]
    /\ \A d, e \in Deliveries : Stamp[d] = Stamp[e] => d = e

VARIABLES
    reader,    \* reader[r]: where a request for the dashboard is
    draft,     \* draft[r]: the view it has put together
    indexed    \* audits the index has caught up with: every query sees them

dashboardVars == <<vars, reader, draft, indexed>>

ReaderStates == {"idle", "query", "fill", "serve"}

DashboardInit ==
    /\ Init
    /\ reader = [r \in Readers |-> "idle"]
    /\ draft = [r \in Readers |-> EmptyView]
    /\ indexed = {}

(* cache.get_json: a hit is served as it is; a Redis error is a miss.      *)
LookUpCache(r) ==
    /\ reader[r] = "idle"
    /\ \/ \E view \in cache :
              /\ reader' = [reader EXCEPT ![r] = "serve"]
              /\ draft' = [draft EXCEPT ![r] = view]
       \/ /\ cache = {} \/ CacheFails
          /\ reader' = [reader EXCEPT ![r] = "query"]
          /\ UNCHANGED draft
    /\ UNCHANGED <<vars, indexed>>

(* ScanIndexForward = False, Limit = PAGE_SIZE.                            *)
Newer(d, audits) == {e \in audits : Stamp[e] > Stamp[d]}
FirstPage(audits) == {d \in audits : Cardinality(Newer(d, audits)) < PageSize}

(* Mutant: everything listed is shown as notified.                         *)
QueryFlagged(r) ==
    /\ reader[r] = "query"
    /\ draft' = [draft EXCEPT ![r] =
                     [listed |-> FirstPage(table), flagged |-> FirstPage(table)]]
    /\ reader' = [reader EXCEPT ![r] = "fill"]
    /\ UNCHANGED <<vars, indexed>>

(* The index may trail the table, and catches up with each audit.          *)
CatchUp(d) ==
    /\ d \in table \ indexed
    /\ indexed' = indexed \cup {d}
    /\ UNCHANGED <<vars, reader, draft>>

(* query_audit_page: the first page of the index.                          *)
QueryAuditPage(r) ==
    /\ reader[r] = "query"
    /\ \E seen \in SUBSET table :
       \E flagged \in SUBSET (notified \cap FirstPage(seen)) :
           /\ indexed \subseteq seen
           /\ StaleReads \/ flagged = notified \cap FirstPage(seen)
           /\ draft' = [draft EXCEPT ![r] =
                            [listed |-> FirstPage(seen), flagged |-> flagged]]
    /\ reader' = [reader EXCEPT ![r] = "fill"]
    /\ UNCHANGED <<vars, indexed>>

(* cache.set_json, with a TTL.                                             *)
FillCache(r) ==
    /\ reader[r] = "fill"
    /\ cache' \in IF CacheFails THEN {{draft[r]}, cache} ELSE {{draft[r]}}
    /\ reader' = [reader EXCEPT ![r] = "serve"]
    /\ UNCHANGED <<pc, tableVars, sideVars, alertVars, draft, indexed>>

(* The page is rendered, or a call raised and the request is a 500.        *)
Serve(r) ==
    /\ reader[r] \in {"query", "serve"}
    /\ reader' = [reader EXCEPT ![r] = "idle"]
    /\ draft' = [draft EXCEPT ![r] = EmptyView]
    /\ UNCHANGED <<vars, indexed>>

(* Mutant: the key is set without a TTL.                                   *)
NeverExpire == FALSE /\ UNCHANGED dashboardVars

(* CACHE_TTL_SECONDS after the fill Redis drops the key.                   *)
Expire ==
    /\ cache # {}
    /\ cache' = {}
    /\ UNCHANGED <<pc, tableVars, sideVars, alertVars, reader, draft, indexed>>

ReaderStep(r) ==
    LookUpCache(r) \/ QueryAuditPage(r) \/ FillCache(r) \/ Serve(r)

(* A request that is being served goes on; a new one need not come.        *)
ReaderProgress(r) == QueryAuditPage(r) \/ FillCache(r) \/ Serve(r)

IngestNext == Next /\ UNCHANGED <<reader, draft, indexed>>

DashboardNext ==
    \/ IngestNext
    \/ Expire
    \/ \E d \in Deliveries : CatchUp(d)
    \/ \E r \in Readers : ReaderStep(r)

DashboardSpec == DashboardInit /\ [][DashboardNext]_dashboardVars

(* Redis expires keys, indexes catch up and requests in progress end.      *)
DashboardFairSpec ==
    /\ DashboardSpec
    /\ WF_dashboardVars(Expire)
    /\ \A r \in Readers : WF_dashboardVars(ReaderProgress(r))
    /\ \A d \in Deliveries : WF_dashboardVars(CatchUp(d))
-----------------------------------------------------------------------------
DashboardTypeOK ==
    /\ TypeOK
    /\ Cardinality(cache) <= 1
    /\ reader \in [Readers -> ReaderStates]
    /\ draft \in [Readers -> Views]
    /\ indexed \subseteq table

Cached == cache \cup {draft[r] : r \in Readers}

(* No view, cached or about to be served, lists an audit that is not       *)
(* stored or shows one as notified that Slack did not accept.              *)
ViewsAreReal ==
    \A view \in Cached :
        view.listed \subseteq table /\ view.flagged \subseteq posted \cap view.listed

(* However fills, deletes and failing Redis calls interleave, a stored     *)
(* audit is missing from the cached page only for a while: from some time  *)
(* on every view in the cache lists it, or a full page of newer audits.    *)
CacheConverges ==
    \A d \in Deliveries :
        d \in table ~>
            [](\A view \in cache :
                   d \in view.listed
                   \/ Cardinality(Newer(d, view.listed)) = PageSize)

=============================================================================
