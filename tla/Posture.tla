------------------------------ MODULE Posture ------------------------------
(***************************************************************************)
(* The gauge of the latest audit's findings, one cell per provider and     *)
(* severity (src/reporter/app.py: record_metrics, restore_posture_gauge;   *)
(* the files of src/reporter/telemetry.py and gunicorn.conf.py behind it). *)
(* Its mode is "mostrecent": over all workers of a container the last      *)
(* write of a cell is what a scrape shows, a dead worker's included.       *)
(* Handlers write the cells of their audit one by one, and so does the     *)
(* first scrape each worker serves, from the audits it finds stored.       *)
(* A cell holds the audit it was written from, 0 for none.  Other          *)
(* containers and the Lambda put audits into the same table; their gauges  *)
(* are their own.                                                          *)
(***************************************************************************)
EXTENDS Paging

CONSTANTS
    Providers, Severities,
    Provider,        \* Provider[t]: the provider of audit t
    Here,            \* audits that may be sent to this container
    Workers,
    RestoreLimit,    \* how many audits a restore looks at
    MaxRestarts      \* bound: restarts of workers and containers

ASSUME PostureAssumption ==
    /\ Provider \in [Audits -> Providers]
    /\ Here \subseteq Audits
    /\ RestoreLimit \in Nat \ {0}
    /\ MaxRestarts \in Nat

VARIABLES
    handler,     \* handler[t]: how far ingest got here with audit t
    unset,       \* unset[t]: cells the handler of t has still to write
    gauge,       \* gauge[<<p, s>>]: the audit the cell shows
    restored,    \* workers with _posture_restored
    restore,     \* restore[w]: where restore_posture_gauge is in w
    todo,        \* todo[w]: the cells it has to write, as <<cell, audit>>
    alone,       \* an activity under way that no other one has overlapped
    doubtful,    \* providers whose cells something has interfered with
    unshown,     \* audits in the table that this gauge is not due to show
    restarts     \* restarts so far

postureVars ==
    <<handler, unset, gauge, restored, restore, todo, alone, doubtful, unshown,
      restarts>>
allVars == <<pagingVars, postureVars>>

Cells == Providers \X Severities
CellsOf(t) == {Provider[t]} \X Severities
Of(p) == {t \in stored : Provider[t] = p}

HandlerStates == {"idle", "foreign", "stamped", "metrics", "done"}
Active == {t \in Audits : handler[t] \in {"stamped", "metrics"}}
Restoring == {w \in Workers : restore[w] = "writing"}
(* A handler or a restore is at the cells of p.                            *)
BeingWritten(p) ==
    \/ \E t \in Audits : handler[t] = "metrics" /\ Provider[t] = p
    \/ \E w \in Workers : \E job \in todo[w] : job[1][1] = p

PostureInit ==
    /\ PagingInit
    /\ handler = [t \in Audits |-> IF t \in stored THEN "foreign" ELSE "idle"]
    /\ unset = [t \in Audits |-> {}]
    /\ gauge = [c \in Cells |-> 0]
    /\ restored = {}
    /\ restore = [w \in Workers |-> "idle"]
    /\ todo = [w \in Workers |-> {}]
    /\ alone = {}
    /\ doubtful = {}
    /\ unshown = stored
    /\ restarts = 0

Idle == Active = {} /\ Restoring = {}
(* Whatever is going on is overlapped by what starts now.                  *)
Begin(activity) == alone' = IF Idle THEN {activity} ELSE {}

(* Another container or the Lambda puts an audit.  This gauge does not     *)
(* show it before a restore has read it.                                   *)
OthersPut(t) ==
    /\ handler[t] = "idle"
    /\ Put(t)
    /\ handler' = [handler EXCEPT ![t] = "foreign"]
    /\ unshown' = unshown \cup {t}
    /\ UNCHANGED <<walkVars, unset, gauge, restored, restore, todo, alone,
                   doubtful, restarts>>

(* The handler takes its timestamp, which is later than all taken here;    *)
(* the clocks of others may be ahead, ...                                  *)
Stamp(t) ==
    /\ walk = "off"
    /\ handler[t] = "idle" /\ t \in Here
    /\ \A u \in (t + 1)..MaxTime : handler[u] \in {"idle", "foreign"}
    /\ handler' = [handler EXCEPT ![t] = "stamped"]
    /\ Begin(t)
    /\ UNCHANGED <<pagingVars, unset, gauge, restored, restore, todo, doubtful,
                   unshown, restarts>>

(* ... puts the audit, ...                                                 *)
Store(t) ==
    /\ handler[t] = "stamped"
    /\ Put(t)
    /\ handler' = [handler EXCEPT ![t] = "metrics"]
    /\ unset' = [unset EXCEPT ![t] = CellsOf(t)]
    /\ UNCHANGED <<walkVars, gauge, restored, restore, todo, alone, doubtful,
                   unshown, restarts>>

(* ... and record_metrics sets one cell after the other.  Written alone,   *)
(* they leave no doubt about the provider any more: it shows this audit,   *)
(* and not those with a later timestamp that others have put.              *)
SetCell(t) ==
    /\ handler[t] = "metrics"
    /\ \E c \in unset[t] :
           /\ gauge' = [gauge EXCEPT ![c] = t]
           /\ unset' = [unset EXCEPT ![t] = @ \ {c}]
    /\ handler' = IF unset'[t] = {} THEN [handler EXCEPT ![t] = "done"] ELSE handler
    /\ alone' = IF unset'[t] = {} THEN alone \ {t} ELSE alone
    /\ IF unset'[t] # {}
       THEN UNCHANGED <<doubtful, unshown>>
       ELSE IF t \in alone
       THEN /\ doubtful' = doubtful \ {Provider[t]}
            /\ unshown' = (unshown \ Of(Provider[t]))
                              \cup {u \in Of(Provider[t]) : u > t}
       ELSE doubtful' = doubtful \cup {Provider[t]} /\ UNCHANGED unshown
    /\ UNCHANGED <<pagingVars, restored, restore, todo, restarts>>

(* The put raises, with the item there or not, or the worker dies.         *)
HandlerEnds(t) ==
    /\ \/ handler[t] = "stamped" /\ Put(t) /\ unshown' = unshown \cup {t}
          /\ UNCHANGED doubtful
       \/ handler[t] = "stamped" /\ UNCHANGED <<storeVars, unshown, doubtful>>
       \/ /\ handler[t] = "metrics" /\ UNCHANGED <<storeVars, unshown>>
          /\ doubtful' = doubtful \cup {Provider[t]}
    /\ handler' = [handler EXCEPT ![t] = "done"]
    /\ unset' = [unset EXCEPT ![t] = {}]
    /\ alone' = alone \ {t}
    /\ UNCHANGED <<walkVars, gauge, restored, restore, todo, restarts>>

(* Mutant: the last audit of a provider in a page overwrites the others.   *)
LastOf(items) ==
    {t \in items : \A u \in items : Provider[u] = Provider[t] => t <= u}
(* latest.setdefault over a page that is newest first.                     *)
Latest(items) ==
    {t \in items : \A u \in items : Provider[u] = Provider[t] => u <= t}

(* A scrape of worker w, the first one: restore_posture_gauge reads a page  *)
(* of audits, ...  Alone, and from a page that lacks nothing, it leaves no *)
(* doubt about the providers on the page.                                  *)
Scrape(w) ==
    /\ walk = "off"
    /\ restore[w] = "idle" /\ w \notin restored
    /\ \E items \in SUBSET stored :
           /\ QueryAuditPage(RestoreLimit, items)
           /\ todo' = [todo EXCEPT ![w] =
                           UNION {CellsOf(t) \X {t} : t \in Latest(items)}]
           /\ alone' = IF Idle /\ items = Newest(stored, RestoreLimit) THEN {w} ELSE {}
           /\ doubtful' = IF w \in alone' THEN doubtful \ {Provider[t] : t \in items}
                          ELSE doubtful
           /\ unshown' = unshown \ items
    /\ restore' = [restore EXCEPT ![w] = "writing"]
    /\ UNCHANGED <<pagingVars, handler, unset, gauge, restored, restarts>>

(* ... sets the cells of the latest of each provider, ...                  *)
RestoreCell(w) ==
    /\ restore[w] = "writing"
    /\ \E job \in todo[w] :
           /\ gauge' = [gauge EXCEPT ![job[1]] = job[2]]
           /\ todo' = [todo EXCEPT ![w] = @ \ {job}]
           /\ doubtful' = IF w \in alone THEN doubtful ELSE doubtful \cup {job[1][1]}
    /\ UNCHANGED <<pagingVars, handler, unset, restored, restore, alone, unshown,
                   restarts>>

(* ... and is not run by this worker again.                                *)
RestoreEnds(w) ==
    /\ restore[w] = "writing" /\ todo[w] = {}
    /\ restored' = restored \cup {w}
    /\ restore' = [restore EXCEPT ![w] = "idle"]
    /\ alone' = alone \ {w}
    /\ UNCHANGED <<pagingVars, handler, unset, gauge, todo, doubtful, unshown,
                   restarts>>

(* A worker dies; its successor restores again.  What it set stays shown   *)
(* (child_exit keeps the files of this mode).                              *)
WorkerDies(w) ==
    /\ walk = "off"
    /\ restarts < MaxRestarts
    /\ restarts' = restarts + 1
    /\ restored' = restored \ {w}
    /\ restore' = [restore EXCEPT ![w] = "idle"]
    /\ todo' = [todo EXCEPT ![w] = {}]
    /\ doubtful' = doubtful \cup {job[1][1] : job \in todo[w]}
    /\ alone' = alone \ {w}
    /\ UNCHANGED <<pagingVars, handler, unset, gauge, unshown>>

(* on_starting: a new container begins with no files, so the gauge shows   *)
(* nothing, and every request that was being served is gone.               *)
ContainerRestarts ==
    /\ walk = "off"
    /\ restarts < MaxRestarts
    /\ restarts' = restarts + 1
    /\ gauge' = [c \in Cells |-> 0]
    /\ handler' = [t \in Audits |-> IF t \in Active THEN "done" ELSE handler[t]]
    /\ unset' = [t \in Audits |-> {}]
    /\ restored' = {}
    /\ restore' = [w \in Workers |-> "idle"]
    /\ todo' = [w \in Workers |-> {}]
    /\ alone' = {}
    /\ doubtful' = {}
    /\ unshown' = stored
    /\ UNCHANGED pagingVars

IngestStep(t) == Stamp(t) \/ Store(t) \/ SetCell(t) \/ HandlerEnds(t)
RestoreStep(w) == Scrape(w) \/ RestoreCell(w) \/ RestoreEnds(w)
IndexFollows == ((\E t \in Audits : List(t)) \/ CreateIndex) /\ UNCHANGED walkVars

(* Others put audits and the index follows all the time.  A behaviour has  *)
(* besides either a reader of pages, who writes nothing and to whom this   *)
(* container's puts are like any other's, or its handlers and scrapes.     *)
Next ==
    \/ (IndexFollows \/ WalkStep) /\ UNCHANGED postureVars
    \/ \E t \in Audits : OthersPut(t) \/ IngestStep(t)
    \/ \E w \in Workers : RestoreStep(w) \/ WorkerDies(w)
    \/ ContainerRestarts

Spec == PostureInit /\ [][Next]_allVars
-----------------------------------------------------------------------------
PostureTypeOK ==
    /\ PagingTypeOK
    /\ handler \in [Audits -> HandlerStates]
    /\ unset \in [Audits -> SUBSET Cells]
    /\ gauge \in [Cells -> {0} \cup Audits]
    /\ restored \subseteq Workers
    /\ restore \in [Workers -> {"idle", "writing"}]
    /\ todo \in [Workers -> SUBSET (Cells \X Audits)]
    /\ alone \subseteq Audits \cup Workers
    /\ doubtful \subseteq Providers
    /\ unshown \subseteq stored
    /\ restarts \in 0..MaxRestarts

(* A cell never shows findings that are not on record: what it holds is an *)
(* audit of its provider that is in the table (record_metrics comes after  *)
(* the put, and a restore reads the table).                                *)
GaugeIsReal ==
    \A c \in Cells : gauge[c] # 0 => gauge[c] \in stored /\ Provider[gauge[c]] = c[1]

(* The newest of some audits, 0 if there are none.                         *)
NewestOf(S) == IF S = {} THEN 0 ELSE CHOOSE t \in S : \A u \in S : u <= t

(* "At-risk resources in the most recent audit" (telemetry.py), for what   *)
(* one container can know of it.  Unless its cells are being written, and  *)
(* as long as the last to write them here was overlapped by nothing here,  *)
(* a restore from a lagging index or a cut page counted as an overlap, all *)
(* cells of a provider show its newest audit apart from the unshown ones:  *)
(* those others have put and no restore has read since, those whose put    *)
(* raised here, and those an audit of this container has replaced although *)
(* another clock gave them a later timestamp.  With overlaps the cells may *)
(* mix audits, but real ones.                                              *)
PostureIsLatest ==
    /\ GaugeIsReal
    /\ \A p \in Providers \ doubtful :
           ~BeingWritten(p) =>
               \A s \in Severities : gauge[<<p, s>>] = NewestOf(Of(p) \ unshown)
=============================================================================
