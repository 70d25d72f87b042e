------------------------------- MODULE Totals -------------------------------
(***************************************************************************)
(* The dashboard's running totals (src/reporter/app.py: load_stats,        *)
(* rebuild_stats, add_to_stats): one STATS item beside the audits.  Every  *)
(* ingest adds to it; a dashboard read that finds it missing rebuilds it   *)
(* from a scan of the whole table and, on the way, tags audits written     *)
(* before recordType existed so that the byTimestamp index lists them.     *)
(*                                                                         *)
(* The totals are kept as a count per audit, counted[a]: how many times a  *)
(* is included in the sums of the STATS item.                              *)
(***************************************************************************)
EXTENDS Integers, FiniteSets

CONSTANTS
    Audits,        \* audits that may be in the table
    Legacy,        \* those written before recordType and STATS existed
    Loaders,       \* dashboard reads that missed the cache
    SdkAttempts,   \* how often botocore may send one ADD
    StaleReads     \* a read may miss a recent write (no ConsistentRead)

ASSUME TotalsAssumption ==
    /\ Legacy \subseteq Audits
    /\ SdkAttempts \in Nat \ {0}
    /\ StaleReads \in BOOLEAN

VARIABLES
    items,      \* audits in the table
    tagged,     \* audits with a recordType: the ones the index lists
    present,    \* the STATS item exists
    counted,    \* counted[a]: how often STATS includes audit a
    ingest,     \* ingest[a]: the handler storing audit a
    load,       \* load[l]: where a dashboard read is
    unread,     \* unread[l]: keys l's scan has not reached
    seen,       \* seen[l]: audits l's scan returned
    untagged    \* untagged[l]: those it returned without a recordType

vars == <<items, tagged, present, counted, ingest, load, unread, seen,
          untagged>>
tableVars == <<items, tagged, present, counted>>
loaderVars == <<load, unread, seen, untagged>>

New == Audits \ Legacy
IngestStates == {"idle", "stored", "added", "uncounted"}
Loaded == {"loaded", "rebuilt", "reloaded"}
LoadStates == {"idle", "scan", "tag", "reload", "failed"} \cup Loaded

MaxCount == SdkAttempts + 1

Init ==
    /\ items = Legacy
    /\ tagged = {}
    /\ present = FALSE
    /\ counted = [a \in Audits |-> 0]
    /\ ingest = [a \in New |-> "idle"]
    /\ load = [l \in Loaders |-> "idle"]
    /\ unread = [l \in Loaders |-> {}]
    /\ seen = [l \in Loaders |-> {}]
    /\ untagged = [l \in Loaders |-> {}]

(* ingest_findings stores the audit, with its recordType, ...              *)
PutAudit(a) ==
    /\ ingest[a] = "idle"
    /\ items' = items \cup {a}
    /\ tagged' = tagged \cup {a}
    /\ ingest' = [ingest EXCEPT ![a] = "stored"]
    /\ UNCHANGED <<present, counted, loaderVars>>

(* Mutant: the handler repeats an ADD it is not sure of.                   *)
AddTwice(a) ==
    /\ ingest[a] = "stored"
    /\ \E landed \in 1..SdkAttempts + 1 :
           counted' = [counted EXCEPT ![a] = @ + landed]
    /\ present' = TRUE
    /\ ingest' = [ingest EXCEPT ![a] = "added"]
    /\ UNCHANGED <<items, tagged, loaderVars>>

(* ... then adds it to STATS.  ADD creates the item when it is missing,    *)
(* and a lost answer makes botocore send it again.                         *)
AddToStats(a) ==
    /\ ingest[a] = "stored"
    /\ \E landed \in 1..SdkAttempts :
           counted' = [counted EXCEPT ![a] = @ + landed]
    /\ present' = TRUE
    /\ ingest' = [ingest EXCEPT ![a] = "added"]
    /\ UNCHANGED <<items, tagged, loaderVars>>

(* The call raises, which is logged and swallowed, or the worker dies; the *)
(* ADD may have landed all the same.                                       *)
AddFails(a) ==
    /\ ingest[a] = "stored"
    /\ \E landed \in 0..SdkAttempts :
           /\ counted' = [counted EXCEPT ![a] = @ + landed]
           /\ present' = (present \/ landed > 0)
    /\ ingest' = [ingest EXCEPT ![a] = "uncounted"]
    /\ UNCHANGED <<items, tagged, loaderVars>>

(* load_stats: the item is there, or the read does not show it.            *)
GetStats(l) ==
    /\ load[l] = "idle"
    /\ \/ /\ present
          /\ load' = [load EXCEPT ![l] = "loaded"]
          /\ UNCHANGED unread
       \/ /\ ~present \/ StaleReads
          /\ load' = [load EXCEPT ![l] = "scan"]
          /\ unread' = [unread EXCEPT ![l] = Audits]
    /\ UNCHANGED <<tableVars, ingest, seen, untagged>>

(* Mutant: LastEvaluatedKey is ignored, the first page is the scan.        *)
ScanFirstPage(l) ==
    /\ load[l] = "scan"
    /\ \E page \in SUBSET unread[l] \ {{}} :
           /\ seen' = [seen EXCEPT ![l] = page \cap items]
           /\ untagged' = [untagged EXCEPT ![l] = (page \cap items) \ tagged]
    /\ load' = [load EXCEPT ![l] = "tag"]
    /\ UNCHANGED <<tableVars, ingest, unread>>

(* One page of _scan_all_audits: some keys not yet reached, and the audits *)
(* stored there by now.  A stale page may miss what ingest just stored.    *)
ScanPage(l) ==
    /\ load[l] = "scan"
    /\ \E page \in SUBSET unread[l] \ {{}} :
       \E got \in SUBSET (page \cap items) :
           /\ page \cap (IF StaleReads THEN Legacy ELSE items) \subseteq got
           /\ unread' = [unread EXCEPT ![l] = @ \ page]
           /\ seen' = [seen EXCEPT ![l] = @ \cup got]
           /\ untagged' = [untagged EXCEPT ![l] = @ \cup (got \ tagged)]
    /\ load' = [load EXCEPT ![l] = IF unread'[l] = {} THEN "tag" ELSE @]
    /\ UNCHANGED <<tableVars, ingest>>

TagAudit(l) ==
    /\ load[l] = "tag"
    /\ \E a \in untagged[l] :
           /\ tagged' = tagged \cup {a}
           /\ untagged' = [untagged EXCEPT ![l] = @ \ {a}]
    /\ UNCHANGED <<items, present, counted, ingest, load, unread, seen>>

(* Mutants: put_item without its condition; the totals are written before  *)
(* the audits are tagged.                                                  *)
PutUnconditionally(l) ==
    /\ load[l] = "tag"
    /\ untagged[l] = {}
    /\ present' = TRUE
    /\ counted' = [a \in Audits |-> IF a \in seen[l] THEN 1 ELSE 0]
    /\ load' = [load EXCEPT ![l] = "rebuilt"]
    /\ UNCHANGED <<items, tagged, ingest, unread, seen, untagged>>
PutBeforeTagging(l) ==
    /\ load[l] = "tag"
    /\ ~present /\ present' = TRUE
    /\ counted' = [a \in Audits |-> IF a \in seen[l] THEN 1 ELSE 0]
    /\ load' = [load EXCEPT ![l] = "rebuilt"]
    /\ UNCHANGED <<items, tagged, ingest, unread, seen, untagged>>

(* put_item with attribute_not_exists: the first to create STATS wins.  If *)
(* the answer to the winner is lost, its put is sent again and refused, or *)
(* raises.                                                                 *)
PutStats(l) ==
    /\ load[l] = "tag"
    /\ untagged[l] = {}
    /\ \/ /\ ~present
          /\ present' = TRUE
          /\ counted' = [a \in Audits |-> IF a \in seen[l] THEN 1 ELSE 0]
          /\ \E next \in {"rebuilt", "reload", "failed"} :
                 load' = [load EXCEPT ![l] = next]
       \/ /\ present
          /\ load' = [load EXCEPT ![l] = "reload"]
          /\ UNCHANGED <<present, counted>>
    /\ UNCHANGED <<items, tagged, ingest, unread, seen, untagged>>

(* load_stats(rebuild=False)                                               *)
Reload(l) ==
    /\ load[l] = "reload"
    /\ load' = [load EXCEPT ![l] = "reloaded"]
    /\ UNCHANGED <<tableVars, ingest, unread, seen, untagged>>

(* Any of the calls raises: the read ends in a 500 and keeps nothing.      *)
LoadFails(l) ==
    /\ load[l] \in {"idle", "scan", "tag", "reload"}
    /\ load' = [load EXCEPT ![l] = "failed"]
    /\ UNCHANGED <<tableVars, ingest, unread, seen, untagged>>

Next ==
    \/ \E a \in New : PutAudit(a) \/ AddToStats(a) \/ AddFails(a)
    \/ \E l \in Loaders :
           \/ GetStats(l) \/ ScanPage(l) \/ TagAudit(l) \/ PutStats(l)
           \/ Reload(l) \/ LoadFails(l)

Spec == Init /\ [][Next]_vars
-----------------------------------------------------------------------------
TypeOK ==
    /\ Legacy \subseteq items /\ items \subseteq Audits
    /\ tagged \subseteq items
    /\ present \in BOOLEAN
    /\ counted \in [Audits -> 0..MaxCount]
    /\ ingest \in [New -> IngestStates]
    /\ load \in [Loaders -> LoadStates]
    /\ unread \in [Loaders -> SUBSET Audits]
    /\ seen \in [Loaders -> SUBSET items]
    /\ untagged \in [Loaders -> SUBSET Legacy]

(* Totals that a rebuild created include every legacy audit exactly once,  *)
(* and every legacy audit has been tagged by then.                         *)
RebuildIsComplete ==
    (\E l \in Loaders : load[l] = "rebuilt") =>
        \A a \in Legacy : a \in tagged /\ counted[a] = 1

(* An audit whose ADD succeeded stays in the totals: a rebuild running     *)
(* beside it never writes totals without it.                               *)
AddedIsCounted == \A a \in New : ingest[a] = "added" => counted[a] >= 1

(* Only stored audits are counted, a legacy audit once at most, and a new  *)
(* one no oftener than its ADD was sent, plus one for a rebuild that saw   *)
(* it before.                                                              *)
CountsBounded ==
    \A a \in Audits :
        /\ counted[a] > 0 => a \in items /\ present
        /\ a \in Legacy => counted[a] <= 1
        /\ counted[a] > SdkAttempts =>
               \E l \in Loaders : load[l] # "scan" /\ a \in seen[l]

(* Once there are totals they are never reset: no count ever shrinks.      *)
TotalsOnlyGrow ==
    [][present => /\ present'
                  /\ \A a \in Audits : counted'[a] >= counted[a]]_vars

(* load_dashboard: "loading [the totals] tags the legacy audits so the     *)
(* page query below can see them".                                         *)
LoadTagsLegacy ==
    (\E l \in Loaders : load[l] \in Loaded) => Legacy \subseteq tagged

=============================================================================
