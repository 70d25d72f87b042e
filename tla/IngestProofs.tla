---------------------------- MODULE IngestProofs ----------------------------
(***************************************************************************)
(* What holds of the ingest handlers of module Ingest for any number of    *)
(* deliveries, any audit ids, payloads and configuration: type             *)
(* correctness, the safety properties the runs check, and that the         *)
(* handlers implement AuditLog.                                            *)
(*                                                                         *)
(* None of the properties is inductive by itself.  IInv adds what ties a   *)
(* handler's place in the code to what it has left behind: it is past the  *)
(* put exactly when its item is in the table, its alert exists only after  *)
(* the put and only for findings, and the flag is written only once the    *)
(* outcome of the delivery is known.                                       *)
(***************************************************************************)
EXTENDS Ingest, TLAPS

USE DEF tableVars, sideVars, alertVars

(* Where a handler is once its item has been put.                          *)
AfterPut == {"stats", "invalidate", "index", "metrics", "alert", "alerting",
             "respond", "created"}

(* An item is in the table from the moment its handler passes the put, and *)
(* a duplicate was answered because of an item that is still there.        *)
StoredInv ==
    \A d \in Deliveries :
        /\ pc[d] \in AfterPut => d \in table
        /\ d \in table => pc[d] \in AfterPut \cup {"error", "crashed"}
        /\ pc[d] = "duplicate" => \E e \in table : AuditId[e] = AuditId[d]

(* Whatever a delivery leaves elsewhere is left by a handler past its put. *)
EffectsInv ==
    \A d \in Deliveries :
        /\ tally[d] > 0 => d \in table
        /\ d \in metered => d \in table
        /\ pc[d] \in {"alert", "alerting"} => Findings[d] # {}
        /\ slack[d] # "none" =>
               /\ d \in table /\ Findings[d] # {}
               /\ pc[d] \in {"alerting", "respond", "created", "error", "crashed"}
        /\ d \in posted => slack[d] # "none"

RowsInv ==
    /\ \A r \in rows : \E d \in table : AuditId[d] = r[1] /\ r[2] \in Findings[d]
    /\ \A d \in confirmed : RowsOf(d) \subseteq rows

(* The flag follows the outcome, the outcome follows the post, and a       *)
(* handler answers 201 only when the alert is on its way or settled, and   *)
(* waits only for one that is.                                             *)
AlertInv ==
    \A d \in Deliveries :
        /\ slack[d] = "sent" => d \in posted
        /\ d \in notified =>
               d \in posted /\ slack[d] \in {"marked", "done", "unmarked", "lost"}
        /\ pc[d] \in {"respond", "created"} /\ Webhook /\ Findings[d] # {} =>
               slack[d] \in IF d \in Async THEN AlertStates \ {"none", "skipped"}
                            ELSE {"done"}
        /\ pc[d] = "alerting" => slack[d] \in InFlight \cup {"done", "unmarked"}

IInv == TypeOK /\ StoredInv /\ EffectsInv /\ RowsInv /\ AlertInv

(* Every step keeps the types.                                             *)
LEMMA TypeStep ==
    ASSUME TypeOK, [Next]_vars
    PROVE  TypeOK'
<1>1. ASSUME NEW d \in Deliveries, Step(d)
      PROVE  TypeOK'
  <2>1. CASE Admit(d)
    BY <2>1 DEF Admit, FirstCall, TypeOK, Goto, HandlerStates, Running
  <2>2. CASE Refuse(d)
    BY <2>2 DEF Refuse, TypeOK, Goto, HandlerStates, Answered
  <2>3. CASE FindExistingAudit(d)
    BY <2>3
    DEF FindExistingAudit, Found, Missing, TypeOK, Goto, HandlerStates, Running, Answered,
        Acked
  <2>4. CASE StorageError(d)
    BY <2>4 DEF StorageError, TypeOK, Goto, HandlerStates, Answered
  <2>5. CASE PutItem(d)
    BY <2>5 DEF PutItem, TypeOK, Goto, HandlerStates, Running, Answered
  <2>6. CASE AddToStats(d)
    BY <2>6 DEF AddToStats, TypeOK, Goto, HandlerStates, Running, Tallies
  <2>7. CASE DeleteCache(d)
    BY <2>7 DEF DeleteCache, TypeOK, Goto, HandlerStates, Running, Uncached
  <2>8. CASE RecordFindings(d)
    BY <2>8, DeliveriesAssumption, PayloadAssumption
    DEF RecordFindings, TypeOK, Goto, HandlerStates, Running, RowsOf
  <2>9. CASE RecordMetrics(d)
    BY <2>9 DEF RecordMetrics, TypeOK, Goto, HandlerStates, Running
  <2>10. CASE AlertSlack(d)
    BY <2>10
    DEF AlertSlack, AlertAll, TypeOK, Goto, HandlerStates, Running, AlertStates, InFlight
  <2>11. CASE AlertError(d)
    BY <2>11 DEF AlertError, TypeOK, Goto, HandlerStates, Answered
  <2>12. CASE FinishAlert(d)
    BY <2>12 DEF FinishAlert, TypeOK, Goto, HandlerStates, Running, Answered
  <2>13. CASE Respond(d)
    BY <2>13 DEF Respond, TypeOK, Goto, HandlerStates, Answered, Acked
  <2>14. CASE PostAlert(d)
    BY <2>14 DEF PostAlert, TypeOK
  <2>15. CASE FinishDelivery(d)
    BY <2>15 DEF FinishDelivery, TypeOK, AlertStates, InFlight
  <2>16. CASE MarkSlackResult(d)
    BY <2>16 DEF MarkSlackResult, TypeOK, AlertStates, InFlight, Flag
  <2>17. CASE MarkError(d)
    BY <2>17 DEF MarkError, TypeOK, AlertStates, Flag
  <2>18. CASE DeleteMarkedView(d)
    BY <2>18 DEF DeleteMarkedView, TypeOK, AlertStates, Uncached
  <2>19. CASE Crash(d)
    BY <2>19 DEF Crash, TypeOK, HandlerStates, AlertStates
  <2>20. CASE DeliveryRaises(d)
    BY <2>20 DEF DeliveryRaises, TypeOK, Goto, HandlerStates, Answered, AlertStates
  <2>21. QED
    BY <1>1, <2>1, <2>2, <2>3, <2>4, <2>5, <2>6, <2>7, <2>8, <2>9, <2>10,
       <2>11, <2>12, <2>13, <2>14, <2>15, <2>16, <2>17, <2>18, <2>19, <2>20
    DEF Step, HandlerStep, AlertStep
<1>2. CASE UNCHANGED vars
    BY <1>2 DEF vars, TypeOK
<1>3. QED
    BY <1>1, <1>2 DEF Next

(* ... and which handlers are past their put.                              *)
LEMMA StoredStep ==
    ASSUME TypeOK, StoredInv, [Next]_vars
    PROVE  StoredInv'
<1>1. ASSUME NEW d \in Deliveries, Step(d)
      PROVE  StoredInv'
  <2>1. CASE Admit(d)
    BY <2>1 DEF Admit, FirstCall, StoredInv, Goto, AfterPut
  <2>2. CASE Refuse(d)
    BY <2>2 DEF Refuse, StoredInv, Goto, AfterPut
  <2>3. CASE FindExistingAudit(d)
    BY <2>3 DEF FindExistingAudit, Found, Missing, TypeOK, StoredInv, Goto, AfterPut, ItemsOf
  <2>4. CASE StorageError(d)
    BY <2>4 DEF StorageError, TypeOK, StoredInv, Goto, AfterPut
  <2>5. CASE PutItem(d)
    BY <2>5 DEF PutItem, TypeOK, StoredInv, Goto, AfterPut
  <2>6. CASE AddToStats(d)
    BY <2>6 DEF AddToStats, StoredInv, Goto, AfterPut
  <2>7. CASE DeleteCache(d)
    BY <2>7 DEF DeleteCache, StoredInv, Goto, AfterPut
  <2>8. CASE RecordFindings(d)
    BY <2>8 DEF RecordFindings, StoredInv, Goto, AfterPut
  <2>9. CASE RecordMetrics(d)
    BY <2>9 DEF RecordMetrics, StoredInv, Goto, AfterPut
  <2>10. CASE AlertSlack(d)
    BY <2>10 DEF AlertSlack, StoredInv, Goto, AfterPut
  <2>11. CASE AlertError(d)
    BY <2>11 DEF AlertError, StoredInv, Goto, AfterPut
  <2>12. CASE FinishAlert(d)
    BY <2>12 DEF FinishAlert, TypeOK, StoredInv, Goto, AfterPut
  <2>13. CASE Respond(d)
    BY <2>13 DEF Respond, StoredInv, Goto, AfterPut
  <2>14. CASE PostAlert(d)
    BY <2>14 DEF PostAlert, StoredInv
  <2>15. CASE FinishDelivery(d)
    BY <2>15 DEF FinishDelivery, StoredInv
  <2>16. CASE MarkSlackResult(d)
    BY <2>16 DEF MarkSlackResult, StoredInv
  <2>17. CASE MarkError(d)
    BY <2>17 DEF MarkError, StoredInv
  <2>18. CASE DeleteMarkedView(d)
    BY <2>18 DEF DeleteMarkedView, StoredInv
  <2>19. CASE Crash(d)
    BY <2>19 DEF Crash, StoredInv, AfterPut
  <2>20. CASE DeliveryRaises(d)
    BY <2>20 DEF DeliveryRaises, TypeOK, StoredInv, Goto, AfterPut
  <2>21. QED
    BY <1>1, <2>1, <2>2, <2>3, <2>4, <2>5, <2>6, <2>7, <2>8, <2>9, <2>10,
       <2>11, <2>12, <2>13, <2>14, <2>15, <2>16, <2>17, <2>18, <2>19, <2>20
    DEF Step, HandlerStep, AlertStep
<1>2. CASE UNCHANGED vars
    BY <1>2 DEF vars, StoredInv
<1>3. QED
    BY <1>1, <1>2 DEF Next

(* ... and where effects may be found.                                     *)
LEMMA EffectsStep ==
    ASSUME TypeOK, StoredInv, EffectsInv, [Next]_vars
    PROVE  EffectsInv'
<1>1. ASSUME NEW d \in Deliveries, Step(d)
      PROVE  EffectsInv'
  <2>1. CASE Admit(d)
    BY <2>1 DEF Admit, FirstCall, EffectsInv, Goto
  <2>2. CASE Refuse(d)
    BY <2>2 DEF Refuse, EffectsInv, Goto
  <2>3. CASE FindExistingAudit(d)
    BY <2>3 DEF FindExistingAudit, Found, Missing, TypeOK, EffectsInv, Goto
  <2>4. CASE StorageError(d)
    BY <2>4 DEF StorageError, EffectsInv, Goto
  <2>5. CASE PutItem(d)
    BY <2>5 DEF PutItem, EffectsInv, Goto
  <2>6. CASE AddToStats(d)
    BY <2>6 DEF AddToStats, StoredInv, EffectsInv, Goto, AfterPut
  <2>7. CASE DeleteCache(d)
    BY <2>7 DEF DeleteCache, EffectsInv, Goto
  <2>8. CASE RecordFindings(d)
    BY <2>8 DEF RecordFindings, EffectsInv, Goto
  <2>9. CASE RecordMetrics(d)
    BY <2>9 DEF RecordMetrics, StoredInv, EffectsInv, Goto, AfterPut
  <2>10. CASE AlertSlack(d)
    BY <2>10 DEF AlertSlack, AlertAll, TypeOK, StoredInv, EffectsInv, Goto, AfterPut
  <2>11. CASE AlertError(d)
    BY <2>11 DEF AlertError, EffectsInv, Goto
  <2>12. CASE FinishAlert(d)
    BY <2>12 DEF FinishAlert, TypeOK, EffectsInv, Goto
  <2>13. CASE Respond(d)
    BY <2>13 DEF Respond, EffectsInv, Goto
  <2>14. CASE PostAlert(d)
    BY <2>14 DEF PostAlert, EffectsInv
  <2>15. CASE FinishDelivery(d)
    BY <2>15 DEF FinishDelivery, TypeOK, EffectsInv
  <2>16. CASE MarkSlackResult(d)
    BY <2>16 DEF MarkSlackResult, EffectsInv
  <2>17. CASE MarkError(d)
    BY <2>17 DEF MarkError, EffectsInv
  <2>18. CASE DeleteMarkedView(d)
    BY <2>18 DEF DeleteMarkedView, EffectsInv
  <2>19. CASE Crash(d)
    BY <2>19 DEF Crash, EffectsInv, InFlight
  <2>20. CASE DeliveryRaises(d)
    BY <2>20 DEF DeliveryRaises, TypeOK, EffectsInv, Goto
  <2>21. QED
    BY <1>1, <2>1, <2>2, <2>3, <2>4, <2>5, <2>6, <2>7, <2>8, <2>9, <2>10,
       <2>11, <2>12, <2>13, <2>14, <2>15, <2>16, <2>17, <2>18, <2>19, <2>20
    DEF Step, HandlerStep, AlertStep
<1>2. CASE UNCHANGED vars
    BY <1>2 DEF vars, EffectsInv
<1>3. QED
    BY <1>1, <1>2 DEF Next

(* ... and whose findings the rows are.                                    *)
LEMMA RowsStep ==
    ASSUME TypeOK, StoredInv, RowsInv, [Next]_vars
    PROVE  RowsInv'
<1>1. ASSUME NEW d \in Deliveries, Step(d)
      PROVE  RowsInv'
  <2>1. CASE Admit(d)
    BY <2>1 DEF Admit, FirstCall, RowsInv
  <2>2. CASE Refuse(d)
    BY <2>2 DEF Refuse, RowsInv
  <2>3. CASE FindExistingAudit(d)
    BY <2>3 DEF FindExistingAudit, RowsInv
  <2>4. CASE StorageError(d)
    BY <2>4 DEF StorageError, RowsInv
  <2>5. CASE PutItem(d)
    BY <2>5 DEF PutItem, RowsInv
  <2>6. CASE AddToStats(d)
    BY <2>6 DEF AddToStats, RowsInv
  <2>7. CASE DeleteCache(d)
    BY <2>7 DEF DeleteCache, RowsInv
  <2>8. CASE RecordFindings(d)
    BY <2>8 DEF RecordFindings, StoredInv, RowsInv, Goto, AfterPut, RowsOf
  <2>9. CASE RecordMetrics(d)
    BY <2>9 DEF RecordMetrics, RowsInv
  <2>10. CASE AlertSlack(d)
    BY <2>10 DEF AlertSlack, RowsInv
  <2>11. CASE AlertError(d)
    BY <2>11 DEF AlertError, RowsInv
  <2>12. CASE FinishAlert(d)
    BY <2>12 DEF FinishAlert, RowsInv
  <2>13. CASE Respond(d)
    BY <2>13 DEF Respond, RowsInv
  <2>14. CASE PostAlert(d)
    BY <2>14 DEF PostAlert, RowsInv
  <2>15. CASE FinishDelivery(d)
    BY <2>15 DEF FinishDelivery, RowsInv
  <2>16. CASE MarkSlackResult(d)
    BY <2>16 DEF MarkSlackResult, RowsInv
  <2>17. CASE MarkError(d)
    BY <2>17 DEF MarkError, RowsInv
  <2>18. CASE DeleteMarkedView(d)
    BY <2>18 DEF DeleteMarkedView, RowsInv
  <2>19. CASE Crash(d)
    BY <2>19, DeliveriesAssumption, PayloadAssumption
    DEF Crash, TypeOK, StoredInv, RowsInv, Goto, AfterPut, RowsOf
  <2>20. CASE DeliveryRaises(d)
    BY <2>20 DEF DeliveryRaises, RowsInv
  <2>21. QED
    BY <1>1, <2>1, <2>2, <2>3, <2>4, <2>5, <2>6, <2>7, <2>8, <2>9, <2>10,
       <2>11, <2>12, <2>13, <2>14, <2>15, <2>16, <2>17, <2>18, <2>19, <2>20
    DEF Step, HandlerStep, AlertStep
<1>2. CASE UNCHANGED vars
    BY <1>2 DEF vars, RowsInv
<1>3. QED
    BY <1>1, <1>2 DEF Next

(* ... and what the flag and a 201 say about the alert.                    *)
LEMMA AlertInvStep ==
    ASSUME TypeOK, StoredInv, EffectsInv, AlertInv, [Next]_vars
    PROVE  AlertInv'
<1> USE DEF InFlight
<1>1. ASSUME NEW d \in Deliveries, Step(d)
      PROVE  AlertInv'
  <2>1. CASE Admit(d)
    BY <2>1 DEF Admit, FirstCall, AlertInv, Goto
  <2>2. CASE Refuse(d)
    BY <2>2 DEF Refuse, AlertInv, Goto
  <2>3. CASE FindExistingAudit(d)
    BY <2>3 DEF FindExistingAudit, Found, Missing, TypeOK, AlertInv, Goto
  <2>4. CASE StorageError(d)
    BY <2>4 DEF StorageError, AlertInv, Goto
  <2>5. CASE PutItem(d)
    BY <2>5 DEF PutItem, AlertInv, Goto
  <2>6. CASE AddToStats(d)
    BY <2>6 DEF AddToStats, AlertInv, Goto
  <2>7. CASE DeleteCache(d)
    BY <2>7 DEF DeleteCache, AlertInv, Goto
  <2>8. CASE RecordFindings(d)
    BY <2>8 DEF RecordFindings, AlertInv, Goto
  <2>9. CASE RecordMetrics(d)
    BY <2>9 DEF RecordMetrics, AlertInv, Goto
  <2>10. CASE AlertSlack(d)
    BY <2>10
    DEF AlertSlack, AlertAll, TypeOK, EffectsInv, AlertInv, Goto, InFlight, AlertStates
  <2>11. CASE AlertError(d)
    BY <2>11 DEF AlertError, AlertInv, Goto
  <2>12. CASE FinishAlert(d)
    BY <2>12 DEF FinishAlert, TypeOK, AlertInv, Goto
  <2>13. CASE Respond(d)
    BY <2>13 DEF Respond, AlertInv, Goto
  <2>14. CASE PostAlert(d)
    BY <2>14 DEF PostAlert, AlertInv
  <2>15. CASE FinishDelivery(d)
    BY <2>15 DEF FinishDelivery, TypeOK, AlertInv, InFlight, AlertStates
  <2>16. CASE MarkSlackResult(d)
    BY <2>16 DEF MarkSlackResult, TypeOK, AlertInv, InFlight, AlertStates, Flag
  <2>17. CASE MarkError(d)
    BY <2>17 DEF MarkError, TypeOK, AlertInv, AlertStates, Flag
  <2>18. CASE DeleteMarkedView(d)
    BY <2>18 DEF DeleteMarkedView, AlertInv, AlertStates
  <2>19. CASE Crash(d)
    BY <2>19 DEF Crash, TypeOK, Running, AlertInv, AlertStates
  <2>20. CASE DeliveryRaises(d)
    BY <2>20 DEF DeliveryRaises, TypeOK, AlertInv, Goto
  <2>21. QED
    BY <1>1, <2>1, <2>2, <2>3, <2>4, <2>5, <2>6, <2>7, <2>8, <2>9, <2>10,
       <2>11, <2>12, <2>13, <2>14, <2>15, <2>16, <2>17, <2>18, <2>19, <2>20
    DEF Step, HandlerStep, AlertStep
<1>2. CASE UNCHANGED vars
    BY <1>2 DEF vars, AlertInv
<1>3. QED
    BY <1>1, <1>2 DEF Next

(* The invariant holds at the start, ...                                   *)
LEMMA InitIInv == Init => IInv
  BY DeliveriesAssumption, ConfigurationAssumption
  DEF Init, IInv, TypeOK, StoredInv, EffectsInv, RowsInv, AlertInv, AfterPut,
      HandlerStates, AlertStates, Tallies, Views, EmptyView

(* ... every step keeps it, ...                                            *)
LEMMA StepIInv == IInv /\ [Next]_vars => IInv'
  BY TypeStep, StoredStep, EffectsStep, RowsStep, AlertInvStep DEF IInv

(* ... and so IInv is an inductive invariant of the handlers.              *)
THEOREM Invariance == Spec => []IInv
  BY InitIInv, StepIInv, PTL DEF Spec

(* The state of the handlers and of all they share is well typed.          *)
THEOREM TypeCorrect == Spec => []TypeOK
<1>1. IInv => TypeOK
  BY DEF IInv
<1>2. QED
  BY <1>1, Invariance, PTL

(* An acknowledged audit is stored: no interleaving of retries, lost       *)
(* answers, stale reads and crashes makes the reporter confirm an audit    *)
(* that is not in the table.                                               *)
THEOREM AckedAuditsAreStored == Spec => []AckedIsStored
<1>1. IInv => AckedIsStored
  BY DEF IInv, StoredInv, AckedIsStored, Acked, AfterPut, ItemsOf
<1>2. QED
  BY <1>1, Invariance, PTL

(* An effect is left by a handler past its put, so its audit is stored.    *)
LEMMA BackedEffects == IInv => EffectsBacked
<1> SUFFICES ASSUME IInv PROVE EffectsBacked
  OBVIOUS
<1>1. \A d \in Deliveries : tally[d] > 0 => d \in table
  BY DEF IInv, EffectsInv
<1>2. \A r \in rows : \E d \in ItemsOf(r[1]) : r[2] \in Findings[d]
  BY DEF IInv, RowsInv, ItemsOf
<1>3. metered \subseteq table
  BY DEF IInv, TypeOK, EffectsInv
<1>4. \A d \in posted : d \in table /\ Findings[d] # {}
  BY DEF IInv, TypeOK, EffectsInv
<1>5. QED
  BY <1>1, <1>2, <1>3, <1>4 DEF EffectsBacked

(* Totals, rows, metrics and Slack messages are only about stored audits.  *)
THEOREM EffectsAreBacked == Spec => []EffectsBacked
  BY BackedEffects, Invariance, PTL

(* A delivery answered as a duplicate left nothing of its own behind.      *)
THEOREM DuplicatesLeaveNoTrace == Spec => []DuplicateLeavesNoTrace
<1>1. IInv => DuplicateLeavesNoTrace
  BY DEF IInv, TypeOK, Tallies, StoredInv, EffectsInv, AfterPut,
         DuplicateLeavesNoTrace
<1>2. QED
  BY <1>1, Invariance, PTL

(* A 201 tells the truth about the rows and about the alert.               *)
THEOREM SuccessesAreTruthful == Spec => []SuccessIsTruthful
<1>1. IInv => SuccessIsTruthful
  BY DEF IInv, RowsInv, AlertInv, SuccessIsTruthful
<1>2. QED
  BY <1>1, Invariance, PTL

(* slackNotified is true only of alerts Slack accepted.                    *)
THEOREM FlagsAreTruthful == Spec => []FlagTruthful
<1>1. IInv => FlagTruthful
  BY DEF IInv, TypeOK, AlertInv, FlagTruthful
<1>2. QED
  BY <1>1, Invariance, PTL

(* No step of a handler makes items, rows, messages or flags fewer.        *)
LEMMA NothingShrinks ==
    ASSUME IInv, Next
    PROVE  /\ table \subseteq table' /\ rows \subseteq rows'
           /\ posted \subseteq posted' /\ notified \subseteq notified'
<1>1. PICK d \in Deliveries : Step(d)
  BY DEF Next
<1>2. CASE Admit(d)
  BY <1>2 DEF Admit
<1>3. CASE Refuse(d)
  BY <1>3 DEF Refuse
<1>4. CASE FindExistingAudit(d)
  BY <1>4 DEF FindExistingAudit
<1>5. CASE StorageError(d)
  BY <1>5 DEF StorageError
<1>6. CASE PutItem(d)
  BY <1>6 DEF PutItem
<1>7. CASE AddToStats(d)
  BY <1>7 DEF AddToStats
<1>8. CASE DeleteCache(d)
  BY <1>8 DEF DeleteCache
<1>9. CASE RecordFindings(d)
  BY <1>9 DEF RecordFindings
<1>10. CASE RecordMetrics(d)
  BY <1>10 DEF RecordMetrics
<1>11. CASE AlertSlack(d)
  BY <1>11 DEF AlertSlack
<1>12. CASE AlertError(d)
  BY <1>12 DEF AlertError
<1>13. CASE FinishAlert(d)
  BY <1>13 DEF FinishAlert
<1>14. CASE Respond(d)
  BY <1>14 DEF Respond
<1>15. CASE PostAlert(d)
  BY <1>15 DEF PostAlert
<1>16. CASE FinishDelivery(d)
  BY <1>16 DEF FinishDelivery
<1>17. CASE MarkSlackResult(d)
  BY <1>17 DEF MarkSlackResult, Flag, IInv, AlertInv
<1>18. CASE MarkError(d)
  BY <1>18 DEF MarkError, Flag, IInv, AlertInv
<1>19. CASE DeleteMarkedView(d)
  BY <1>19 DEF DeleteMarkedView
<1>20. CASE Crash(d)
  BY <1>20 DEF Crash
<1>21. CASE DeliveryRaises(d)
  BY <1>21 DEF DeliveryRaises
<1>22. QED
  BY <1>1, <1>2, <1>3, <1>4, <1>5, <1>6, <1>7, <1>8, <1>9, <1>10, <1>11,
     <1>12, <1>13, <1>14, <1>15, <1>16, <1>17, <1>18, <1>19, <1>20, <1>21
  DEF Step, HandlerStep, AlertStep

(* Items, rows, messages and flags are never taken back: every action only *)
(* adds to them, and a failed delivery clears no flag, because the flag of *)
(* an alert still on its way is not set.                                   *)
THEOREM NothingIsTakenBack == Spec => NothingTakenBack
  BY NothingShrinks, Invariance, PTL DEF Spec, NothingTakenBack

-----------------------------------------------------------------------------
(* What a handler may still do, counted in steps that each leave the       *)
(* process at most once, ...                                               *)
HandlerStepsLeft(d) ==
    CASE pc[d] = "idle" -> 10
      [] pc[d] = "lookup" -> 9
      [] pc[d] = "put" -> 8
      [] pc[d] = "stats" -> 7
      [] pc[d] = "invalidate" -> 6
      [] pc[d] = "index" -> 5
      [] pc[d] = "metrics" -> 4
      [] pc[d] = "alert" -> 3
      [] pc[d] = "alerting" -> 2
      [] pc[d] = "respond" -> 1
      [] OTHER -> 0

(* ... and what may still happen to the alert of its audit.                *)
AlertStepsLeft(d) ==
    CASE slack[d] = "none" -> 5
      [] slack[d] = "queued" -> IF d \in posted THEN 3 ELSE 4
      [] slack[d] \in {"sent", "failed"} -> 2
      [] slack[d] = "marked" -> 1
      [] OTHER -> 0

StepsLeft(d) == HandlerStepsLeft(d) + AlertStepsLeft(d)

(* Neither a handler nor the delivery of an alert ever goes back: no call  *)
(* is made a second time, and each step leaves fewer to make.              *)
StepsRunOut ==
    [][\A d \in Deliveries :
           /\ StepsLeft(d) \in 0..15
           /\ StepsLeft(d)' <= StepsLeft(d)
           /\ HandlerStep(d) \/ AlertStep(d) => StepsLeft(d)' < StepsLeft(d)]_vars

(* A handler that delivers its alert itself waits for a delivery that is   *)
(* under way, or has an outcome to go on with.                             *)
NobodyWaitsInVain ==
    \A d \in Deliveries :
        pc[d] = "alerting" => slack[d] \in InFlight \cup {"done", "unmarked"}

(* The steps of a delivery are counted in natural numbers, ...             *)
LEMMA StepsLeftType ==
    ASSUME NEW d \in Deliveries
    PROVE  /\ HandlerStepsLeft(d) \in 0..10 /\ AlertStepsLeft(d) \in 0..5
           /\ HandlerStepsLeft(d)' \in 0..10 /\ AlertStepsLeft(d)' \in 0..5
  BY DEF HandlerStepsLeft, AlertStepsLeft

(* ... a step of the handler uses some up, ...                             *)
LEMMA HandlerStepsShrink ==
    ASSUME IInv, NEW d \in Deliveries, HandlerStep(d)
    PROVE  StepsLeft(d)' < StepsLeft(d)
<1> USE DEF HandlerStepsLeft, Goto, IInv, TypeOK
<1>1. ASSUME UNCHANGED <<slack, posted>>, HandlerStepsLeft(d)' < HandlerStepsLeft(d)
      PROVE  StepsLeft(d)' < StepsLeft(d)
  BY <1>1, StepsLeftType DEF StepsLeft, AlertStepsLeft
<1>2. CASE FindExistingAudit(d)
  BY <1>1, <1>2 DEF FindExistingAudit
<1>3. CASE StorageError(d)
  BY <1>1, <1>3 DEF StorageError
<1>4. CASE PutItem(d)
  BY <1>1, <1>4 DEF PutItem
<1>5. CASE AddToStats(d)
  BY <1>1, <1>5 DEF AddToStats
<1>6. CASE DeleteCache(d)
  BY <1>1, <1>6 DEF DeleteCache
<1>7. CASE RecordFindings(d)
  BY <1>1, <1>7 DEF RecordFindings
<1>8. CASE RecordMetrics(d)
  BY <1>1, <1>8 DEF RecordMetrics
<1>9. CASE AlertSlack(d)
  <2>1. HandlerStepsLeft(d) = 3 /\ HandlerStepsLeft(d)' < 3 /\ HandlerStepsLeft(d)' \in Nat
    BY <1>9 DEF AlertSlack
  <2>2. AlertStepsLeft(d) = 5 /\ AlertStepsLeft(d)' \in 0..5
    BY <1>9 DEF AlertSlack, AlertStepsLeft, AlertAll, EffectsInv
  <2>3. QED
    BY <2>1, <2>2 DEF StepsLeft
<1>10. CASE AlertError(d)
  BY <1>1, <1>10 DEF AlertError
<1>11. CASE FinishAlert(d)
  BY <1>1, <1>11 DEF FinishAlert
<1>12. CASE Respond(d)
  BY <1>1, <1>12 DEF Respond
<1>13. QED
  BY <1>2, <1>3, <1>4, <1>5, <1>6, <1>7, <1>8, <1>9, <1>10, <1>11, <1>12 DEF HandlerStep

(* ... and so does a step of the alert.                                    *)
LEMMA AlertStepsShrink ==
    ASSUME IInv, NEW d \in Deliveries, AlertStep(d)
    PROVE  StepsLeft(d)' < StepsLeft(d)
<1> USE DEF AlertStepsLeft, IInv, TypeOK
<1>1. ASSUME UNCHANGED pc, AlertStepsLeft(d)' < AlertStepsLeft(d)
      PROVE  StepsLeft(d)' < StepsLeft(d)
  BY <1>1, StepsLeftType DEF StepsLeft, HandlerStepsLeft
<1>2. CASE PostAlert(d)
  BY <1>1, <1>2 DEF PostAlert
<1>3. CASE FinishDelivery(d)
  BY <1>1, <1>3 DEF FinishDelivery
<1>4. CASE DeliveryRaises(d)
  <2>1. HandlerStepsLeft(d) = 2 /\ HandlerStepsLeft(d)' = 0
    BY <1>4 DEF DeliveryRaises, Goto, HandlerStepsLeft
  <2>2. AlertStepsLeft(d) \in {3, 4} /\ AlertStepsLeft(d)' = 0
    BY <1>4 DEF DeliveryRaises
  <2>3. QED
    BY <2>1, <2>2 DEF StepsLeft
<1>5. CASE MarkSlackResult(d)
  BY <1>1, <1>5 DEF MarkSlackResult
<1>6. CASE MarkError(d)
  BY <1>1, <1>6 DEF MarkError
<1>7. CASE DeleteMarkedView(d)
  BY <1>1, <1>7 DEF DeleteMarkedView
<1>8. QED
  BY <1>2, <1>3, <1>4, <1>5, <1>6, <1>7 DEF AlertStep

(* A step of one delivery leaves the handler and the alert of others alone.*)
LEMMA OnlyOwnState ==
    ASSUME IInv, NEW d \in Deliveries, NEW e \in Deliveries, e # d, Step(e)
    PROVE  pc'[d] = pc[d] /\ slack'[d] = slack[d] /\ (d \in posted' <=> d \in posted)
<1> USE DEF IInv, TypeOK, Goto
<1>1. CASE Admit(e) \/ Refuse(e) \/ Crash(e)
  BY <1>1 DEF Admit, Refuse, Crash
<1>2. CASE HandlerStep(e)
  <2>1. CASE FindExistingAudit(e) \/ StorageError(e) \/ PutItem(e) \/ AddToStats(e)
    BY <2>1 DEF FindExistingAudit, StorageError, PutItem, AddToStats
  <2>2. CASE DeleteCache(e) \/ RecordFindings(e) \/ RecordMetrics(e)
    BY <2>2 DEF DeleteCache, RecordFindings, RecordMetrics
  <2>3. CASE AlertSlack(e) \/ AlertError(e) \/ FinishAlert(e) \/ Respond(e)
    BY <2>3 DEF AlertSlack, AlertError, FinishAlert, Respond
  <2>4. QED
    BY <1>2, <2>1, <2>2, <2>3 DEF HandlerStep
<1>3. CASE AlertStep(e)
  <2>1. CASE PostAlert(e) \/ FinishDelivery(e) \/ DeliveryRaises(e)
    BY <2>1 DEF PostAlert, FinishDelivery, DeliveryRaises
  <2>2. CASE MarkSlackResult(e) \/ MarkError(e) \/ DeleteMarkedView(e)
    BY <2>2 DEF MarkSlackResult, MarkError, DeleteMarkedView
  <2>3. QED
    BY <1>3, <2>1, <2>2 DEF AlertStep
<1>4. QED
  BY <1>1, <1>2, <1>3 DEF Step

(* Nothing adds to the steps of a delivery, least of all another delivery. *)
LEMMA StepsNeverGrow ==
    ASSUME IInv, Next, NEW d \in Deliveries
    PROVE  StepsLeft(d)' <= StepsLeft(d)
<1> USE DEF IInv, TypeOK
<1>1. PICK e \in Deliveries : Step(e)
  BY DEF Next
<1>2. CASE e # d
  <2>1. pc'[d] = pc[d] /\ slack'[d] = slack[d] /\ (d \in posted' <=> d \in posted)
    BY <1>1, <1>2, OnlyOwnState
  <2>2. QED
    BY <2>1, StepsLeftType DEF StepsLeft, HandlerStepsLeft, AlertStepsLeft
<1>3. CASE e = d
  <2>1. CASE HandlerStep(d) \/ AlertStep(d)
    BY <2>1, HandlerStepsShrink, AlertStepsShrink, StepsLeftType DEF StepsLeft
  <2>2. CASE Admit(d) \/ Refuse(d)
    BY <2>2 DEF Admit, Refuse, FirstCall, Goto, StepsLeft, HandlerStepsLeft, AlertStepsLeft
  <2>3. CASE Crash(d)
    <3>1. HandlerStepsLeft(d)' <= HandlerStepsLeft(d)
      BY <2>3 DEF Crash, Running, HandlerStepsLeft
    <3>2. AlertStepsLeft(d)' <= AlertStepsLeft(d)
      BY <2>3 DEF Crash, InFlight, AlertStepsLeft
    <3>3. QED
      BY <3>1, <3>2, StepsLeftType DEF StepsLeft
  <2>4. QED
    BY <1>1, <1>3, <2>1, <2>2, <2>3 DEF Step
<1>4. QED
  BY <1>2, <1>3

(* Every handler and every alert is over after a bounded number of steps   *)
(* of its own, whatever other deliveries do: what HandlerSettles and       *)
(* AlertSettles need besides a scheduler that lets threads run.            *)
THEOREM StepsOfDeliveryRunOut == Spec => StepsRunOut
<1>1. IInv /\ [Next]_vars =>
          [\A d \in Deliveries :
               /\ StepsLeft(d) \in 0..15
               /\ StepsLeft(d)' <= StepsLeft(d)
               /\ HandlerStep(d) \/ AlertStep(d) => StepsLeft(d)' < StepsLeft(d)]_vars
  <2>1. \A d \in Deliveries : StepsLeft(d) \in 0..15
    BY StepsLeftType DEF StepsLeft
  <2>2. QED
    BY <2>1, StepsNeverGrow, HandlerStepsShrink, AlertStepsShrink
<1>2. QED
  BY <1>1, Invariance, PTL DEF Spec, StepsRunOut

(* No handler waits for an alert that was lost or never started.           *)
THEOREM AwaitedAlertsMove == Spec => []NobodyWaitsInVain
<1>1. IInv => NobodyWaitsInVain
  BY DEF IInv, AlertInv, NobodyWaitsInVain
<1>2. QED
  BY <1>1, Invariance, PTL

-----------------------------------------------------------------------------
(* The abstract variables of Log, by name.                                 *)
StoredIds == {AuditId[d] : d \in table}
Ackers == {d \in Deliveries : pc[d] \in Acked}
AckedIds == {AuditId[d] : d \in Ackers}
IndexedIds == {r[1] : r \in rows}
AlertedIds == {AuditId[d] : d \in posted}
logState == <<StoredIds, AckedIds, IndexedIds, AlertedIds>>

(* A step that acknowledges nobody, stores nothing, writes no row and      *)
(* posts nothing is invisible in the log.                                  *)
LEMMA Invisible ==
    ASSUME Ackers' = Ackers, UNCHANGED <<table, rows, posted>>
    PROVE  UNCHANGED logState
BY DEF logState, StoredIds, AckedIds, IndexedIds, AlertedIds

(* Every step of a handler is a step of the log or invisible in it.        *)
LEMMA LogStep ==
    ASSUME IInv, IInv', NEW d \in Deliveries, Step(d)
    PROVE  Log!Next \/ UNCHANGED logState
<1> USE DEF StoredIds, AckedIds, IndexedIds, AlertedIds, logState
<1>0. AuditId[d] \in AuditIds /\ pc \in [Deliveries -> HandlerStates]
  BY DeliveriesAssumption DEF IInv, TypeOK
<1>1. CASE FindExistingAudit(d)
  <2>1. CASE pc' = [pc EXCEPT ![d] = "duplicate"]
    <3>1. Ackers' = Ackers \cup {d} /\ UNCHANGED <<table, rows, posted>>
      BY <1>0, <1>1, <2>1 DEF FindExistingAudit, Ackers, Acked
    <3>2. AuditId[d] \in StoredIds
      <4>1. pc'[d] = "duplicate"
        BY <1>0, <2>1
      <4>2. QED
        BY <3>1, <4>1 DEF IInv, StoredInv
    <3>3. Log!Acknowledge(AuditId[d])
      BY <3>1, <3>2 DEF Log!Acknowledge, Ackers
    <3>4. QED
      BY <1>0, <3>3 DEF Log!Next
  <2>2. CASE pc[d] = "lookup" /\ pc' = [pc EXCEPT ![d] = "put"]
    <3>1. Ackers' = Ackers
      BY <1>0, <2>2 DEF Ackers, Acked
    <3>2. QED
      BY <1>1, <3>1, Invisible DEF FindExistingAudit
  <2>3. QED
    BY <1>1, <2>1, <2>2 DEF FindExistingAudit, Goto
<1>2. CASE PutItem(d)
  <2>1. Ackers' = Ackers
    BY <1>0, <1>2 DEF PutItem, Goto, Ackers, Acked
  <2>2. Log!Store(AuditId[d])
    BY <1>2, <2>1 DEF PutItem, Log!Store, Ackers
  <2>3. QED
    BY <1>0, <2>2 DEF Log!Next
<1>3. CASE RecordFindings(d)
  <2>1. Ackers' = Ackers /\ UNCHANGED <<table, posted>>
    BY <1>0, <1>3 DEF RecordFindings, Goto, Ackers, Acked
  <2>2. CASE rows' = rows
    BY <2>1, <2>2, Invisible
  <2>3. CASE rows' = rows \cup RowsOf(d) /\ Findings[d] # {}
    <3>1. AuditId[d] \in StoredIds
      BY <1>3 DEF RecordFindings, Goto, IInv, StoredInv, AfterPut
    <3>2. IndexedIds' = IndexedIds \cup {AuditId[d]}
      <4>1. PICK b \in Findings[d] : TRUE
        BY <2>3
      <4>2. <<AuditId[d], b>> \in RowsOf(d)
        BY <4>1 DEF RowsOf
      <4>3. \A r \in RowsOf(d) : r[1] = AuditId[d]
        BY DEF RowsOf
      <4>4. AuditId[d] \in IndexedIds'
        BY <2>3, <4>2
      <4>5. QED
        BY <2>3, <4>3, <4>4
    <3>3. Log!Index(AuditId[d])
      BY <2>1, <3>1, <3>2 DEF Log!Index, Ackers
    <3>4. QED
      BY <1>0, <3>3 DEF Log!Next
  <2>4. CASE Findings[d] = {}
    BY <1>3, <2>1, <2>4, Invisible DEF RecordFindings, RowsOf
  <2>5. QED
    BY <1>3, <2>2, <2>3, <2>4 DEF RecordFindings
<1>4. CASE Respond(d)
  <2>1. Ackers' = Ackers \cup {d} /\ UNCHANGED <<table, rows, posted>>
    BY <1>0, <1>4 DEF Respond, Goto, Ackers, Acked
  <2>2. AuditId[d] \in StoredIds
    BY <1>4 DEF Respond, Goto, IInv, StoredInv, AfterPut
  <2>3. Log!Acknowledge(AuditId[d])
    BY <2>1, <2>2 DEF Log!Acknowledge, Ackers
  <2>4. QED
    BY <1>0, <2>3 DEF Log!Next
<1>5. CASE PostAlert(d)
  <2>1. AuditId[d] \in StoredIds
    BY <1>5 DEF PostAlert, IInv, EffectsInv
  <2>2. Log!Alert(AuditId[d])
    BY <1>5, <2>1 DEF PostAlert, Log!Alert, Acked
  <2>3. QED
    BY <1>0, <2>2 DEF Log!Next
<1>6. CASE Admit(d)
  BY <1>0, <1>6, Invisible DEF Admit, FirstCall, Goto, Ackers, Acked
<1>7. CASE Refuse(d)
  BY <1>0, <1>7, Invisible DEF Refuse, Goto, Ackers, Acked
<1>8. CASE StorageError(d)
  BY <1>0, <1>8, Invisible DEF StorageError, Goto, Ackers, Acked
<1>9. CASE AddToStats(d)
  BY <1>0, <1>9, Invisible DEF AddToStats, Goto, Ackers, Acked
<1>10. CASE DeleteCache(d)
  BY <1>0, <1>10, Invisible DEF DeleteCache, Goto, Ackers, Acked
<1>11. CASE RecordMetrics(d)
  BY <1>0, <1>11, Invisible DEF RecordMetrics, Goto, Ackers, Acked
<1>12. CASE AlertSlack(d)
  BY <1>0, <1>12, Invisible DEF AlertSlack, Goto, Ackers, Acked
<1>13. CASE AlertError(d)
  BY <1>0, <1>13, Invisible DEF AlertError, Goto, Ackers, Acked
<1>14. CASE FinishAlert(d)
  BY <1>0, <1>14, Invisible DEF FinishAlert, Goto, Ackers, Acked
<1>15. CASE FinishDelivery(d)
  BY <1>0, <1>15, Invisible DEF FinishDelivery, Ackers
<1>16. CASE MarkSlackResult(d)
  BY <1>0, <1>16, Invisible DEF MarkSlackResult, Ackers
<1>17. CASE MarkError(d)
  BY <1>0, <1>17, Invisible DEF MarkError, Ackers
<1>18. CASE DeleteMarkedView(d)
  BY <1>0, <1>18, Invisible DEF DeleteMarkedView, Ackers
<1>19. CASE Crash(d)
  BY <1>0, <1>19, Invisible DEF Crash, Running, Ackers, Acked
<1>20. CASE DeliveryRaises(d)
  BY <1>0, <1>20, Invisible DEF DeliveryRaises, Goto, Ackers, Acked
<1>21. QED
  BY <1>1, <1>2, <1>3, <1>4, <1>5, <1>6, <1>7, <1>8, <1>9, <1>10, <1>11, <1>12,
     <1>13, <1>14, <1>15, <1>16, <1>17, <1>18, <1>19, <1>20
  DEF Step, HandlerStep, AlertStep

(* The handlers implement AuditLog: whatever they, their retries and their *)
(* failures do to table, answers, rows and Slack is a behaviour of the log *)
(* in which the audit is stored before anything else is said of it.        *)
THEOREM Implementation == Spec => ImplementsAuditLog
<1>1. Init => Log!Init
  BY DEF Init, Log!Init, Acked
<1>2. IInv /\ IInv' /\ [Next]_vars => [Log!Next]_(Log!logVars)
  <2> SUFFICES ASSUME IInv, IInv', [Next]_vars
               PROVE  Log!Next \/ UNCHANGED Log!logVars
    OBVIOUS
  <2>1. CASE Next
    BY <2>1, LogStep
    DEF Next, Log!logVars, logState, StoredIds, AckedIds, Ackers, IndexedIds,
        AlertedIds
  <2>2. CASE UNCHANGED vars
    BY <2>2 DEF vars, Log!logVars
  <2>3. QED
    BY <2>1, <2>2
<1>3. QED
  BY <1>1, <1>2, Invariance, PTL DEF Spec, Log!Spec, ImplementsAuditLog
=============================================================================
