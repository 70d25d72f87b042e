--------------------------- MODULE DeliveryProofs ---------------------------
(***************************************************************************)
(* The clients of POST /ingest and the reporter together, for any number   *)
(* of scans, attempts and buckets.  Of the reporter only little matters to *)
(* its clients: how the handler of one post may move, and what it then     *)
(* leaves in the table and with Slack (Moves).  The promises of delivery   *)
(* follow from an invariant of the handlers (ServerInv), one that ties the *)
(* clients' progress to them (ClientInv), and, for the one about posts     *)
(* that neither were abandoned nor overlooked what was stored, one on the  *)
(* order of the posts of a scan.                                           *)
(***************************************************************************)
EXTENDS Delivery, FiniteSetTheorems, TLAPS

USE DEF Posts, PostsOf

(* Where a handler is once its item has been put, ...                      *)
AfterPut == {"stats", "invalidate", "index", "metrics", "alert", "alerting",
             "respond", "created"}
(* ... once it is past the alert, ...                                      *)
AfterAlert == {"alerting", "respond", "created"}
(* ... and when it does nothing any more.                                  *)
Final == Server!Answered \cup {"crashed"}

(* One step of the reporter on post d: its handler goes on to to and its   *)
(* alert to outcome, ...                                                   *)
HandlerMoves(d, to, outcome) ==
    \/ to = pc[d] /\ UNCHANGED table
    \/ pc[d] = "idle" /\ to \in {"lookup", "rejected", "error"} /\ UNCHANGED table
    \/ pc[d] = "lookup" /\ to = "put" /\ UNCHANGED table
    \/ /\ pc[d] = "lookup" /\ to = "duplicate" /\ UNCHANGED table
       /\ \E e \in table : e[1] = d[1]
    \/ pc[d] = "put" /\ to \in {"stats", "error"} /\ table' = table \cup {d}
    \/ /\ pc[d] \in AfterPut /\ to \in AfterPut /\ UNCHANGED table
       /\ pc[d] # "created"
       /\ to = "alert" => pc[d] = "alert" \/ ScanFindings[d[1]] # {}
       /\ to \in AfterAlert =>
              pc[d] \in AfterAlert \/ ScanFindings[d[1]] = {} \/ outcome # "none"
    \/ pc[d] \in Server!Running /\ to \in {"error", "crashed"} /\ UNCHANGED table

(* ... an alert that is there stays there, and only one is posted.         *)
AlertMoves(d, outcome) ==
    /\ outcome = slack[d] \/ (outcome # "none" /\ (slack[d] # "none" \/ pc[d] = "alert"))
    /\ posted' = posted \/ (posted' = posted \cup {d} /\ slack[d] # "none")

Moves(d) ==
    \E to \in Server!HandlerStates, outcome \in Server!AlertStates :
        /\ pc' = [pc EXCEPT ![d] = to]
        /\ slack' = [slack EXCEPT ![d] = outcome]
        /\ HandlerMoves(d, to, outcome)
        /\ AlertMoves(d, outcome)
        /\ to = pc[d] \/ UNCHANGED posted

ServerTypes ==
    /\ pc \in [Posts -> Server!HandlerStates]
    /\ slack \in [Posts -> Server!AlertStates]
    /\ table \subseteq Posts
    /\ posted \subseteq Posts

(* The items of a scan are those its posts have put.                       *)
LEMMA ItemsOfScan ==
    ASSUME ServerTypes, NEW s
    PROVE  Server!ItemsOf(s) = {e \in table : e[1] = s}
  BY DEF ServerTypes, Server!ItemsOf

(* The lookup of a post can find an item of its scan if there is one.      *)
LEMMA FoundItems ==
    ASSUME ServerTypes, NEW d \in Posts
    PROVE  Server!Found(d) <=> \E e \in table : e[1] = d[1]
  BY ItemsOfScan DEF Server!Found, Server!ItemsOf, ServerTypes

(* Every step of the reporter is such a move.                              *)
LEMMA StepMoves ==
    ASSUME ServerTypes, NEW d \in Posts, Server!Step(d)
    PROVE  Moves(d)
<1> USE DEF ServerTypes, Moves, HandlerMoves, AlertMoves, AfterPut, AfterAlert,
            Server!Goto, Server!HandlerStates, Server!AlertStates, Server!Running,
            Server!Answered, Server!Acked, Server!InFlight, Server!tableVars,
            Server!sideVars, Server!alertVars
<1>0. /\ pc = [pc EXCEPT ![d] = pc[d]] /\ pc[d] \in Server!HandlerStates
      /\ slack = [slack EXCEPT ![d] = slack[d]] /\ slack[d] \in Server!AlertStates
  OBVIOUS
<1>1. CASE Server!Admit(d)
  BY <1>0, <1>1 DEF Server!Admit, Server!FirstCall
<1>2. CASE Server!Refuse(d)
  BY <1>0, <1>2 DEF Server!Refuse
<1>3. CASE Server!FindExistingAudit(d)
  <2>1. Server!ItemsOf(d[1]) = {e \in table : e[1] = d[1]}
    BY ItemsOfScan
  <2>2. Server!Found(d) => \E e \in table : e[1] = d[1]
    BY <2>1 DEF Server!Found
  <2>3. UNCHANGED <<table, slack, posted>>
    BY <1>3 DEF Server!FindExistingAudit
  <2>4. CASE Server!Found(d) /\ Server!Goto(d, "lookup", "duplicate")
    BY <1>0, <2>2, <2>3, <2>4
  <2>5. CASE Server!Missing(d) /\ Server!Goto(d, "lookup", "put")
    BY <1>0, <2>3, <2>5
  <2>6. QED
    BY <1>3, <2>4, <2>5 DEF Server!FindExistingAudit
<1>4. CASE Server!StorageError(d)
  BY <1>0, <1>4 DEF Server!StorageError
<1>5. CASE Server!PutItem(d)
  BY <1>0, <1>5 DEF Server!PutItem
<1>6. CASE Server!AddToStats(d)
  BY <1>0, <1>6 DEF Server!AddToStats
<1>7. CASE Server!DeleteCache(d)
  BY <1>0, <1>7 DEF Server!DeleteCache
<1>8. CASE Server!RecordFindings(d)
  BY <1>0, <1>8 DEF Server!RecordFindings
<1>9. CASE Server!RecordMetrics(d)
  BY <1>0, <1>9 DEF Server!RecordMetrics
<1>10. CASE Server!AlertSlack(d)
  BY <1>0, <1>10 DEF Server!AlertSlack, Server!AlertAll
<1>11. CASE Server!AlertError(d)
  BY <1>0, <1>11 DEF Server!AlertError
<1>12. CASE Server!FinishAlert(d) \/ Server!Respond(d)
  BY <1>0, <1>12 DEF Server!FinishAlert, Server!Respond
<1>13. CASE Server!PostAlert(d) \/ Server!FinishDelivery(d)
  BY <1>0, <1>13 DEF Server!PostAlert, Server!FinishDelivery
<1>14. CASE Server!DeliveryRaises(d)
  BY <1>0, <1>14 DEF Server!DeliveryRaises
<1>15. CASE Server!MarkSlackResult(d) \/ Server!MarkError(d) \/ Server!DeleteMarkedView(d)
  BY <1>0, <1>15 DEF Server!MarkSlackResult, Server!MarkError, Server!DeleteMarkedView
<1>16. CASE Server!Crash(d)
  BY <1>0, <1>16 DEF Server!Crash
<1>17. QED
  BY <1>1, <1>2, <1>3, <1>4, <1>5, <1>6, <1>7, <1>8, <1>9, <1>10, <1>11, <1>12,
     <1>13, <1>14, <1>15, <1>16
  DEF Server!Step, Server!HandlerStep, Server!AlertStep
-----------------------------------------------------------------------------
(* What the handlers have left behind: an item once past the put, an alert *)
(* only for an item, and for every item past its alert that needed one.    *)
ServerInv ==
    /\ ServerTypes
    /\ posted \subseteq table
    /\ \A d \in Posts :
           /\ pc[d] \in AfterPut => d \in table
           /\ d \in table => pc[d] \in AfterPut \cup {"error", "crashed"}
           /\ pc[d] = "duplicate" => \E e \in table : e[1] = d[1]
           /\ slack[d] # "none" => d \in table
           /\ pc[d] = "alert" \/ slack[d] # "none" => ScanFindings[d[1]] # {}
           /\ pc[d] \in AfterAlert => ScanFindings[d[1]] = {} \/ slack[d] # "none"

(* It holds at the start ...                                               *)
LEMMA InitServerInv == Server!Init => ServerInv
  BY DEF Server!Init, ServerInv, ServerTypes, AfterPut, AfterAlert,
         Server!HandlerStates, Server!AlertStates

(* ... and after every move.                                               *)
LEMMA MovesKeepServerInv ==
    ASSUME ServerInv, NEW d \in Posts, Moves(d)
    PROVE  ServerInv'
<1> PICK to \in Server!HandlerStates, outcome \in Server!AlertStates :
        /\ pc' = [pc EXCEPT ![d] = to]
        /\ slack' = [slack EXCEPT ![d] = outcome]
        /\ HandlerMoves(d, to, outcome)
        /\ AlertMoves(d, outcome)
  BY DEF Moves
<1> USE DEF ServerInv
<1>1. /\ table' \in {table, table \cup {d}} /\ posted' \in {posted, posted \cup {d}}
      /\ slack[d] # "none" => outcome # "none"
      /\ outcome # "none" => slack[d] # "none" \/ pc[d] = "alert"
  BY DEF HandlerMoves, AlertMoves
<1>2. ServerTypes'
  BY <1>1 DEF ServerTypes
<1>3. posted' \subseteq table'
  BY <1>1 DEF AlertMoves
<1>4. \A e \in Posts \ {d} : pc'[e] = pc[e] /\ slack'[e] = slack[e]
  BY DEF ServerTypes
<1>5. pc'[d] = to /\ slack'[d] = outcome
  BY DEF ServerTypes
<1>6. /\ to \in AfterPut => d \in table'
      /\ d \in table' => to \in AfterPut \cup {"error", "crashed"}
      /\ to = "duplicate" => \E e \in table' : e[1] = d[1]
  BY DEF HandlerMoves, AfterPut, Server!Running
<1>7. /\ outcome # "none" => d \in table'
      /\ to = "alert" \/ outcome # "none" => ScanFindings[d[1]] # {}
  BY <1>1 DEF AfterPut, HandlerMoves, Server!Running
<1>8. to \in AfterAlert => ScanFindings[d[1]] = {} \/ outcome # "none"
  BY <1>1 DEF HandlerMoves, AfterAlert, AfterPut
<1>9. QED
  BY <1>1, <1>2, <1>3, <1>4, <1>5, <1>6, <1>7, <1>8

(* Items are never removed, and an answer is never changed.                *)
LEMMA MovesAreForward ==
    ASSUME ServerTypes, NEW d \in Posts, Moves(d)
    PROVE  /\ table \subseteq table'
           /\ \A e \in Posts : pc[e] \in Final => pc'[e] = pc[e]
<1> PICK to \in Server!HandlerStates, outcome \in Server!AlertStates :
        pc' = [pc EXCEPT ![d] = to] /\ HandlerMoves(d, to, outcome)
  BY DEF Moves
<1>1. table \subseteq table'
  BY DEF HandlerMoves
<1>2. pc[d] \in Final => to = pc[d]
  BY DEF HandlerMoves, Final, AfterPut, Server!Answered, Server!Acked, Server!Running
<1>3. QED
  BY <1>1, <1>2 DEF ServerTypes
-----------------------------------------------------------------------------
(* One step of the client of scan s, to phase next: it sends a post, ...   *)
Sends(s, next) ==
    /\ phase[s] \in {"idle", "backoff", "ProcessFindings", "retry"}
    /\ next = "waiting"
    /\ attempt' = [attempt EXCEPT ![s] = @ + 1]
    /\ UNCHANGED <<abandoned, published>>

(* ... hears how it was answered, ...                                      *)
Hears(s, next) ==
    /\ phase[s] = "waiting"
    /\ pc[Current(s)] \in Server!Answered
    /\ next \in {"delivered", "rejected", "backoff", "gaveup", "CheckVulnerabilities"}
    /\ next = "delivered" => pc[Current(s)] \in Server!Acked
    /\ next = "backoff" => attempt[s] < MaxAttempts
    /\ UNCHANGED <<attempt, abandoned, published>>

(* ... hears nothing, and abandons the post if it is not done, ...         *)
Misses(s, next) ==
    /\ phase[s] = "waiting"
    /\ next \in {"backoff", "gaveup", "retry", "ReportingFailed"}
    /\ next \in {"backoff", "retry"} => attempt[s] < MaxAttempts
    /\ abandoned' = abandoned \cup
           {d \in {Current(s)} : pc[d] \in {"idle"} \cup Server!Running}
    /\ UNCHANGED <<attempt, published>>

(* ... or, a workflow, does what comes before and after.                   *)
Proceeds(s, next) ==
    /\ \/ phase[s] = "idle" /\ next \in {"ProcessFindings", "AuditFailed"} /\ UNCHANGED published
       \/ /\ phase[s] = "CheckVulnerabilities" /\ UNCHANGED published
          /\ next = IF ScanFindings[s] # {} THEN "SendAlert" ELSE "AuditComplete"
       \/ phase[s] = "SendAlert" /\ next = "AuditComplete" /\ published' = published \cup {s}
       \/ /\ phase[s] = "SendAlert" /\ next = "SendAlertFailed"
          /\ published' \in {published, published \cup {s}}
    /\ UNCHANGED <<attempt, abandoned>>

ClientMoves(s) ==
    \E next \in Phases \cup Flow!States :
        /\ phase' = [phase EXCEPT ![s] = next]
        /\ Sends(s, next) \/ Hears(s, next) \/ Misses(s, next) \/ Proceeds(s, next)

(* Every step of a client is such a move, and no step of the reporter.     *)
LEMMA ClientStepMoves ==
    ASSUME attempt \in [Scans -> 0..MaxAttempts], NEW s \in Scans, ClientStep(s)
    PROVE  ClientMoves(s) /\ UNCHANGED <<overlooked, serverVars>>
<1> USE DEF ClientMoves, Phases, Outcomes, Flow!States, Flow!Outcomes, Flow!Goto, Waiting
<1>0. attempt[s] \in 0..MaxAttempts /\ MaxAttempts \in Nat
  BY ReportAssumption
<1>1. CASE Submit(s)
  BY <1>1 DEF Submit, Sends, Send, Flow!ProcessFindings
<1>2. CASE Reply(s)
  <2>1. CASE s \in Executions
    BY <1>2, <2>1 DEF Reply, Hears, Flow!Invoked
  <2>2. CASE s \notin Executions
    <3>1. pc[Current(s)] \in Server!Answered /\ UNCHANGED <<published, abandoned, overlooked, serverVars>>
      BY <1>2, <2>2 DEF Reply
    <3>2. PICK status \in StatusesOf(pc[Current(s)]) : Answer(s, status)
      BY <1>2, <2>2 DEF Reply
    <3>3. IsSuccess(status) => pc[Current(s)] \in Server!Acked
      <4>1. CASE pc[Current(s)] \in {"rejected", "error"}
        <5>1. status \in {400, 401, 413, 422, 503, 500}
          BY <4>1 DEF StatusesOf
        <5>2. QED
          BY <5>1 DEF IsSuccess
      <4>2. QED
        BY <3>1, <4>1 DEF Server!Answered
    <3>4. AfterFailure(s) = "gaveup" \/ (AfterFailure(s) = "backoff" /\ attempt[s] < MaxAttempts)
      BY <1>0 DEF AfterFailure
    <3>5. PICK next \in {"delivered", "rejected", AfterFailure(s)} :
             /\ phase' = [phase EXCEPT ![s] = next]
             /\ next = "delivered" => IsSuccess(status)
      <4>1. CASE IsSuccess(status)
        <5>1. ~IsTransient(status)
          BY <4>1 DEF IsSuccess, IsTransient
        <5>2. QED
          BY <3>2, <4>1, <5>1 DEF Answer
      <4>2. CASE ~IsSuccess(status) /\ IsTransient(status)
        BY <3>2, <3>4, <4>2 DEF Answer
      <4>3. CASE ~IsSuccess(status) /\ ~IsTransient(status)
        BY <3>2, <4>3 DEF Answer
      <4>4. QED
        BY <4>1, <4>2, <4>3
    <3>6. phase[s] = "waiting" /\ UNCHANGED attempt
      BY <3>2 DEF Answer
    <3>7. Hears(s, next)
      BY <3>1, <3>3, <3>4, <3>5, <3>6 DEF Hears
    <3>8. QED
      BY <3>1, <3>4, <3>5, <3>7
  <2>3. QED
    BY <2>1, <2>2
<1>3. CASE Lose(s)
  <2>1. CASE s \in Executions
    BY <1>3, <2>1 DEF Lose, Misses, Flow!InvocationFails
  <2>2. CASE s \notin Executions
    BY <1>0, <1>3, <2>2 DEF Lose, Misses, NoAnswer, AfterFailure
  <2>3. QED
    BY <2>1, <2>2
<1>4. CASE Orchestrate(s)
  <2>1. CASE Flow!RunAuditor(s)
    BY <1>4, <2>1 DEF Orchestrate, Proceeds, Flow!RunAuditor
  <2>2. CASE Flow!CheckVulnerabilities(s, ScanFindings[s] # {})
    BY <1>4, <2>2 DEF Orchestrate, Proceeds, Flow!CheckVulnerabilities
  <2>3. CASE Flow!SendAlert(s)
    BY <1>4, <2>3 DEF Orchestrate, Proceeds, Flow!SendAlert
  <2>4. QED
    BY <1>4, <2>1, <2>2, <2>3 DEF Orchestrate
<1>5. QED
  BY <1>1, <1>2, <1>3, <1>4 DEF ClientStep
-----------------------------------------------------------------------------
(* What the reporter's clients know of it.  A post is made before a client *)
(* waits, and a client that goes on with an answer was given one.          *)
ClientInv ==
    /\ attempt \in [Scans -> 0..MaxAttempts]
    /\ phase \in [Scans -> Phases \cup Flow!States]
    /\ \A s \in Scans :
           /\ phase[s] \in {"idle", "ProcessFindings"} => attempt[s] = 0
           /\ phase[s] \in {"backoff", "retry"} => attempt[s] < MaxAttempts
           /\ phase[s] \in {"waiting", "delivered", "CheckVulnerabilities", "SendAlert",
                            "AuditComplete"} => attempt[s] # 0
           /\ phase[s] = "delivered" => pc[Current(s)] \in Server!Acked
           /\ phase[s] \in {"CheckVulnerabilities", "SendAlert", "AuditComplete"} =>
                  pc[Current(s)] \in Server!Answered
           /\ phase[s] = "SendAlert" => ScanFindings[s] # {}
    /\ FindingsAreAnnounced

(* No handler runs before its post is sent, and a client that has gone on  *)
(* without abandoning a post has seen its handler end.                     *)
PostsInv ==
    \A d \in Posts :
        /\ d[2] > attempt[d[1]] => pc[d] = "idle"
        /\ d[2] < attempt[d[1]] /\ d \notin abandoned => pc[d] \in Final
        /\ d[2] = attempt[d[1]] /\ phase[d[1]] # "waiting" /\ d \notin abandoned =>
               pc[d] \in Final

(* Once a post that was not abandoned is stored, a later one of its scan   *)
(* gets past the lookup only by overlooking the item.                      *)
FirstOnly ==
    \A d, e \in Posts \ abandoned :
        d[1] = e[1] /\ d[2] < e[2] /\ d \in table /\ e \notin overlooked =>
            e \notin table /\ pc[e] # "put"

IInv ==
    /\ ServerInv
    /\ ClientInv
    /\ PostsInv
    /\ FirstOnly

(* The current post of a client that has sent one is a post.               *)
LEMMA CurrentIsPost ==
    ASSUME ClientInv, NEW s \in Scans, attempt[s] # 0
    PROVE  Current(s) \in Posts
  BY ReportAssumption DEF ClientInv, Current

(* Whether a client's promises hold depends on the handlers' answers only. *)
LEMMA AnswersKeepClientInv ==
    ASSUME ClientInv, UNCHANGED <<clientVars, published>>,
           \A e \in Posts : pc[e] \in Final => pc'[e] = pc[e]
    PROVE  ClientInv'
<1> USE DEF clientVars
<1>1. \A s \in Scans : attempt[s] # 0 /\ pc[Current(s)] \in Server!Answered =>
          pc'[Current(s)] = pc[Current(s)]
  BY CurrentIsPost DEF Final
<1>2. QED
  BY <1>1 DEF ClientInv, Current, FindingsAreAnnounced, Server!Answered, Server!Acked

(* A client's step keeps its promises.                                     *)
LEMMA ClientKeepsClientInv ==
    ASSUME ClientInv, NEW s \in Scans, ClientMoves(s), UNCHANGED serverVars
    PROVE  ClientInv'
<1> PICK next \in Phases \cup Flow!States :
        /\ phase' = [phase EXCEPT ![s] = next]
        /\ Sends(s, next) \/ Hears(s, next) \/ Misses(s, next) \/ Proceeds(s, next)
  BY DEF ClientMoves
<1> USE DEF ClientInv, FindingsAreAnnounced, serverVars
<1>1. CASE Sends(s, next)
  <2>1. attempt[s] \in 0..MaxAttempts /\ attempt[s] < MaxAttempts
    BY <1>1, ReportAssumption DEF Sends
  <2>2. /\ attempt' \in [Scans -> 0..MaxAttempts] /\ attempt'[s] # 0
        /\ phase' \in [Scans -> Phases \cup Flow!States] /\ phase'[s] = "waiting"
    BY <1>1, <2>1, ReportAssumption DEF Sends
  <2>3. \A t \in Scans \ {s} : phase'[t] = phase[t] /\ attempt'[t] = attempt[t]
    BY <1>1 DEF Sends
  <2>4. UNCHANGED <<pc, published>>
    BY <1>1 DEF Sends
  <2>5. \A t \in Scans \ {s} : Current(t)' = Current(t)
    BY <2>3 DEF Current
  <2>6. QED
    BY <2>2, <2>3, <2>4, <2>5
<1>2. CASE Hears(s, next)
  BY <1>2 DEF Hears, Current
<1>3. CASE Misses(s, next)
  BY <1>3 DEF Misses, Current
<1>4. CASE Proceeds(s, next)
  BY <1>4 DEF Proceeds, Current
<1>5. QED
  BY <1>1, <1>2, <1>3, <1>4

(* A step of the reporter on a post, as DeliveryNext has it.               *)
ReporterStep(d) == Arrive(d) \/ Serve(d) \/ Notify(d) \/ Disturb(d)

(* It leaves the clients alone, and starts no handler before its post.     *)
LEMMA ReporterStepMoves ==
    ASSUME ServerTypes, NEW d \in Posts, ReporterStep(d)
    PROVE  /\ Moves(d)
           /\ UNCHANGED <<clientVars, abandoned, published>>
           /\ overlooked' = overlooked \cup {e \in {d} : Overlooks(e)}
           /\ pc[d] = "idle" => pc'[d] = "idle" \/ d[2] <= attempt[d[1]]
<1>1. UNCHANGED <<clientVars, abandoned, published>>
  BY DEF ReporterStep, Arrive, Serve, Notify, Disturb
<1>2. Server!Step(d)
  BY DEF ReporterStep, Arrive, Serve, Notify, Disturb, Server!Step
<1>3. CASE Arrive(d)
  <2>1. pc[d] = "idle"
    BY <1>3 DEF Arrive, Server!Admit, Server!Refuse, Server!Goto
  <2>2. {e \in {d} : Overlooks(e)} = {}
    BY <2>1 DEF Overlooks
  <2>3. QED
    BY <1>1, <1>2, <1>3, <2>2, StepMoves DEF Arrive
<1>4. CASE Serve(d)
  <2>1. pc[d] # "idle"
    BY <1>4
    DEF Serve, Server!HandlerStep, Server!FindExistingAudit, Server!StorageError,
        Server!PutItem, Server!AddToStats, Server!DeleteCache, Server!RecordFindings,
        Server!RecordMetrics, Server!AlertSlack, Server!AlertError, Server!FinishAlert,
        Server!Respond, Server!Goto
  <2>2. QED
    BY <1>1, <1>2, <1>4, <2>1, StepMoves DEF Serve
<1>5. CASE Notify(d)
  <2>1. (pc[d] = "idle" => pc'[d] = "idle") /\ ~Overlooks(d)
    BY <1>5
    DEF Notify, Server!AlertStep, Server!PostAlert, Server!FinishDelivery,
        Server!DeliveryRaises, Server!MarkSlackResult, Server!MarkError,
        Server!DeleteMarkedView, Server!Goto, Overlooks
  <2>2. QED
    BY <1>1, <1>2, <1>5, <2>1, StepMoves DEF Notify
<1>6. CASE Disturb(d)
  <2>1. (pc[d] = "idle" => pc'[d] = "idle") /\ ~Overlooks(d)
    BY <1>6 DEF ServerTypes, Disturb, Server!Crash, Server!Running, Overlooks
  <2>2. QED
    BY <1>1, <1>2, <1>6, <2>1, StepMoves DEF Disturb
<1>7. QED
  BY <1>3, <1>4, <1>5, <1>6 DEF ReporterStep

(* The reporter's steps keep the whole invariant: ...                      *)
LEMMA ReporterKeepsIInv ==
    ASSUME IInv, NEW d \in Posts, ReporterStep(d)
    PROVE  IInv'
<1> USE DEF IInv
<1>1. /\ Moves(d) /\ UNCHANGED <<clientVars, abandoned, published>>
      /\ overlooked' = overlooked \cup {e \in {d} : Overlooks(e)}
      /\ pc[d] = "idle" => pc'[d] = "idle" \/ d[2] <= attempt[d[1]]
  BY ReporterStepMoves DEF ServerInv
<1>2. /\ table \subseteq table'
      /\ \A e \in Posts : pc[e] \in Final => pc'[e] = pc[e]
  BY <1>1, MovesAreForward DEF ServerInv
<1>3. ServerInv'
  BY <1>1, MovesKeepServerInv
<1>4. ClientInv'
  BY <1>1, <1>2, AnswersKeepClientInv
<1>5. PostsInv'
  <2>1. \A e \in Posts \ {d} : pc'[e] = pc[e]
    BY <1>1 DEF Moves, ServerInv, ServerTypes
  <2>2. \A e \in Posts : e[1] \in Scans /\ e[2] \in Nat /\ attempt[e[1]] \in Nat
    BY DEF ClientInv
  <2>3. d[2] > attempt[d[1]] => pc'[d] = "idle"
    BY <1>1, <2>2 DEF PostsInv
  <2>4. QED
    BY <1>1, <1>2, <2>1, <2>3 DEF PostsInv, clientVars
<1>6. FirstOnly'
  <2> SUFFICES ASSUME NEW f \in Posts, f \notin abandoned, NEW e \in Posts, e \notin abandoned,
                      f[1] = e[1], f[2] < e[2], f \in table', e \notin overlooked'
               PROVE  e \notin table' /\ pc'[e] # "put"
    BY <1>1 DEF FirstOnly
  <2>0. FirstOnly /\ e \notin overlooked /\ ~(d = e /\ Overlooks(d))
    BY <1>1
  <2>1. PICK to \in Server!HandlerStates, outcome \in Server!AlertStates :
           pc' = [pc EXCEPT ![d] = to] /\ HandlerMoves(d, to, outcome)
    BY <1>1 DEF Moves
  <2>2. pc \in [Posts -> Server!HandlerStates] /\ (pc[d] = "put" => d \notin table)
    BY DEF ServerInv, ServerTypes, AfterPut
  <2>3. CASE f \in table
    <3>1. e \notin table /\ pc[e] # "put"
      BY <2>0, <2>3 DEF FirstOnly
    <3>2. CASE d = e
      <4>1. ~(pc[d] = "lookup" /\ to = "put")
        <5>1. Server!Found(d)
          BY <2>3, <3>2, FoundItems DEF ServerInv
        <5>2. pc[d] # "lookup" \/ pc'[d] # "put"
          BY <2>0, <3>2, <5>1 DEF Overlooks
        <5>3. QED
          BY <2>1, <2>2, <5>2
      <4>2. UNCHANGED table /\ to # "put"
        BY <2>1, <3>1, <3>2, <4>1 DEF HandlerMoves, AfterPut
      <4>3. pc'[e] = to
        BY <2>1, <2>2, <3>2
      <4>4. QED
        BY <3>1, <4>2, <4>3
    <3>3. CASE d # e
      BY <2>1, <2>2, <3>1, <3>3 DEF HandlerMoves
    <3>4. QED
      BY <3>2, <3>3
  <2>4. CASE f \notin table
    <3>1. f = d /\ pc[d] = "put"
      BY <2>1, <2>4 DEF HandlerMoves
    <3>2. e[2] > attempt[e[1]]
      <4>1. pc[f] \notin Final
        BY <3>1 DEF Final, Server!Answered, Server!Acked
      <4>2. ~(f[2] < attempt[f[1]])
        BY <4>1 DEF PostsInv
      <4>3. f[2] \in Nat /\ e[2] \in Nat /\ attempt[f[1]] \in Nat
        BY DEF ClientInv
      <4>4. QED
        BY <4>2, <4>3
    <3>3. pc[e] = "idle" /\ e \notin table
      BY <3>2 DEF PostsInv, ServerInv, AfterPut
    <3>4. QED
      BY <2>1, <2>2, <3>1, <3>3 DEF HandlerMoves
  <2>5. QED
    BY <2>3, <2>4
<1>7. QED
  BY <1>3, <1>4, <1>5, <1>6

(* ... and so do the clients'.                                             *)
LEMMA ClientKeepsIInv ==
    ASSUME IInv, NEW s \in Scans, ClientStep(s)
    PROVE  IInv'
<1> USE DEF IInv
<1>1. ClientMoves(s) /\ UNCHANGED <<overlooked, serverVars>>
  BY ClientStepMoves DEF ClientInv
<1>2. ServerInv'
  BY <1>1 DEF serverVars, ServerInv, ServerTypes
<1>3. ClientInv'
  BY <1>1, ClientKeepsClientInv
<1> PICK next \in Phases \cup Flow!States :
        /\ phase' = [phase EXCEPT ![s] = next]
        /\ Sends(s, next) \/ Hears(s, next) \/ Misses(s, next) \/ Proceeds(s, next)
  BY <1>1 DEF ClientMoves
<1>4. abandoned \subseteq abandoned'
  BY DEF Sends, Hears, Misses, Proceeds
<1>5. FirstOnly'
  BY <1>1, <1>4 DEF FirstOnly, serverVars
<1>6. PostsInv'
  <2>1. \A t \in Scans \ {s} : phase'[t] = phase[t] /\ attempt'[t] = attempt[t]
    BY DEF ClientInv, Sends, Hears, Misses, Proceeds
  <2>2. \A d \in Posts : d[1] # s =>
            /\ d[2] > attempt'[d[1]] => pc'[d] = "idle"
            /\ d[2] < attempt'[d[1]] /\ d \notin abandoned' => pc'[d] \in Final
            /\ d[2] = attempt'[d[1]] /\ phase'[d[1]] # "waiting" /\ d \notin abandoned' =>
                   pc'[d] \in Final
    BY <1>1, <1>4, <2>1 DEF PostsInv, serverVars
  <2> SUFFICES ASSUME NEW d \in Posts, d[1] = s
               PROVE  /\ d[2] > attempt'[s] => pc'[d] = "idle"
                      /\ d[2] < attempt'[s] /\ d \notin abandoned' => pc'[d] \in Final
                      /\ d[2] = attempt'[s] /\ phase'[s] # "waiting" /\ d \notin abandoned' =>
                             pc'[d] \in Final
    BY <2>2 DEF PostsInv
  <2>3. /\ d[2] \in 1..MaxAttempts /\ attempt[s] \in 0..MaxAttempts /\ pc' = pc
        /\ phase'[s] = next /\ MaxAttempts \in Nat
    BY <1>1, ReportAssumption DEF ClientInv, serverVars
  <2>4. CASE Sends(s, next)
    <3>1. attempt'[s] = attempt[s] + 1 /\ phase[s] # "waiting" /\ next = "waiting"
      BY <2>4 DEF Sends, ClientInv
    <3>2. QED
      BY <1>4, <2>3, <3>1 DEF PostsInv
  <2>5. CASE Hears(s, next)
    <3>1. d[2] = attempt[s] => pc[d] \in Final
      BY <2>5 DEF Hears, Current, Final
    <3>2. QED
      BY <1>4, <2>3, <2>5, <3>1 DEF PostsInv, Hears
  <2>6. CASE Misses(s, next)
    <3>1. d[2] = attempt[s] => d = Current(s)
      BY DEF Current
    <3>2. d[2] = attempt[s] /\ d \notin abandoned' => pc[d] \in Final
      <4>1. pc[d] \in Server!HandlerStates
        BY DEF ServerInv, ServerTypes
      <4>2. QED
        BY <2>6, <3>1, <4>1 DEF Misses, Server!HandlerStates, Final
    <3>3. QED
      BY <1>4, <2>3, <2>6, <3>2 DEF PostsInv, Misses
  <2>7. CASE Proceeds(s, next)
    BY <1>4, <2>3, <2>7 DEF PostsInv, Proceeds
  <2>8. QED
    BY <2>4, <2>5, <2>6, <2>7
<1>7. QED
  BY <1>2, <1>3, <1>5, <1>6

(* Clients and reporter together keep it.                                  *)
THEOREM Invariance == DeliverySpec => []IInv
<1>1. DeliveryInit => IInv
  <2> SUFFICES ASSUME DeliveryInit PROVE IInv
    OBVIOUS
  <2>1. ServerInv
    BY InitServerInv DEF DeliveryInit
  <2>2. pc = [d \in Posts |-> "idle"] /\ table = {}
    BY DEF DeliveryInit, Server!Init
  <2>3. ClientInv
    BY ReportAssumption, DeliveryAssumption DEF DeliveryInit, Init, ClientInv, Phases, FindingsAreAnnounced
  <2>4. PostsInv
    BY <2>2, ReportAssumption DEF DeliveryInit, Init, PostsInv
  <2>5. QED
    BY <2>1, <2>2, <2>3, <2>4 DEF IInv, FirstOnly
<1>2. IInv /\ [DeliveryNext]_allVars => IInv'
  <2> SUFFICES ASSUME IInv, [DeliveryNext]_allVars PROVE IInv'
    OBVIOUS
  <2>1. ASSUME NEW s \in Scans, ClientStep(s) PROVE IInv'
    BY <2>1, ClientKeepsIInv
  <2>2. ASSUME NEW d \in Posts, ReporterStep(d) PROVE IInv'
    BY <2>2, ReporterKeepsIInv
  <2>3. CASE UNCHANGED allVars
    BY <2>3 DEF allVars, serverVars, clientVars, IInv, ServerInv, ServerTypes, ClientInv,
                PostsInv, FirstOnly, Current, FindingsAreAnnounced
  <2>4. QED
    BY <2>1, <2>2, <2>3 DEF DeliveryNext, ReporterStep
<1>3. QED
  BY <1>1, <1>2, PTL DEF DeliverySpec

(* ReportAsync and ingest_findings: when the auditor returns normally its  *)
(* audit is in the table, whatever was lost, retried or crashed.           *)
THEOREM StoredDeliveries == DeliverySpec => []DeliveredIsStored
<1>1. IInv => DeliveredIsStored
  <2> SUFFICES ASSUME IInv, NEW s \in Scans, phase[s] = "delivered"
               PROVE  Server!ItemsOf(s) # {}
    BY DEF DeliveredIsStored
  <2>1. attempt[s] # 0 /\ pc[Current(s)] \in Server!Acked /\ ClientInv
    BY DEF IInv, ClientInv
  <2>2. Current(s) \in Posts /\ Current(s)[1] = s
    BY <2>1, CurrentIsPost DEF Current
  <2>3. \E e \in table : e[1] = s
    BY <2>1, <2>2 DEF IInv, ServerInv, ServerTypes, Server!Acked, AfterPut
  <2>4. QED
    BY <2>3, ItemsOfScan DEF IInv, ServerInv
<1>2. QED
  BY <1>1, Invariance, PTL

(* The workflow: an execution goes on only with an audit that is stored,   *)
(* or with an answer that says it was not taken.                           *)
THEOREM RecordedExecutions == DeliverySpec => []RecordedUnlessRefused
<1>1. IInv => RecordedUnlessRefused
  <2> SUFFICES ASSUME IInv, NEW s \in Executions,
                      phase[s] \in {"CheckVulnerabilities", "SendAlert", "AuditComplete"},
                      pc[Current(s)] \notin {"rejected", "error"}
               PROVE  Server!ItemsOf(s) # {}
    BY DEF RecordedUnlessRefused
  <2>1. s \in Scans
    BY DeliveryAssumption
  <2>2. attempt[s] # 0 /\ pc[Current(s)] \in Server!Acked /\ ClientInv
    BY <2>1 DEF IInv, ClientInv, Server!Answered
  <2>3. Current(s) \in Posts /\ Current(s)[1] = s
    BY <2>1, <2>2, CurrentIsPost DEF Current
  <2>4. \E e \in table : e[1] = s
    BY <2>2, <2>3 DEF IInv, ServerInv, ServerTypes, Server!Acked, AfterPut
  <2>5. QED
    BY <2>4, ItemsOfScan DEF IInv, ServerInv
<1>2. QED
  BY <1>1, Invariance, PTL

(* CheckVulnerabilities and SendAlert: an execution that found something   *)
(* completes only after SNS has taken its alert.                           *)
THEOREM AnnouncedFindings == DeliverySpec => []FindingsAreAnnounced
<1>1. IInv => FindingsAreAnnounced
  BY DEF IInv, ClientInv
<1>2. QED
  BY <1>1, Invariance, PTL

(* alert_slack: once the reporter is quiet and no post of the scan died or *)
(* failed, a delivered scan with findings has had its alert tried.         *)
THEOREM AlertedDeliveries == DeliverySpec => []DeliveredIsAlertedUnlessFailed
<1>1. IInv /\ DeliveredIsStored => DeliveredIsAlertedUnlessFailed
  <2> SUFFICES ASSUME IInv, DeliveredIsStored, NEW s \in Scans, phase[s] = "delivered",
                      ScanFindings[s] # {}, Quiet(s),
                      \A d \in PostsOf(s) : pc[d] \notin {"error", "crashed"}
               PROVE  \E d \in PostsOf(s) : slack[d] # "none"
    BY DEF DeliveredIsAlertedUnlessFailed
  <2>1. PICK d \in table : d \in Posts /\ d[1] = s
    BY ItemsOfScan DEF DeliveredIsStored, IInv, ServerInv, ServerTypes
  <2>2. d \in PostsOf(s)
    BY <2>1
  <2>3. pc[d] = "created"
    BY <2>1, <2>2 DEF Quiet, IInv, ServerInv, AfterPut, Server!Running
  <2>4. QED
    BY <2>1, <2>2, <2>3 DEF IInv, ServerInv, AfterAlert
<1>2. QED
  BY <1>1, Invariance, StoredDeliveries, PTL

(* A set without two different elements has at most one.                   *)
LEMMA AtMostOne ==
    ASSUME NEW S, \A x, y \in S : x = y
    PROVE  Cardinality(S) <= 1
<1>1. Cardinality({}) = 0 /\ IsFiniteSet({})
  BY FS_EmptySet
<1>2. CASE S = {}
  BY <1>1, <1>2
<1>3. CASE S # {}
  <2>1. PICK x : S = {} \cup {x} /\ x \notin {}
    BY <1>3
  <2>2. Cardinality({} \cup {x}) = 1
    BY <1>1, <2>1, FS_AddElement
  <2>3. QED
    BY <2>1, <2>2
<1>4. QED
  BY <1>2, <1>3

(* find_existing_audit: of the posts of a scan that its client did not     *)
(* abandon and whose lookup did not miss an item, at most one is stored,   *)
(* and at most one alerts Slack, however many fail after their put, crash  *)
(* and are retried, and however long DynamoDB takes to replicate.          *)
THEOREM SettledOnce == DeliverySpec => []SettledStoredOnce
<1>1. IInv => SettledStoredOnce
  <2> SUFFICES ASSUME IInv, NEW s \in Scans
               PROVE  /\ Cardinality(Server!ItemsOf(s) \ (abandoned \cup overlooked)) <= 1
                      /\ Cardinality((posted \cap PostsOf(s)) \ (abandoned \cup overlooked)) <= 1
    BY DEF SettledStoredOnce
  <2>1. Server!ItemsOf(s) = {e \in table : e[1] = s} /\ table \subseteq Posts
    BY ItemsOfScan DEF IInv, ServerInv, ServerTypes
  <2>2. posted \cap PostsOf(s) \subseteq Server!ItemsOf(s)
    BY <2>1 DEF IInv, ServerInv
  <2>3. \A d, e \in Server!ItemsOf(s) \ (abandoned \cup overlooked) : d = e
    <3> SUFFICES ASSUME NEW d \in Posts \ abandoned, NEW e \in Posts \ abandoned,
                        d \in table, e \in table, d[1] = s, e[1] = s,
                        d \notin overlooked, e \notin overlooked
                 PROVE  d = e
      BY <2>1
    <3>1. ~(d[2] < e[2]) /\ ~(e[2] < d[2])
      BY DEF IInv, FirstOnly
    <3>2. d[2] = e[2]
      BY <3>1
    <3>3. QED
      BY <3>2
  <2>4. QED
    BY <2>2, <2>3, AtMostOne
<1>2. QED
  BY <1>1, Invariance, PTL
-----------------------------------------------------------------------------
(* The abstract variables of Handover, by name.                            *)
verdicts == [d \in Posts |-> VerdictOf(pc[d])]
outcomes == [s \in Scans |-> OutcomeOf(phase[s])]
contractState == <<table, posted, verdicts, abandoned, overlooked, published, outcomes>>

(* The requests of a scan are its posts.                                   *)
LEMMA RequestsOfScan ==
    ASSUME NEW s
    PROVE  Contract!RequestsOf(s) = {e \in Posts : e[1] = s}
  BY DEF Contract!RequestsOf

(* A handler that stores its audit finds no other of its scan there that   *)
(* was not abandoned, if it was not abandoned itself and overlooked none.  *)
LEMMA FirstToStore ==
    ASSUME IInv, NEW d \in Posts, pc[d] = "put", d \notin overlooked,
           NEW e \in Posts, e \in table, e[1] = d[1], d \notin abandoned, e \notin abandoned
    PROVE  FALSE
<1>1. d[1] \in Scans /\ d[2] \in Nat /\ e[2] \in Nat /\ attempt[d[1]] \in Nat
  BY ReportAssumption DEF IInv, ClientInv
<1>2. d # e
  BY DEF IInv, ServerInv, AfterPut
<1>3. d[2] # e[2]
  BY <1>2
<1>4. ~(e[2] < d[2])
  BY DEF IInv, FirstOnly
<1>5. d[2] < e[2]
  BY <1>1, <1>3, <1>4
<1>6. ~(e[2] > attempt[d[1]])
  BY DEF IInv, PostsInv, ServerInv, AfterPut
<1>7. pc[d] \in Final
  BY <1>1, <1>5, <1>6 DEF IInv, PostsInv
<1>8. QED
  BY <1>7 DEF Final, Server!Answered, Server!Acked

(* A lookup that misses an item is a step of the contract of its own.      *)
LEMMA ReporterOverlooks ==
    ASSUME IInv, NEW d \in Posts, ReporterStep(d), Overlooks(d)
    PROVE  Contract!Overlook(d)
<1>1. /\ Moves(d) /\ UNCHANGED <<clientVars, abandoned, published>>
      /\ overlooked' = overlooked \cup {d}
  BY ReporterStepMoves DEF IInv, ServerInv
<1> PICK to \in Server!HandlerStates, outcome \in Server!AlertStates :
        /\ pc' = [pc EXCEPT ![d] = to]
        /\ HandlerMoves(d, to, outcome)
        /\ to = pc[d] \/ UNCHANGED posted
  BY <1>1 DEF Moves
<1>2. pc[d] = "lookup" /\ to = "put"
  BY DEF Overlooks, IInv, ServerInv, ServerTypes
<1>3. d \notin table /\ UNCHANGED <<table, posted>>
  BY <1>2 DEF IInv, ServerInv, AfterPut, HandlerMoves, Server!Running
<1>4. verdicts[d] = "none" /\ UNCHANGED <<verdicts, outcomes>>
  <2>1. \A e \in Posts : VerdictOf(pc[e])' = VerdictOf(pc[e])
    BY <1>2 DEF VerdictOf, IInv, ServerInv, ServerTypes
  <2>2. VerdictOf(pc[d]) = "none"
    BY <1>2 DEF VerdictOf
  <2>3. QED
    BY <1>1, <2>1, <2>2 DEF verdicts, outcomes, clientVars
<1>5. \E e \in table : e[1] = d[1]
  BY FoundItems DEF Overlooks, IInv, ServerInv
<1>6. Contract!RequestsOf([e \in Posts |-> e[1]][d]) \cap table # {}
  BY <1>5, RequestsOfScan DEF IInv, ServerInv, ServerTypes
<1>7. QED
  BY <1>1, <1>3, <1>4, <1>6 DEF Contract!Overlook, verdicts, outcomes

(* Every step of the reporter is a step of the contract or invisible in it *)
LEMMA ReporterKeepsContract ==
    ASSUME IInv, NEW d \in Posts, ReporterStep(d)
    PROVE  Contract!Next \/ UNCHANGED contractState
<1> SUFFICES ASSUME ~Overlooks(d) PROVE Contract!Next \/ UNCHANGED contractState
  BY ReporterOverlooks DEF Contract!Next
<1>1. Moves(d) /\ UNCHANGED <<clientVars, abandoned, overlooked, published>>
  BY ReporterStepMoves DEF IInv, ServerInv
<1> PICK to \in Server!HandlerStates, outcome \in Server!AlertStates :
        /\ pc' = [pc EXCEPT ![d] = to]
        /\ slack' = [slack EXCEPT ![d] = outcome]
        /\ HandlerMoves(d, to, outcome)
        /\ AlertMoves(d, outcome)
        /\ to = pc[d] \/ UNCHANGED posted
  BY <1>1 DEF Moves
<1>2. UNCHANGED <<outcomes, abandoned, overlooked, published>>
  BY <1>1 DEF outcomes, clientVars
<1>3. pc \in [Posts -> Server!HandlerStates]
  BY DEF IInv, ServerInv, ServerTypes
<1>4. verdicts' = [verdicts EXCEPT ![d] = VerdictOf(to)] /\ verdicts[d] = VerdictOf(pc[d])
  BY <1>3 DEF verdicts
<1>5. VerdictOf(to) = VerdictOf(pc[d]) => UNCHANGED verdicts
  BY <1>4 DEF verdicts
<1> HIDE DEF verdicts
<1> USE DEF contractState
<1>6. \A with : verdicts[d] = "none" /\ VerdictOf(to) = with => Contract!Answer(d, with)
  BY <1>4 DEF Contract!Answer, verdicts
<1>7. CASE to = pc[d]
  <2>1. UNCHANGED <<table, verdicts>>
    BY <1>5, <1>7 DEF HandlerMoves, AfterPut
  <2>2. CASE UNCHANGED posted
    BY <1>2, <2>1, <2>2
  <2>3. CASE d \notin posted /\ posted' = posted \cup {d} /\ slack[d] # "none"
    <3>1. d \in table /\ ScanFindings[d[1]] # {} /\ d[1] \in Scans
      BY <2>3 DEF IInv, ServerInv
    <3>2. Contract!Alert(d)
      BY <1>2, <2>1, <2>3, <3>1 DEF Contract!Alert, verdicts, outcomes
    <3>3. QED
      BY <3>2 DEF Contract!Next
  <2>4. QED
    BY <2>2, <2>3 DEF AlertMoves
<1>8. CASE pc[d] = "put" /\ to \in {"stats", "error"} /\ table' = table \cup {d}
  <2>1. d \notin table /\ UNCHANGED posted
    BY <1>8 DEF IInv, ServerInv, AfterPut
  <2>2. ASSUME d \notin overlooked,
               NEW q \in Contract!RequestsOf([e \in Posts |-> e[1]][d]) \cap table,
               {q, d} \cap abandoned = {}
        PROVE  FALSE
    <3>1. q \in Posts /\ q[1] = d[1] /\ q \in table /\ q \notin abandoned /\ d \notin abandoned
      BY <2>2, RequestsOfScan
    <3>2. QED
      BY <1>8, <2>2, <3>1, FirstToStore
  <2>3. UNCHANGED verdicts \/ Contract!Answer(d, "refused")
    BY <1>5, <1>6, <1>8, <1>4 DEF VerdictOf
  <2>4. Contract!Store(d)
    BY <1>2, <1>8, <2>1, <2>2, <2>3 DEF Contract!Store, verdicts, outcomes
  <2>5. QED
    BY <2>4 DEF Contract!Next
<1>9. CASE to \in {"duplicate", "created"} /\ to # pc[d]
  <2>1. /\ pc[d] \in {"lookup", "stats", "invalidate", "index", "metrics", "alert", "alerting",
                       "respond"}
        /\ UNCHANGED <<table, posted>>
        /\ \E e \in table : e[1] = d[1]
    BY <1>9 DEF HandlerMoves, AfterPut, Server!Running, IInv, ServerInv
  <2>2. Contract!RequestsOf([e \in Posts |-> e[1]][d]) \cap table # {}
    BY <2>1, RequestsOfScan DEF IInv, ServerInv, ServerTypes
  <2>3. Contract!Answer(d, "taken")
    BY <1>4, <1>6, <1>9, <2>1 DEF VerdictOf
  <2>4. Contract!Take(d)
    BY <1>2, <2>1, <2>2, <2>3 DEF Contract!Take, outcomes
  <2>5. QED
    BY <2>4 DEF Contract!Next
<1>10. CASE to \in {"rejected", "error"} /\ to # pc[d] /\ pc[d] # "put"
  <2>1. pc[d] \in {"idle"} \cup Server!Running /\ UNCHANGED <<table, posted>>
    BY <1>10 DEF HandlerMoves, AfterPut, Server!Running
  <2>2. Contract!Answer(d, "refused")
    BY <1>4, <1>6, <1>10, <2>1 DEF VerdictOf, Server!Running
  <2>3. Contract!Refuse(d)
    BY <1>2, <2>1, <2>2 DEF Contract!Refuse, outcomes
  <2>4. QED
    BY <2>3 DEF Contract!Next
<1>11. CASE pc[d] = "put" /\ to \in {"error", "crashed"} /\ UNCHANGED table /\ UNCHANGED posted
  <2>1. CASE to = "crashed"
    BY <1>2, <1>5, <1>11, <2>1 DEF VerdictOf
  <2>2. CASE to = "error"
    <3>1. Contract!Refuse(d)
      BY <1>2, <1>4, <1>6, <1>11, <2>2 DEF Contract!Refuse, VerdictOf, outcomes
    <3>2. QED
      BY <3>1 DEF Contract!Next
  <2>3. QED
    BY <1>11, <2>1, <2>2
<1>12. CASE /\ to \notin {"duplicate", "created", "rejected", "error"} /\ to # pc[d]
            /\ pc[d] # "put"
  <2>1. /\ pc[d] \in {"idle"} \cup Server!Running
        /\ UNCHANGED <<table, posted>>
    BY <1>12 DEF HandlerMoves, AfterPut, Server!Running
  <2>2. VerdictOf(to) = VerdictOf(pc[d])
    BY <1>12, <2>1 DEF VerdictOf, Server!Running
  <2>3. QED
    BY <1>2, <1>5, <2>1, <2>2
<1>13. QED
  <2>1. CASE pc[d] = "put" /\ to # pc[d]
    BY <1>8, <1>11, <2>1 DEF HandlerMoves, AfterPut
  <2>2. QED
    BY <1>7, <1>9, <1>10, <1>12, <2>1

(* ... and so is every step of a client.                                   *)
LEMMA ClientKeepsContract ==
    ASSUME IInv, NEW s \in Scans, ClientStep(s)
    PROVE  Contract!Next \/ UNCHANGED contractState
<1>1. ClientMoves(s) /\ UNCHANGED <<overlooked, serverVars>>
  BY ClientStepMoves DEF IInv, ClientInv
<1> PICK next \in Phases \cup Flow!States :
        /\ phase' = [phase EXCEPT ![s] = next]
        /\ Sends(s, next) \/ Hears(s, next) \/ Misses(s, next) \/ Proceeds(s, next)
  BY <1>1 DEF ClientMoves
<1>2. UNCHANGED <<table, posted, verdicts, overlooked>>
  BY <1>1 DEF serverVars, verdicts
<1>3. /\ outcomes' = [outcomes EXCEPT ![s] = OutcomeOf(next)]
      /\ outcomes[s] = OutcomeOf(phase[s])
  BY DEF outcomes, IInv, ClientInv
<1>4. OutcomeOf(next) = OutcomeOf(phase[s]) => UNCHANGED outcomes
  BY <1>3 DEF outcomes
<1> HIDE DEF verdicts, outcomes
<1> USE DEF contractState
<1>5. ASSUME OutcomeOf(phase[s]) = "open", UNCHANGED abandoned, NEW with, OutcomeOf(next) = with
      PROVE  Contract!End(s, with)
  BY <1>2, <1>3, <1>5 DEF Contract!End, outcomes, verdicts
<1>6. ASSUME attempt[s] # 0
      PROVE  /\ Current(s) \in Posts /\ Current(s) \in Contract!RequestsOf(s)
             /\ verdicts[Current(s)] = VerdictOf(pc[Current(s)])
  BY <1>6, CurrentIsPost, RequestsOfScan DEF IInv, verdicts, Current
<1>7. phase[s] = "waiting" => attempt[s] # 0
  BY DEF IInv, ClientInv
<1>8. CASE Sends(s, next)
  <2>1. OutcomeOf(next) = OutcomeOf(phase[s])
    BY <1>8 DEF Sends, OutcomeOf
  <2>2. QED
    BY <1>2, <1>4, <1>8, <2>1 DEF Sends
<1>9. CASE Hears(s, next)
  <2>1. OutcomeOf(phase[s]) = "open" /\ UNCHANGED <<abandoned, published>>
    BY <1>9 DEF Hears, OutcomeOf
  <2>2. CASE next = "delivered"
    <3>1. attempt[s] # 0 /\ VerdictOf(pc[Current(s)]) = "taken"
      BY <1>7, <1>9, <2>2 DEF Hears, VerdictOf, Server!Acked
    <3>2. \E r \in Contract!RequestsOf(s) : verdicts[r] = "taken"
      BY <1>6, <3>1
    <3>3. Contract!Deliver(s)
      BY <1>5, <2>1, <2>2, <3>2 DEF Contract!Deliver, OutcomeOf, verdicts
    <3>4. QED
      BY <3>3 DEF Contract!Next
  <2>3. CASE next \in {"rejected", "gaveup"}
    <3>1. Contract!Fail(s)
      BY <1>5, <2>1, <2>3 DEF Contract!Fail, OutcomeOf
    <3>2. QED
      BY <3>1 DEF Contract!Next
  <2>4. CASE next \in {"backoff", "CheckVulnerabilities"}
    BY <1>2, <1>4, <2>1, <2>4 DEF OutcomeOf
  <2>5. QED
    BY <1>9, <2>2, <2>3, <2>4 DEF Hears
<1>10. CASE Misses(s, next)
  <2>1. /\ attempt[s] # 0 /\ OutcomeOf(phase[s]) = "open" /\ UNCHANGED published
        /\ OutcomeOf(next) \in {"open", "failed"}
    BY <1>7, <1>10 DEF Misses, OutcomeOf
  <2>2. CASE pc[Current(s)] \in {"idle"} \cup Server!Running
    <3>1. /\ abandoned' = abandoned \cup {Current(s)}
          /\ VerdictOf(pc[Current(s)]) = "none"
      BY <1>10, <2>2 DEF Misses, VerdictOf, Server!Running
    <3>2. outcomes' \in {outcomes, [outcomes EXCEPT ![s] = "failed"]}
      BY <1>3, <1>4, <2>1
    <3>3. [d \in Posts |-> d[1]][Current(s)] = s
      BY <1>6, <2>1 DEF Current
    <3>4. Contract!Abandon(Current(s))
      BY <1>2, <1>3, <1>6, <2>1, <3>1, <3>2, <3>3 DEF Contract!Abandon, verdicts, outcomes
    <3>5. QED
      BY <1>6, <2>1, <3>4 DEF Contract!Next
  <2>3. CASE pc[Current(s)] \notin {"idle"} \cup Server!Running
    <3>1. UNCHANGED abandoned
      BY <1>10, <2>3 DEF Misses
    <3>2. CASE OutcomeOf(next) = "open"
      BY <1>2, <1>4, <2>1, <3>1, <3>2
    <3>3. CASE OutcomeOf(next) = "failed"
      <4>1. Contract!Fail(s)
        BY <1>5, <2>1, <3>1, <3>3 DEF Contract!Fail
      <4>2. QED
        BY <4>1 DEF Contract!Next
    <3>4. QED
      BY <2>1, <3>2, <3>3
  <2>4. QED
    BY <2>2, <2>3
<1>11. CASE Proceeds(s, next)
  <2>1. OutcomeOf(phase[s]) = "open" /\ UNCHANGED abandoned
    BY <1>11 DEF Proceeds, OutcomeOf
  <2>2. CASE next \in {"ProcessFindings", "SendAlert"}
    BY <1>2, <1>4, <1>11, <2>1, <2>2 DEF Proceeds, OutcomeOf
  <2>3. CASE next \in {"AuditFailed", "SendAlertFailed"}
    <3>1. published' \in {published, published \cup Contract!Announcements(s)}
      <4>1. phase[s] = "SendAlert" => Contract!Announcements(s) = {s}
        BY DEF Contract!Announcements, IInv, ClientInv
      <4>2. QED
        BY <1>11, <2>3, <4>1 DEF Proceeds
    <3>2. Contract!Fail(s)
      BY <1>5, <2>1, <2>3, <3>1 DEF Contract!Fail, OutcomeOf
    <3>3. QED
      BY <3>2 DEF Contract!Next
  <2>4. CASE next = "AuditComplete"
    <3>1. published' = published \cup Contract!Announcements(s)
      <4>1. CASE phase[s] = "SendAlert"
        <5>1. Contract!Announcements(s) = {s}
          BY <4>1 DEF Contract!Announcements, IInv, ClientInv
        <5>2. QED
          BY <1>11, <2>4, <4>1, <5>1 DEF Proceeds
      <4>2. CASE phase[s] = "CheckVulnerabilities"
        <5>1. ScanFindings[s] = {} /\ UNCHANGED published
          BY <1>11, <2>4, <4>2 DEF Proceeds
        <5>2. QED
          BY <5>1 DEF Contract!Announcements
      <4>3. QED
        BY <1>11, <2>4, <4>1, <4>2 DEF Proceeds
    <3>2. attempt[s] # 0 /\ pc[Current(s)] \in Server!Answered
      BY <1>11, <2>4 DEF Proceeds, IInv, ClientInv
    <3>3. VerdictOf(pc[Current(s)]) # "none"
      BY <3>2 DEF VerdictOf, Server!Answered, Server!Acked
    <3>4. \E r \in Contract!RequestsOf(s) : verdicts[r] # "none"
      BY <1>6, <3>2, <3>3
    <3>5. Contract!Complete(s)
      BY <1>5, <2>1, <2>4, <3>1, <3>4 DEF Contract!Complete, OutcomeOf, verdicts
    <3>6. QED
      BY <3>5 DEF Contract!Next
  <2>5. QED
    BY <1>11, <2>2, <2>3, <2>4 DEF Proceeds
<1>12. QED
  BY <1>8, <1>9, <1>10, <1>11

(* Clients, network and handlers together implement Handover, whatever is  *)
(* lost, retried, overtaken or crashed: posts of a scan that were neither  *)
(* abandoned nor overlooked an item store it once, Slack and SNS only hear of what is stored or   *)
(* found, and the handover of a scan ends once, truthfully.                *)
THEOREM Handovers == DeliverySpec => ImplementsHandover
<1>1. DeliveryInit => Contract!Init
  <2> SUFFICES ASSUME DeliveryInit PROVE Contract!Init
    OBVIOUS
  <2>1. /\ verdicts = [r \in Posts |-> "none"]
        /\ outcomes = [s \in Scans |-> "open"]
    BY DEF DeliveryInit, Init, Server!Init, verdicts, outcomes, VerdictOf, OutcomeOf
  <2>2. table = {} /\ posted = {} /\ abandoned = {} /\ overlooked = {} /\ published = {}
    BY DEF DeliveryInit, Server!Init
  <2>3. QED
    BY <2>1, <2>2 DEF Contract!Init, verdicts, outcomes
<1>2. IInv /\ [DeliveryNext]_allVars => [Contract!Next]_(Contract!handoverVars)
  <2> SUFFICES ASSUME IInv, [DeliveryNext]_allVars
               PROVE  Contract!Next \/ UNCHANGED Contract!handoverVars
    OBVIOUS
  <2>1. UNCHANGED contractState => UNCHANGED Contract!handoverVars
    BY DEF contractState, Contract!handoverVars, verdicts, outcomes
  <2>2. ASSUME NEW s \in Scans, ClientStep(s)
        PROVE  Contract!Next \/ UNCHANGED contractState
    BY <2>2, ClientKeepsContract
  <2>3. ASSUME NEW d \in Posts, ReporterStep(d)
        PROVE  Contract!Next \/ UNCHANGED contractState
    BY <2>3, ReporterKeepsContract
  <2>4. UNCHANGED allVars => UNCHANGED contractState
    BY DEF allVars, serverVars, clientVars, contractState, verdicts, outcomes
  <2>5. QED
    BY <2>1, <2>2, <2>3, <2>4 DEF DeliveryNext, ReporterStep
<1>3. QED
  BY <1>1, <1>2, Invariance, PTL DEF DeliverySpec, Contract!Spec, ImplementsHandover

(* What the abstract contract is good for, whoever implements it: Slack    *)
(* hears only of what is stored, a scan called taken or delivered is       *)
(* stored, a completed one is announced, and of two stored requests of one *)
(* scan one was abandoned, or overlooked an item.                          *)
Promises ==
    /\ posted \subseteq table /\ table \subseteq Posts
    /\ \A d \in Posts : verdicts[d] = "taken" => \E e \in table : e[1] = d[1]
    /\ \A s \in Scans :
           /\ outcomes[s] = "delivered" => \E e \in table : e[1] = s
           /\ outcomes[s] = "completed" => Contract!Announcements(s) \subseteq published
    /\ \A d, e \in table :
           d[1] = e[1] /\ d # e => {d, e} \cap (abandoned \cup overlooked) # {}

(* A step of one request keeps them.                                       *)
LEMMA RequestKeepsPromises ==
    ASSUME Promises, NEW r \in Posts,
           \/ Contract!Overlook(r) \/ Contract!Store(r) \/ Contract!Take(r)
           \/ Contract!Refuse(r) \/ Contract!Alert(r) \/ Contract!Abandon(r)
    PROVE  Promises'
<1>1. /\ [d \in Posts |-> d[1]][r] = r[1] /\ r[1] \in Scans
      /\ Contract!RequestsOf(r[1]) = {e \in Posts : e[1] = r[1]}
  BY RequestsOfScan DEF Posts
<1>2. \A with : Contract!Answer(r, with) =>
          verdicts' = [verdicts EXCEPT ![r] = with] /\ verdicts[r] = "none"
  BY DEF Contract!Answer, verdicts
<1>3. DOMAIN verdicts = Posts /\ DOMAIN outcomes = Scans
  BY DEF verdicts, outcomes
<1>4. \A s : Contract!Announcements(s)' = Contract!Announcements(s)
  BY DEF Contract!Announcements
<1>5. CASE Contract!Store(r)
  <2>1. /\ table' = table \cup {r}
        /\ UNCHANGED <<posted, abandoned, overlooked, published, outcomes>>
        /\ verdicts' = verdicts \/ verdicts' = [verdicts EXCEPT ![r] = "refused"]
    BY <1>2, <1>5 DEF Contract!Store, verdicts, outcomes
  <2>2. r \in overlooked \/
            \A q \in table : q \in Posts /\ q[1] = r[1] => {q, r} \cap abandoned # {}
    BY <1>1, <1>5 DEF Contract!Store
  <2> HIDE DEF verdicts, outcomes
  <2>3. \A d \in Posts : verdicts'[d] = "taken" => verdicts[d] = "taken"
    BY <1>3, <2>1
  <2>4. \A d, e \in table' :
            d[1] = e[1] /\ d # e => {d, e} \cap (abandoned' \cup overlooked') # {}
    BY <2>1, <2>2 DEF Promises
  <2>5. QED
    BY <1>4, <2>1, <2>3, <2>4 DEF Promises
<1>6. CASE Contract!Take(r) \/ Contract!Refuse(r)
  <2>1. /\ UNCHANGED <<table, posted, abandoned, overlooked, published, outcomes>>
        /\ \/ verdicts' = [verdicts EXCEPT ![r] = "refused"]
           \/ /\ verdicts' = [verdicts EXCEPT ![r] = "taken"]
              /\ \E e \in table : e[1] = r[1]
    BY <1>1, <1>2, <1>6 DEF Contract!Take, Contract!Refuse, outcomes
  <2> HIDE DEF verdicts, outcomes
  <2>2. \A d \in Posts : verdicts'[d] = "taken" => \E e \in table : e[1] = d[1]
    BY <1>3, <2>1 DEF Promises
  <2>3. QED
    BY <1>4, <2>1, <2>2 DEF Promises
<1>7. CASE Contract!Alert(r)
  <2>1. /\ posted' = posted \cup {r} /\ r \in table
        /\ UNCHANGED <<table, verdicts, abandoned, overlooked, published, outcomes>>
    BY <1>7 DEF Contract!Alert, verdicts, outcomes
  <2> HIDE DEF verdicts, outcomes
  <2>2. QED
    BY <1>4, <2>1 DEF Promises
<1>8. CASE Contract!Abandon(r)
  <2>1. /\ abandoned' = abandoned \cup {r}
        /\ UNCHANGED <<table, posted, verdicts, overlooked, published>>
        /\ outcomes' = outcomes \/ outcomes' = [outcomes EXCEPT ![r[1]] = "failed"]
    BY <1>1, <1>8 DEF Contract!Abandon, verdicts, outcomes
  <2> HIDE DEF verdicts, outcomes
  <2>2. \A s \in Scans : outcomes'[s] \in {outcomes[s], "failed"}
    BY <1>1, <1>3, <2>1
  <2>3. \A d, e \in table' :
            d[1] = e[1] /\ d # e => {d, e} \cap (abandoned' \cup overlooked') # {}
    BY <2>1 DEF Promises
  <2>4. QED
    BY <1>4, <2>1, <2>2, <2>3 DEF Promises
<1>9. CASE Contract!Overlook(r)
  <2>1. /\ overlooked' = overlooked \cup {r}
        /\ UNCHANGED <<table, posted, verdicts, abandoned, published, outcomes>>
    BY <1>9 DEF Contract!Overlook, verdicts, outcomes
  <2> HIDE DEF verdicts, outcomes
  <2>2. QED
    BY <1>4, <2>1 DEF Promises
<1>10. QED
  BY <1>5, <1>6, <1>7, <1>8, <1>9

(* ... and so does the end of a handover.                                  *)
LEMMA EndKeepsPromises ==
    ASSUME Promises, NEW s \in Scans,
           Contract!Deliver(s) \/ Contract!Complete(s) \/ Contract!Fail(s)
    PROVE  Promises'
<1>1. \A a : Contract!Announcements(a)' = Contract!Announcements(a)
  BY DEF Contract!Announcements
<1>2. DOMAIN verdicts = Posts /\ DOMAIN outcomes = Scans
  BY DEF verdicts, outcomes
<1>3. /\ UNCHANGED <<table, posted, abandoned, overlooked, verdicts>>
      /\ \/ /\ outcomes' = [outcomes EXCEPT ![s] = "delivered"] /\ UNCHANGED published
            /\ \E r \in Contract!RequestsOf(s) : verdicts[r] = "taken"
         \/ /\ outcomes' = [outcomes EXCEPT ![s] = "completed"]
            /\ published' = published \cup Contract!Announcements(s)
         \/ /\ outcomes' = [outcomes EXCEPT ![s] = "failed"]
            /\ published \subseteq published'
  BY DEF Contract!Deliver, Contract!Complete, Contract!Fail, Contract!End, verdicts, outcomes
<1> HIDE DEF verdicts, outcomes
<1>4. (\E r \in Contract!RequestsOf(s) : verdicts[r] = "taken") => \E e \in table : e[1] = s
  BY RequestsOfScan DEF Promises
<1>5. /\ \A a \in Scans : outcomes'[a] = "delivered" => \E e \in table : e[1] = a
      /\ \A a \in Scans :
             outcomes'[a] = "completed" => Contract!Announcements(a) \subseteq published'
  BY <1>2, <1>3, <1>4 DEF Promises
<1>6. QED
  BY <1>1, <1>3, <1>5 DEF Promises

(* Handover is worth implementing: its behaviours keep these promises, by  *)
(* themselves.                                                             *)
THEOREM HandoverPromises == ImplementsHandover => []Promises
<1>1. Contract!Init => Promises
  <2> SUFFICES ASSUME Contract!Init PROVE Promises
    OBVIOUS
  <2>1. /\ table = {} /\ posted = {}
        /\ \A d \in Posts : verdicts[d] = "none"
        /\ \A s \in Scans : outcomes[s] = "open"
    BY DEF Contract!Init, verdicts, outcomes
  <2>2. QED
    BY <2>1 DEF Promises
<1>2. Promises /\ [Contract!Next]_(Contract!handoverVars) => Promises'
  <2> SUFFICES ASSUME Promises, [Contract!Next]_(Contract!handoverVars) PROVE Promises'
    OBVIOUS
  <2>1. CASE Contract!Next
    BY <2>1, RequestKeepsPromises, EndKeepsPromises DEF Contract!Next
  <2>2. CASE UNCHANGED Contract!handoverVars
    <3>1. UNCHANGED <<table, posted, verdicts, abandoned, overlooked, published, outcomes>>
      BY <2>2 DEF Contract!handoverVars, verdicts, outcomes
    <3>2. \A s : Contract!Announcements(s)' = Contract!Announcements(s)
      BY DEF Contract!Announcements
    <3>3. QED
      BY <3>1, <3>2 DEF Promises
  <2>3. QED
    BY <2>1, <2>2
<1>3. QED
  BY <1>1, <1>2, PTL DEF ImplementsHandover, Contract!Spec
-----------------------------------------------------------------------------
(* What a client may still do: each POST it has left costs it two steps at *)
(* most, to send it and to hear of it, or not.                             *)
PhaseStepsLeft(s) ==
    CASE phase[s] \in {"idle", "waiting"} -> 3
      [] phase[s] \in {"ProcessFindings", "backoff", "retry", "CheckVulnerabilities"} -> 2
      [] phase[s] = "SendAlert" -> 1
      [] OTHER -> 0

ClientStepsLeft(s) == 2 * (MaxAttempts - attempt[s]) + PhaseStepsLeft(s)

(* No client goes round in circles: each of its steps leaves it fewer, and *)
(* nothing the reporter, the network or other clients do gives it more.    *)
ClientStepsRunOut ==
    [][\A s \in Scans :
           /\ ClientStepsLeft(s) \in 0..(2 * MaxAttempts + 3)
           /\ ClientStepsLeft(s)' <= ClientStepsLeft(s)
           /\ ClientStep(s) => ClientStepsLeft(s)' < ClientStepsLeft(s)]_allVars

(* A client's own step uses some up.                                       *)
LEMMA ClientStepsShrink ==
    ASSUME ClientInv, NEW s \in Scans, ClientMoves(s)
    PROVE  /\ ClientStepsLeft(s)' \in Int /\ ClientStepsLeft(s)' < ClientStepsLeft(s)
           /\ \A t \in Scans \ {s} : phase'[t] = phase[t] /\ attempt'[t] = attempt[t]
<1> PICK next \in Phases \cup Flow!States :
        /\ phase' = [phase EXCEPT ![s] = next]
        /\ Sends(s, next) \/ Hears(s, next) \/ Misses(s, next) \/ Proceeds(s, next)
  BY DEF ClientMoves
<1> USE DEF ClientInv
<1>1. attempt[s] \in 0..MaxAttempts /\ MaxAttempts \in Nat
  BY ReportAssumption
<1>2. phase'[s] = next
  OBVIOUS
<1>3. CASE Sends(s, next)
  <2>1. attempt'[s] = attempt[s] + 1
    BY <1>3 DEF Sends
  <2>2. PhaseStepsLeft(s) \in {2, 3} /\ PhaseStepsLeft(s)' = 3
    BY <1>2, <1>3 DEF Sends, PhaseStepsLeft
  <2>3. \A t \in Scans \ {s} : phase'[t] = phase[t] /\ attempt'[t] = attempt[t]
    BY <1>3 DEF Sends
  <2>4. QED
    BY <1>1, <2>1, <2>2, <2>3 DEF ClientStepsLeft
<1>4. CASE Hears(s, next) \/ Misses(s, next) \/ Proceeds(s, next)
  <2>1. UNCHANGED attempt
    BY <1>4 DEF Hears, Misses, Proceeds
  <2>2. PhaseStepsLeft(s) \in 0..3 /\ PhaseStepsLeft(s)' \in 0..3
    BY DEF PhaseStepsLeft
  <2>3. PhaseStepsLeft(s)' < PhaseStepsLeft(s)
    BY <1>2, <1>4 DEF Hears, Misses, Proceeds, PhaseStepsLeft
  <2>4. QED
    BY <1>1, <2>1, <2>2, <2>3 DEF ClientStepsLeft
<1>5. QED
  BY <1>3, <1>4

(* ReportAsync and executions end after 2 * MaxAttempts + 3 steps at most, *)
(* whatever becomes of their posts: what ScanSettles needs besides a       *)
(* client that runs.                                                       *)
THEOREM ClientsRunOut == DeliverySpec => ClientStepsRunOut
<1>1. IInv /\ [DeliveryNext]_allVars =>
          [\A s \in Scans :
               /\ ClientStepsLeft(s) \in 0..(2 * MaxAttempts + 3)
               /\ ClientStepsLeft(s)' <= ClientStepsLeft(s)
               /\ ClientStep(s) => ClientStepsLeft(s)' < ClientStepsLeft(s)]_allVars
  <2> SUFFICES ASSUME IInv, DeliveryNext, NEW s \in Scans
               PROVE  /\ ClientStepsLeft(s) \in 0..(2 * MaxAttempts + 3)
                      /\ ClientStepsLeft(s)' <= ClientStepsLeft(s)
                      /\ ClientStep(s) => ClientStepsLeft(s)' < ClientStepsLeft(s)
    OBVIOUS
  <2> USE DEF IInv
  <2>1. ClientStepsLeft(s) \in 0..(2 * MaxAttempts + 3)
    <3>1. attempt[s] \in 0..MaxAttempts /\ MaxAttempts \in Nat
      BY ReportAssumption DEF ClientInv
    <3>2. PhaseStepsLeft(s) \in 0..3
      BY DEF PhaseStepsLeft
    <3>3. QED
      BY <3>1, <3>2 DEF ClientStepsLeft
  <2>2. ASSUME NEW t \in Scans, ClientStep(t)
        PROVE  /\ ClientStepsLeft(t)' \in Int /\ ClientStepsLeft(t)' < ClientStepsLeft(t)
               /\ t # s => ClientStepsLeft(s)' = ClientStepsLeft(s)
    <3>1. ClientMoves(t)
      BY <2>2, ClientStepMoves DEF ClientInv
    <3>2. /\ ClientStepsLeft(t)' \in Int /\ ClientStepsLeft(t)' < ClientStepsLeft(t)
          /\ t # s => phase'[s] = phase[s] /\ attempt'[s] = attempt[s]
      BY <3>1, ClientStepsShrink
    <3>3. QED
      BY <3>2 DEF ClientStepsLeft, PhaseStepsLeft
  <2>3. ASSUME NEW d \in Posts, ReporterStep(d)
        PROVE  ClientStepsLeft(s)' = ClientStepsLeft(s)
    BY <2>3 DEF ReporterStep, Arrive, Serve, Notify, Disturb, clientVars,
                ClientStepsLeft, PhaseStepsLeft
  <2>4. CASE \E t \in Scans : ClientStep(t)
    <3>1. PICK t \in Scans : ClientStep(t)
      BY <2>4
    <3>2. CASE t = s
      BY <2>1, <2>2, <3>1, <3>2
    <3>3. CASE t # s
      BY <2>1, <2>2, <3>1, <3>3
    <3>4. QED
      BY <3>2, <3>3
  <2>5. CASE \E d \in Posts : ReporterStep(d)
    BY <2>1, <2>2, <2>3, <2>5
  <2>6. QED
    BY <2>4, <2>5 DEF DeliveryNext, ReporterStep
<1>2. QED
  BY <1>1, Invariance, PTL DEF DeliverySpec, ClientStepsRunOut

-----------------------------------------------------------------------------
(* The reporter once more, with what IngestProofs shows of it.             *)
Reporter == INSTANCE IngestProofs WITH
    Deliveries <- Posts,
    AuditIds <- Scans,
    AuditId <- [d \in Posts |-> d[1]],
    Keyed <- Posts,
    Async <- Background \X (1..MaxAttempts),
    Findings <- [d \in Posts |-> ScanFindings[d[1]]]

(* The posts of this project's clients are deliveries as Ingest has them.  *)
LEMMA PostsAreDeliveries ==
    /\ Reporter!DeliveriesAssumption
    /\ Reporter!PayloadAssumption
    /\ Reporter!ConfigurationAssumption
  BY DeliveryAssumption, ServerAssumption
  DEF Reporter!DeliveriesAssumption, Reporter!PayloadAssumption,
      Reporter!ConfigurationAssumption

(* It is the reporter of Delivery: the same state and the same steps.      *)
LEMMA SameReporter ==
    /\ Server!Init <=> Reporter!Init
    /\ [Server!Next]_Server!vars <=> [Reporter!Next]_Reporter!vars
  BY DEF Server!Admit, Reporter!Admit, Server!FirstCall, Reporter!FirstCall,
      Server!Refuse, Reporter!Refuse, Server!FindExistingAudit,
      Reporter!FindExistingAudit, Server!Found, Reporter!Found, Server!Missing,
      Reporter!Missing, Server!ItemsOf, Reporter!ItemsOf, Server!StorageError, Reporter!StorageError, Server!PutItem,
      Reporter!PutItem, Server!AddToStats, Reporter!AddToStats, Server!DeleteCache,
      Reporter!DeleteCache, Server!Uncached, Reporter!Uncached,
      Server!RecordFindings, Reporter!RecordFindings, Server!RowsOf,
      Reporter!RowsOf, Server!RecordMetrics, Reporter!RecordMetrics,
      Server!AlertSlack, Reporter!AlertSlack, Server!AlertAll, Reporter!AlertAll,
      Server!AlertError, Reporter!AlertError, Server!FinishAlert,
      Reporter!FinishAlert, Server!Respond, Reporter!Respond, Server!PostAlert,
      Reporter!PostAlert, Server!FinishDelivery, Reporter!FinishDelivery,
      Server!DeliveryRaises, Reporter!DeliveryRaises, Server!MarkSlackResult,
      Reporter!MarkSlackResult, Server!Flag, Reporter!Flag, Server!MarkError,
      Reporter!MarkError, Server!DeleteMarkedView, Reporter!DeleteMarkedView,
      Server!Crash, Reporter!Crash,
      Server!HandlerStep, Reporter!HandlerStep, Server!AlertStep,
      Reporter!AlertStep, Server!Step, Reporter!Step, Server!Goto, Reporter!Goto,
      Server!Running, Reporter!Running, Server!Acked, Reporter!Acked,
      Server!Answered, Reporter!Answered, Server!InFlight, Reporter!InFlight,
      Server!tableVars, Reporter!tableVars, Server!sideVars, Reporter!sideVars,
      Server!alertVars, Reporter!alertVars, Server!vars, Reporter!vars, Server!Next,
      Reporter!Next, Server!Init, Reporter!Init, Server!EmptyView,
      Reporter!EmptyView

(* Seen from the reporter, every step of the whole is one of its own, or   *)
(* none.                                                                   *)
LEMMA ServerSteps ==
    ASSUME [DeliveryNext]_allVars
    PROVE  [Server!Next]_Server!vars
<1>1. UNCHANGED serverVars => UNCHANGED Server!vars
  BY DEF serverVars, Server!vars, Server!tableVars, Server!sideVars, Server!alertVars
<1>2. ASSUME NEW s \in Scans, ClientStep(s) PROVE UNCHANGED serverVars
  BY <1>2 DEF ClientStep, Submit, Reply, Lose, Orchestrate
<1>3. ASSUME NEW d \in Posts, ReporterStep(d) PROVE Server!Next
  BY <1>3
  DEF ReporterStep, Arrive, Serve, Notify, Disturb, Server!Next, Server!Step
<1>4. UNCHANGED allVars => UNCHANGED serverVars
  BY DEF allVars, serverVars
<1>5. QED
  BY <1>1, <1>2, <1>3, <1>4 DEF DeliveryNext, ReporterStep

(* Clients that retry, give up and overtake themselves use the reporter as *)
(* Ingest has it: nothing they do is outside its specification ...         *)
THEOREM ServerIsIngest == DeliverySpec => Server!Spec
<1>1. DeliveryInit => Server!Init
  BY DEF DeliveryInit
<1>2. [DeliveryNext]_allVars => [Server!Next]_Server!vars
  BY ServerSteps
<1>3. QED
  BY <1>1, <1>2, PTL DEF DeliverySpec, Server!Spec

(* Two names for the same handlers: the instance of Ingest that Delivery   *)
(* has, and that of IngestProofs, whose theorems are about Ingest.         *)
LEMMA ServerIsReporter == Server!Spec => Reporter!Spec
  BY SameReporter, PTL DEF Server!Spec, Reporter!Spec

(* ... so what the handlers promise alone they promise these clients: ...  *)
THEOREM EndToEndSafety ==
    DeliverySpec => [](/\ Server!AckedIsStored /\ Server!EffectsBacked
                       /\ Server!DuplicateLeavesNoTrace /\ Server!SuccessIsTruthful
                       /\ Server!FlagTruthful)
<1>1. Reporter!AckedIsStored => Server!AckedIsStored
  BY DEF Server!AckedIsStored, Reporter!AckedIsStored, Server!ItemsOf, Reporter!ItemsOf,
         Server!Acked, Reporter!Acked
<1>2. Reporter!EffectsBacked => Server!EffectsBacked
  BY DEF Server!EffectsBacked, Reporter!EffectsBacked, Server!ItemsOf, Reporter!ItemsOf
<1>3. Reporter!DuplicateLeavesNoTrace => Server!DuplicateLeavesNoTrace
  BY DEF Server!DuplicateLeavesNoTrace, Reporter!DuplicateLeavesNoTrace
<1>4. Reporter!SuccessIsTruthful => Server!SuccessIsTruthful
  BY DEF Server!SuccessIsTruthful, Reporter!SuccessIsTruthful, Server!RowsOf,
         Reporter!RowsOf, Server!AlertStates, Reporter!AlertStates, Server!InFlight,
         Reporter!InFlight
<1>5. Reporter!FlagTruthful => Server!FlagTruthful
  BY DEF Server!FlagTruthful, Reporter!FlagTruthful
<1>6. QED
  BY <1>1, <1>2, <1>3, <1>4, <1>5, PostsAreDeliveries, ServerIsIngest, ServerIsReporter,
     Reporter!AckedAuditsAreStored, Reporter!EffectsAreBacked,
     Reporter!DuplicatesLeaveNoTrace, Reporter!SuccessesAreTruthful,
     Reporter!FlagsAreTruthful, PTL

(* ... nothing is taken back ...                                           *)
THEOREM EndToEndNothingTakenBack == DeliverySpec => Server!NothingTakenBack
<1>1. UNCHANGED Reporter!vars => UNCHANGED Server!vars
  BY DEF Server!vars, Reporter!vars, Server!tableVars, Reporter!tableVars,
         Server!sideVars, Reporter!sideVars, Server!alertVars, Reporter!alertVars
<1>2. Reporter!NothingTakenBack => Server!NothingTakenBack
  BY <1>1, PTL DEF Reporter!NothingTakenBack, Server!NothingTakenBack
<1>3. QED
  BY <1>2, PostsAreDeliveries, ServerIsIngest, ServerIsReporter,
     Reporter!NothingIsTakenBack, PTL

(* ... and the audit log is implemented end to end.                        *)
THEOREM EndToEndLog == DeliverySpec => Server!ImplementsAuditLog
<1>1. /\ Reporter!Log!Init => Server!Log!Init
      /\ [Reporter!Log!Next]_(Reporter!Log!logVars) => [Server!Log!Next]_(Server!Log!logVars)
  BY DEF Server!Log!Init, Reporter!Log!Init, Server!Log!Next, Reporter!Log!Next,
         Server!Log!Store, Reporter!Log!Store, Server!Log!Acknowledge,
         Reporter!Log!Acknowledge, Server!Log!Index, Reporter!Log!Index,
         Server!Log!Alert, Reporter!Log!Alert, Server!Log!logVars, Reporter!Log!logVars,
         Server!Acked, Reporter!Acked
<1>2. Reporter!ImplementsAuditLog => Server!ImplementsAuditLog
  BY <1>1, PTL
  DEF Reporter!ImplementsAuditLog, Server!ImplementsAuditLog, Reporter!Log!Spec, Server!Log!Spec
<1>3. QED
  BY <1>2, PostsAreDeliveries, ServerIsIngest, ServerIsReporter,
     Reporter!Implementation, PTL

(* Every post is served and its alert settled, or lost with its worker, in *)
(* a bounded number of steps, and no handler waits for a dead alert.       *)
THEOREM EndToEndStepsRunOut ==
    DeliverySpec => Reporter!StepsRunOut /\ []Reporter!NobodyWaitsInVain
  BY PostsAreDeliveries, ServerIsIngest, ServerIsReporter,
     Reporter!StepsOfDeliveryRunOut, Reporter!AwaitedAlertsMove, PTL
=============================================================================
