--------------------------- MODULE NotifierProofs ---------------------------
(***************************************************************************)
(* What holds of the background delivery of module Notifier for any number *)
(* of alerts, threads and attempts.  The executor runs a future once       *)
(* because it is queued once (QueueInv); drain may look at _pending alone  *)
(* because a future leaves it only by its own callback, and has the        *)
(* callback only after it was entered (PendingInv).                        *)
(***************************************************************************)
EXTENDS Notifier, Integers, FiniteSetTheorems, TLAPS

(* A future is in the work queue once, and only until a thread takes it.   *)
QueueInv ==
    /\ \A i \in 1..Len(queue) : work[queue[i]] = "queued"
    /\ \A i, j \in 1..Len(queue) : queue[i] = queue[j] => i = j
    /\ \A a \in Alerts : submit[a] = "idle" => work[a] = "new"

(* A future is in _pending before it gets its callback.                    *)
PendingInv ==
    /\ \A a \in Alerts : submit[a] = "added" => a \in pending
    /\ \A a \in hooked : submit[a] = "returned"
    /\ PendingCoversReturned

(* An alert that raised is delivered no more.                              *)
RetryInv ==
    /\ \A a \in Alerts : accepted[a] <= attempts[a]
    /\ \A a \in raised : work[a] \notin {"new", "queued", "delivering"}
    /\ RetriesHonest

DrainInv ==
    /\ \A a \in due : submit[a] = "returned"
    /\ DrainIsComplete

IInv == TypeOK /\ QueueInv /\ PendingInv /\ RetryInv /\ DrainInv

USE NotifierAssumption

(* The invariant holds at the start.                                       *)
LEMMA InitIInv == Init => IInv
<1> SUFFICES ASSUME Init PROVE IInv
  OBVIOUS
<1>1. 0 \in 0..MaxAttempts
  OBVIOUS
<1>2. TypeOK
  BY <1>1 DEF Init, TypeOK, SubmitStates, WorkStates
<1>3. QueueInv /\ PendingInv
  BY DEF Init, QueueInv, PendingInv, PendingCoversReturned
<1>4. RetryInv /\ DrainInv
  BY DEF Init, RetryInv, RetriesHonest, DrainInv, DrainIsComplete
<1>5. QED
  BY <1>2, <1>3, <1>4 DEF IInv

(* The head of the queue is an alert that waits, and nobody else in it.    *)
LEMMA HeadIsQueued ==
    ASSUME TypeOK, QueueInv, queue # <<>>
    PROVE  /\ Head(queue) \in Alerts /\ work[Head(queue)] = "queued"
           /\ Tail(queue) \in Seq(Alerts)
           /\ \A i \in 1..Len(Tail(queue)) :
                  /\ Tail(queue)[i] # Head(queue)
                  /\ work[Tail(queue)[i]] = "queued"
           /\ \A i, j \in 1..Len(Tail(queue)) : Tail(queue)[i] = Tail(queue)[j] => i = j
<1>1. Len(queue) \in Nat \ {0} /\ 1 \in 1..Len(queue) /\ Head(queue) = queue[1]
  BY DEF TypeOK
<1>2. /\ Tail(queue) \in Seq(Alerts) /\ Len(Tail(queue)) = Len(queue) - 1
      /\ \A i \in 1..Len(Tail(queue)) : Tail(queue)[i] = queue[i + 1]
  BY <1>1 DEF TypeOK
<1>3. \A i \in 1..Len(Tail(queue)) : i + 1 \in 1..Len(queue) /\ i + 1 # 1
  BY <1>1, <1>2
<1>4. QED
  BY <1>1, <1>2, <1>3 DEF TypeOK, QueueInv

(* Every step keeps the types.                                             *)
LEMMA TypeStep ==
    ASSUME IInv, [Next]_vars
    PROVE  TypeOK'
<1> USE DEF IInv, SubmitStates, WorkStates
<1>1. ASSUME NEW a \in Alerts, Enqueue(a) PROVE TypeOK'
  BY <1>1 DEF Enqueue, TypeOK
<1>2. ASSUME NEW a \in Alerts, AddPending(a) \/ AddDoneCallback(a) PROVE TypeOK'
  <2>1. submit' \in [Alerts -> SubmitStates]
    BY <1>2 DEF AddPending, AddDoneCallback, TypeOK
  <2>2. pending' \subseteq Alerts /\ hooked' \subseteq Alerts
    BY <1>2 DEF AddPending, AddDoneCallback, TypeOK
  <2>3. UNCHANGED <<work, queue, attempts, accepted, result, raised, drain, awaited, due>>
    BY <1>2 DEF AddPending, AddDoneCallback
  <2>4. QED
    BY <2>1, <2>2, <2>3 DEF TypeOK
<1>3. ASSUME NEW a \in Alerts, Start(a) PROVE TypeOK'
  BY <1>3, HeadIsQueued DEF Start, TypeOK
<1>4. ASSUME NEW a \in Alerts, SendOnce(a) PROVE TypeOK'
  <2>1. attempts[a] + 1 \in 0..MaxAttempts /\ accepted[a] + 1 \in 0..MaxAttempts
    BY <1>4 DEF SendOnce, TypeOK, RetryInv
  <2>2. attempts' \in [Alerts -> 0..MaxAttempts]
    BY <1>4, <2>1 DEF SendOnce, TypeOK
  <2>3. accepted' \in [Alerts -> 0..MaxAttempts]
    BY <1>4, <2>1 DEF SendOnce, TypeOK
  <2>4. result' \in [Alerts -> BOOLEAN] /\ raised' \subseteq Alerts
    BY <1>4 DEF SendOnce, TypeOK
  <2>5. work' \in [Alerts -> WorkStates]
    BY <1>4 DEF SendOnce, TypeOK
  <2>6. QED
    BY <1>4, <2>2, <2>3, <2>4, <2>5 DEF SendOnce, TypeOK
<1>5. ASSUME NEW a \in Alerts, OnDone(a) \/ FinishFuture(a) \/ RunCallbacks(a)
      PROVE  TypeOK'
  BY <1>5 DEF OnDone, FinishFuture, RunCallbacks, TypeOK
<1>6. CASE BeginDrain \/ LookAtPending \/ AwaitFuture \/ DrainTimeout
  BY <1>6 DEF BeginDrain, LookAtPending, AwaitFuture, DrainTimeout, TypeOK
<1>7. CASE UNCHANGED vars
  BY <1>7 DEF vars, TypeOK
<1>8. QED
  BY <1>1, <1>2, <1>3, <1>4, <1>5, <1>6, <1>7 DEF Next, Submitter, Pool, Drainer

(* No future is queued a second time.                                      *)
LEMMA QueueStep ==
    ASSUME IInv, [Next]_vars
    PROVE  QueueInv'
<1> USE DEF IInv, TypeOK
<1>1. ASSUME NEW a \in Alerts, Enqueue(a) PROVE QueueInv'
  <2>1. /\ Len(queue') = Len(queue) + 1 /\ Len(queue) \in Nat
        /\ \A i \in 1..Len(queue) : queue'[i] = queue[i] /\ queue[i] \in Alerts
        /\ queue'[Len(queue) + 1] = a
    BY <1>1 DEF Enqueue
  <2>2. \A i \in 1..Len(queue) : queue[i] # a
    BY <1>1 DEF Enqueue, QueueInv
  <2>3. \A i \in 1..Len(queue') : i \in 1..Len(queue) \/ i = Len(queue) + 1
    BY <2>1
  <2>4. \A i \in 1..Len(queue') : work'[queue'[i]] = "queued"
    BY <1>1, <2>1, <2>2, <2>3 DEF Enqueue, QueueInv
  <2>5. \A i, j \in 1..Len(queue') : queue'[i] = queue'[j] => i = j
    <3> SUFFICES ASSUME NEW i \in 1..Len(queue'), NEW j \in 1..Len(queue'),
                        queue'[i] = queue'[j]
                 PROVE  i = j
      OBVIOUS
    <3>1. CASE i \in 1..Len(queue) /\ j \in 1..Len(queue)
      BY <2>1, <3>1 DEF QueueInv
    <3>2. CASE i = Len(queue) + 1 \/ j = Len(queue) + 1
      BY <2>1, <2>2, <2>3, <3>2
    <3>3. QED
      BY <2>3, <3>1, <3>2
  <2>6. \A b \in Alerts : submit'[b] = "idle" => work'[b] = "new"
    BY <1>1 DEF Enqueue, QueueInv
  <2>7. QED
    BY <2>4, <2>5, <2>6 DEF QueueInv
<1>2. ASSUME NEW a \in Alerts, AddPending(a) \/ AddDoneCallback(a) PROVE QueueInv'
  BY <1>2 DEF AddPending, AddDoneCallback, QueueInv
<1>3. ASSUME NEW a \in Alerts, Start(a) PROVE QueueInv'
  <2>1. queue' = Tail(queue) /\ a = Head(queue)
        /\ work' = [work EXCEPT ![a] = "delivering"] /\ submit' = submit
    BY <1>3 DEF Start
  <2>2. /\ work[a] = "queued" /\ queue' \in Seq(Alerts)
        /\ \A i \in 1..Len(queue') : queue'[i] # a /\ work[queue'[i]] = "queued"
        /\ \A i, j \in 1..Len(queue') : queue'[i] = queue'[j] => i = j
    <3>1. queue # <<>>
      BY <1>3 DEF Start
    <3>2. QED
      BY <2>1, <3>1, HeadIsQueued
  <2>3. \A i \in 1..Len(queue') : queue'[i] \in Alerts
    BY <2>2
  <2>4. \A i \in 1..Len(queue') : work'[queue'[i]] = "queued"
    BY <2>1, <2>2, <2>3
  <2>5. submit[a] # "idle"
    BY <2>2 DEF QueueInv
  <2>6. QED
    BY <2>1, <2>2, <2>4, <2>5 DEF QueueInv
<1>4. ASSUME NEW a \in Alerts, work[a] \notin {"new", "queued"},
             UNCHANGED <<queue, submit>>,
             \E next \in WorkStates : work' = [work EXCEPT ![a] = next]
      PROVE  QueueInv'
  <2>1. \A i \in 1..Len(queue) : queue[i] # a
    BY <1>4 DEF QueueInv
  <2>2. \A i \in 1..Len(queue) : work'[queue[i]] = "queued"
    BY <1>4, <2>1 DEF QueueInv
  <2>3. \A b \in Alerts : submit[b] = "idle" => b # a
    BY <1>4 DEF QueueInv
  <2>4. QED
    BY <1>4, <2>2, <2>3 DEF QueueInv
<1>5. ASSUME NEW a \in Alerts, SendOnce(a) PROVE QueueInv'
  BY <1>4, <1>5 DEF SendOnce, WorkStates
<1>6. ASSUME NEW a \in Alerts, OnDone(a) \/ FinishFuture(a) \/ RunCallbacks(a)
      PROVE  QueueInv'
  BY <1>4, <1>6 DEF OnDone, FinishFuture, RunCallbacks, WorkStates
<1>7. CASE UNCHANGED <<submit, work, queue>>
  BY <1>7 DEF QueueInv
<1>8. QED
  BY <1>1, <1>2, <1>3, <1>5, <1>6, <1>7
  DEF Next, Submitter, Pool, Drainer, BeginDrain, LookAtPending, AwaitFuture,
      DrainTimeout, vars

(* A future that is done stays done.                                       *)
LEMMA DoneStep ==
    ASSUME IInv, [Next]_vars, NEW a \in Alerts, work[a] \in Done
    PROVE  work'[a] \in Done
<1> USE DEF IInv, TypeOK, Done
<1>1. ASSUME NEW b \in Alerts, Enqueue(b) PROVE work'[a] \in Done
  BY <1>1 DEF Enqueue, QueueInv
<1>2. ASSUME NEW b \in Alerts, Start(b) PROVE work'[a] \in Done
  BY <1>2, HeadIsQueued DEF Start
<1>3. ASSUME NEW b \in Alerts, SendOnce(b) PROVE work'[a] \in Done
  BY <1>3 DEF SendOnce
<1>4. ASSUME NEW b \in Alerts, OnDone(b) \/ FinishFuture(b) \/ RunCallbacks(b)
      PROVE  work'[a] \in Done
  BY <1>4 DEF OnDone, FinishFuture, RunCallbacks
<1>5. CASE UNCHANGED work
  BY <1>5
<1>6. QED
  BY <1>1, <1>2, <1>3, <1>4, <1>5
  DEF Next, Submitter, Pool, Drainer, AddPending, AddDoneCallback, BeginDrain,
      LookAtPending, AwaitFuture, DrainTimeout, vars

(* Only its own callback takes a future out of _pending.                   *)
LEMMA PendingStep ==
    ASSUME IInv, [Next]_vars
    PROVE  PendingInv'
<1> USE DEF IInv, TypeOK, PendingInv, PendingCoversReturned
<1>1. ASSUME NEW a \in Alerts, Enqueue(a) PROVE PendingInv'
  BY <1>1 DEF Enqueue
<1>2. ASSUME NEW a \in Alerts, AddPending(a) PROVE PendingInv'
  BY <1>2 DEF AddPending
<1>3. ASSUME NEW a \in Alerts, AddDoneCallback(a) PROVE PendingInv'
  BY <1>3 DEF AddDoneCallback
<1>4. ASSUME NEW a \in Alerts, RunCallbacks(a) PROVE PendingInv'
  BY <1>4 DEF RunCallbacks, Done
<1>5. CASE UNCHANGED <<submit, pending, hooked>>
  <2>1. \A a \in Alerts : work'[a] \notin Done => work[a] \notin Done
    BY DoneStep
  <2>2. QED
    BY <1>5, <2>1
<1>6. QED
  BY <1>1, <1>2, <1>3, <1>4, <1>5
  DEF Next, Submitter, Pool, Drainer, Start, SendOnce, OnDone, FinishFuture,
      BeginDrain, LookAtPending, AwaitFuture, DrainTimeout, vars

(* The outcome of a delivery is settled by its last attempt.               *)
LEMMA RetryStep ==
    ASSUME IInv, [Next]_vars
    PROVE  RetryInv'
<1> USE DEF IInv, TypeOK, RetryInv, RetriesHonest
<1>1. ASSUME NEW a \in Alerts, Enqueue(a) PROVE RetryInv'
  BY <1>1 DEF Enqueue, QueueInv
<1>2. ASSUME NEW a \in Alerts, Start(a) PROVE RetryInv'
  <2>1. work[a] = "queued" /\ work' = [work EXCEPT ![a] = "delivering"]
    BY <1>2, HeadIsQueued DEF Start
  <2>2. QED
    BY <1>2, <2>1 DEF Start
<1>3. ASSUME NEW a \in Alerts, SendOnce(a) PROVE RetryInv'
  <2> PICK took \in BOOLEAN, ok \in BOOLEAN, raises \in BOOLEAN :
         /\ ok => took /\ ~raises
         /\ accepted' = [accepted EXCEPT ![a] = IF took THEN @ + 1 ELSE @]
         /\ result' = [result EXCEPT ![a] = ok]
         /\ raised' = IF raises THEN raised \cup {a} ELSE raised
         /\ work' = [work EXCEPT ![a] =
                IF ok \/ raises \/ attempts'[a] = MaxAttempts
                THEN "recording" ELSE @]
    BY <1>3 DEF SendOnce
  <2>1. attempts' = [attempts EXCEPT ![a] = @ + 1] /\ work[a] = "delivering"
    BY <1>3 DEF SendOnce
  <2>2. \A b \in Alerts : accepted'[b] <= attempts'[b]
    BY <2>1
  <2>3. a \notin raised
    BY <2>1
  <2>4. /\ work'[a] = "recording" \/ (work'[a] = "delivering" /\ ~raises)
        /\ work'[a] = "recording" => (ok \/ raises \/ attempts'[a] = MaxAttempts)
        /\ result'[a] = ok /\ (ok => accepted'[a] > 0)
        /\ (a \in raised') = raises
    <3>1. work'[a] = IF ok \/ raises \/ attempts'[a] = MaxAttempts
                     THEN "recording" ELSE "delivering"
      BY <2>1
    <3>2. result'[a] = ok /\ (ok => accepted'[a] > 0)
      BY <2>1
    <3>3. (a \in raised') = raises
      BY <2>3
    <3>4. QED
      BY <3>1, <3>2, <3>3
  <2>5. \A b \in Alerts \ {a} : /\ work'[b] = work[b] /\ result'[b] = result[b]
                                /\ accepted'[b] = accepted[b]
                                /\ attempts'[b] = attempts[b]
                                /\ (b \in raised') = (b \in raised)
    BY <2>1
  <2>6. \A b \in raised' : work'[b] \notin {"new", "queued", "delivering"}
    BY <2>4, <2>5
  <2>7. RetriesHonest'
    <3> SUFFICES ASSUME NEW b \in Alerts, work'[b] \notin {"new", "queued", "delivering"}
                 PROVE  IF result'[b] THEN accepted'[b] > 0 /\ b \notin raised'
                        ELSE attempts'[b] = MaxAttempts \/ b \in raised'
      OBVIOUS
    <3>1. CASE b = a
      <4>1. work'[a] = "recording"
        BY <2>4, <3>1
      <4>2. QED
        BY <2>4, <3>1, <4>1
    <3>2. CASE b # a
      BY <2>5, <3>2
    <3>3. QED
      BY <3>1, <3>2
  <2>8. QED
    BY <2>2, <2>6, <2>7
<1>4. ASSUME NEW a \in Alerts, OnDone(a) \/ FinishFuture(a) \/ RunCallbacks(a)
      PROVE  RetryInv'
  BY <1>4 DEF OnDone, FinishFuture, RunCallbacks
<1>5. CASE UNCHANGED <<work, attempts, accepted, result, raised>>
  BY <1>5
<1>6. QED
  BY <1>1, <1>2, <1>3, <1>4, <1>5
  DEF Next, Submitter, Pool, Drainer, AddPending, AddDoneCallback, BeginDrain,
      LookAtPending, AwaitFuture, DrainTimeout, vars

(* A drain that found _pending empty has waited for everyone it was due to.*)
LEMMA DrainStep ==
    ASSUME IInv, [Next]_vars
    PROVE  DrainInv'
<1> USE DEF IInv, TypeOK, DrainInv, DrainIsComplete
<1>1. CASE BeginDrain
  BY <1>1 DEF BeginDrain
<1>2. CASE LookAtPending
  BY <1>2 DEF LookAtPending, PendingInv, PendingCoversReturned
<1>3. CASE AwaitFuture \/ DrainTimeout
  BY <1>3 DEF AwaitFuture, DrainTimeout
<1>4. ASSUME UNCHANGED <<drain, due>>,
             \A a \in Alerts : submit[a] = "returned" => submit'[a] = "returned"
      PROVE  DrainInv'
  BY <1>4, DoneStep
<1>5. ASSUME NEW a \in Alerts, Enqueue(a) \/ Submitter(a)
      PROVE  DrainInv'
  BY <1>4, <1>5 DEF Enqueue, Submitter, AddPending, AddDoneCallback
<1>6. CASE UNCHANGED <<drain, due, submit>>
  BY <1>4, <1>6
<1>7. QED
  BY <1>1, <1>2, <1>3, <1>5, <1>6
  DEF Next, Pool, Drainer, Start, SendOnce, OnDone, FinishFuture, RunCallbacks, vars

(* The strengthening is inductive, so it holds in every reachable state.   *)
THEOREM Invariance == Spec => []IInv
<1>1. IInv /\ [Next]_vars => IInv'
  BY TypeStep, QueueStep, PendingStep, RetryStep, DrainStep DEF IInv
<1>2. QED
  BY InitIInv, <1>1, PTL DEF Spec

(* The variables keep their types: no alert is sent more often than        *)
(* SLACK_MAX_ATTEMPTS.                                                     *)
THEOREM TypeCorrect == Spec => []TypeOK
<1>1. IInv => TypeOK
  BY DEF IInv
<1>2. QED
  BY Invariance, <1>1, PTL

(* deliver_with_retries: it gives up only after MaxAttempts tries, and     *)
(* reports success only for a message Slack accepted.                      *)
THEOREM HonestRetries == Spec => []RetriesHonest
<1>1. IInv => RetriesHonest
  BY DEF IInv, RetryInv
<1>2. QED
  BY Invariance, <1>1, PTL

(* submit enters the future into _pending only after the pool may have     *)
(* finished it; all the same an alert whose submit has returned is in      *)
(* _pending until it is done.                                              *)
THEOREM PendingCovers == Spec => []PendingCoversReturned
<1>1. IInv => PendingCoversReturned
  BY DEF IInv, PendingInv
<1>2. QED
  BY Invariance, <1>1, PTL

(* drain() = True: every alert whose submit had returned before the call   *)
(* is delivered or given up on, with its outcome recorded.                 *)
THEOREM CompleteDrain == Spec => []DrainIsComplete
<1>1. IInv => DrainIsComplete
  BY DEF IInv, DrainInv
<1>2. QED
  BY Invariance, <1>1, PTL

-----------------------------------------------------------------------------
InQueue(q, a) == \E i \in 1..Len(q) : q[i] = a

(* Nothing is stuck: whoever waits for something waits for what is on its  *)
(* way.  A future that counts as queued is in the queue, a delivery under  *)
(* way has an attempt left, a future in _pending has somebody who will     *)
(* take it out, and drain waits for futures that were submitted.           *)
ProgressInv ==
    /\ \A a \in Alerts :
           /\ work[a] = "new" => submit[a] = "idle"
           /\ work[a] \in {"new", "queued"} => attempts[a] = 0
           /\ work[a] = "queued" => InQueue(queue, a)
           /\ work[a] = "delivering" => attempts[a] < MaxAttempts
    /\ \A a \in pending : submit[a] = "added" \/ (a \in hooked /\ work[a] # "over")
    /\ \A a \in awaited : work[a] # "new"
    /\ drain = "wait" => awaited # {}

(* ... and no more futures are in hand than the pool has threads.          *)
PoolBounded == IsFiniteSet(Busy) /\ Cardinality(Busy) <= PoolSize

(* How far submit, and the pool, are from being done with an alert.        *)
SubmitRank(s) ==
    CASE s = "idle" -> 3
      [] s = "submitted" -> 2
      [] s = "added" -> 1
      [] s = "returned" -> 0
WorkRank(w) ==
    CASE w = "new" -> 5
      [] w = "queued" -> 4
      [] w \in {"delivering", "recording"} -> 3
      [] w = "recorded" -> 2
      [] w = "finished" -> 1
      [] w = "over" -> 0

(* What submit and the pool may still do for an alert, in steps.           *)
StepsLeft(a) == (MaxAttempts - attempts[a]) + SubmitRank(submit[a]) + WorkRank(work[a])

(* The retries of an alert and all that is done about it come to an end.   *)
StepsRunOut ==
    [][\A a \in Alerts :
           /\ StepsLeft(a) \in 0..(MaxAttempts + 8)
           /\ StepsLeft(a)' <= StepsLeft(a)
           /\ Submitter(a) \/ Pool(a) => StepsLeft(a)' < StepsLeft(a)]_vars

(* Appending to the queue takes nobody out of it, ...                      *)
LEMMA AppendKeeps ==
    ASSUME NEW q \in Seq(Alerts), NEW a \in Alerts
    PROVE  /\ InQueue(Append(q, a), a)
           /\ \A b \in Alerts : InQueue(q, b) => InQueue(Append(q, a), b)
<1>1. /\ Len(Append(q, a)) = Len(q) + 1 /\ Len(q) \in Nat
      /\ \A i \in 1..Len(q) : Append(q, a)[i] = q[i]
      /\ Append(q, a)[Len(q) + 1] = a
  OBVIOUS
<1>2. Len(q) + 1 \in 1..Len(Append(q, a))
  BY <1>1
<1>3. \A i \in 1..Len(q) : i \in 1..Len(Append(q, a))
  BY <1>1
<1>4. QED
  BY <1>1, <1>2, <1>3 DEF InQueue

(* ... and taking its head out leaves all others in.                       *)
LEMMA TailKeeps ==
    ASSUME NEW q \in Seq(Alerts), q # <<>>, NEW b \in Alerts, b # Head(q), InQueue(q, b)
    PROVE  InQueue(Tail(q), b)
<1>1. PICK i \in 1..Len(q) : q[i] = b
  BY DEF InQueue
<1>2. i # 1 /\ Len(q) \in Nat /\ i \in Nat
  BY <1>1
<1>3. /\ Len(Tail(q)) = Len(q) - 1
      /\ \A k \in 1..Len(Tail(q)) : Tail(q)[k] = q[k + 1]
  OBVIOUS
<1>4. i - 1 \in 1..Len(Tail(q)) /\ (i - 1) + 1 = i
  BY <1>1, <1>2, <1>3
<1>5. Tail(q)[i - 1] = b
  BY <1>1, <1>3, <1>4
<1>6. QED
  BY <1>4, <1>5 DEF InQueue

(* Every step keeps what is on its way on its way.                         *)
LEMMA ProgressStep ==
    ASSUME IInv, ProgressInv, [Next]_vars
    PROVE  ProgressInv'
<1>0. /\ submit \in [Alerts -> SubmitStates] /\ work \in [Alerts -> WorkStates]
      /\ attempts \in [Alerts -> 0..MaxAttempts] /\ queue \in Seq(Alerts)
      /\ pending \subseteq Alerts /\ awaited \subseteq Alerts
  BY DEF IInv, TypeOK
<1>1. ASSUME NEW a \in Alerts, Enqueue(a) PROVE ProgressInv'
  <2>1. /\ submit' = [submit EXCEPT ![a] = "submitted"]
        /\ work' = [work EXCEPT ![a] = "queued"]
        /\ queue' = Append(queue, a)
        /\ UNCHANGED <<attempts, pending, hooked, awaited, drain>>
    BY <1>1 DEF Enqueue
  <2>2. work[a] = "new" /\ a \notin pending
    BY <1>1 DEF Enqueue, IInv, QueueInv, PendingInv, ProgressInv
  <2>3. \A b \in Alerts : work'[b] = "queued" => InQueue(queue', b)
    BY <1>0, <2>1, AppendKeeps DEF ProgressInv
  <2>4. attempts[a] = 0
    BY <2>2 DEF ProgressInv
  <2>5. QED
    BY <1>0, <2>1, <2>2, <2>3, <2>4 DEF ProgressInv, IInv, TypeOK
<1>2. ASSUME NEW a \in Alerts, AddPending(a) PROVE ProgressInv'
  BY <1>0, <1>2 DEF AddPending, ProgressInv, IInv, PendingInv
<1>3. ASSUME NEW a \in Alerts, AddDoneCallback(a) PROVE ProgressInv'
  BY <1>0, <1>3 DEF AddDoneCallback, ProgressInv, Done
<1>4. ASSUME NEW a \in Alerts, Start(a) PROVE ProgressInv'
  <2>1. /\ queue # <<>> /\ queue' = Tail(queue) /\ a = Head(queue)
        /\ work' = [work EXCEPT ![a] = "delivering"]
        /\ UNCHANGED <<submit, attempts, pending, hooked, awaited, drain>>
    BY <1>4 DEF Start
  <2>2. work[a] = "queued"
    BY <2>1, HeadIsQueued DEF IInv
  <2>3. \A b \in Alerts : work'[b] = "queued" => InQueue(queue', b)
    BY <1>0, <2>1, TailKeeps DEF ProgressInv
  <2>4. attempts[a] = 0 /\ submit[a] # "idle"
    BY <2>2 DEF ProgressInv, IInv, QueueInv
  <2>5. QED
    BY <1>0, <2>1, <2>2, <2>3, <2>4 DEF ProgressInv
<1>5. ASSUME NEW a \in Alerts, SendOnce(a) PROVE ProgressInv'
  <2>1. /\ attempts' = [attempts EXCEPT ![a] = @ + 1]
        /\ work[a] = "delivering" /\ attempts[a] < MaxAttempts
        /\ \/ work' = [work EXCEPT ![a] = "recording"]
           \/ work' = [work EXCEPT ![a] = "delivering"] /\ attempts'[a] # MaxAttempts
        /\ UNCHANGED <<submit, queue, pending, hooked, awaited, drain>>
    <3>1. work = [work EXCEPT ![a] = work[a]]
      BY <1>0
    <3>2. QED
      BY <1>5, <3>1 DEF SendOnce
  <2>2. attempts'[a] = attempts[a] + 1 /\ \A b \in Alerts \ {a} : attempts'[b] = attempts[b]
    BY <1>0, <2>1
  <2>3. work'[a] = "delivering" => attempts'[a] < MaxAttempts
    BY <1>0, <2>1, <2>2
  <2>4. work'[a] \in {"recording", "delivering"} /\ \A b \in Alerts \ {a} : work'[b] = work[b]
    BY <1>0, <2>1
  <2>5. QED
    BY <1>0, <2>1, <2>2, <2>3, <2>4 DEF ProgressInv
<1>6. ASSUME NEW a \in Alerts, NEW from \in WorkStates, NEW to \in {"recorded", "finished"},
             from \in {"recording", "recorded"}, work[a] = from,
             work' = [work EXCEPT ![a] = to],
             UNCHANGED <<submit, queue, attempts, pending, hooked, awaited, drain>>
      PROVE  ProgressInv'
  <2>1. work'[a] = to /\ \A b \in Alerts \ {a} : work'[b] = work[b]
    BY <1>0, <1>6
  <2>2. QED
    BY <1>6, <2>1 DEF ProgressInv
<1>7. ASSUME NEW a \in Alerts, OnDone(a) \/ FinishFuture(a) PROVE ProgressInv'
  BY <1>6, <1>7 DEF OnDone, FinishFuture, WorkStates
<1>8. ASSUME NEW a \in Alerts, RunCallbacks(a) PROVE ProgressInv'
  <2>1. /\ work[a] = "finished" /\ work' = [work EXCEPT ![a] = "over"]
        /\ pending' = IF a \in hooked THEN pending \ {a} ELSE pending
        /\ UNCHANGED <<submit, queue, attempts, hooked, awaited, drain>>
    BY <1>8 DEF RunCallbacks
  <2>2. work'[a] = "over" /\ \A b \in Alerts \ {a} : work'[b] = work[b]
    BY <1>0, <2>1
  <2>3. QED
    BY <2>1, <2>2 DEF ProgressInv, IInv, TypeOK
<1>9. CASE BeginDrain \/ DrainTimeout
  BY <1>9 DEF BeginDrain, DrainTimeout, ProgressInv
<1>10. CASE LookAtPending
  <2>1. \A a \in pending : work[a] # "new"
    BY DEF ProgressInv, IInv, PendingInv, TypeOK
  <2>2. QED
    BY <1>10, <2>1 DEF LookAtPending, ProgressInv
<1>11. CASE AwaitFuture
  BY <1>11 DEF AwaitFuture, ProgressInv
<1>12. CASE UNCHANGED vars
  BY <1>12 DEF vars, ProgressInv
<1>13. QED
  BY <1>1, <1>2, <1>3, <1>4, <1>5, <1>7, <1>8, <1>9, <1>10, <1>11, <1>12
  DEF Next, Submitter, Pool, Drainer

(* The safety half of PendingEmpties and DrainReturns: neither a future in *)
(* _pending nor drain is left without somebody to wait for.                *)
THEOREM NothingStuck == Spec => []ProgressInv
<1>1. Init => ProgressInv
  BY DEF Init, ProgressInv
<1>2. IInv /\ ProgressInv /\ [Next]_vars => ProgressInv'
  BY ProgressStep
<1>3. QED
  BY Invariance, <1>1, <1>2, PTL DEF Spec

(* SLACK_WORKERS bounds the deliveries under way, however many alerts are  *)
(* submitted at once: a thread that takes up a future was free.            *)
THEOREM BoundedPool == Spec => []PoolBounded
<1>1. Init => PoolBounded
  <2> SUFFICES ASSUME Init PROVE PoolBounded
    OBVIOUS
  <2>1. Busy = {}
    BY DEF Init, Busy
  <2>2. QED
    BY <2>1, FS_EmptySet DEF PoolBounded
<1>2. ASSUME PoolBounded, NEW a, Cardinality(Busy) < PoolSize, Busy' \subseteq Busy \cup {a}
      PROVE  PoolBounded'
  <2>1. IsFiniteSet(Busy) /\ Cardinality(Busy) \in Nat
    BY <1>2, FS_CardinalityType DEF PoolBounded
  <2>2. IsFiniteSet(Busy \cup {a}) /\ Cardinality(Busy \cup {a}) <= Cardinality(Busy) + 1
    BY <2>1, FS_AddElement
  <2>3. /\ IsFiniteSet(Busy') /\ Cardinality(Busy') <= Cardinality(Busy \cup {a})
        /\ Cardinality(Busy \cup {a}) \in Nat /\ Cardinality(Busy') \in Nat
    BY <1>2, <2>2, FS_Subset, FS_CardinalityType
  <2>4. QED
    BY <1>2, <2>1, <2>2, <2>3 DEF PoolBounded
<1>3. ASSUME PoolBounded, Busy' \subseteq Busy PROVE PoolBounded'
  <2>1. IsFiniteSet(Busy') /\ Cardinality(Busy') <= Cardinality(Busy)
        /\ Cardinality(Busy) \in Nat /\ Cardinality(Busy') \in Nat
    BY <1>3, FS_Subset, FS_CardinalityType DEF PoolBounded
  <2>2. QED
    BY <1>3, <2>1 DEF PoolBounded
<1>4. IInv /\ PoolBounded /\ [Next]_vars => PoolBounded'
  <2> SUFFICES ASSUME IInv, PoolBounded, [Next]_vars PROVE PoolBounded'
    OBVIOUS
  <2>0. work \in [Alerts -> WorkStates]
    BY DEF IInv, TypeOK
  <2>1. ASSUME NEW a \in Alerts, Start(a) PROVE PoolBounded'
    <3>1. Cardinality(Busy) < PoolSize
      BY <2>1 DEF Start
    <3>2. Busy' \subseteq Busy \cup {a}
      BY <2>0, <2>1 DEF Start, Busy
    <3>3. QED
      BY <1>2, <3>1, <3>2
  <2>2. ASSUME NEW a \in Alerts, Enqueue(a) PROVE Busy' \subseteq Busy
    BY <2>0, <2>2 DEF Enqueue, Busy
  <2>3. ASSUME NEW a \in Alerts, SendOnce(a) \/ OnDone(a) \/ FinishFuture(a) \/ RunCallbacks(a)
        PROVE  Busy' \subseteq Busy
    BY <2>0, <2>3 DEF SendOnce, OnDone, FinishFuture, RunCallbacks, Busy, WorkStates
  <2>4. CASE UNCHANGED work
    BY <1>3, <2>4 DEF Busy
  <2>5. QED
    BY <1>3, <2>1, <2>2, <2>3, <2>4
    DEF Next, Submitter, Pool, Drainer, AddPending, AddDoneCallback, BeginDrain,
        LookAtPending, AwaitFuture, DrainTimeout, vars
<1>5. QED
  BY Invariance, <1>1, <1>4, PTL DEF Spec

(* They are natural numbers.                                               *)
LEMMA RanksType ==
    /\ \A s \in SubmitStates : SubmitRank(s) \in Nat
    /\ \A w \in WorkStates : WorkRank(w) \in Nat
  BY DEF SubmitRank, WorkRank, SubmitStates, WorkStates

(* A step for one alert uses up some of its steps and none of another's.   *)
LEMMA OwnSteps ==
    ASSUME IInv, NEW a \in Alerts, Enqueue(a) \/ Submitter(a) \/ Pool(a)
    PROVE  /\ StepsLeft(a) \in Nat /\ StepsLeft(a)' \in Nat
           /\ StepsLeft(a)' < StepsLeft(a)
           /\ \A b \in Alerts \ {a} : StepsLeft(b)' = StepsLeft(b)
<1>1. /\ submit \in [Alerts -> SubmitStates] /\ work \in [Alerts -> WorkStates]
      /\ attempts \in [Alerts -> 0..MaxAttempts] /\ MaxAttempts \in Nat
  BY DEF IInv, TypeOK
<1>2. /\ attempts[a] \in Nat /\ attempts[a] <= MaxAttempts
      /\ SubmitRank(submit[a]) \in Nat /\ WorkRank(work[a]) \in Nat
  BY <1>1, RanksType
<1>3. ASSUME NEW s \in SubmitStates, NEW w \in WorkStates, NEW n \in {0, 1},
             submit' = [submit EXCEPT ![a] = s], work' = [work EXCEPT ![a] = w],
             attempts' = [attempts EXCEPT ![a] = @ + n], attempts[a] + n <= MaxAttempts,
             SubmitRank(s) + WorkRank(w) < n + SubmitRank(submit[a]) + WorkRank(work[a])
      PROVE  /\ StepsLeft(a) \in Nat /\ StepsLeft(a)' \in Nat
             /\ StepsLeft(a)' < StepsLeft(a)
             /\ \A b \in Alerts \ {a} : StepsLeft(b)' = StepsLeft(b)
  <2>1. /\ submit'[a] = s /\ work'[a] = w /\ attempts'[a] = attempts[a] + n
        /\ SubmitRank(s) \in Nat /\ WorkRank(w) \in Nat
    BY <1>1, <1>3, RanksType
  <2>2. \A b \in Alerts \ {a} :
            submit'[b] = submit[b] /\ work'[b] = work[b] /\ attempts'[b] = attempts[b]
    BY <1>1, <1>3
  <2>3. StepsLeft(a)' = (MaxAttempts - (attempts[a] + n)) + SubmitRank(s) + WorkRank(w)
    BY <2>1 DEF StepsLeft
  <2>4. StepsLeft(a) = (MaxAttempts - attempts[a]) + SubmitRank(submit[a]) + WorkRank(work[a])
    BY DEF StepsLeft
  <2>5. QED
    BY <1>1, <1>2, <1>3, <2>1, <2>2, <2>3, <2>4 DEF StepsLeft
<1>4. /\ submit = [submit EXCEPT ![a] = submit[a]] /\ submit[a] \in SubmitStates
      /\ work = [work EXCEPT ![a] = work[a]] /\ work[a] \in WorkStates
      /\ attempts = [attempts EXCEPT ![a] = @ + 0]
  BY <1>1
<1>5. CASE Enqueue(a)
  <2>1. work[a] = "new" /\ submit[a] = "idle"
    BY <1>5 DEF Enqueue, IInv, QueueInv
  <2>2. /\ submit' = [submit EXCEPT ![a] = "submitted"]
        /\ work' = [work EXCEPT ![a] = "queued"] /\ attempts' = [attempts EXCEPT ![a] = @ + 0]
    BY <1>4, <1>5 DEF Enqueue
  <2>3. "submitted" \in SubmitStates /\ "queued" \in WorkStates
    BY DEF SubmitStates, WorkStates
  <2>4. SubmitRank("submitted") + WorkRank("queued") < 0 + SubmitRank(submit[a]) + WorkRank(work[a])
    BY <2>1 DEF SubmitRank, WorkRank
  <2>5. attempts[a] + 0 <= MaxAttempts
    BY <1>2
  <2>6. QED
    BY <1>3, <2>2, <2>3, <2>4, <2>5
<1>6. CASE AddPending(a) \/ AddDoneCallback(a)
  <2>1. PICK s \in {"added", "returned"} :
           /\ submit' = [submit EXCEPT ![a] = s] /\ SubmitRank(s) < SubmitRank(submit[a])
           /\ UNCHANGED <<work, attempts>>
    BY <1>6 DEF AddPending, AddDoneCallback, SubmitRank
  <2>2. /\ s \in SubmitStates /\ SubmitRank(s) \in Nat /\ attempts[a] + 0 <= MaxAttempts
    BY <1>2, RanksType DEF SubmitStates
  <2>3. /\ work' = [work EXCEPT ![a] = work[a]] /\ attempts' = [attempts EXCEPT ![a] = @ + 0]
        /\ SubmitRank(s) + WorkRank(work[a]) < 0 + SubmitRank(submit[a]) + WorkRank(work[a])
    BY <1>2, <1>4, <2>1, <2>2
  <2>4. QED
    BY <1>3, <1>4, <2>1, <2>2, <2>3
<1>7. CASE Start(a) \/ OnDone(a) \/ FinishFuture(a) \/ RunCallbacks(a)
  <2>1. Start(a) => work[a] = "queued"
    BY HeadIsQueued DEF Start, IInv
  <2>2. PICK w \in {"delivering", "recorded", "finished", "over"} :
           /\ work' = [work EXCEPT ![a] = w] /\ WorkRank(w) < WorkRank(work[a])
           /\ UNCHANGED <<submit, attempts>>
    BY <1>7, <2>1 DEF Start, OnDone, FinishFuture, RunCallbacks, WorkRank
  <2>3. /\ w \in WorkStates /\ WorkRank(w) \in Nat /\ attempts[a] + 0 <= MaxAttempts
    BY <1>2, RanksType DEF WorkStates
  <2>4. /\ submit' = [submit EXCEPT ![a] = submit[a]] /\ attempts' = [attempts EXCEPT ![a] = @ + 0]
        /\ SubmitRank(submit[a]) + WorkRank(w) < 0 + SubmitRank(submit[a]) + WorkRank(work[a])
    BY <1>2, <1>4, <2>2, <2>3
  <2>5. QED
    BY <1>3, <1>4, <2>2, <2>3, <2>4
<1>8. CASE SendOnce(a)
  <2>1. /\ work[a] = "delivering" /\ attempts[a] < MaxAttempts /\ UNCHANGED submit
        /\ attempts' = [attempts EXCEPT ![a] = @ + 1]
        /\ \E w \in {"delivering", "recording"} : work' = [work EXCEPT ![a] = w]
    BY <1>4, <1>8 DEF SendOnce
  <2>2. PICK w \in {"delivering", "recording"} : work' = [work EXCEPT ![a] = w]
    BY <2>1
  <2>3. /\ submit' = [submit EXCEPT ![a] = submit[a]] /\ attempts[a] + 1 <= MaxAttempts
        /\ SubmitRank(submit[a]) + WorkRank(w) < 1 + SubmitRank(submit[a]) + WorkRank(work[a])
    BY <1>2, <1>4, <2>1, <2>2 DEF WorkRank
  <2>4. w \in WorkStates
    BY <2>2 DEF WorkStates
  <2>5. QED
    BY <1>3, <1>4, <2>1, <2>2, <2>3, <2>4
<1>9. QED
  BY <1>5, <1>6, <1>7, <1>8 DEF Submitter, Pool

(* deliver_with_retries and all around it end after a bounded number of    *)
(* steps: what PendingEmpties needs besides threads that run.              *)
THEOREM AlertStepsRunOut == Spec => StepsRunOut
<1>1. IInv /\ ProgressInv /\ [Next]_vars =>
          [\A a \in Alerts :
               /\ StepsLeft(a) \in 0..(MaxAttempts + 8)
               /\ StepsLeft(a)' <= StepsLeft(a)
               /\ Submitter(a) \/ Pool(a) => StepsLeft(a)' < StepsLeft(a)]_vars
  <2> SUFFICES ASSUME IInv, ProgressInv, Next, NEW a \in Alerts
               PROVE  /\ StepsLeft(a) \in 0..(MaxAttempts + 8)
                      /\ StepsLeft(a)' <= StepsLeft(a)
                      /\ Submitter(a) \/ Pool(a) => StepsLeft(a)' < StepsLeft(a)
    OBVIOUS
  <2>1. StepsLeft(a) \in 0..(MaxAttempts + 8)
    <3>1. attempts[a] \in 0..MaxAttempts /\ MaxAttempts \in Nat
      BY NotifierAssumption DEF IInv, TypeOK
    <3>2. SubmitRank(submit[a]) \in 0..3 /\ WorkRank(work[a]) \in 0..5
      BY DEF IInv, TypeOK, SubmitStates, WorkStates, SubmitRank, WorkRank
    <3>3. QED
      BY <3>1, <3>2 DEF StepsLeft
  <2>2. CASE \E b \in Alerts : Enqueue(b) \/ Submitter(b) \/ Pool(b)
    BY <2>1, <2>2, OwnSteps
  <2>3. CASE BeginDrain \/ Drainer \/ DrainTimeout
    <3>1. UNCHANGED <<submit, work, attempts>>
      BY <2>3 DEF BeginDrain, Drainer, LookAtPending, AwaitFuture, DrainTimeout
    <3>2. StepsLeft(a)' = StepsLeft(a)
      BY <3>1 DEF StepsLeft
    <3>3. QED
      BY <2>1, <3>2, OwnSteps
  <2>4. QED
    BY <2>2, <2>3 DEF Next
<1>2. QED
  BY Invariance, NothingStuck, <1>1, PTL DEF Spec, StepsRunOut
=============================================================================
