------------------------------ MODULE Notifier ------------------------------
(***************************************************************************)
(* Slack delivery off the request path (src/reporter/notifier.py), inside  *)
(* one worker process: request threads call submit, a pool of threads      *)
(* delivers with retries, and drain waits for what is pending when the     *)
(* worker shuts down.  The set _pending is shared by all three, and submit *)
(* enters a future into it only after the pool may have finished it.       *)
(***************************************************************************)
EXTENDS Naturals, Sequences, FiniteSets

CONSTANTS
    Alerts,         \* calls of submit
    MaxAttempts,    \* SLACK_MAX_ATTEMPTS
    PoolSize        \* SLACK_WORKERS

ASSUME NotifierAssumption ==
    MaxAttempts \in Nat \ {0} /\ PoolSize \in Nat \ {0}

VARIABLES
    submit,      \* submit[a]: how far the request thread got in submit()
    work,        \* work[a]: how far the pool got with the future
    queue,       \* the executor's work queue
    attempts,    \* attempts[a]: calls of send_once so far
    accepted,    \* accepted[a]: how many of them Slack accepted
    result,      \* result[a]: what delivered is in submit's run()
    raised,      \* alerts whose send_once raised
    pending,     \* _pending
    hooked,      \* futures with the done callback registered
    drain,       \* where drain() is
    awaited,     \* the snapshot of _pending drain waits for
    due          \* alerts whose submit had returned when drain began

vars == <<submit, work, queue, attempts, accepted, result, raised, pending,
          hooked, drain, awaited, due>>

SubmitStates == {"idle", "submitted", "added", "returned"}
WorkStates == {"new", "queued", "delivering", "recording", "recorded",
               "finished", "over"}
Done == {"finished", "over"}
Busy == {a \in Alerts : work[a] \in WorkStates \ {"new", "queued", "over"}}

Init ==
    /\ submit = [a \in Alerts |-> "idle"]
    /\ work = [a \in Alerts |-> "new"]
    /\ queue = <<>>
    /\ attempts = [a \in Alerts |-> 0]
    /\ accepted = [a \in Alerts |-> 0]
    /\ result = [a \in Alerts |-> FALSE]
    /\ raised = {}
    /\ pending = {}
    /\ hooked = {}
    /\ drain = "idle"
    /\ awaited = {}
    /\ due = {}

(* submit: executor.submit, then _pending.add, then add_done_callback.     *)
Enqueue(a) ==
    /\ submit[a] = "idle"
    /\ submit' = [submit EXCEPT ![a] = "submitted"]
    /\ work' = [work EXCEPT ![a] = "queued"]
    /\ queue' = Append(queue, a)
    /\ UNCHANGED <<attempts, accepted, result, raised, pending, hooked, drain,
                   awaited, due>>

AddPending(a) ==
    /\ submit[a] = "submitted"
    /\ submit' = [submit EXCEPT ![a] = "added"]
    /\ pending' = pending \cup {a}
    /\ UNCHANGED <<work, queue, attempts, accepted, result, raised, hooked, drain,
                   awaited, due>>

(* Mutant: a callback registered on a future that is already done never    *)
(* runs.                                                                   *)
HookOnly(a) ==
    /\ submit[a] = "added"
    /\ submit' = [submit EXCEPT ![a] = "returned"]
    /\ hooked' = hooked \cup {a}
    /\ UNCHANGED <<work, queue, attempts, accepted, result, raised, pending, drain,
                   awaited, due>>

(* On a future that is already done the callback runs here and now.        *)
AddDoneCallback(a) ==
    /\ submit[a] = "added"
    /\ submit' = [submit EXCEPT ![a] = "returned"]
    /\ IF work[a] \in Done
       THEN pending' = pending \ {a} /\ UNCHANGED hooked
       ELSE hooked' = hooked \cup {a} /\ UNCHANGED pending
    /\ UNCHANGED <<work, queue, attempts, accepted, result, raised, drain,
                   awaited, due>>

(* Mutant: a future leaves _pending when a thread takes it up.             *)
StartDiscards(a) ==
    /\ queue # <<>> /\ Head(queue) = a
    /\ Cardinality(Busy) < PoolSize
    /\ queue' = Tail(queue)
    /\ work' = [work EXCEPT ![a] = "delivering"]
    /\ pending' = pending \ {a}
    /\ UNCHANGED <<submit, attempts, accepted, result, raised, hooked, drain,
                   awaited, due>>

(* A pool thread takes the oldest work item.                               *)
Start(a) ==
    /\ queue # <<>> /\ Head(queue) = a
    /\ Cardinality(Busy) < PoolSize
    /\ queue' = Tail(queue)
    /\ work' = [work EXCEPT ![a] = "delivering"]
    /\ UNCHANGED <<submit, attempts, accepted, result, raised, pending, hooked,
                   drain, awaited, due>>

(* Mutant: the first failure is final.                                     *)
SendOnly(a) ==
    /\ work[a] = "delivering"
    /\ attempts' = [attempts EXCEPT ![a] = @ + 1]
    /\ result' \in {result, [result EXCEPT ![a] = TRUE]}
    /\ accepted' = [accepted EXCEPT ![a] = IF result'[a] THEN @ + 1 ELSE @]
    /\ work' = [work EXCEPT ![a] = "recording"]
    /\ UNCHANGED <<submit, queue, raised, pending, hooked, drain, awaited, due>>

(* One call of send_once.  It returns True only if Slack accepted the      *)
(* message; one that Slack accepted may still count as failed.  A call     *)
(* that raises (a webhook that is no URL) ends the delivery at once:       *)
(* delivered is then still False.                                          *)
SendOnce(a) ==
    /\ work[a] = "delivering"
    /\ attempts[a] < MaxAttempts
    /\ attempts' = [attempts EXCEPT ![a] = @ + 1]
    /\ \E took, ok, raises \in BOOLEAN :
           /\ ok => took /\ ~raises
           /\ accepted' = [accepted EXCEPT ![a] = IF took THEN @ + 1 ELSE @]
           /\ result' = [result EXCEPT ![a] = ok]
           /\ raised' = IF raises THEN raised \cup {a} ELSE raised
           /\ work' = [work EXCEPT ![a] =
                  IF ok \/ raises \/ attempts'[a] = MaxAttempts
                  THEN "recording" ELSE @]
    /\ UNCHANGED <<submit, queue, pending, hooked, drain, awaited, due>>

(* on_done(delivered); an exception in it is logged and swallowed.         *)
OnDone(a) ==
    /\ work[a] = "recording"
    /\ work' = [work EXCEPT ![a] = "recorded"]
    /\ UNCHANGED <<submit, queue, attempts, accepted, result, raised, pending,
                   hooked, drain, awaited, due>>

(* The future is done: whoever waits for it goes on, then callbacks run.   *)
FinishFuture(a) ==
    /\ work[a] = "recorded"
    /\ work' = [work EXCEPT ![a] = "finished"]
    /\ UNCHANGED <<submit, queue, attempts, accepted, result, raised, pending,
                   hooked, drain, awaited, due>>

(* Mutant: the callback is lost.                                           *)
RunNoCallbacks(a) ==
    /\ work[a] = "finished"
    /\ work' = [work EXCEPT ![a] = "over"]
    /\ UNCHANGED <<submit, queue, attempts, accepted, result, raised, pending,
                   hooked, drain, awaited, due>>
RunCallbacks(a) ==
    /\ work[a] = "finished"
    /\ work' = [work EXCEPT ![a] = "over"]
    /\ pending' = IF a \in hooked THEN pending \ {a} ELSE pending
    /\ UNCHANGED <<submit, queue, attempts, accepted, result, raised, hooked,
                   drain, awaited, due>>

BeginDrain ==
    /\ drain = "idle"
    /\ drain' = "look"
    /\ due' = {a \in Alerts : submit[a] = "returned"}
    /\ UNCHANGED <<submit, work, queue, attempts, accepted, result, raised,
                   pending, hooked, awaited>>

LookAtPending ==
    /\ drain = "look"
    /\ drain' = IF pending = {} THEN "true" ELSE "wait"
    /\ awaited' = pending
    /\ UNCHANGED <<submit, work, queue, attempts, accepted, result, raised,
                   pending, hooked, due>>

(* future.result for each of the snapshot, in whatever order it has.       *)
AwaitFuture ==
    /\ drain = "wait"
    /\ \E a \in awaited :
           /\ work[a] \in Done
           /\ awaited' = awaited \ {a}
    /\ drain' = IF awaited' = {} THEN "look" ELSE "wait"
    /\ UNCHANGED <<submit, work, queue, attempts, accepted, result, raised,
                   pending, hooked, due>>

(* The timeout of drain, if it was given one.                              *)
DrainTimeout ==
    /\ drain = "wait"
    /\ drain' = "false"
    /\ UNCHANGED <<submit, work, queue, attempts, accepted, result, raised,
                   pending, hooked, awaited, due>>

Submitter(a) == AddPending(a) \/ AddDoneCallback(a)
Pool(a) ==
    Start(a) \/ SendOnce(a) \/ OnDone(a) \/ FinishFuture(a) \/ RunCallbacks(a)
Drainer == LookAtPending \/ AwaitFuture

Next ==
    \/ \E a \in Alerts : Enqueue(a) \/ Submitter(a) \/ Pool(a)
    \/ BeginDrain \/ Drainer \/ DrainTimeout

Spec == Init /\ [][Next]_vars

(* Threads run: a POST has a 5 s timeout and backoff is bounded.  Nothing  *)
(* says that drain times out.                                              *)
FairSpec ==
    /\ Spec
    /\ \A a \in Alerts : WF_vars(Submitter(a)) /\ WF_vars(Pool(a))
    /\ WF_vars(Drainer)
-----------------------------------------------------------------------------
TypeOK ==
    /\ submit \in [Alerts -> SubmitStates]
    /\ work \in [Alerts -> WorkStates]
    /\ queue \in Seq(Alerts)
    /\ attempts \in [Alerts -> 0..MaxAttempts]
    /\ accepted \in [Alerts -> 0..MaxAttempts]
    /\ result \in [Alerts -> BOOLEAN]
    /\ raised \subseteq Alerts
    /\ pending \subseteq Alerts
    /\ hooked \subseteq Alerts
    /\ drain \in {"idle", "look", "wait", "true", "false"}
    /\ awaited \subseteq Alerts
    /\ due \subseteq Alerts

(* Delivery gives up only after MaxAttempts tries or on an exception of    *)
(* send_once, stops at the first success, and reports success only for a   *)
(* message Slack accepted, and never after an exception.                   *)
RetriesHonest ==
    \A a \in Alerts : work[a] \notin {"new", "queued", "delivering"} =>
        IF result[a] THEN accepted[a] > 0 /\ a \notin raised
        ELSE attempts[a] = MaxAttempts \/ a \in raised

(* An alert whose submit has returned is in _pending until it is done, so  *)
(* drain cannot overlook it.                                               *)
PendingCoversReturned ==
    \A a \in Alerts :
        submit[a] = "returned" /\ work[a] \notin Done => a \in pending

(* drain() = True: every alert submitted before the call is delivered or   *)
(* given up on, with its outcome recorded.                                 *)
DrainIsComplete ==
    drain = "true" => \A a \in due : work[a] \in Done

(* No future is left in _pending: whichever of the pool and submit comes   *)
(* last takes it out.                                                      *)
PendingEmpties == \A a \in Alerts : a \in pending ~> a \notin pending

(* A drain returns, even one whose timeout never strikes.                  *)
DrainReturns == drain = "look" ~> drain \in {"true", "false"}
=============================================================================
