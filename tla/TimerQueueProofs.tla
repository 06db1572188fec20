-------------------------- MODULE TimerQueueProofs --------------------------
(***************************************************************************)
(* No timer is left without a worker thread, for every set of timers and   *)
(* of threads that use them.                                               *)
(***************************************************************************)
EXTENDS TimerQueue, TLAPS

Ended == {"unstarted", "ended"}

QueueType ==
  /\ worker \in Ended \union {"lock", "waiting", "apply", "expire", "execute", "enqueue"}
  /\ abort \in BOOLEAN /\ idle \in BOOLEAN
  /\ requestQueue \in Seq(Request) /\ events \in Seq(Request)
  /\ caller \in [Caller -> {Idle} \union [at : {"deadline", "add", "remove"}, timer : Timer]]

\* m_idle tells the threads that add a timer whether a worker runs, and a worker
\* that has ended by itself had nothing left
WorkerInv ==
  /\ QueueType
  /\ worker # "apply" => events = <<>>
  /\ idle => worker \in Ended /\ processQueue = <<>> /\ ~HasAdd(requestQueue)
  /\ ~idle /\ ~abort => worker \notin Ended

-----------------------------------------------------------------------------
\* A request more
LEMMA AppendAdds ==
  ASSUME NEW queue \in Seq(Request), NEW e \in Request
  PROVE  /\ Append(queue, e) \in Seq(Request)
         /\ e.type = "REMOVE" /\ ~HasAdd(queue) => ~HasAdd(Append(queue, e))
<1>1. /\ Append(queue, e) \in Seq(Request) /\ Len(Append(queue, e)) = Len(queue) + 1 /\ Len(queue) \in Nat
      /\ DOMAIN Append(queue, e) = 1..Len(queue) + 1 /\ DOMAIN queue = 1..Len(queue)
      /\ Append(queue, e)[Len(queue) + 1] = e
      /\ \A k \in 1..Len(queue) : Append(queue, e)[k] = queue[k]
  OBVIOUS
<1>2. \A k \in 1..Len(queue) + 1 : k \in 1..Len(queue) \/ k = Len(queue) + 1
  BY <1>1
<1> QED
  BY <1>1, <1>2 DEF HasAdd

\* An empty queue adds nothing
LEMMA EmptyAdds == ~HasAdd(<<>>) /\ <<>> \in Seq(Request)
  BY DEF HasAdd

\* A request to remove a timer wakes the worker at most
LEMMA RemoveTimerStep ==
  ASSUME WorkerInv, NEW t \in Timer, RemoveTimer(t),
         UNCHANGED <<abort, idle, events, processQueue>>,
         caller' \in [Caller -> {Idle} \union [at : {"deadline", "add", "remove"}, timer : Timer]]
  PROVE  WorkerInv'
<1>1. ToRemove(t) \in Request /\ ToRemove(t).type = "REMOVE"
  BY DEF ToRemove, Request
<1>2. requestQueue' \in Seq(Request) /\ (~HasAdd(requestQueue) => ~HasAdd(requestQueue)')
  BY <1>1, AppendAdds DEF WorkerInv, QueueType, RemoveTimer, HasAdd
<1>3. /\ worker' \in Ended \union {"lock", "waiting", "apply", "expire", "execute", "enqueue"}
      /\ (worker' \in Ended) = (worker \in Ended) /\ (worker' # "apply") = (worker # "apply")
  BY DEF WorkerInv, QueueType, RemoveTimer, Woken, Ended
<1> QED
  BY <1>2, <1>3 DEF WorkerInv, QueueType

\* A timer that is added has a worker
LEMMA AddTimerStep ==
  ASSUME WorkerInv, ~abort, NEW t \in Timer, AddTimer(t),
         UNCHANGED <<abort, events, processQueue>>,
         caller' \in [Caller -> {Idle} \union [at : {"deadline", "add", "remove"}, timer : Timer]]
  PROVE  WorkerInv'
<1>1. ToAdd(t) \in Request
  BY DEF ToAdd, Request
<1>2. requestQueue' \in Seq(Request)
  BY <1>1, AppendAdds DEF WorkerInv, QueueType, AddTimer, UpdateWorkerThread
<1>3. /\ worker' \in {"lock", "waiting", "apply", "expire", "execute", "enqueue"}
      /\ worker' # "apply" => events = <<>>
      /\ idle' = FALSE
  BY DEF WorkerInv, QueueType, AddTimer, UpdateWorkerThread, Woken, Ended
<1> QED
  BY <1>2, <1>3 DEF WorkerInv, QueueType, Ended

\* The calls of Reset and Cancel
LEMMA CallerStep ==
  ASSUME WorkerInv, NEW c \in Caller,
         Continue(c) \/ \E t \in Timer : Reset(c, t) \/ Cancel(c, t)
  PROVE  WorkerInv'
<1> DEFINE CallerType == [Caller -> {Idle} \union [at : {"deadline", "add", "remove"}, timer : Timer]]
<1>1. \A t \in Timer, step \in {"deadline", "add", "remove"} : [caller EXCEPT ![c] = At(step, t)] \in CallerType
  BY DEF WorkerInv, QueueType, At
<1>2. [caller EXCEPT ![c] = Idle] \in CallerType
  BY DEF WorkerInv, QueueType
<1>3. caller[c].at # "idle" => caller[c].timer \in Timer
  BY DEF WorkerInv, QueueType, Idle
<1>4. ASSUME NEW t \in Timer, Reset(c, t) PROVE WorkerInv'
  BY <1>1, <1>4, RemoveTimerStep DEF Reset
<1>5. ASSUME caller' \in CallerType,
             UNCHANGED <<requestQueue, processQueue, abort, idle, worker, events>>
      PROVE  WorkerInv'
  BY <1>5 DEF WorkerInv, QueueType, HasAdd
<1>6. ASSUME NEW t \in Timer, Cancel(c, t) PROVE WorkerInv'
  BY <1>1, <1>5, <1>6 DEF Cancel, working
<1>7. CASE SetDeadline(c)
  BY <1>1, <1>3, <1>5, <1>7 DEF SetDeadline, working
<1>8. CASE ResetAdds(c)
  <2>1. caller' \in CallerType /\ caller[c].timer \in Timer
    BY <1>2, <1>3, <1>8 DEF ResetAdds
  <2>2. CASE abort
    BY <1>5, <1>8, <2>1, <2>2 DEF ResetAdds
  <2>3. CASE ~abort
    BY <1>8, <2>1, <2>3, AddTimerStep DEF ResetAdds
  <2> QED
    BY <2>2, <2>3
<1>9. CASE CancelRemoves(c)
  BY <1>2, <1>3, <1>9, RemoveTimerStep DEF CancelRemoves
<1> QED
  BY <1>4, <1>6, <1>7, <1>8, <1>9 DEF Continue

\* The steps of the worker thread
LEMMA WorkerStep ==
  ASSUME WorkerInv, Worker \/ IdleTimeout
  PROVE  WorkerInv'
<1>1. worker \notin Ended /\ ~idle
  BY DEF WorkerInv, Worker, IdleTimeout, Wait, Take, DeadlineTimeout, Apply, ReadClock, Expire,
         CheckCancelled, Enqueue, Ended
<1>2. CASE Wait
  BY <1>1, <1>2 DEF WorkerInv, QueueType, Wait, Ended
<1>3. CASE Take \/ DeadlineTimeout
  BY <1>1, <1>3, EmptyAdds DEF WorkerInv, QueueType, Take, DeadlineTimeout, TakeRequests, Ended
<1>4. CASE IdleTimeout
  BY <1>1, <1>4, EmptyAdds DEF WorkerInv, QueueType, IdleTimeout, HasWork, Ended
<1>5. CASE Apply
  <2>1. Tail(events) \in Seq(Request)
    BY <1>5 DEF WorkerInv, QueueType, Apply
  <2> QED
    BY <1>1, <1>5, <2>1 DEF WorkerInv, QueueType, Apply, Ended
<1>6. CASE ReadClock \/ Expire \/ CheckCancelled \/ Enqueue
  <2>1. /\ worker' \in {"lock", "expire", "execute", "enqueue"} /\ events = <<>>
        /\ UNCHANGED <<requestQueue, abort, idle, events, caller>>
    BY <1>6 DEF WorkerInv, ReadClock, Expire, CheckCancelled, Enqueue
  <2> QED
    BY <1>1, <2>1 DEF WorkerInv, QueueType, Ended
<1> QED
  BY <1>2, <1>3, <1>4, <1>5, <1>6 DEF Worker

\* The invariant is inductive
LEMMA WorkerInvStep ==
  ASSUME WorkerInv, [Next]_vars
  PROVE  WorkerInv'
<1>1. CASE Abort
  BY <1>1 DEF WorkerInv, QueueType, Abort, working, HasAdd
<1>2. CASE ClearRequests
  <2>1. abort' = abort /\ idle' = idle
    BY <1>2 DEF ClearRequests
  <2>2. CASE worker = "unstarted"
    BY <1>2, <2>2 DEF WorkerInv, QueueType, ClearRequests, HasAdd
  <2>3. CASE worker # "unstarted"
    BY <1>2, <2>3, EmptyAdds DEF WorkerInv, QueueType, ClearRequests, Woken, Ended
  <2> QED
    BY <2>2, <2>3
<1>3. CASE Join \/ Tick \/ UNCHANGED vars
  BY <1>3 DEF WorkerInv, QueueType, Join, Tick, vars, working, HasAdd
<1> QED
  BY <1>1, <1>2, <1>3, CallerStep, WorkerStep DEF Next

-----------------------------------------------------------------------------
\* While a timer waits to be added or is in the multiset, a worker runs: one that
\* has had nothing to do for five seconds and a thread that adds a timer agree
THEOREM NoTimerWithoutWorker == Spec => []TimersHaveWorker
<1>1. Init => WorkerInv
  BY EmptyAdds DEF Init, WorkerInv, QueueType, Ended
<1>2. WorkerInv => TimersHaveWorker
  BY EmptyAdds DEF WorkerInv, QueueType, TimersHaveWorker, Ended
<1> QED
  BY <1>1, <1>2, WorkerInvStep, PTL DEF Spec

=============================================================================
