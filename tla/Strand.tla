------------------------------- MODULE Strand -------------------------------
(***************************************************************************)
(* The executor of the timer callbacks: threads push callbacks on a        *)
(* request queue and notify; one worker takes the whole queue and runs it  *)
(* in order; Shutdown, the destructor's, empties the queues and waits for  *)
(* the worker.  What a thread does under m_lock is one step.               *)
(*                                                                         *)
(* Callbacks are numbered in the order they are pushed.  A callback runs   *)
(* to its end in one step of the worker.                                   *)
(***************************************************************************)
EXTENDS Naturals, Sequences

CONSTANTS
  Producer,       \* threads that call Enqueue
  MaxCallbacks    \* bound: callbacks pushed

ASSUME CallbackAssumption == MaxCallbacks \in Nat

VARIABLES
  requestQueue,   \* m_request_queue
  processQueue,   \* m_process_queue
  abort,          \* m_abort
  worker,         \* where the worker thread is
  current,        \* the callback the worker has popped
  producer,       \* producer[p]: where thread p is in Enqueue
  shutdown,       \* where the thread that destroys the strand is in Shutdown
  enqueued,       \* history: number of callbacks pushed
  executed        \* history: the callbacks that ran, in their order

queues == <<requestQueue, processQueue>>
history == <<enqueued, executed>>
vars == <<requestQueue, processQueue, abort, worker, current, producer, shutdown, enqueued, executed>>

Init ==
  /\ requestQueue = <<>> /\ processQueue = <<>>
  /\ abort = FALSE
  /\ worker = "lock" /\ current = 0
  /\ producer = [p \in Producer |-> "idle"]
  /\ shutdown = "idle"
  /\ enqueued = 0 /\ executed = <<>>

-----------------------------------------------------------------------------
(* Enqueue *)

\* Mutation: the worker is not notified
PushSilently(p) ==
  /\ producer[p] = "idle" /\ ~abort /\ enqueued < MaxCallbacks
  /\ requestQueue' = Append(requestQueue, enqueued + 1)
  /\ enqueued' = enqueued + 1
  /\ UNCHANGED <<processQueue, abort, worker, current, producer, shutdown, executed>>

\* Enqueue on a strand that was shut down throws, and changes nothing
Push(p) ==
  /\ producer[p] = "idle" /\ ~abort /\ enqueued < MaxCallbacks
  /\ requestQueue' = Append(requestQueue, enqueued + 1)
  /\ enqueued' = enqueued + 1
  /\ producer' = [producer EXCEPT ![p] = "notify"]
  /\ UNCHANGED <<processQueue, abort, worker, current, shutdown, executed>>

\* notify_one: a worker that waits takes the lock again
Woken == IF worker = "waiting" THEN "lock" ELSE worker

Notify(p) ==
  /\ producer[p] = "notify"
  /\ producer' = [producer EXCEPT ![p] = "idle"]
  /\ worker' = Woken
  /\ UNCHANGED <<queues, abort, current, shutdown, history>>

-----------------------------------------------------------------------------
(* EventLoop and ProcessEvents *)

\* Mutation: only callbacks end the wait
MustWaitIgnoresAbort == requestQueue = <<>>

\* The predicate of the wait does not hold
MustWait == requestQueue = <<>> /\ ~abort

Wait ==
  /\ worker = "lock" /\ MustWait
  /\ worker' = "waiting"
  /\ UNCHANGED <<queues, abort, current, producer, shutdown, history>>

\* Condition variables may wake up without a reason
SpuriousWakeup ==
  /\ worker = "waiting"
  /\ worker' = "lock"
  /\ UNCHANGED <<queues, abort, current, producer, shutdown, history>>

\* What a moved request queue holds
LeftBehind == <<>>

Take ==
  /\ worker = "lock" /\ ~MustWait
  /\ IF abort THEN worker' = "done" /\ UNCHANGED queues
     ELSE /\ worker' = "process"
          /\ processQueue' = requestQueue
          /\ requestQueue' = LeftBehind
  /\ UNCHANGED <<abort, current, producer, shutdown, history>>

\* while (!m_process_queue.empty())
CheckEmpty ==
  /\ worker = "process"
  /\ worker' = IF processQueue = <<>> THEN "lock" ELSE "pop"
  /\ UNCHANGED <<queues, abort, current, producer, shutdown, history>>

\* Mutation: the callback stays in the queue
PopFrontOnly ==
  /\ worker = "pop" /\ processQueue # <<>>
  /\ current' = Head(processQueue)
  /\ worker' = "run"
  /\ UNCHANGED <<requestQueue, processQueue, abort, producer, shutdown, history>>

Pop ==
  /\ worker = "pop" /\ processQueue # <<>>
  /\ current' = Head(processQueue)
  /\ processQueue' = Tail(processQueue)
  /\ worker' = "run"
  /\ UNCHANGED <<requestQueue, abort, producer, shutdown, history>>

\* Shutdown has moved the queue away since the worker saw that it is not empty,
\* or does so while the worker pops: front() and pop() of an empty queue are
\* undefined, and nothing more is said of the process
PopMovedQueue ==
  /\ worker = "pop" /\ (processQueue = <<>> \/ shutdown = "clear")
  /\ worker' = "undefined"
  /\ UNCHANGED <<queues, abort, current, producer, shutdown, history>>

Run ==
  /\ worker = "run"
  /\ IF abort THEN worker' = "lock" /\ UNCHANGED executed
     ELSE worker' = "process" /\ executed' = Append(executed, current)
  /\ UNCHANGED <<queues, abort, current, producer, shutdown, enqueued>>

-----------------------------------------------------------------------------
(* Shutdown *)

Abort ==
  /\ shutdown = "idle"
  /\ abort' = TRUE
  /\ shutdown' = "clear"
  /\ UNCHANGED <<queues, worker, current, producer, history>>

\* The lock protects the request queue; the worker uses the other one without it
ClearQueues ==
  /\ shutdown = "clear"
  /\ requestQueue' = <<>> /\ processQueue' = <<>>
  /\ shutdown' = "notify"
  /\ UNCHANGED <<abort, worker, current, producer, history>>

NotifyWorker ==
  /\ shutdown = "notify"
  /\ worker' = Woken
  /\ shutdown' = "join"
  /\ UNCHANGED <<queues, abort, current, producer, history>>

Join ==
  /\ shutdown = "join" /\ worker = "done"
  /\ shutdown' = "returned"
  /\ UNCHANGED <<queues, abort, worker, current, producer, history>>

-----------------------------------------------------------------------------
Worker == Wait \/ Take \/ CheckEmpty \/ Pop \/ PopMovedQueue \/ Run

Next ==
  \/ \E p \in Producer : Push(p) \/ Notify(p)
  \/ Worker \/ SpuriousWakeup
  \/ Abort \/ ClearQueues \/ NotifyWorker \/ Join

\* A thread that can go on does.  Nobody has to call Enqueue or Shutdown, and
\* nothing wakes a waiting worker but a notification.
Fairness ==
  /\ \A p \in Producer : WF_vars(Notify(p))
  /\ WF_vars(Worker)
  /\ WF_vars(ClearQueues) /\ WF_vars(NotifyWorker) /\ WF_vars(Join)

Spec == Init /\ [][Next]_vars /\ Fairness

-----------------------------------------------------------------------------
(* Properties *)

\* Types; the queues together never hold more callbacks than were pushed
TypeOK ==
  /\ requestQueue \in Seq(1..MaxCallbacks) /\ processQueue \in Seq(1..MaxCallbacks)
  /\ abort \in BOOLEAN
  /\ worker \in {"lock", "waiting", "process", "pop", "run", "done", "undefined"}
  /\ current \in 0..MaxCallbacks
  /\ producer \in [Producer -> {"idle", "notify"}]
  /\ shutdown \in {"idle", "clear", "notify", "join", "returned"}
  /\ enqueued \in 0..MaxCallbacks
  /\ executed \in Seq(0..MaxCallbacks)
  /\ Len(requestQueue) + Len(processQueue) <= enqueued

\* Callbacks that have left the queues
Taken == IF worker = "run" THEN Len(executed) + 1 ELSE Len(executed)

\* Callbacks run in the order they were pushed, each once, and until the strand
\* is shut down none is lost: those that ran, the one that is popped and those
\* in the two queues are the callbacks 1 to enqueued.  The timers rely on it for
\* the order of their callbacks.
InOrder ==
  /\ \A i \in DOMAIN executed : executed[i] = i
  /\ ~abort =>
       /\ worker = "run" => current = Taken
       /\ \A i \in DOMAIN processQueue : processQueue[i] = Taken + i
       /\ \A i \in DOMAIN requestQueue : requestQueue[i] = Taken + Len(processQueue) + i
       /\ enqueued = Taken + Len(processQueue) + Len(requestQueue)

\* A callback that was pushed runs, unless the strand is shut down: no
\* notification is lost between the check of the queue and the wait
CallbacksRun == \A i \in 1..MaxCallbacks : enqueued >= i ~> Len(executed) >= i \/ abort

\* Shutdown returns, unless the worker meets the queue Shutdown has moved away
ShutdownReturns == abort ~> shutdown = "returned" \/ worker = "undefined"

=============================================================================
