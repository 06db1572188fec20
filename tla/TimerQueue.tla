----------------------------- MODULE TimerQueue -----------------------------
(***************************************************************************)
(* The timers of a node.  Threads reset and cancel timers; one worker      *)
(* applies their requests to a multiset of timers ordered by deadline and  *)
(* hands the callback of an expired timer to the executor.  The worker     *)
(* ends when it has had nothing to do for five seconds, and the next timer *)
(* that is added starts another one.                                       *)
(*                                                                         *)
(* What a thread does under m_lock is one step.  A timer's deadline and    *)
(* its cancelled flag are written without the lock, each in a step of its  *)
(* own, also while the timer is in the multiset.  The flag is atomic.  The *)
(* deadline is a plain time_point of one word, and a read or a write of it *)
(* is taken to be of all of it.  A notification is sent in the step that   *)
(* changes what it announces: sent later it could only wake a worker that  *)
(* has seen the change.                                                    *)
(***************************************************************************)
EXTENDS Naturals, SequencesExt

CONSTANTS
  Timer,              \* the timers
  Caller,             \* threads that reset and cancel them
  Delay,              \* delays a timer is reset with
  MaxTime,            \* bound: the clock
  MaxCalls,           \* bound: calls of Reset and Cancel
  DistinctDeadlines   \* assumption: no two timers have the same deadline

ASSUME TimeAssumption == Delay \subseteq Nat /\ MaxTime \in Nat /\ MaxCalls \in Nat

VARIABLES
  deadline, cancelled,  \* m_deadline and m_cancelled of each timer
  requestQueue,         \* m_request_queue
  processQueue,         \* m_process_queue, in the order of its tree
  abort, idle,          \* m_abort, m_idle
  worker,               \* where the worker thread is
  events,               \* its requests that are still to be applied
  current,              \* the timer it has taken out of the multiset, or NoTimer
  currTime,             \* its curr_time, and 0 where it has none
  nextDeadline,         \* its next_deadline, and 0 where it has none
  caller,               \* caller[c]: where thread c is in Reset or Cancel, and of which timer
  shutdown,             \* where the thread that destroys the queue is
  now,                  \* the clock
  calls,                \* number of calls of Reset and Cancel
  armed,                \* history: timers that were reset, and neither fired nor cancelled since
  stale                 \* history: callbacks handed over since the last Reset or Cancel though not due

timers == <<deadline, cancelled>>
working == <<worker, events, current, currTime, nextDeadline>>
history == <<armed, stale>>
vars == <<deadline, cancelled, requestQueue, processQueue, abort, idle, worker, events, current,
          currTime, nextDeadline, caller, shutdown, now, calls, armed, stale>>

NoTimer == "none"
Idle == [at |-> "idle"]
At(step, t) == [at |-> step, timer |-> t]
ToAdd(t) == [timer |-> t, type |-> "ADD"]
ToRemove(t) == [timer |-> t, type |-> "REMOVE"]

\* A timer has a deadline before it is added; the clock starts at 0.
\* The worker thread is started with the first timer.
Init ==
  /\ deadline = [t \in Timer |-> 0] /\ cancelled = [t \in Timer |-> FALSE]
  /\ requestQueue = <<>> /\ processQueue = <<>> /\ events = <<>>
  /\ abort = FALSE /\ idle = TRUE
  /\ worker = "unstarted" /\ current = NoTimer /\ currTime = 0 /\ nextDeadline = 0
  /\ caller = [c \in Caller |-> Idle]
  /\ shutdown = "idle"
  /\ now = 0 /\ calls = 0
  /\ armed = {} /\ stale = [t \in Timer |-> 0]

-----------------------------------------------------------------------------
(* Requests *)

\* Mutation: the worker is not notified
NotWoken == worker

\* notify_one: a worker that waits takes the lock again
Woken == IF worker = "waiting" THEN "lock" ELSE worker

RemoveTimer(t) ==
  /\ requestQueue' = Append(requestQueue, ToRemove(t))
  /\ worker' = Woken

\* Mutation: the thread that has ended is taken for one that runs
AddTimerToEnded(t) ==
  /\ requestQueue' = Append(requestQueue, ToAdd(t))
  /\ worker' = IF worker = "unstarted" THEN "lock" ELSE Woken
  /\ idle' = FALSE

\* A worker is started where there is none
UpdateWorkerThread ==
  /\ worker' = IF idle THEN "lock" ELSE Woken
  /\ idle' = FALSE

\* The thread that has ended is joined
AddTimer(t) ==
  /\ requestQueue' = Append(requestQueue, ToAdd(t))
  /\ UpdateWorkerThread

\* DeadlineTimerImpl::Reset, in its three forms: the old request first, ...
Reset(c, t) ==
  /\ caller[c] = Idle /\ calls < MaxCalls /\ ~abort
  /\ calls' = calls + 1
  /\ RemoveTimer(t)
  /\ armed' = armed \ {t}
  /\ caller' = [caller EXCEPT ![c] = At("deadline", t)]
  /\ UNCHANGED <<timers, processQueue, abort, idle, events, current, currTime, nextDeadline,
                 shutdown, now, stale>>

\* ... then the deadline, which moves a timer that is still in the multiset,
\* and the flag (no step of another thread tells these two stores apart), ...
SetDeadline(c) ==
  /\ caller[c].at = "deadline"
  /\ \E d \in Delay : LET t == caller[c].timer IN
       /\ now + d <= MaxTime
       /\ DistinctDeadlines => \A u \in Timer \ {t} : deadline[u] # now + d
       /\ deadline' = [deadline EXCEPT ![t] = now + d]
       /\ cancelled' = [cancelled EXCEPT ![t] = FALSE]
       /\ stale' = [stale EXCEPT ![t] = 0]
       /\ caller' = [caller EXCEPT ![c] = At("add", t)]
  /\ UNCHANGED <<requestQueue, processQueue, abort, idle, working, shutdown, now, calls,
                 armed>>

\* ... and the new request.  A queue that is shut down throws.
ResetAdds(c) ==
  /\ caller[c].at = "add"
  /\ caller' = [caller EXCEPT ![c] = Idle]
  /\ LET t == caller[c].timer IN
       IF abort THEN UNCHANGED <<requestQueue, worker, idle, armed>>
       ELSE AddTimer(t) /\ armed' = IF cancelled[t] THEN armed ELSE armed \union {t}
  /\ UNCHANGED <<timers, processQueue, abort, events, current, currTime, nextDeadline, shutdown,
                 now, calls, stale>>

\* DeadlineTimerImpl::Cancel
Cancel(c, t) ==
  /\ caller[c] = Idle /\ calls < MaxCalls /\ ~abort
  /\ calls' = calls + 1
  /\ cancelled' = [cancelled EXCEPT ![t] = TRUE]
  /\ armed' = armed \ {t}
  /\ stale' = [stale EXCEPT ![t] = 0]
  /\ caller' = [caller EXCEPT ![c] = At("remove", t)]
  /\ UNCHANGED <<deadline, requestQueue, processQueue, abort, idle, working, shutdown, now>>

CancelRemoves(c) ==
  /\ caller[c].at = "remove"
  /\ RemoveTimer(caller[c].timer)
  /\ armed' = armed \ {caller[c].timer}
  /\ caller' = [caller EXCEPT ![c] = Idle]
  /\ UNCHANGED <<timers, processQueue, abort, idle, events, current, currTime, nextDeadline,
                 shutdown, now, calls, stale>>

-----------------------------------------------------------------------------
(* EventLoop *)

\* Mutation: the predicate leaves out m_abort
HasRequests == requestQueue # <<>>

\* The predicate of the waits
HasWork == requestQueue # <<>> \/ abort

Wait ==
  /\ worker = "lock" /\ ~HasWork
  /\ worker' = "waiting"
  /\ UNCHANGED <<timers, requestQueue, processQueue, abort, idle, events, current, currTime,
                 nextDeadline, caller, shutdown, now, calls, history>>

\* Out of the wait: the worker ends, or takes the requests
TakeRequests ==
  /\ IF abort THEN worker' = "ended" /\ UNCHANGED <<requestQueue, events>>
     ELSE /\ worker' = "apply"
          /\ events' = requestQueue
          /\ requestQueue' = <<>>
  /\ nextDeadline' = 0

Take ==
  /\ worker = "lock" /\ HasWork
  /\ TakeRequests
  /\ UNCHANGED <<timers, processQueue, abort, idle, current, currTime, caller, shutdown, now, calls, history>>

\* Five seconds without a timer and without a request; they are not measured
\* by the clock and may pass at any time
IdleTimeout ==
  /\ worker = "waiting" /\ processQueue = <<>> /\ ~HasWork
  /\ idle' = TRUE
  /\ worker' = "ended"
  /\ UNCHANGED <<timers, requestQueue, processQueue, abort, events, current, currTime,
                 nextDeadline, caller, shutdown, now, calls, history>>

\* wait_until returns at the deadline that ProcessTimers found
DeadlineTimeout ==
  /\ worker = "waiting" /\ processQueue # <<>> /\ now >= nextDeadline
  /\ TakeRequests
  /\ UNCHANGED <<timers, processQueue, abort, idle, current, currTime, caller, shutdown, now, calls, history>>

-----------------------------------------------------------------------------
(* ProcessTimers *)

Ordered == \A i, j \in DOMAIN processQueue : i < j => deadline[processQueue[i]] <= deadline[processQueue[j]]

\* Where find may end: at the first timer with the same deadline, and 0 where
\* there is none.  A deadline that was moved in place breaks the order: the
\* search then depends on the shape of the tree.
Found(t) ==
  LET same == {i \in DOMAIN processQueue : deadline[processQueue[i]] = deadline[t]}
  IN  IF ~Ordered \/ same = {} THEN same \union {0} ELSE {CHOOSE i \in same : \A j \in same : i <= j}

\* Where emplace may insert: behind the timers that are not later
Places(t) ==
  IF ~Ordered THEN 1..Len(processQueue) + 1
  ELSE {1 + Len(SelectSeq(processQueue, LAMBDA u : deadline[u] <= deadline[t]))}

AddTimerInternal(t) ==
  \E i \in Places(t) : processQueue' = InsertAt(processQueue, i, t)

RemoveTimerInternal(t) ==
  \E i \in Found(t) : processQueue' = IF i = 0 THEN processQueue ELSE RemoveAt(processQueue, i)

Apply ==
  /\ worker = "apply" /\ events # <<>>
  /\ LET e == Head(events) IN
       IF e.type = "ADD" THEN AddTimerInternal(e.timer) ELSE RemoveTimerInternal(e.timer)
  /\ events' = Tail(events)
  /\ UNCHANGED <<timers, requestQueue, abort, idle, worker, current, currTime, nextDeadline,
                 caller, shutdown, now, calls, history>>

ReadClock ==
  /\ worker = "apply" /\ events = <<>>
  /\ currTime' = now
  /\ worker' = "expire"
  /\ UNCHANGED <<timers, requestQueue, processQueue, abort, idle, events, current, nextDeadline,
                 caller, shutdown, now, calls, history>>

Expired(t) == deadline[t] <= currTime

\* The first timer is taken out when it has expired; otherwise its deadline is
\* the next one (with no timer left it is not used)
Expire ==
  /\ worker = "expire"
  /\ IF processQueue # <<>> /\ Expired(Head(processQueue))
     THEN /\ current' = Head(processQueue)
          /\ processQueue' = Tail(processQueue)
          /\ worker' = "execute"
          /\ UNCHANGED nextDeadline
     ELSE /\ worker' = "lock"
          /\ nextDeadline' = IF processQueue = <<>> THEN 0 ELSE deadline[Head(processQueue)]
          /\ UNCHANGED <<current, processQueue>>
  /\ currTime' = IF worker' = "lock" THEN 0 ELSE currTime
  /\ UNCHANGED <<timers, requestQueue, abort, idle, events, caller, shutdown, now, calls, history>>

\* Mutation: the flag is not looked at, the request to remove the timer is enough
SkipCancelled ==
  /\ worker = "execute"
  /\ worker' = "enqueue"
  /\ UNCHANGED <<timers, requestQueue, processQueue, abort, idle, events, current, currTime,
                 nextDeadline, caller, shutdown, now, calls, history>>

\* The two checks of m_cancelled have the effect of the second
CheckCancelled ==
  /\ worker = "execute"
  /\ IF cancelled[current] THEN worker' = "expire" /\ current' = NoTimer
     ELSE worker' = "enqueue" /\ UNCHANGED current
  /\ UNCHANGED <<timers, requestQueue, processQueue, abort, idle, events, currTime,
                 nextDeadline, caller, shutdown, now, calls, history>>

NotDue(t) == cancelled[t] \/ deadline[t] > now

\* m_executor->Enqueue(m_callback)
Enqueue ==
  /\ worker = "enqueue"
  /\ worker' = "expire" /\ current' = NoTimer
  /\ stale' = [stale EXCEPT ![current] = IF NotDue(current) THEN @ + 1 ELSE @]
  /\ armed' = IF NotDue(current) THEN armed ELSE armed \ {current}
  /\ UNCHANGED <<timers, requestQueue, processQueue, abort, idle, events, currTime,
                 nextDeadline, caller, shutdown, now, calls>>

-----------------------------------------------------------------------------
(* Shutdown *)

Abort ==
  /\ shutdown = "idle"
  /\ abort' = TRUE
  /\ shutdown' = "clear"
  /\ UNCHANGED <<timers, requestQueue, processQueue, idle, working, caller, now, calls, history>>

ClearRequests ==
  /\ shutdown = "clear"
  /\ IF worker = "unstarted"
     THEN shutdown' = "returned" /\ UNCHANGED <<requestQueue, worker>>
     ELSE shutdown' = "join" /\ requestQueue' = <<>> /\ worker' = Woken
  /\ UNCHANGED <<timers, processQueue, abort, idle, events, current, currTime, nextDeadline,
                 caller, now, calls, history>>

Join ==
  /\ shutdown = "join" /\ worker = "ended"
  /\ shutdown' = "returned"
  /\ UNCHANGED <<timers, requestQueue, processQueue, abort, idle, working, caller, now, calls,
                 history>>

-----------------------------------------------------------------------------
Tick ==
  /\ now < MaxTime
  /\ now' = now + 1
  /\ UNCHANGED <<timers, requestQueue, processQueue, abort, idle, working, caller, shutdown, calls,
                 history>>

Worker ==
  \/ Wait \/ Take \/ DeadlineTimeout
  \/ Apply \/ ReadClock \/ Expire \/ CheckCancelled \/ Enqueue

\* A call that has begun goes on
Continue(c) == SetDeadline(c) \/ ResetAdds(c) \/ CancelRemoves(c)

Next ==
  \/ \E c \in Caller :
       \/ \E t \in Timer : Reset(c, t) \/ Cancel(c, t)
       \/ Continue(c)
  \/ Worker \/ IdleTimeout
  \/ Abort \/ ClearRequests \/ Join
  \/ Tick

\* Threads that can go on do, and time passes.  Nobody has to call Reset,
\* Cancel or Shutdown.
Fairness ==
  /\ \A c \in Caller : WF_vars(Continue(c))
  /\ WF_vars(Worker) /\ WF_vars(ClearRequests) /\ WF_vars(Join)
  /\ WF_vars(Tick)

Spec == Init /\ [][Next]_vars /\ Fairness

-----------------------------------------------------------------------------
(* Properties *)

Request == [timer : Timer, type : {"ADD", "REMOVE"}]

\* Types
TypeOK ==
  /\ deadline \in [Timer -> 0..MaxTime] /\ cancelled \in [Timer -> BOOLEAN]
  /\ requestQueue \in Seq(Request) /\ events \in Seq(Request)
  /\ processQueue \in Seq(Timer)
  /\ abort \in BOOLEAN /\ idle \in BOOLEAN
  /\ worker \in {"unstarted", "lock", "waiting", "apply", "expire", "execute", "enqueue", "ended"}
  /\ current \in Timer \union {NoTimer}
  /\ {currTime, nextDeadline, now} \subseteq 0..MaxTime
  /\ calls \in 0..MaxCalls
  /\ caller \in [Caller -> {Idle} \union [at : {"deadline", "add", "remove"}, timer : Timer]]
  /\ shutdown \in {"idle", "clear", "join", "returned"}
  /\ armed \subseteq Timer /\ stale \in [Timer -> Nat]

HasAdd(queue) == \E i \in DOMAIN queue : queue[i].type = "ADD"

\* A worker thread that ends for want of work leaves no timer behind: while a
\* timer waits to be added or is in the multiset, and the queue is not shut
\* down, a worker runs
TimersHaveWorker ==
  ~abort /\ (processQueue # <<>> \/ HasAdd(requestQueue) \/ HasAdd(events))
    => worker \notin {"unstarted", "ended"}

\* A timer that was cancelled, or reset to a later time, has its callback handed
\* to the executor at most once more: the worker may be past its checks
AtMostOneStale == TypeOK /\ \A t \in Timer : stale[t] <= 1

\* A timer that is reset, and then left alone, fires: also when the deadline was
\* moved under the multiset, and when the worker was about to end
ArmedTimerFires == \A t \in Timer : t \in armed ~> (t \notin armed \/ abort)

\* Shutdown returns
ShutdownReturns == abort ~> shutdown = "returned"

=============================================================================
