---------------------------- MODULE StrandProofs ----------------------------
(***************************************************************************)
(* The strand runs callbacks in the order they were pushed, whatever the   *)
(* number of threads and of callbacks.                                     *)
(***************************************************************************)
EXTENDS Strand, TLAPS

\* A worker that looks for new callbacks has run all it had taken, and Shutdown
\* touches the queues only after m_abort is set
Phases ==
  /\ worker \in {"lock", "waiting"} /\ ~abort => processQueue = <<>>
  /\ shutdown # "idle" => abort

\* InOrder is inductive together with the types and Phases
StrandInv == TypeOK /\ InOrder /\ Phases

\* A new strand has no callbacks
LEMMA InitStrand == Init => StrandInv
  <1> SUFFICES ASSUME Init PROVE StrandInv
    OBVIOUS
  <1> USE DEF Init
  <1>1. abort \in BOOLEAN
    OBVIOUS
  <1>2. TypeOK
    BY <1>1, CallbackAssumption DEF TypeOK
  <1>3. InOrder /\ Phases
    BY DEF InOrder, Taken, Phases
  <1> QED BY <1>2, <1>3 DEF StrandInv

\* Enqueue numbers the callback behind all that are pending
LEMMA PushKeeps ==
  ASSUME StrandInv, NEW p \in Producer, Push(p)
  PROVE  StrandInv'
  <1> USE DEF StrandInv, Push
  <1>1. abort' \in BOOLEAN
    BY DEF TypeOK
  <1>2. TypeOK'
    BY <1>1, CallbackAssumption DEF TypeOK
  <1>3. InOrder'
    <2>1. ~abort /\ UNCHANGED <<executed, worker, current, processQueue, abort>> /\ Taken' = Taken
      BY DEF Taken
    <2>2. Taken \in Nat /\ Len(processQueue) \in Nat /\ Len(requestQueue) \in Nat
      BY DEF Taken, TypeOK
    <2>3. /\ DOMAIN requestQueue' = 1..(Len(requestQueue) + 1)
          /\ \A i \in 1..Len(requestQueue) : requestQueue'[i] = requestQueue[i]
          /\ requestQueue'[Len(requestQueue) + 1] = enqueued + 1
          /\ Len(requestQueue') = Len(requestQueue) + 1
          /\ DOMAIN requestQueue = 1..Len(requestQueue)
      BY CallbackAssumption DEF TypeOK
    <2>4. enqueued' = Taken + Len(processQueue) + Len(requestQueue')
      BY <2>1, <2>2, <2>3 DEF InOrder
    <2>5. \A i \in DOMAIN requestQueue' : requestQueue'[i] = Taken + Len(processQueue) + i
      BY <2>1, <2>2, <2>3, SMTT(30) DEF InOrder
    <2> QED BY <2>1, <2>4, <2>5 DEF InOrder
  <1>4. Phases'
    BY DEF Phases
  <1> QED BY <1>2, <1>3, <1>4

\* A notification moves no callback
LEMMA NotifyKeeps ==
  ASSUME StrandInv, NEW p \in Producer, Notify(p)
  PROVE  StrandInv'
  <1> USE DEF StrandInv, Notify, Woken, queues, history
  <1>1. abort' \in BOOLEAN
    BY DEF TypeOK
  <1>2. TypeOK'
    BY <1>1 DEF TypeOK
  <1>3. InOrder'
    BY DEF TypeOK, InOrder, Taken
  <1>4. Phases'
    BY DEF Phases, TypeOK
  <1> QED BY <1>2, <1>3, <1>4

\* Steps of the worker that only change where it is
LEMMA LoopKeeps ==
  ASSUME StrandInv, Wait \/ SpuriousWakeup \/ CheckEmpty \/ PopMovedQueue
  PROVE  StrandInv'
  <1> USE DEF StrandInv, Wait, SpuriousWakeup, CheckEmpty, PopMovedQueue, queues, history
  <1>1. abort' \in BOOLEAN
    BY DEF TypeOK
  <1>2. TypeOK'
    BY <1>1 DEF TypeOK
  <1>3. InOrder'
    BY DEF TypeOK, InOrder, Taken
  <1>4. Phases'
    BY DEF Phases, TypeOK
  <1> QED BY <1>2, <1>3, <1>4

\* The worker takes the whole request queue, and its own is empty then
LEMMA TakeKeeps ==
  ASSUME StrandInv, Take
  PROVE  StrandInv'
  <1> USE DEF StrandInv, Take, queues, history
  <1>1. abort' \in BOOLEAN /\ abort' = abort
    BY DEF TypeOK
  <1>2. CASE abort
    <2>1. worker' = "done" /\ worker = "lock" /\ UNCHANGED <<requestQueue, processQueue>>
      BY <1>2
    <2>2. TypeOK'
      BY <1>1, <2>1 DEF TypeOK
    <2>3. InOrder' /\ Phases'
      BY <1>1, <1>2, <2>1 DEF InOrder, Phases
    <2> QED BY <2>2, <2>3
  <1>3. CASE ~abort
    <2>1. /\ worker' = "process" /\ worker = "lock"
          /\ processQueue' = requestQueue /\ requestQueue' = <<>>
          /\ processQueue = <<>>
      BY <1>3 DEF LeftBehind, Phases
    <2>2. TypeOK'
      BY <1>1, <2>1 DEF TypeOK
    <2>3. InOrder'
      <3>1. Taken' = Taken /\ Taken \in Nat /\ Len(requestQueue) \in Nat
        BY <2>1 DEF Taken, TypeOK
      <3>2. Len(processQueue) = 0 /\ Len(requestQueue') = 0 /\ DOMAIN requestQueue' = {}
        BY <2>1
      <3>3. \A i \in DOMAIN requestQueue : requestQueue[i] = Taken + i
        BY <1>3, <3>1, <3>2 DEF InOrder, TypeOK
      <3>4. enqueued = Taken + Len(requestQueue)
        BY <1>3, <3>1, <3>2 DEF InOrder
      <3> QED BY <2>1, <3>1, <3>2, <3>3, <3>4 DEF InOrder
    <2>4. Phases'
      BY <1>1, <2>1 DEF Phases
    <2> QED BY <2>2, <2>3, <2>4
  <1> QED BY <1>2, <1>3

\* front() and pop() of a queue that is not empty
LEMMA HeadAndTail ==
  ASSUME NEW S, NEW q \in Seq(S), q # <<>>
  PROVE  /\ Len(q) \in Nat \ {0} /\ DOMAIN q = 1..Len(q)
         /\ Tail(q) \in Seq(S) /\ Len(Tail(q)) = Len(q) - 1
         /\ DOMAIN Tail(q) = 1..(Len(q) - 1)
         /\ \A i \in 1..(Len(q) - 1) : Tail(q)[i] = q[i + 1]
         /\ Head(q) = q[1] /\ Head(q) \in S
  <1>1. Len(q) \in Nat \ {0} /\ DOMAIN q = 1..Len(q)
    OBVIOUS
  <1>2. Tail(q) \in Seq(S) /\ Len(Tail(q)) = Len(q) - 1
    BY <1>1
  <1>3. DOMAIN Tail(q) = 1..(Len(q) - 1)
    BY <1>1, <1>2
  <1>4. \A i \in 1..(Len(q) - 1) : Tail(q)[i] = q[i + 1]
    BY <1>1
  <1>5. Head(q) = q[1] /\ Head(q) \in S
    BY <1>1
  <1> QED BY <1>1, <1>2, <1>3, <1>4, <1>5

\* The callback that is popped is the next in the order
LEMMA PopKeeps ==
  ASSUME StrandInv, Pop
  PROVE  StrandInv'
  <1> USE DEF StrandInv, Pop, history
  <1>1. abort' \in BOOLEAN /\ abort' = abort
    BY DEF TypeOK
  <1>2. /\ processQueue \in Seq(1..MaxCallbacks) /\ processQueue # <<>>
        /\ Len(processQueue) \in Nat \ {0}
        /\ DOMAIN processQueue = 1..Len(processQueue)
        /\ processQueue' \in Seq(1..MaxCallbacks)
        /\ Len(processQueue') = Len(processQueue) - 1
        /\ DOMAIN processQueue' = 1..(Len(processQueue) - 1)
        /\ \A i \in 1..(Len(processQueue) - 1) : processQueue'[i] = processQueue[i + 1]
        /\ current' = processQueue[1] /\ current' \in 1..MaxCallbacks
    BY HeadAndTail DEF TypeOK
  <1>3. TypeOK'
    BY <1>1, <1>2, CallbackAssumption DEF TypeOK
  <1>4. Taken' = Taken + 1 /\ Taken = Len(executed) /\ Taken \in Nat /\ Len(requestQueue) \in Nat
    BY DEF Taken, TypeOK
  <1>5. ASSUME ~abort
        PROVE  /\ worker' = "run" => current' = Taken'
               /\ \A i \in DOMAIN processQueue' : processQueue'[i] = Taken' + i
               /\ \A i \in DOMAIN requestQueue : requestQueue[i] = Taken' + Len(processQueue') + i
               /\ enqueued = Taken' + Len(processQueue') + Len(requestQueue)
    <2>1. /\ \A i \in 1..Len(processQueue) : processQueue[i] = Taken + i
          /\ \A i \in DOMAIN requestQueue : requestQueue[i] = Taken + Len(processQueue) + i
          /\ enqueued = Taken + Len(processQueue) + Len(requestQueue)
      BY <1>2, <1>5 DEF InOrder
    <2>2. Taken' + Len(processQueue') = Taken + Len(processQueue)
      BY <1>2, <1>4
    <2>3. current' = Taken'
      BY <1>2, <1>4, <2>1
    <2>4. ASSUME NEW i \in DOMAIN processQueue'
          PROVE  processQueue'[i] = Taken' + i
      <3>1. i \in 1..(Len(processQueue) - 1) /\ i + 1 \in 1..Len(processQueue)
        BY <1>2
      <3>2. processQueue'[i] = Taken + (i + 1)
        BY <1>2, <2>1, <3>1
      <3>3. i \in Nat
        BY <1>2, <3>1
      <3>4. \A m, n \in Nat : m + (n + 1) = (m + 1) + n
        OBVIOUS
      <3> QED BY <1>4, <3>2, <3>3, <3>4
    <2> QED BY <2>1, <2>2, <2>3, <2>4
  <1>6. InOrder'
    BY <1>1, <1>5 DEF InOrder
  <1>7. Phases'
    BY <1>1 DEF Phases
  <1> QED BY <1>3, <1>6, <1>7

\* The callback that runs is the one after those that ran
LEMMA RunKeeps ==
  ASSUME StrandInv, Run
  PROVE  StrandInv'
  <1> USE DEF StrandInv, Run, queues
  <1>1. abort' \in BOOLEAN /\ abort' = abort
    BY DEF TypeOK
  <1>2. CASE abort
    <2>1. worker' = "lock" /\ executed' = executed
      BY <1>2
    <2>2. TypeOK'
      BY <1>1, <2>1 DEF TypeOK
    <2>3. InOrder' /\ Phases'
      BY <1>1, <1>2, <2>1 DEF InOrder, Phases
    <2> QED BY <2>2, <2>3
  <1>3. CASE ~abort
    <2>1. worker' = "process" /\ executed' = Append(executed, current)
      BY <1>3
    <2>2. TypeOK'
      BY <1>1, <2>1 DEF TypeOK
    <2>3. /\ Len(executed) \in Nat /\ Len(executed') = Len(executed) + 1
          /\ DOMAIN executed = 1..Len(executed)
          /\ DOMAIN executed' = 1..(Len(executed) + 1)
          /\ \A i \in 1..Len(executed) : executed'[i] = executed[i]
          /\ executed'[Len(executed) + 1] = current
      BY <2>1 DEF TypeOK
    <2>4. Taken = Len(executed) + 1 /\ Taken' = Taken
      BY <2>1, <2>3 DEF Taken
    <2>5. current = Taken
      BY <1>3 DEF InOrder
    <2>6. \A i \in DOMAIN executed' : executed'[i] = i
      BY <2>3, <2>4, <2>5 DEF InOrder
    <2>7. InOrder'
      BY <1>3, <2>1, <2>4, <2>6 DEF InOrder
    <2>8. Phases'
      BY <1>1, <2>1 DEF Phases
    <2> QED BY <2>2, <2>7, <2>8
  <1> QED BY <1>2, <1>3

\* Shutdown drops callbacks only after m_abort is set, when none runs any more
LEMMA ShutdownKeeps ==
  ASSUME StrandInv, Abort \/ ClearQueues \/ NotifyWorker \/ Join
  PROVE  StrandInv'
  <1> USE DEF StrandInv, Abort, ClearQueues, NotifyWorker, Join, Woken, queues, history
  <1>1. abort' = TRUE
    BY DEF TypeOK, Phases
  <1>2. TypeOK'
    <2>1. /\ worker' \in {"lock", "waiting", "process", "pop", "run", "done", "undefined"}
          /\ shutdown' \in {"idle", "clear", "notify", "join", "returned"}
          /\ UNCHANGED <<current, producer, enqueued, executed>>
      BY DEF TypeOK
    <2>2. /\ requestQueue' \in Seq(1..MaxCallbacks) /\ processQueue' \in Seq(1..MaxCallbacks)
          /\ Len(requestQueue') + Len(processQueue') <= enqueued
      <3>1. CASE ClearQueues
        BY <3>1 DEF TypeOK
      <3>2. CASE UNCHANGED <<requestQueue, processQueue>>
        BY <3>2 DEF TypeOK
      <3> QED BY <3>1, <3>2
    <2> QED BY <1>1, <2>1, <2>2 DEF TypeOK
  <1>3. InOrder'
    BY <1>1 DEF InOrder
  <1>4. Phases'
    BY <1>1 DEF Phases
  <1> QED BY <1>2, <1>3, <1>4

\* Steps that change nothing
LEMMA StutterKeeps ==
  ASSUME StrandInv, UNCHANGED vars
  PROVE  StrandInv'
  BY DEF StrandInv, TypeOK, InOrder, Taken, Phases, vars

\* Callbacks run in the order in which Enqueue pushed them, each at most once,
\* and none is lost before Shutdown, for every number of threads and callbacks
THEOREM CallbacksInOrder == Spec => []InOrder
  <1>1. StrandInv /\ [Next]_vars => StrandInv'
    <2> SUFFICES ASSUME StrandInv, [Next]_vars PROVE StrandInv'
      OBVIOUS
    <2>1. CASE \E p \in Producer : Push(p) \/ Notify(p)
      BY <2>1, PushKeeps, NotifyKeeps
    <2>2. CASE Wait \/ SpuriousWakeup \/ CheckEmpty \/ PopMovedQueue
      BY <2>2, LoopKeeps
    <2>3. CASE Take
      BY <2>3, TakeKeeps
    <2>4. CASE Pop
      BY <2>4, PopKeeps
    <2>5. CASE Run
      BY <2>5, RunKeeps
    <2>6. CASE Abort \/ ClearQueues \/ NotifyWorker \/ Join
      BY <2>6, ShutdownKeeps
    <2>7. CASE UNCHANGED vars
      BY <2>7, StutterKeeps
    <2> QED BY <2>1, <2>2, <2>3, <2>4, <2>5, <2>6, <2>7 DEF Next, Worker
  <1>2. StrandInv => InOrder
    BY DEF StrandInv
  <1> QED BY InitStrand, <1>1, <1>2, PTL DEF Spec

=============================================================================
