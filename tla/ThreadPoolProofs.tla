-------------------------- MODULE ThreadPoolProofs --------------------------
(***************************************************************************)
(* What ThreadPool promises for every set of workers and descriptors: its  *)
(* type invariant, PopNonEmpty, NoStrandedTask and OneOwner, and that each *)
(* of its steps is a step of TaskQueue or leaves TaskQueue's state alone.  *)
(***************************************************************************)
EXTENDS ThreadPool, QueueLemmas, FiniteSetTheorems, SequenceTheorems, TLAPS

(* Who owns the mutex is told by the program counters.                     *)
MutexInv == /\ \A w \in Workers : mutex = w <=> wpc[w] \in {"check", "pop"}
            /\ mutex = Main <=> mpc = "push"

(* A local variable holds a connection exactly where the code uses it.     *)
LocalInv == /\ sock = NoSock <=> mpc \in {"accept", "signal"}
            /\ \A w \in Workers : task[w] = NoSock <=> wpc[w] # "run"

(* A popped queue is never empty, so what is popped is a connection: types *)
(* are preserved together with mutual exclusion.                           *)
Control == TypeOK /\ LocalInv /\ MutexInv /\ PopNonEmpty
-----------------------------------------------------------------------------
(* Control holds initially and is preserved by every step.                 *)
LEMMA ControlInit == Init => Control
<1> SUFFICES ASSUME Init PROVE Control
  OBVIOUS
<1>1. task_queue \in Seq(Socks)
  BY EmptySeq DEF Init
<1>2. TypeOK
  BY <1>1 DEF Init, TypeOK
<1>3. LocalInv
  BY DEF Init, LocalInv
<1>4. MutexInv /\ PopNonEmpty
  BY DistinctAssumption DEF Init, MutexInv, PopNonEmpty
<1>5. QED
  BY <1>2, <1>3, <1>4 DEF Control

(* Every step of the pool keeps Control.                                   *)
LEMMA ControlStep == Control /\ [Next]_vars => Control'
<1> SUFFICES ASSUME Control, [Next]_vars
             PROVE  Control'
  OBVIOUS
<1> USE DistinctAssumption DEF Control, TypeOK, LocalInv, MutexInv, PopNonEmpty, mainVars, workerVars
<1>1. ASSUME NEW s \in Socks, Accept(s) PROVE Control'
  BY <1>1 DEF Accept
<1>2. ASSUME NEW w \in Workers, CreateThread(w) PROVE Control'
  BY <1>2 DEF CreateThread
<1>3. CASE CreateFails
  BY <1>3 DEF CreateFails
<1>4. CASE LockQueue
  BY <1>4 DEF LockQueue
<1>5. CASE Push
  BY <1>5 DEF Push, Pushed
<1>6. CASE Signal
  BY <1>6 DEF Signal, Wakeup, Waiting, At
<1>7. ASSUME NEW w \in Workers, ThreadRoutine(w) PROVE Control'
  <2>1. CASE Lock(w)
    BY <2>1 DEF Lock, Goes
  <2>2. CASE Wait(w)
    BY <2>2 DEF Wait, Goes
  <2>3. CASE LeaveWaitLoop(w)
    BY <2>3 DEF LeaveWaitLoop, Goes
  <2>4. CASE SpuriousWakeup(w)
    BY <2>4 DEF SpuriousWakeup, Goes
  <2>5. CASE Relock(w)
    BY <2>5 DEF Relock, Goes
  <2>6. CASE Pop(w)
    BY <2>6 DEF Pop, Goes, OldestTask, Popped
  <2>7. CASE ProcessOn(w)
    BY <2>7 DEF ProcessOn, Goes
  <2>8. QED
    BY <1>7, <2>1, <2>2, <2>3, <2>4, <2>5, <2>6, <2>7 DEF ThreadRoutine
<1>8. CASE UNCHANGED vars
  BY <1>8 DEF vars
<1>9. QED
  BY <1>1, <1>2, <1>3, <1>4, <1>5, <1>6, <1>7, <1>8 DEF Next, Loop
-----------------------------------------------------------------------------
(* The workers on their way to the queue are finitely many, so they can be *)
(* counted; a worker that joins or leaves them changes the count by one.   *)
LEMMA InFlightFinite ==
  /\ InFlight \subseteq Workers
  /\ IsFiniteSet(InFlight)
  /\ Cardinality(InFlight) \in Nat
<1>1. InFlight \subseteq Workers
  BY DEF InFlight, At
<1>2. IsFiniteSet(InFlight)
  BY <1>1, WorkersAssumption, FS_Subset
<1>3. QED
  BY <1>1, <1>2, FS_CardinalityType

(* A worker more in flight makes their number one greater.                 *)
LEMMA InFlightJoins ==
  ASSUME NEW w \in Workers, w \notin InFlight, InFlight' = InFlight \cup {w}
  PROVE  Cardinality(InFlight') = Cardinality(InFlight) + 1
BY InFlightFinite, FS_AddElement

(* A worker less makes it one smaller.                                     *)
LEMMA InFlightLeaves ==
  ASSUME NEW w \in InFlight, InFlight' = InFlight \ {w}
  PROVE  Cardinality(InFlight') = Cardinality(InFlight) - 1
BY InFlightFinite, FS_RemoveElement

(* NoStrandedTask is preserved by every step: a push is paid for by the    *)
(* signal that follows it, a signal by the worker it wakes, and a worker   *)
(* sleeps only when there is nothing left to pay for.                      *)
LEMMA NoStrandedTaskStep ==
  Control /\ NoStrandedTask /\ [Next]_vars => NoStrandedTask'
<1> SUFFICES ASSUME Control, NoStrandedTask, [Next]_vars
             PROVE  NoStrandedTask'
  OBVIOUS
<1> USE DEF Control, TypeOK, mainVars, workerVars
<1>a. /\ Len(task_queue) \in Nat
      /\ Cardinality(InFlight) \in Nat
  BY InFlightFinite, LenProperties
<1>1. ASSUME NEW s \in Socks, Accept(s) PROVE NoStrandedTask'
  BY <1>1 DEF Accept, NoStrandedTask, InFlight, Waiting, At
<1>2. ASSUME NEW w \in Workers, CreateThread(w) PROVE NoStrandedTask'
  <2>1. /\ w \notin InFlight
        /\ InFlight' = InFlight \cup {w}
        /\ Waiting' = Waiting
    BY <1>2 DEF CreateThread, InFlight, Waiting, At
  <2>2. Cardinality(InFlight') = Cardinality(InFlight) + 1
    BY <2>1, InFlightJoins
  <2>3. /\ task_queue' = task_queue
        /\ mpc # "signal"
        /\ mpc' # "signal"
    BY <1>2 DEF CreateThread
  <2>4. QED
    BY <1>a, <2>1, <2>2, <2>3 DEF NoStrandedTask
<1>3. CASE CreateFails
  BY <1>3 DEF CreateFails, NoStrandedTask, InFlight, Waiting, At
<1>4. CASE LockQueue
  BY <1>4 DEF LockQueue, NoStrandedTask, InFlight, Waiting, At
<1>5. CASE Push
  <2>1. InFlight' = InFlight /\ Waiting' = Waiting
    BY <1>5 DEF Push, InFlight, Waiting, At
  <2>2. sock \in Socks
    BY <1>5 DEF Push, LocalInv
  <2>3. Len(task_queue') = Len(task_queue) + 1
    BY <1>5, <2>2 DEF Push, Pushed
  <2>4. mpc # "signal" /\ mpc' = "signal"
    BY <1>5 DEF Push
  <2>5. QED
    BY <1>a, <2>1, <2>3, <2>4 DEF NoStrandedTask
<1>6. CASE Signal
  <2>1. CASE Waiting = {}
    BY <1>6, <2>1 DEF Signal, Wakeup, NoStrandedTask, Waiting, At
  <2>2. CASE Waiting # {}
    <3>1. PICK w \in Waiting : wpc' = [wpc EXCEPT ![w] = "relock"]
      BY <1>6, <2>2 DEF Signal, Wakeup
    <3>2. /\ w \in Workers
          /\ w \notin InFlight
          /\ InFlight' = InFlight \cup {w}
      BY <3>1 DEF InFlight, Waiting, At
    <3>3. Cardinality(InFlight') = Cardinality(InFlight) + 1
      BY <3>2, InFlightJoins
    <3>4. task_queue' = task_queue /\ mpc' # "signal"
      BY <1>6 DEF Signal
    <3>5. QED
      BY <1>a, <2>2, <3>3, <3>4 DEF NoStrandedTask
  <2>3. QED
    BY <2>1, <2>2
<1>7. ASSUME NEW w \in Workers, Lock(w) \/ LeaveWaitLoop(w) \/ Relock(w)
      PROVE  NoStrandedTask'
  BY <1>7 DEF Lock, LeaveWaitLoop, Relock, Goes, NoStrandedTask, InFlight, Waiting, At
<1>8. ASSUME NEW w \in Workers, Wait(w) PROVE NoStrandedTask'
  <2>1. Len(task_queue') = 0
    BY <1>8 DEF Wait
  <2>2. Cardinality(InFlight') \in Nat
    <3>1. InFlight' \subseteq Workers
      BY DEF InFlight, At
    <3>2. QED
      BY <3>1, WorkersAssumption, FS_Subset, FS_CardinalityType
  <2>3. QED
    BY <2>1, <2>2 DEF NoStrandedTask
<1>9. ASSUME NEW w \in Workers, SpuriousWakeup(w) PROVE NoStrandedTask'
  <2>1. /\ w \in Waiting
        /\ w \notin InFlight
        /\ InFlight' = InFlight \cup {w}
    BY <1>9 DEF SpuriousWakeup, Goes, InFlight, Waiting, At
  <2>2. Cardinality(InFlight') = Cardinality(InFlight) + 1
    BY <2>1, InFlightJoins
  <2>3. task_queue' = task_queue /\ mpc' = mpc
    BY <1>9 DEF SpuriousWakeup
  <2>4. QED
    BY <1>a, <2>1, <2>2, <2>3 DEF NoStrandedTask
<1>10. ASSUME NEW w \in Workers, Pop(w) PROVE NoStrandedTask'
  <2>1. /\ w \in InFlight
        /\ InFlight' = InFlight \ {w}
        /\ Waiting' = Waiting
    BY <1>10 DEF Pop, Goes, InFlight, Waiting, At
  <2>2. Cardinality(InFlight') = Cardinality(InFlight) - 1
    BY <2>1, InFlightLeaves
  <2>3. task_queue # <<>>
    BY <1>10 DEF Pop, Goes, PopNonEmpty
  <2>4. Len(task_queue') = Len(task_queue) - 1
    BY <1>10, <2>3, HeadTailProperties DEF Pop, Popped
  <2>5. mpc' = mpc
    BY <1>10 DEF Pop
  <2>6. QED
    BY <1>a, <2>1, <2>2, <2>4, <2>5 DEF NoStrandedTask
<1>11. ASSUME NEW w \in Workers, ProcessOn(w) PROVE NoStrandedTask'
  <2>1. /\ w \notin InFlight
        /\ InFlight' = InFlight \cup {w}
        /\ Waiting' = Waiting
    BY <1>11 DEF ProcessOn, Goes, InFlight, Waiting, At
  <2>2. Cardinality(InFlight') = Cardinality(InFlight) + 1
    BY <2>1, InFlightJoins
  <2>3. task_queue' = task_queue /\ mpc' = mpc
    BY <1>11 DEF ProcessOn
  <2>4. QED
    BY <1>a, <2>1, <2>2, <2>3 DEF NoStrandedTask
<1>12. CASE UNCHANGED vars
  BY <1>12 DEF vars, NoStrandedTask, InFlight, Waiting, At
<1>13. QED
  BY <1>1, <1>2, <1>3, <1>4, <1>5, <1>6, <1>7, <1>8, <1>9, <1>10, <1>11, <1>12
     DEF Next, Loop, ThreadRoutine
-----------------------------------------------------------------------------
(* OneOwner is preserved by every step: a descriptor changes hands by      *)
(* moving, and leaves its last owner only by being closed.                 *)
LEMMA OneOwnerStep == Control /\ OneOwner /\ [Next]_vars => OneOwner'
<1> SUFFICES ASSUME Control, OneOwner, [Next]_vars
             PROVE  OneOwner'
  OBVIOUS
<1> USE DistinctAssumption DEF Control, TypeOK, mainVars, workerVars
<1>a. Queued = Elements(task_queue) /\ NoRepeat(task_queue)
  BY DEF Queued, Elements, NoRepeat, OneOwner
<1>b. Queued' = Elements(task_queue')
  BY DEF Queued, Elements
<1>1. ASSUME NEW s \in Socks, Accept(s) PROVE OneOwner'
  <2>1. sock = NoSock
    BY <1>1 DEF Accept, LocalInv
  <2>2. QED
    BY <1>1, <2>1 DEF Accept, OneOwner, Queued, Served
<1>2. CASE Push
  <2>1. sock \in Socks
    BY <1>2 DEF Push, LocalInv
  <2>2. /\ sock \notin Elements(task_queue)
        /\ task_queue' = Append(task_queue, sock)
    BY <1>2, <1>a DEF Push, Pushed, OneOwner
  <2>3. Queued' = Queued \cup {sock} /\ NoRepeat(task_queue')
    BY <2>1, <2>2, <1>a, <1>b, ElementsAppend
  <2>4. Served' = Served /\ open' = open /\ sock' = NoSock /\ task' = task
    BY <1>2 DEF Push, Served
  <2>5. NoSock \notin Queued' \cup Served'
    BY <2>1, <2>3, <2>4 DEF OneOwner, Queued, Served
  <2>6. QED
    BY <2>1, <2>3, <2>4, <2>5 DEF OneOwner, NoRepeat
<1>3. ASSUME NEW w \in Workers, Pop(w) PROVE OneOwner'
  <2> DEFINE h == Head(task_queue)
  <2>1. task_queue # <<>>
    BY <1>3 DEF Pop, Goes, PopNonEmpty
  <2>2. /\ h \in Queued
        /\ h \in Socks
        /\ Elements(Tail(task_queue)) = Queued \ {h}
        /\ NoRepeat(Tail(task_queue))
    BY <2>1, <1>a, ElementsTail, HeadTailProperties
  <2> HIDE DEF h
  <2>3. task[w] = NoSock
    BY <1>3 DEF Pop, Goes, LocalInv
  <2>4. /\ task' = [task EXCEPT ![w] = h]
        /\ open' = open /\ sock' = sock
        /\ Queued' = Queued \ {h}
        /\ NoRepeat(task_queue')
    BY <1>3, <2>2, <1>b DEF Pop, OldestTask, Popped, h
  <2>5. Served' = Served \cup {h}
    BY <2>2, <2>3, <2>4 DEF Served
  <2>6. \A v \in Workers : task[v] # h
    BY <2>2 DEF OneOwner, Served
  <2>7. \A u, v \in Workers : task'[u] = task'[v] /\ task'[u] # NoSock => u = v
    BY <2>4, <2>6 DEF OneOwner
  <2>8. QED
    BY <2>2, <2>4, <2>5, <2>7 DEF OneOwner, NoRepeat
<1>4. ASSUME NEW w \in Workers, ProcessOn(w) PROVE OneOwner'
  <2>1. task[w] \in Socks
    BY <1>4 DEF ProcessOn, Goes, LocalInv
  <2>2. /\ task' = [task EXCEPT ![w] = NoSock]
        /\ open' = open \ {task[w]}
        /\ sock' = sock /\ task_queue' = task_queue
        /\ Queued' = Queued
    BY <1>4 DEF ProcessOn, Queued
  <2>3. Served' = Served \ {task[w]}
    BY <2>1, <2>2 DEF Served, OneOwner
  <2>4. task[w] \in Served
    BY <2>1 DEF Served
  <2>5. QED
    BY <2>1, <2>2, <2>3, <2>4 DEF OneOwner
<1>5. CASE UNCHANGED <<open, sock, task_queue, task>>
  BY <1>5 DEF OneOwner, Queued, Served
<1>6. ASSUME \/ \E w \in Workers : CreateThread(w)
             \/ CreateFails
             \/ LockQueue
             \/ Signal
             \/ \E w \in Workers : \/ Lock(w)
                                   \/ Wait(w)
                                   \/ LeaveWaitLoop(w)
                                   \/ SpuriousWakeup(w)
                                   \/ Relock(w)
             \/ UNCHANGED vars
      PROVE  UNCHANGED <<open, sock, task_queue, task>>
  BY <1>6 DEF CreateThread, CreateFails, LockQueue, Signal, Lock, Wait,
              LeaveWaitLoop, SpuriousWakeup, Relock, vars
<1>7. QED
  BY <1>1, <1>2, <1>3, <1>4, <1>5, <1>6 DEF Next, Loop, ThreadRoutine
-----------------------------------------------------------------------------
(* The inductive invariant.                                                *)
IInv == Control /\ NoStrandedTask /\ OneOwner

(* So the invariant always holds.                                          *)
LEMMA Invariance == Spec => []IInv
<1>1. Init => IInv
  <2> SUFFICES ASSUME Init PROVE IInv
    OBVIOUS
  <2>1. NoStrandedTask
    BY DEF Init, NoStrandedTask, Waiting, At
  <2>2. OneOwner
    BY DistinctAssumption DEF Init, OneOwner, Queued, Served
  <2>3. QED
    BY <2>1, <2>2, ControlInit DEF IInv
<1>2. IInv /\ [Next]_vars => IInv'
  BY ControlStep, NoStrandedTaskStep, OneOwnerStep DEF IInv
<1>3. QED
  BY <1>1, <1>2, PTL DEF Spec

(* Every variable stays in its type.                                       *)
THEOREM TypeCorrect == Spec => []TypeOK
<1>1. IInv => TypeOK
  BY DEF IInv, Control
<1>2. QED
  BY <1>1, Invariance, PTL

(* front() and pop() are never called on an empty queue, for any number of *)
(* workers and whatever wakes them (threadpool.hpp:41).                    *)
THEOREM PopsFindATask == Spec => []PopNonEmpty
<1>1. IInv => PopNonEmpty
  BY DEF IInv, Control
<1>2. QED
  BY <1>1, Invariance, PTL

(* No wake-up is lost: signalling after the unlock, once per push, is      *)
(* enough (threadpool.hpp:90-96).                                          *)
THEOREM NoLostWakeup == Spec => []NoStrandedTask
<1>1. IInv => NoStrandedTask
  BY DEF IInv
<1>2. QED
  BY <1>1, Invariance, PTL

(* A connection's descriptor has one owner from accept to close.           *)
THEOREM DescriptorOwned == Spec => []OneOwner
<1>1. IInv => OneOwner
  BY DEF IInv
<1>2. QED
  BY <1>1, Invariance, PTL
-----------------------------------------------------------------------------
(* A step of the pool that neither creates a thread nor moves a connection *)
(* is invisible to the contract.                                           *)
LEMMA InvisibleStep ==
  ASSUME Control,
         \/ \E s \in Socks : Accept(s)
         \/ CreateFails
         \/ LockQueue
         \/ Signal
         \/ \E w \in Workers : \/ Lock(w)
                               \/ Wait(w)
                               \/ LeaveWaitLoop(w)
                               \/ SpuriousWakeup(w)
                               \/ Relock(w)
         \/ UNCHANGED vars
  PROVE  UNCHANGED Contract!vars
<1> USE DEF Control, TypeOK, Created, At, mainVars, workerVars, Contract!vars
<1>1. CASE \E s \in Socks : Accept(s)
  BY <1>1 DEF Accept
<1>2. CASE CreateFails \/ LockQueue \/ UNCHANGED vars
  BY <1>2 DEF CreateFails, LockQueue, vars
<1>3. CASE Signal
  BY <1>3 DEF Signal, Wakeup, Waiting
<1>4. ASSUME NEW w \in Workers,
             Lock(w) \/ Wait(w) \/ LeaveWaitLoop(w) \/ SpuriousWakeup(w) \/ Relock(w)
      PROVE  UNCHANGED Contract!vars
  BY <1>4 DEF Lock, Wait, LeaveWaitLoop, SpuriousWakeup, Relock, Goes
<1>5. QED
  BY <1>1, <1>2, <1>3, <1>4

(* Every step of the pool is a step of TaskQueue or none of it.            *)
LEMMA ContractStep == IInv /\ [Next]_vars => [Contract!Next]_(Contract!vars)
<1> SUFFICES ASSUME IInv, [Next]_vars
             PROVE  Contract!Next \/ UNCHANGED Contract!vars
  OBVIOUS
<1> USE DEF IInv, Control, TypeOK, mainVars, workerVars
<1>1. ASSUME NEW w \in Workers, CreateThread(w) PROVE Contract!Next
  <2>1. Contract!Hire(w)
    BY <1>1 DEF CreateThread, Created, At, Contract!Hire
  <2>2. QED
    BY <2>1 DEF Contract!Next
<1>2. CASE Push
  <2>1. sock \in Socks
    BY <1>2 DEF Push, LocalInv
  <2>2. ~Contract!Known(sock)
    BY <2>1, DistinctAssumption DEF OneOwner, Queued, Served, Contract!Known
  <2>3. Contract!Submit(sock)
    BY <1>2, <2>2 DEF Push, Pushed, Created, At, Contract!Submit
  <2>4. QED
    BY <2>1, <2>3 DEF Contract!Next
<1>3. ASSUME NEW w \in Workers, Pop(w) PROVE Contract!Next
  <2>1. w \in Contract!Idle
    BY <1>3 DEF Pop, Goes, LocalInv, Created, At, Contract!Idle
  <2>2. task_queue # <<>>
    BY <1>3 DEF Pop, Goes, PopNonEmpty
  <2>3. Created' = Created
    BY <1>3 DEF Pop, Goes, Created, At
  <2>4. Contract!Start(w)
    BY <1>3, <2>1, <2>2, <2>3 DEF Pop, OldestTask, Popped, Contract!Start
  <2>5. QED
    BY <2>4 DEF Contract!Next
<1>4. ASSUME NEW w \in Workers, ProcessOn(w) PROVE Contract!Next
  <2>1. task[w] # NoSock
    BY <1>4 DEF ProcessOn, Goes, LocalInv
  <2>2. Created' = Created
    BY <1>4 DEF ProcessOn, Goes, Created, At
  <2>3. Contract!Finish(w)
    BY <1>4, <2>1, <2>2 DEF ProcessOn, Contract!Finish
  <2>4. QED
    BY <2>3 DEF Contract!Next
<1>5. QED
  BY <1>1, <1>2, <1>3, <1>4, InvisibleStep DEF Next, Loop, ThreadRoutine

(* The pool implements TaskQueue's safety part for any number of workers   *)
(* and descriptors: no connection is lost, duplicated or overtaken.        *)
THEOREM Refinement == Spec => ImplementsTaskQueue
<1>1. Init => Contract!Init
  BY DEF Init, Created, At, Contract!Init
<1>2. QED
  BY <1>1, ContractStep, Invariance, PTL DEF Spec, ImplementsTaskQueue, Contract!Spec
=============================================================================
