----------------------------- MODULE ThreadPool -----------------------------
(***************************************************************************)
(* The accept loop of HttpSever::Loop and the thread pool it feeds: the    *)
(* queue, its mutex and condition variable, the lazy construction of the   *)
(* singleton and the workers' loop (ThreadPool/threadpool.hpp,             *)
(* ThreadPool/task.hpp, HttpSever.hpp).  The handler a worker runs is one  *)
(* step here: it ends with the connection's descriptor closed.             *)
(*                                                                         *)
(* A descriptor number is free again once it is closed, so the next        *)
(* accept may return it: behaviours are infinite, the state space is not.  *)
(* The members `stop` and `states` are written by their constructors only  *)
(* and never change; they are not variables here.                          *)
(***************************************************************************)
EXTENDS Naturals, Sequences, FiniteSets

CONSTANTS Workers,     \* the threads the constructor tries to create (THREAD_NUM of them)
          Socks,       \* the descriptors accept may return (the process's limit)
          MinThreads,  \* how many pthread_create calls succeed at least
          NoSock,      \* no descriptor
          Main,        \* the thread that runs Loop
          Free         \* the mutex when nobody owns it

ASSUME WorkersAssumption == IsFiniteSet(Workers)
ASSUME MinThreadsAssumption == MinThreads \in Nat
ASSUME DistinctAssumption == /\ NoSock \notin Socks
                             /\ Main \notin Workers
                             /\ Free \notin Workers \cup {Main}

VARIABLES
  open,        \* the descriptors of accepted connections that are not closed
  mpc,         \* where Main is in Loop / GetInstance / push_task
  sock,        \* the connection Main has accepted and not handed over, or NoSock
  instance,    \* has ThreadPool::instance been assigned?
  task_queue,  \* the member task_queue, oldest first
  mutex,       \* the owner of the member mutex
  wpc,         \* wpc[w]: where worker w is in thread_routine
  task         \* task[w]: the connection of w's local task, or NoSock

vars == <<open, mpc, sock, instance, task_queue, mutex, wpc, task>>

mainVars   == <<mpc, sock, instance>>
workerVars == <<wpc, task>>

At(pc) == {w \in Workers : wpc[w] = pc}

Created  == Workers \ At("none")
Waiting  == At("wait")                       \* blocked on the condition variable
InFlight == At("lock") \cup At("relock") \cup At("check") \cup At("pop")

Init == /\ open = {}
        /\ mpc = "accept"
        /\ sock = NoSock
        /\ instance = FALSE
        /\ task_queue = <<>>
        /\ mutex = Free
        /\ wpc = [w \in Workers |-> "none"]
        /\ task = [w \in Workers |-> NoSock]

-----------------------------------------------------------------------------
(* Main: the accept loop.                                                  *)

(* accept returns a descriptor that was free.  GetInstance constructs the  *)
(* pool on the first connection.  A failing accept (sock < 0) goes round   *)
(* the loop and changes nothing.                                           *)
Accept(s) == /\ mpc = "accept"
             /\ s \notin open
             /\ open' = open \cup {s}
             /\ sock' = s
             /\ mpc' = IF instance THEN "lockq" ELSE "create"
             /\ UNCHANGED <<instance, task_queue, mutex, workerVars>>

(* One round of init_threadPool's loop.  The new thread runs at once; the  *)
(* last one ends the constructor and instance is assigned.                 *)
CreateThread(w) ==
  /\ mpc = "create"
  /\ wpc[w] = "none"
  /\ wpc' = [wpc EXCEPT ![w] = "lock"]
  /\ LET last == At("none") = {w}
     IN  /\ instance' = last
         /\ mpc' = IF last THEN "lockq" ELSE "create"
  /\ UNCHANGED <<open, sock, task_queue, mutex, task>>

(* pthread_create fails: init_threadPool returns false, the constructor    *)
(* ignores it and the pool keeps the threads it has.                       *)
CreateFails == /\ mpc = "create"
               /\ Cardinality(Created) >= MinThreads
               /\ instance' = TRUE
               /\ mpc' = "lockq"
               /\ UNCHANGED <<open, sock, task_queue, mutex, workerVars>>

LockQueue == /\ mpc = "lockq"
             /\ mutex = Free
             /\ mutex' = Main
             /\ mpc' = "push"
             /\ UNCHANGED <<open, sock, instance, task_queue, workerVars>>

(* task_queue.push(task).                                                  *)
PushedDefault == Append(task_queue, NoSock)
Pushed == Append(task_queue, sock)

(* push under the mutex, then unlock: the queue now owns the connection.   *)
Push == /\ mpc = "push"
        /\ task_queue' = Pushed
        /\ sock' = NoSock
        /\ mutex' = Free
        /\ mpc' = "signal"
        /\ UNCHANGED <<open, instance, workerVars>>

(* thread_wakeup: one waiter, if there is one, leaves the wait and must    *)
(* take the mutex again.                                                   *)
WakeNobody == UNCHANGED wpc
WakeOnFirstTask == IF Waiting = {} \/ Len(task_queue) > 1
                   THEN UNCHANGED wpc
                   ELSE \E w \in Waiting : wpc' = [wpc EXCEPT ![w] = "relock"]
Wakeup == IF Waiting = {}
          THEN UNCHANGED wpc
          ELSE \E w \in Waiting : wpc' = [wpc EXCEPT ![w] = "relock"]

(* push_task calls thread_wakeup after the unlock.                         *)
Signal == /\ mpc = "signal"
          /\ mpc' = "accept"
          /\ Wakeup
          /\ UNCHANGED <<open, sock, instance, task_queue, mutex, task>>

-----------------------------------------------------------------------------
(* The workers: thread_routine.                                            *)

Goes(w, from, to) == /\ wpc[w] = from
                     /\ wpc' = [wpc EXCEPT ![w] = to]

(* pthread_mutex_lock at the top of the loop.                              *)
Lock(w) == /\ Goes(w, "lock", "check")
           /\ mutex = Free
           /\ mutex' = w
           /\ UNCHANGED <<open, mainVars, task_queue, task>>

(* The queue is empty: pthread_cond_wait releases the mutex and blocks, in *)
(* one step.                                                               *)
Wait(w) == /\ Goes(w, "check", "wait")
           /\ task_queue = <<>>
           /\ mutex' = Free
           /\ UNCHANGED <<open, mainVars, task_queue, task>>

(* The queue is not empty: the inner loop ends, still under the mutex.     *)
LeaveWaitLoop(w) == /\ Goes(w, "check", "pop")
                    /\ task_queue # <<>>
                    /\ UNCHANGED <<open, mainVars, task_queue, mutex, task>>

(* pthread_cond_wait may return although nobody signalled.                 *)
SpuriousWakeup(w) == /\ Goes(w, "wait", "relock")
                     /\ UNCHANGED <<open, mainVars, task_queue, mutex, task>>

(* A woken worker owns the mutex again before pthread_cond_wait returns,   *)
(* and tests the queue again: the inner loop is a while, not an if.        *)
RelockNoRetest(w) == /\ Goes(w, "relock", "pop")
                     /\ mutex = Free
                     /\ mutex' = w
                     /\ UNCHANGED <<open, mainVars, task_queue, task>>
Relock(w) == /\ Goes(w, "relock", "check")
             /\ mutex = Free
             /\ mutex' = w
             /\ UNCHANGED <<open, mainVars, task_queue, task>>

(* task_queue.front() and what task_queue.pop() leaves.                    *)
NewestTask == task_queue[Len(task_queue)]
OldestTask == Head(task_queue)
NothingPopped == task_queue
Popped == Tail(task_queue)

(* front, pop and unlock; ProcessOn is about to run.                       *)
Pop(w) == /\ Goes(w, "pop", "run")
          /\ task' = [task EXCEPT ![w] = OldestTask]
          /\ task_queue' = Popped
          /\ mutex' = Free
          /\ UNCHANGED <<open, mainVars>>

(* ProcessOn returns: the handler's ~EndPoint has closed the descriptor.   *)
ProcessOn(w) == /\ Goes(w, "run", "lock")
                /\ open' = open \ {task[w]}
                /\ task' = [task EXCEPT ![w] = NoSock]
                /\ UNCHANGED <<mainVars, task_queue, mutex>>

-----------------------------------------------------------------------------
Loop == \/ \E s \in Socks : Accept(s)
        \/ \E w \in Workers : CreateThread(w)
        \/ CreateFails
        \/ LockQueue
        \/ Push
        \/ Signal

ThreadRoutine(w) == \/ Lock(w)
                    \/ Wait(w)
                    \/ LeaveWaitLoop(w)
                    \/ SpuriousWakeup(w)
                    \/ Relock(w)
                    \/ Pop(w)
                    \/ ProcessOn(w)

Next == Loop \/ \E w \in Workers : ThreadRoutine(w)

Spec == Init /\ [][Next]_vars

(* Threads that can run do run; whether a client connects, a handler ends  *)
(* or a wait ends spuriously is up to the environment.  Main's share of    *)
(* the mutex is strong fairness: workers that wake spuriously may take it  *)
(* again and again, but the kernel does not pass a blocked thread over for *)
(* ever.  The workers need no such assumption.                             *)
MainStep == \/ \E w \in Workers : CreateThread(w)
            \/ CreateFails
            \/ LockQueue
            \/ Push
            \/ Signal
WorkerStep(w) == Lock(w) \/ Wait(w) \/ LeaveWaitLoop(w) \/ Relock(w) \/ Pop(w)

FairSpec == /\ Spec
            /\ WF_vars(MainStep)
            /\ SF_vars(LockQueue)
            /\ \A w \in Workers : WF_vars(WorkerStep(w))
-----------------------------------------------------------------------------
TypeOK == /\ open \subseteq Socks
          /\ mpc \in {"accept", "create", "lockq", "push", "signal"}
          /\ sock \in Socks \cup {NoSock}
          /\ instance \in BOOLEAN
          /\ task_queue \in Seq(Socks)
          /\ mutex \in Workers \cup {Main, Free}
          /\ wpc \in [Workers -> {"none", "lock", "check", "wait", "relock", "pop", "run"}]
          /\ task \in [Workers -> Socks \cup {NoSock}]

(* A worker that is about to pop finds a task: front() and pop() are never *)
(* called on an empty queue, however wake-ups, barging workers and the     *)
(* retest at threadpool.hpp:41 interleave.                                 *)
PopNonEmpty == \A w \in Workers : wpc[w] = "pop" => task_queue # <<>>

(* No wake-up is lost: while some worker sleeps on the condition variable, *)
(* every queued connection is covered by a worker that is on its way to    *)
(* the queue or by the signal push_task has not sent yet.                  *)
NoStrandedTask ==
  Waiting # {} =>
    Len(task_queue) <= Cardinality(InFlight) + (IF mpc = "signal" THEN 1 ELSE 0)

(* An open descriptor has exactly one owner among the accept loop, the     *)
(* queue and the workers, and none of them keeps a closed one: so each     *)
(* connection is handled once, and no ~EndPoint closes a descriptor that   *)
(* accept has meanwhile given to another client.                           *)
Queued == {task_queue[i] : i \in 1..Len(task_queue)}
Served == {task[w] : w \in Workers} \ {NoSock}
OneOwner ==
  /\ open = ({sock} \ {NoSock}) \cup Queued \cup Served
  /\ \A i, j \in 1..Len(task_queue) : task_queue[i] = task_queue[j] => i = j
  /\ \A v, w \in Workers : task[v] = task[w] /\ task[v] # NoSock => v = w
  /\ Queued \cap Served = {}
  /\ sock \notin Queued \cup Served

Contract == INSTANCE TaskQueue WITH staff   <- Created,
                                    pending <- task_queue,
                                    serving <- task

(* The mutex, the condition variable and the queue implement TaskQueue:    *)
(* connections are started in the order of their arrival, each once.       *)
ImplementsTaskQueue == Contract!Spec

(* A queued connection and an idle worker meet, even if no handler of the  *)
(* connections before it ever ends.                                        *)
KeepsWorkersBusy == Contract!WorkConserving

(* Once a thread exists, and if handlers end, every accepted connection is *)
(* handled to its end, in spite of the unfair mutex and of wake-ups that   *)
(* another worker's barging makes useless.                                 *)
HandlersEnd == \A w \in Workers : WF_vars(ProcessOn(w))
EveryConnectionEnds ==
  HandlersEnd /\ <>(Created # {}) => \A s \in Socks : s \in open ~> s \notin open
=============================================================================
