------------------------------ MODULE TaskQueue ------------------------------
(***************************************************************************)
(* What the thread pool of ThreadPool/threadpool.hpp promises the accept   *)
(* loop that feeds it, with no mutex, no condition variable and no         *)
(* wake-up in sight: connections are started in the order in which they    *)
(* were submitted, each by one worker and once, and a connection stays     *)
(* pending only while every worker is serving another one.                 *)
(***************************************************************************)
EXTENDS Naturals, Sequences

CONSTANTS Workers,  \* the threads the pool may have
          Socks,    \* the descriptors a connection may have
          NoSock    \* the value of a worker that serves nobody

VARIABLES staff,    \* the workers that exist
          pending,  \* the connections submitted and not started, oldest first
          serving   \* serving[w]: the connection worker w is serving, or NoSock

vars == <<staff, pending, serving>>

Idle == {w \in staff : serving[w] = NoSock}

Known(s) == \/ \E i \in 1..Len(pending) : pending[i] = s
            \/ \E w \in Workers : serving[w] = s

Init == /\ staff = {}
        /\ pending = <<>>
        /\ serving = [w \in Workers |-> NoSock]

(* A thread of the pool begins to exist, idle. *)
Hire(w) == /\ w \notin staff
           /\ staff' = staff \cup {w}
           /\ UNCHANGED <<pending, serving>>

(* The accept loop hands over a connection the pool does not have. *)
Submit(s) == /\ ~Known(s)
             /\ pending' = Append(pending, s)
             /\ UNCHANGED <<staff, serving>>

(* An idle worker starts the oldest pending connection. *)
Start(w) == /\ w \in Idle
            /\ pending # <<>>
            /\ serving' = [serving EXCEPT ![w] = Head(pending)]
            /\ pending' = Tail(pending)
            /\ UNCHANGED staff

(* A worker is done with its connection. *)
Finish(w) == /\ serving[w] # NoSock
             /\ serving' = [serving EXCEPT ![w] = NoSock]
             /\ UNCHANGED <<staff, pending>>

StartSome == \E w \in Workers : Start(w)

Next == \/ \E s \in Socks : Submit(s)
        \/ \E w \in Workers : Hire(w) \/ Start(w) \/ Finish(w)

Spec == Init /\ [][Next]_vars

(* A pending connection and an idle worker meet: this asks nothing of the  *)
(* handlers, which may run for ever.                                       *)
WorkConserving == WF_vars(StartSome)
=============================================================================
