------------------------------ MODULE HttpSever ------------------------------
(***************************************************************************)
(* The whole server: TcpSever's socket, the accept loop, the pool and the  *)
(* handlers, with what they share and no module below has: the queue of    *)
(* connections in the kernel, the limit on descriptors, the programs that  *)
(* hold copies of every socket that was open when they were forked, and    *)
(* the end and the restart of the process while they run.                  *)
(*                                                                         *)
(* The parts are taken by what they promise: the pool is TaskQueue, which  *)
(* ThreadPool implements; a call of a program is started or not, and       *)
(* returns when the program has ended (CgiCall, which ProcessCGI           *)
(* implements); a response is sent, the file and the socket closed, in one *)
(* step, or not at all when the client does not read it (EndPoint has the  *)
(* steps).                                                                 *)
(***************************************************************************)
EXTENDS Naturals, Sequences, FiniteSets

CONSTANTS Clients,       \* the clients, each with one connection at a time
          NoClient,      \* no client
          Wants,         \* Wants[c]: what client c may ask for
          Workers,       \* the threads of the pool
          NoWorker,      \* no thread
          Programs,      \* the processes that the system lets the server have
          Port,          \* the listening socket of the requested port
          Fds,           \* how many descriptors the limit leaves to the server
          Backlog,       \* how many connections the kernel completes unasked
          Crashes,       \* bound: how often the server is killed
          SocketMayFail  \* may socket() fail?

ASSUME DistinctAssumption == /\ NoClient \notin Clients /\ Port \notin Clients
                             /\ NoWorker \notin Workers
ASSUME WantsAssumption == Wants \in [Clients -> SUBSET {"silent", "page", "program"}]
ASSUME FiniteAssumption == IsFiniteSet(Clients) /\ IsFiniteSet(Workers) /\ IsFiniteSet(Programs)
ASSUME BoundsAssumption == /\ Fds \in Nat \ {0} /\ Backlog \in Nat \ {0} /\ Crashes \in Nat
                           /\ SocketMayFail \in BOOLEAN

VARIABLES
  lpc,      \* where the server is: "down", in InitSever, or in the accept loop
  lsock,    \* what listen_socket is
  queue,    \* the connections to the port that accept has not taken
  wants,    \* wants[c]: what client c asks for; "silent" for one that does not ask,
            \* "unread" for one that does not read its response, "left" for one that went
  phase,    \* phase[c]: where the connection of client c is
  outcome,  \* outcome[c]: what its last connection brought it
  staff, pending, serving,  \* the pool (TaskQueue), with all its threads (ThreadPool creates them)
  hpc,      \* hpc[w]: where worker w is in HanderReq
  running,  \* the programs that run
  caller,   \* caller[p]: the worker that waits for program p; none after a crash
  holds,    \* holds[p]: the sockets of which p has a copy
  leaked,   \* descriptors of pipes that a failed ProcessCGI has left open
  crashes   \* how often the server was killed

clientVars == <<wants, outcome>>
poolVars   == <<staff, pending, serving>>
bootVars   == <<lpc, lsock, crashes>>
progVars   == <<running, caller, holds>>
vars == <<bootVars, queue, clientVars, phase, poolVars, hpc, progVars, leaked>>

Pool == INSTANCE TaskQueue WITH Socks <- Clients, NoSock <- NoClient

Held == {c \in Clients : phase[c] = "held"}

(* What the kernel listens to: the port stays open as long as any process  *)
(* has the socket.                                                         *)
HeldByPrograms == \E p \in running : Port \in holds[p]
PortOpen == lsock = "port" \/ HeldByPrograms

Init == /\ lpc = "socket" /\ lsock = "none" /\ crashes = 0
        /\ queue = <<>>
        /\ wants = [c \in Clients |-> "page"]
        /\ phase = [c \in Clients |-> "away"]
        /\ outcome = [c \in Clients |-> "none"]
        /\ staff = Workers /\ pending = <<>>
        /\ serving = [w \in Workers |-> NoClient]
        /\ hpc = [w \in Workers |-> "read"]
        /\ running = {}
        /\ caller = [p \in Programs |-> NoWorker]
        /\ holds = [p \in Programs |-> {}]
        /\ leaked = 0

-----------------------------------------------------------------------------
(* TcpSever::InitSever: no step looks at what the one before has done.     *)

Boots(from, to) == /\ lpc = from /\ lpc' = to
                   /\ UNCHANGED <<queue, clientVars, phase, poolVars, hpc, progVars, leaked, crashes>>

Socket == /\ Boots("socket", "bind")
          /\ lsock' \in {"unbound"} \cup (IF SocketMayFail THEN {"none"} ELSE {})

(* With SO_REUSEADDR only a socket that listens is in the way; without it  *)
(* the connections that the server was the first to close would be, too.   *)
PortFreeWithoutReuse == ~HeldByPrograms /\ \A c \in Clients : outcome[c] # "answer"
PortFree == ~HeldByPrograms

Bind == /\ Boots("bind", "listen")
        /\ lsock' = IF lsock = "unbound" /\ PortFree THEN "bound" ELSE lsock

(* listen gives a socket that is not bound a port of its own choice.       *)
Listen == /\ Boots("listen", "accept")
          /\ \/ lsock = "bound" /\ lsock' = "port"
             \/ lsock = "unbound" /\ lsock' = "other"
             \/ lsock = "none" /\ UNCHANGED lsock

-----------------------------------------------------------------------------
(* The clients and the kernel.                                             *)

Connect(c) == /\ phase[c] = "away"
              /\ PortOpen /\ Len(queue) < Backlog
              /\ \E what \in Wants[c] : wants' = [wants EXCEPT ![c] = what]
              /\ phase' = [phase EXCEPT ![c] = "queued"]
              /\ outcome' = [outcome EXCEPT ![c] = "none"]
              /\ queue' = Append(queue, c)
              /\ UNCHANGED <<bootVars, poolVars, hpc, progVars, leaked>>

Changes(c, to) == /\ wants' = [wants EXCEPT ![c] = to]
                  /\ UNCHANGED <<bootVars, queue, phase, outcome, poolVars, hpc, progVars, leaked>>

(* A client whose response is larger than the connection holds stays and   *)
(* never reads on; one that reads slowly only delays SendResponse.         *)
Stall(c) == /\ wants[c] \in {"page", "program"}
            /\ \E w \in Workers : serving[w] = c /\ hpc[w] \in {"send", "sendfile"}
            /\ Changes(c, "unread")

(* A client that has sent nothing or not all, or does not read, gives up.  *)
Leave(c) == /\ wants[c] \in {"silent", "unread"} /\ phase[c] \in {"queued", "held"}
            /\ Changes(c, "left")

(* The stream ends for the client when the last copy of the socket is      *)
(* closed.                                                                 *)
SeesEnd(c) == /\ phase[c] = "closed"
              /\ \A p \in running : c \notin holds[p]
              /\ phase' = [phase EXCEPT ![c] = "away"]
              /\ UNCHANGED <<bootVars, queue, clientVars, poolVars, hpc, progVars, leaked>>

(* When the last process that has the listening socket closes it, the      *)
(* connections nobody has accepted are reset.                              *)
QueueDropped == /\ queue' = <<>>
                /\ outcome' = [c \in Clients |-> IF phase[c] = "queued" THEN "dropped" ELSE outcome[c]]
                /\ phase' = [c \in Clients |-> IF phase[c] = "queued" THEN "away" ELSE phase[c]]

ProgramEnds(p) == /\ p \in running
                  /\ running' = running \ {p}
                  /\ caller' = [caller EXCEPT ![p] = NoWorker]
                  /\ holds' = [holds EXCEPT ![p] = {}]
                  /\ IF PortOpen /\ lsock # "port" /\ \A q \in running \ {p} : Port \notin holds[q]
                     THEN QueueDropped
                     ELSE UNCHANGED <<queue, outcome, phase>>
                  /\ UNCHANGED <<bootVars, wants, poolVars, hpc, leaked>>

-----------------------------------------------------------------------------
(* The accept loop and the handlers.                                       *)

(* The descriptors in use: one of each connection, and those that the      *)
(* handler of w has at its place, the file or the pipes.                   *)
Opened(w) == CASE hpc[w] = "pipe_output" -> 2
               [] hpc[w] = "fork"        -> 4
               [] hpc[w] = "wait"        -> 2
               [] hpc[w] = "sendfile"    -> 1
               [] OTHER                  -> 0
Used == (Held \X {0}) \cup {d \in Workers \X (1..4) : d[2] <= Opened(d[1])}
CanOpen(n) == Cardinality(Used) + leaked + n <= Fds

(* Without a descriptor accept fails and the loop goes round: the          *)
(* connection stays in the kernel's queue.                                 *)
Accept == /\ lpc = "accept" /\ lsock = "port"
          /\ queue # <<>> /\ CanOpen(1)
          /\ Pool!Submit(Head(queue))
          /\ queue' = Tail(queue)
          /\ phase' = [phase EXCEPT ![Head(queue)] = "held"]
          /\ UNCHANGED <<bootVars, clientVars, hpc, progVars, leaked>>

Start(w) == /\ Pool!Start(w)
            /\ UNCHANGED <<bootVars, queue, clientVars, phase, hpc, progVars, leaked>>

Goes(w, from, to) == /\ serving[w] # NoClient
                     /\ hpc[w] = from
                     /\ hpc' = [hpc EXCEPT ![w] = to]

Handles(w) == UNCHANGED <<bootVars, queue, clientVars, phase, poolVars>>

(* The request is complete; a page is opened at once, a program gets its   *)
(* first pipe.                                                             *)
ReadRequest(w) == /\ \/ Goes(w, "read", "open") /\ wants[serving[w]] = "page"
                     \/ Goes(w, "read", "pipe_input") /\ wants[serving[w]] = "program"
                  /\ Handles(w) /\ UNCHANGED <<progVars, leaked>>

(* open of the file, or of the 404 page when there is an error to report;  *)
(* if both fail the response has no body.                                  *)
OpenUnchecked(w) == /\ Goes(w, "open", "sendfile")
                    /\ Handles(w) /\ UNCHANGED <<progVars, leaked>>
Open(w) == /\ Goes(w, "open", IF CanOpen(1) THEN "sendfile" ELSE "send")
           /\ Handles(w) /\ UNCHANGED <<progVars, leaked>>

PipeInput(w) == /\ Goes(w, "pipe_input", IF CanOpen(2) THEN "pipe_output" ELSE "open")
                /\ Handles(w) /\ UNCHANGED <<progVars, leaked>>

PipeOutputRetried(w) == /\ CanOpen(2) /\ Goes(w, "pipe_output", "fork")
                        /\ Handles(w) /\ UNCHANGED <<progVars, leaked>>
PipeOutput(w) == /\ \/ CanOpen(2) /\ Goes(w, "pipe_output", "fork") /\ UNCHANGED leaked
                    \/ ~CanOpen(2) /\ Goes(w, "pipe_output", "open") /\ leaked' = leaked + 2
                 /\ Handles(w) /\ UNCHANGED progVars

(* The child has a copy of every socket that is open by now and nothing    *)
(* closes them on exec.                                                    *)
Fork(w) == /\ \E p \in Programs \ running :
                /\ running' = running \cup {p}
                /\ caller' = [caller EXCEPT ![p] = w]
                /\ holds' = [holds EXCEPT ![p] = Held \cup IF lsock = "port" THEN {Port} ELSE {}]
           /\ Goes(w, "fork", "wait")
           /\ Handles(w) /\ UNCHANGED leaked

ForkFails(w) == /\ running = Programs
                /\ Goes(w, "fork", "open")
                /\ leaked' = leaked + 4
                /\ Handles(w) /\ UNCHANGED progVars

(* The program has ended: its output is the body, or the 404 page is.      *)
Waitpid(w) == /\ \A p \in running : caller[p] # w
              /\ \E to \in {"send", "open"} : Goes(w, "wait", to)
              /\ Handles(w) /\ UNCHANGED <<progVars, leaked>>

(* delete endpoint closes the socket and the worker looks for other work.  *)
Deletes(w, c, to) == /\ Pool!Finish(w)
                     /\ hpc' = [hpc EXCEPT ![w] = "read"]
                     /\ phase' = [phase EXCEPT ![c] = to]
                     /\ UNCHANGED <<bootVars, queue, wants, running, caller>>

(* send and sendfile wait, without a limit, for a client that is there     *)
(* and does not read.                                                      *)
Sending(w) == hpc[w] \in {"send", "sendfile"} /\ wants[serving[w]] \notin {"unread", "left"}

SendsOnlyFiles(w) ==
  LET c == serving[w]
  IN  /\ Sending(w)
      /\ Deletes(w, c, "closed")
      /\ outcome' = [outcome EXCEPT ![c] = IF hpc[w] = "send" THEN "dropped" ELSE "answer"]
      /\ UNCHANGED <<holds, leaked>>
SendsAndKeeps(w) ==
  LET c == serving[w]
  IN  /\ Sending(w)
      /\ Deletes(w, c, "held")
      /\ outcome' = [outcome EXCEPT ![c] = "answer"]
      /\ UNCHANGED <<holds, leaked>>
SendResponse(w) ==
  LET c == serving[w]
  IN  /\ Sending(w)
      /\ Deletes(w, c, "closed")
      /\ outcome' = [outcome EXCEPT ![c] = "answer"]
      /\ UNCHANGED <<holds, leaked>>

(* The client has gone before its request was complete, or before it had   *)
(* read the response: recv or send fails.  Nobody asks for the copies of   *)
(* its socket any more.                                                    *)
DeletesOnlyAnswered(w) ==
  LET c == serving[w]
  IN  /\ serving[w] # NoClient /\ hpc[w] \in {"read", "send", "sendfile"} /\ wants[c] = "left"
      /\ Deletes(w, c, "away")
      /\ leaked' = leaked + 1
      /\ UNCHANGED <<outcome, holds>>
ClientGone(w) ==
  LET c == serving[w]
  IN  /\ serving[w] # NoClient /\ hpc[w] \in {"read", "send", "sendfile"} /\ wants[c] = "left"
      /\ Deletes(w, c, "away")
      /\ holds' = [p \in Programs |-> holds[p] \ {c}]
      /\ UNCHANGED <<outcome, leaked>>

Handler(w) == \/ Start(w) \/ ReadRequest(w) \/ Open(w)
              \/ PipeInput(w) \/ PipeOutput(w) \/ Fork(w) \/ ForkFails(w) \/ Waitpid(w)
              \/ SendResponse(w) \/ ClientGone(w)

-----------------------------------------------------------------------------
(* The process ends; its programs do not, and may be all that keeps the    *)
(* port open and the connections of its clients alive.                     *)
Crash == /\ lpc # "down" /\ crashes < Crashes
         /\ lpc' = "down" /\ lsock' = "none" /\ crashes' = crashes + 1
         /\ pending' = <<>>
         /\ serving' = [w \in Workers |-> NoClient]
         /\ hpc' = [w \in Workers |-> "read"]
         /\ caller' = [p \in Programs |-> NoWorker]
         /\ leaked' = 0
         /\ LET lost == Held \cup {c \in Clients : phase[c] = "queued" /\ ~HeldByPrograms}
            IN  /\ phase' = [c \in Clients |-> IF c \in lost THEN "closed" ELSE phase[c]]
                /\ outcome' = [c \in Clients |-> IF c \in lost THEN "dropped" ELSE outcome[c]]
         /\ queue' = IF HeldByPrograms THEN queue ELSE <<>>
         /\ UNCHANGED <<wants, staff, running, holds>>

Restart == /\ lpc = "down"
           /\ lpc' = "socket"
           /\ UNCHANGED <<lsock, crashes, queue, clientVars, phase, poolVars, hpc, progVars, leaked>>

Boot == Socket \/ Bind \/ Listen

Next == \/ Boot \/ Accept \/ Crash \/ Restart
        \/ \E c \in Clients : Connect(c) \/ Stall(c) \/ Leave(c) \/ SeesEnd(c)
        \/ \E p \in Programs : ProgramEnds(p)
        \/ \E w \in Workers : Handler(w)

Spec == Init /\ [][Next]_vars

(* The server's threads go on when they can, and programs end.  No client  *)
(* has to connect, to send, to read its response or to leave, and nobody   *)
(* has to restart.                                                         *)
FairSpec == /\ Spec
            /\ WF_vars(Boot) /\ WF_vars(Accept)
            /\ \A w \in Workers : WF_vars(Handler(w))
            /\ \A p \in Programs : WF_vars(ProgramEnds(p))
            /\ \A c \in Clients : WF_vars(SeesEnd(c))
-----------------------------------------------------------------------------
TypeOK ==
  /\ lpc \in {"down", "socket", "bind", "listen", "accept"}
  /\ lsock \in {"none", "unbound", "bound", "port", "other"}
  /\ queue \in Seq(Clients) /\ Len(queue) <= Backlog
  /\ wants \in [Clients -> {"silent", "unread", "left", "page", "program"}]
  /\ phase \in [Clients -> {"away", "queued", "held", "closed"}]
  /\ outcome \in [Clients -> {"none", "answer", "dropped"}]
  /\ staff = Workers /\ pending \in Seq(Clients)
  /\ serving \in [Workers -> Clients \cup {NoClient}]
  /\ hpc \in [Workers -> {"read", "open", "pipe_input", "pipe_output", "fork", "wait",
                          "send", "sendfile"}]
  /\ running \subseteq Programs
  /\ caller \in [Programs -> Workers \cup {NoWorker}]
  /\ holds \in [Programs -> SUBSET (Clients \cup {Port})]
  /\ leaked \in Nat /\ CanOpen(0)
  /\ crashes \in 0..Crashes

(* What failed calls of pipe and fork leave open never takes the last      *)
(* descriptor: the server that has no connection can accept one, for ever. *)
AcceptSurvives == leaked < Fds

(* A connection is lost without an answer only when the server was killed; *)
(* neither the limit on descriptors nor the one on processes costs one.    *)
AnswerUnlessKilled == \A c \in Clients : outcome[c] = "dropped" => crashes > 0

(* Clients that do not send, or do not read, hold every worker, or every   *)
(* descriptor that is not lost: their sockets, and the files that are      *)
(* being sent to them.                                                     *)
Blockers == {c \in Held : wants[c] \in {"silent", "unread"}}
Starved == LET files == {w \in Workers : hpc[w] = "sendfile" /\ serving[w] \in Blockers}
           IN  \/ Cardinality(Blockers) >= Cardinality(Workers)
               \/ Cardinality(Blockers) + Cardinality(files) >= Fds - leaked

(* Unless clients that do not send or do not read hold all workers or all  *)
(* descriptors, one that has sent its request and reads does not wait for  *)
(* ever, in the kernel's queue, in the pool's, for a program or for its    *)
(* response.                                                               *)
Waits(c) == phase[c] \in {"queued", "held"} /\ wants[c] \in {"page", "program"}
NobodyWaitsForEver == \A c \in Clients : []<>(~Waits(c) \/ Starved)

(* A client that is answered, or loses its server, sees the end of the     *)
(* connection, although programs of other clients, and of a server that is *)
(* gone, hold copies of its socket.                                        *)
EndsForTheClient == \A c \in Clients : []<>(outcome[c] = "none" \/ phase[c] = "away")

(* A server that starts while no program of an earlier one holds the port  *)
(* comes to listen on it, unless socket fails.                             *)
ServesAgain ==
  (lpc = "bind" /\ lsock = "unbound" /\ ~HeldByPrograms) ~> (lsock = "port" \/ lpc = "down")
-----------------------------------------------------------------------------
(* What the code says of itself.                                           *)

(* TcpSever.hpp:52 and 69: the loop starts on a socket that is bound and   *)
(* initialised.                                                            *)
ReadyMeansListening == lpc = "accept" => lsock = "port"
=============================================================================
