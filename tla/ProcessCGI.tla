----------------------------- MODULE ProcessCGI -----------------------------
(***************************************************************************)
(* EndPoint::ProcessCGI (Protocol.hpp:220-334), run by several workers of  *)
(* one server process at once: two pipes, fork, execl, the body written to *)
(* the program's standard input, its output read to the end, waitpid.      *)
(*                                                                         *)
(* A call and the child it forks share a name.  Descriptors are kept per   *)
(* process, because fork copies every one the server has open at that      *)
(* moment, the pipe ends of the calls of other workers included.  Bytes    *)
(* are counted, not spelled out.  The programs themselves are processes    *)
(* outside src/ but for the two bundled ones (CGI/cgi.cpp and              *)
(* CGI/connect.cpp), whose use of standard input and output is "bundled"   *)
(* below.                                                                  *)
(***************************************************************************)
EXTENDS Naturals, FiniteSets

CONSTANTS Calls,          \* the calls of ProcessCGI
          Server,         \* the server process
          Programs,       \* the kinds of program requested, out of ProgramKinds
          Bodies,         \* bound: how long the body of a POST may be
          MaxOut,         \* bound: the longest output of a program
          Cap,            \* the capacity of a pipe
          SizeMax,        \* the largest size_t
          SpawnMayFail,   \* may pipe and fork fail?
          LogDuringFork   \* may another worker be inside localtime when a worker forks?

(* "bundled" reads Content_Length bytes, then writes, then exits with 0;   *)
(* "missing" cannot be executed; "filter" writes every byte it reads       *)
(* before it reads the next; "untilEof" reads to the end of its standard   *)
(* input before it writes.                                                 *)
ProgramKinds == {"bundled", "missing", "filter", "untilEof"}

ASSUME CallsAssumption == IsFiniteSet(Calls) /\ Server \notin Calls
ASSUME ProgramsAssumption == Programs \subseteq ProgramKinds
ASSUME SizesAssumption == /\ Bodies \subseteq Nat
                          /\ MaxOut \in Nat
                          /\ Cap \in Nat \ {0}
                          /\ SizeMax \in Nat
                          /\ \A n \in Bodies : n < SizeMax
ASSUME SwitchesAssumption == SpawnMayFail \in BOOLEAN /\ LogDuringFork \in BOOLEAN

VARIABLES
  job,        \* job[c]: the request of call c (method POST?, body length, program)
  pc,         \* pc[c]: where the worker is in ProcessCGI
  fds,        \* fds[p]: the pipe ends process p has open
  inbuf,      \* inbuf[c]: bytes in the pipe `input` of c, program to server
  outbuf,     \* outbuf[c]: bytes in the pipe `output` of c, server to program
  total,      \* total[c]: the local variable of the write loop, a size_t
  sent,       \* sent[c]: bytes of the body the pipe has accepted (history)
  res_body,   \* res_body[c]: length of response.res_body
  result,     \* result[c]: what ProcessCGI has returned, or "none"
  cpc,        \* cpc[c]: where the child of c is
  tzlock,     \* tzlock[c]: localtime's lock as the child's memory has it
  got,        \* got[c]: bytes the program has read from its standard input
  put,        \* put[c]: bytes the child has written to its standard output
  exit        \* exit[c]: how the child ended, or "none"

parentVars == <<pc, total, sent, res_body, result>>
childVars  == <<cpc, tzlock, got, put, exit>>
pipeVars   == <<inbuf, outbuf>>
vars == <<job, fds, parentVars, childVars, pipeVars>>

Procs == Calls \cup {Server}
In(c, side)  == <<c, "input", side>>
Out(c, side) == <<c, "output", side>>
EndsOf(c) == {In(c, "r"), In(c, "w"), Out(c, "r"), Out(c, "w")}

(* What the kernel looks at: an end is open while any process has it.      *)
IsOpen(end) == \E p \in Procs : end \in fds[p]

Jobs == {[post |-> TRUE, body |-> n, prog |-> k] : n \in Bodies, k \in Programs}
          \cup {[post |-> FALSE, body |-> 0, prog |-> k] : k \in Programs}

Init == /\ job \in [Calls -> Jobs]
        /\ pc = [c \in Calls |-> "pipe_input"]
        /\ fds = [p \in Procs |-> {}]
        /\ inbuf = [c \in Calls |-> 0]
        /\ outbuf = [c \in Calls |-> 0]
        /\ total = [c \in Calls |-> 0]
        /\ sent = [c \in Calls |-> 0]
        /\ res_body = [c \in Calls |-> 0]
        /\ result = [c \in Calls |-> "none"]
        /\ cpc = [c \in Calls |-> "none"]
        /\ tzlock = [c \in Calls |-> "free"]
        /\ got = [c \in Calls |-> 0]
        /\ put = [c \in Calls |-> 0]
        /\ exit = [c \in Calls |-> "none"]

-----------------------------------------------------------------------------
(* The worker.                                                             *)

Goes(c, from, to) == pc[c] = from /\ pc' = [pc EXCEPT ![c] = to]

Returns(c, code) == result' = [result EXCEPT ![c] = code]

ServerOpens(ends)  == fds' = [fds EXCEPT ![Server] = @ \cup ends]
ServerCloses(ends) == fds' = [fds EXCEPT ![Server] = @ \ ends]

PipeInput(c) == /\ Goes(c, "pipe_input", "pipe_output")
                /\ ServerOpens({In(c, "r"), In(c, "w")})
                /\ UNCHANGED <<job, total, sent, res_body, result, childVars, pipeVars>>

PipeOutput(c) == /\ Goes(c, "pipe_output", "fork")
                 /\ ServerOpens({Out(c, "r"), Out(c, "w")})
                 /\ UNCHANGED <<job, total, sent, res_body, result, childVars, pipeVars>>

(* pipe fails, for input or for output: the call returns at once, and a    *)
(* pipe that it has opened stays open.                                     *)
PipeFails(c) == /\ SpawnMayFail
                /\ \E step \in {"pipe_input", "pipe_output"} : Goes(c, step, "done")
                /\ Returns(c, "SERVER_ERROR")
                /\ UNCHANGED <<job, fds, total, sent, res_body, childVars, pipeVars>>

(* The child gets a copy of every end the server has open, and of          *)
(* localtime's lock, which stays locked in the child for ever if another   *)
(* worker's LOG holds it at this moment.                                   *)
Fork(c) == /\ Goes(c, "fork", "close_input_w")
           /\ cpc' = [cpc EXCEPT ![c] = "forked"]
           /\ fds' = [fds EXCEPT ![c] = fds[Server]]
           /\ \E l \in {"free"} \cup (IF LogDuringFork THEN {"held"} ELSE {}) :
                tzlock' = [tzlock EXCEPT ![c] = l]
           /\ UNCHANGED <<job, total, sent, res_body, result, got, put, exit, pipeVars>>

(* fork fails: both pipes stay open.                                       *)
ForkFails(c) == /\ SpawnMayFail
                /\ Goes(c, "fork", "done")
                /\ Returns(c, "NOT_FOUND")
                /\ UNCHANGED <<job, fds, total, sent, res_body, childVars, pipeVars>>

(* close(input[1]), then close(output[0]); other workers may fork between  *)
(* fork and either of them.                                                *)
KeepInputW(c) == /\ Goes(c, "close_input_w", "close_output_r")
                 /\ UNCHANGED <<job, fds, total, sent, res_body, result, childVars, pipeVars>>
CloseInputW(c) == /\ Goes(c, "close_input_w", "close_output_r")
                  /\ ServerCloses({In(c, "w")})
                  /\ UNCHANGED <<job, total, sent, res_body, result, childVars, pipeVars>>

KeepOutputR(c) == /\ Goes(c, "close_output_r", IF job[c].post THEN "write" ELSE "read")
                  /\ UNCHANGED <<job, fds, total, sent, res_body, result, childVars, pipeVars>>
CloseOutputR(c) == /\ Goes(c, "close_output_r", IF job[c].post THEN "write" ELSE "read")
                   /\ ServerCloses({Out(c, "r")})
                   /\ UNCHANGED <<job, total, sent, res_body, result, childVars, pipeVars>>

InWriteLoop(c) == pc[c] = "write" /\ total[c] < job[c].body

(* write puts the rest of the body into the pipe as it finds room: a call  *)
(* that has to wait is a series of these, and returns what it has written  *)
(* so far if the last reader goes away.                                    *)
Write(c) == /\ InWriteLoop(c)
            /\ IsOpen(Out(c, "r"))
            /\ \E n \in 1..(job[c].body - total[c]) :
                 /\ outbuf[c] + n <= Cap
                 /\ outbuf' = [outbuf EXCEPT ![c] = @ + n]
                 /\ sent' = [sent EXCEPT ![c] = @ + n]
                 /\ total' = [total EXCEPT ![c] = (@ + n) % (SizeMax + 1)]
            /\ UNCHANGED <<job, fds, pc, res_body, result, childVars, inbuf>>

(* Nobody can read the pipe: with SIGPIPE ignored, write returns -1, which *)
(* the size_t `size` holds as SizeMax.  SizeMax is greater than 0, so the  *)
(* loop goes on with total - 1, down to 0, and ends when total wraps.      *)
WriteWouldBlock(c) == InWriteLoop(c) /\ (outbuf[c] = Cap \/ ~IsOpen(Out(c, "r")))
WriteBroken(c) == InWriteLoop(c) /\ ~IsOpen(Out(c, "r"))
WriteFails(c) == /\ WriteBroken(c)
                 /\ total' = [total EXCEPT ![c] = (@ + SizeMax) % (SizeMax + 1)]
                 /\ UNCHANGED <<job, fds, pc, sent, res_body, result, childVars, pipeVars>>

EndWrite(c) == /\ Goes(c, "write", "read")
               /\ ~InWriteLoop(c)
               /\ UNCHANGED <<job, fds, total, sent, res_body, result, childVars, pipeVars>>

(* One byte of the program's output.                                       *)
Read(c) == /\ pc[c] = "read"
           /\ inbuf[c] > 0
           /\ inbuf' = [inbuf EXCEPT ![c] = @ - 1]
           /\ res_body' = [res_body EXCEPT ![c] = @ + 1]
           /\ UNCHANGED <<job, fds, pc, total, sent, result, childVars, outbuf>>

(* read returns 0 when the pipe is empty and no process can write to it.   *)
NothingToRead(c) == inbuf[c] = 0
AtEof(c) == inbuf[c] = 0 /\ ~IsOpen(In(c, "w"))
ReadEof(c) == /\ Goes(c, "read", "wait")
              /\ AtEof(c)
              /\ UNCHANGED <<job, fds, total, sent, res_body, result, childVars, pipeVars>>

RawStatus(how) == how
StatusByExitCode(how) == IF how = "exit1" THEN "BAD_REQUEST" ELSE "OK"
StatusOf(how) == CASE how = "exit0"  -> "OK"
                   [] how = "exit1"  -> "BAD_REQUEST"
                   [] how = "killed" -> "SERVER_ERROR"

(* waitpid reaps the child; its status decides the code; the two ends the  *)
(* server still has are closed, which no process waits for any more.       *)
Waitpid(c) == /\ Goes(c, "wait", "done")
              /\ cpc[c] = "zombie"
              /\ cpc' = [cpc EXCEPT ![c] = "reaped"]
              /\ Returns(c, StatusOf(exit[c]))
              /\ ServerCloses({In(c, "r"), Out(c, "w")})
              /\ UNCHANGED <<job, total, sent, res_body, tzlock, got, put, exit, pipeVars>>

-----------------------------------------------------------------------------
(* The child.                                                              *)

Exits(c, how) == /\ cpc' = [cpc EXCEPT ![c] = "zombie"]
                 /\ exit' = [exit EXCEPT ![c] = how]
                 /\ fds' = [fds EXCEPT ![c] = {}]

(* It closes the two ends of its own pipes that it does not need, and      *)
(* nothing else, sets the environment and redirects 0 and 1.               *)
Redirect(c) == /\ cpc[c] = "forked"
               /\ cpc' = [cpc EXCEPT ![c] = "exec"]
               /\ fds' = [fds EXCEPT ![c] = @ \ {In(c, "r"), Out(c, "w")}]
               /\ UNCHANGED <<job, parentVars, tzlock, got, put, exit, pipeVars>>

Exec(c) == /\ cpc[c] = "exec"
           /\ job[c].prog # "missing"
           /\ cpc' = [cpc EXCEPT ![c] = "run"]
           /\ UNCHANGED <<job, fds, parentVars, tzlock, got, put, exit, pipeVars>>

(* execl returns: LOG goes to standard output, which is the pipe by now,   *)
(* and exit(1) follows.  LOG calls localtime, which takes its lock first.  *)
ExecFails(c) == /\ cpc[c] = "exec"
                /\ job[c].prog = "missing"
                /\ tzlock[c] = "free"
                /\ inbuf' = [inbuf EXCEPT ![c] = @ + 1]
                /\ put' = [put EXCEPT ![c] = @ + 1]
                /\ Exits(c, "exit1")
                /\ UNCHANGED <<job, parentVars, tzlock, got, outbuf>>

Runs(c, kind) == cpc[c] = "run" /\ job[c].prog = kind

StdinEof(c) == outbuf[c] = 0 /\ ~IsOpen(Out(c, "w"))

(* The order in which each kind of program reads, writes and exits.        *)
MayRead(c) == Runs(c, "filter") => put[c] = got[c]
MayWrite(c) == \/ Runs(c, "bundled") /\ got[c] = job[c].body /\ put[c] < MaxOut
               \/ Runs(c, "filter") /\ put[c] < got[c]
               \/ Runs(c, "untilEof") /\ StdinEof(c) /\ put[c] < MaxOut
MayExit(c) == \/ Runs(c, "bundled") /\ got[c] = job[c].body
              \/ Runs(c, "filter") /\ got[c] = job[c].body /\ put[c] = got[c]
              \/ Runs(c, "untilEof") /\ StdinEof(c)

ReadStdin(c) == /\ cpc[c] = "run"
                /\ MayRead(c)
                /\ outbuf[c] > 0
                /\ outbuf' = [outbuf EXCEPT ![c] = @ - 1]
                /\ got' = [got EXCEPT ![c] = @ + 1]
                /\ UNCHANGED <<job, fds, parentVars, cpc, tzlock, put, exit, inbuf>>

WriteStdout(c) == /\ MayWrite(c)
                  /\ inbuf[c] < Cap
                  /\ inbuf' = [inbuf EXCEPT ![c] = @ + 1]
                  /\ put' = [put EXCEPT ![c] = @ + 1]
                  /\ UNCHANGED <<job, fds, parentVars, cpc, tzlock, got, exit, outbuf>>

ProgramExits(c) == /\ MayExit(c)
                   /\ Exits(c, "exit0")
                   /\ UNCHANGED <<job, parentVars, tzlock, got, put, pipeVars>>

(* A signal ends the program, at any moment (cgi.cpp divides by zero when  *)
(* its second argument is 0).                                              *)
ProgramKilled(c) == /\ cpc[c] = "run"
                    /\ Exits(c, "killed")
                    /\ UNCHANGED <<job, parentVars, tzlock, got, put, pipeVars>>

-----------------------------------------------------------------------------
AllReturned == \A c \in Calls : pc[c] = "done"
Finished == AllReturned /\ UNCHANGED vars

Spawn(c) == \/ PipeInput(c) \/ PipeOutput(c) \/ PipeFails(c)
            \/ Fork(c) \/ ForkFails(c)
            \/ CloseInputW(c) \/ CloseOutputR(c)
Transfer(c) == \/ Write(c) \/ WriteFails(c) \/ EndWrite(c)
               \/ Read(c) \/ ReadEof(c) \/ Waitpid(c)
Worker(c) == Spawn(c) \/ Transfer(c)

ChildProgress(c) == \/ Redirect(c) \/ Exec(c) \/ ExecFails(c)
                    \/ ReadStdin(c) \/ WriteStdout(c) \/ ProgramExits(c)
Child(c) == ChildProgress(c) \/ ProgramKilled(c)

Next == \/ \E c \in Calls : Worker(c) \/ Child(c)
        \/ Finished

Spec == Init /\ [][Next]_vars

(* Threads and processes that can run do run; no program runs for ever,    *)
(* since what a program may read and write is bounded.                     *)
FairSpec == /\ Spec
            /\ \A c \in Calls : WF_vars(Worker(c)) /\ WF_vars(ChildProgress(c))
-----------------------------------------------------------------------------
(* The worker and the program of a call wait for each other: one to write  *)
(* into a full pipe or to read from an empty one, the other likewise, or   *)
(* to see the end of a standard input that the server keeps open.          *)
ServerWaits(c) == \/ InWriteLoop(c) /\ IsOpen(Out(c, "r")) /\ outbuf[c] = Cap
                  \/ pc[c] = "read" /\ inbuf[c] = 0
ProgramWaits(c) == \/ Runs(c, "filter") /\ inbuf[c] = Cap /\ put[c] < got[c]
                   \/ Runs(c, "untilEof") /\ outbuf[c] = 0 /\ ~StdinEof(c)
MutualWait(c) == ServerWaits(c) /\ ProgramWaits(c)

TypeOK ==
  /\ job \in [Calls -> Jobs]
  /\ pc \in [Calls -> {"pipe_input", "pipe_output", "fork", "close_input_w",
                       "close_output_r", "write", "read", "wait", "done"}]
  /\ fds \in [Procs -> SUBSET UNION {EndsOf(c) : c \in Calls}]
  /\ inbuf \in [Calls -> 0..Cap]
  /\ outbuf \in [Calls -> 0..Cap]
  /\ total \in [Calls -> 0..SizeMax]
  /\ sent \in [Calls -> Nat] /\ \A c \in Calls : sent[c] <= job[c].body
  /\ res_body \in [Calls -> Nat]
  /\ result \in [Calls -> {"none", "OK", "BAD_REQUEST", "NOT_FOUND", "SERVER_ERROR"}]
  /\ cpc \in [Calls -> {"none", "forked", "exec", "run", "zombie", "reaped"}]
  /\ tzlock \in [Calls -> {"free", "held"}]
  /\ got \in [Calls -> Nat] /\ \A c \in Calls : got[c] <= sent[c]
  /\ put \in [Calls -> Nat]
  /\ exit \in [Calls -> {"none", "exit0", "exit1", "killed"}]

(* The end of the program's output means the end of the program: when the  *)
(* worker leaves its read loop the child is a zombie, so waitpid does not  *)
(* block, and every byte the child wrote is in res_body.                   *)
EofIsExit == \A c \in Calls : pc[c] = "wait" =>
               cpc[c] = "zombie" /\ res_body[c] = put[c]

(* 200 is answered only by a program that had the whole request body and   *)
(* whose whole output has been collected.                                  *)
OkIsComplete == \A c \in Calls : result[c] = "OK" =>
                  /\ got[c] = job[c].body
                  /\ res_body[c] = put[c]
                  /\ exit[c] = "exit0"

(* After a call the server has none of its pipe ends open, but for the     *)
(* failures of pipe and fork, which keep what they had opened; and the     *)
(* child has been reaped.                                                  *)
LeaksOnlyOnSpawnFailure ==
  \A c \in Calls : pc[c] = "done" =>
    \/ cpc[c] = "reaped" /\ fds[Server] \cap EndsOf(c) = {}
    \/ /\ cpc[c] = "none"
       /\ \/ result[c] = "NOT_FOUND" /\ EndsOf(c) \subseteq fds[Server]
          \/ result[c] = "SERVER_ERROR" /\ fds[Server] \cap EndsOf(c) \in {{}, {In(c, "r"), In(c, "w")}}

(* Bytes enter the program's standard input in order and once, although a  *)
(* failing write moves the loop's position backwards.                      *)
NoResend == [][\A c \in Calls : sent'[c] # sent[c] => total[c] = sent[c]]_vars

(* Every call returns, unless a program and its server wait for each other *)
(* for ever.  The premise is about every program, not the call's own: one  *)
(* that hangs may keep copies of the pipe ends of the other calls open,    *)
(* and their workers then never see the end of their programs' output.     *)
(* Programs like the two bundled ones never hang (see NoMutualWait), so a  *)
(* server that is asked for no others returns from every call.             *)
CallReturns == (\A d \in Calls : []<>~MutualWait(d)) => \A c \in Calls : <>(pc[c] = "done")

(* The end of the child, whenever the worker comes to see it, is the end   *)
(* of the abstract call's program, and what it had written by then is its  *)
(* output.                                                                 *)
StateOf(c) == IF pc[c] = "done" THEN "returned"
              ELSE IF exit[c] # "none" THEN "ended"
              ELSE IF cpc[c] # "none" THEN "running" ELSE "starting"
OutputOf(c)  == IF exit[c] = "none" THEN 0 ELSE put[c]
ResBodyOf(c) == IF pc[c] = "done" THEN res_body[c] ELSE 0

Call == INSTANCE CgiCall WITH
          state    <- [c \in Calls |-> StateOf(c)],
          outcome  <- exit,
          output   <- [c \in Calls |-> OutputOf(c)],
          result   <- result,
          res_body <- [c \in Calls |-> ResBodyOf(c)]

(* Pipes, forks and both loops implement CgiCall: one program for a call,  *)
(* its whole output and the status of its end, and a return once it has    *)
(* ended and no other program runs.                                        *)
ImplementsCgiCall == Call!FairSpec
-----------------------------------------------------------------------------
(* What the comments of the code say.                       *)

(* Protocol.hpp:278-280: a child whose execl failed logs and exits.        *)
FailedExecExits == \A c \in Calls : (cpc[c] = "exec" /\ job[c].prog = "missing") ~> (cpc[c] \in {"zombie", "reaped"})

(* Protocol.hpp:276: it is enough that the program reads its standard      *)
(* input and writes its standard output, so the worker and the program     *)
(* never come to wait for each other.                                      *)
NoMutualWait == \A c \in Calls : ~MutualWait(c)
=============================================================================
