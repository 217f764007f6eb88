-------------------------- MODULE ProcessCGIProofs --------------------------
(***************************************************************************)
(* What ProcessCGI promises for any number of calls that run at once, any  *)
(* bodies, any capacity of a pipe and any width of size_t: its type        *)
(* invariant, EofIsExit, OkIsComplete, LeaksOnlyOnSpawnFailure, NoResend,  *)
(* and that each of its steps is a step of CgiCall or leaves CgiCall's     *)
(* state alone.                                                            *)
(***************************************************************************)
EXTENDS ProcessCGI, TLAPS

BeforeFork == {"pipe_input", "pipe_output", "fork"}
Alive == {"forked", "exec", "run"}

(* No byte of either pipe is lost or made up.                              *)
Counts(c) == /\ put[c] = res_body[c] + inbuf[c]
             /\ sent[c] = got[c] + outbuf[c]
             /\ sent[c] <= job[c].body
             /\ cpc[c] \in {"none", "forked", "exec"} => put[c] = 0 /\ got[c] = 0

(* How far the child has come when the worker is where it is, and what is  *)
(* known of a child that has ended.                                        *)
Phases(c) ==
  /\ pc[c] \in BeforeFork => cpc[c] = "none"
  /\ pc[c] \in {"close_input_w", "close_output_r", "write", "read"} => cpc[c] \in Alive \cup {"zombie"}
  /\ pc[c] = "wait" => cpc[c] = "zombie" /\ inbuf[c] = 0
  /\ pc[c] = "done" => cpc[c] \in {"none", "reaped"}
  /\ exit[c] = "none" <=> cpc[c] \in {"none"} \cup Alive
  /\ exit[c] = "exit0" => got[c] = job[c].body
  /\ result[c] = "none" <=> pc[c] # "done"
  /\ pc[c] = "done" /\ cpc[c] = "none" => result[c] \in {"NOT_FOUND", "SERVER_ERROR"}
  /\ cpc[c] = "reaped" => result[c] = StatusOf(exit[c]) /\ inbuf[c] = 0

(* Which ends of the pipes of c the server has open at each place of c's   *)
(* worker, and after the call.                                             *)
ServerHas(c) ==
  LET has(end) == end \in fds[Server]
  IN  /\ pc[c] # "done" =>
           /\ has(In(c, "r"))  <=> pc[c] # "pipe_input"
           /\ has(In(c, "w"))  <=> pc[c] \in {"pipe_output", "fork", "close_input_w"}
           /\ has(Out(c, "r")) <=> pc[c] \in {"fork", "close_input_w", "close_output_r"}
           /\ has(Out(c, "w")) <=> pc[c] \notin {"pipe_input", "pipe_output"}
      /\ pc[c] = "done" =>
           /\ cpc[c] = "reaped" => \A end \in EndsOf(c) : ~has(end)
           /\ cpc[c] = "none" /\ result[c] = "NOT_FOUND" => \A end \in EndsOf(c) : has(end)
           /\ cpc[c] = "none" /\ result[c] = "SERVER_ERROR" =>
                /\ ~has(Out(c, "r")) /\ ~has(Out(c, "w"))
                /\ has(In(c, "r")) <=> has(In(c, "w"))

(* A child has the ends that it reads and writes until it ends.            *)
ChildHas(c) == IF cpc[c] \in Alive THEN In(c, "w") \in fds[c] /\ Out(c, "r") \in fds[c]
                                   ELSE fds[c] = {}

(* The write loop is where the pipe is, until nobody can read the pipe,    *)
(* and then nobody ever will.                                              *)
Position(c) == /\ pc[c] \in BeforeFork \cup {"close_input_w", "close_output_r"} => total[c] = 0 /\ sent[c] = 0
               /\ pc[c] = "write" => total[c] = sent[c] \/ ~IsOpen(Out(c, "r"))

IInv == /\ TypeOK
        /\ \A c \in Calls : Counts(c) /\ Phases(c) /\ ServerHas(c) /\ ChildHas(c) /\ Position(c)
-----------------------------------------------------------------------------
(* The four ends of every call differ from each other and from those of    *)
(* the other calls.                                                        *)
LEMMA EndsDiffer ==
  /\ \A c, d, s, t : In(c, s) = In(d, t) <=> c = d /\ s = t
  /\ \A c, d, s, t : Out(c, s) = Out(d, t) <=> c = d /\ s = t
  /\ \A c, d, s, t : In(c, s) # Out(d, t)
BY DEF In, Out

(* What a size_t does to a number that it can hold, and to any other.      *)
LEMMA SizeT ==
  /\ \A n \in 0..SizeMax : n % (SizeMax + 1) = n
  /\ \A n \in Nat : n % (SizeMax + 1) \in 0..SizeMax
BY SizesAssumption

(* The size of a body is a number that a size_t can hold.                  *)
LEMMA BodiesFit == \A j \in Jobs : j.body \in 0..SizeMax
BY SizesAssumption DEF Jobs

(* No call is in the middle of anything when the server starts.            *)
LEMMA IInvInit == Init => IInv
<1> SUFFICES ASSUME Init PROVE IInv
  OBVIOUS
<1>1. TypeOK
  BY SizesAssumption DEF Init, TypeOK, Jobs
<1>2. ASSUME NEW c \in Calls
      PROVE  Counts(c) /\ Phases(c) /\ ServerHas(c) /\ ChildHas(c) /\ Position(c)
  BY <1>2, BodiesFit DEF Init, Counts, Phases, ServerHas, ChildHas, Position, BeforeFork, Alive, Procs
<1>3. QED
  BY <1>1, <1>2 DEF IInv
-----------------------------------------------------------------------------
(* No step leaves the types: what a failing write leaves in total is a     *)
(* size_t, and the line that a failed execl writes finds its pipe empty.   *)
LEMMA TypesStep == IInv /\ [Next]_vars => TypeOK'
<1> SUFFICES ASSUME IInv, [Next]_vars PROVE TypeOK'
  OBVIOUS
<1> USE CallsAssumption, SizesAssumption, BodiesFit
    DEF TypeOK, Procs, EndsOf, parentVars, childVars, pipeVars, Goes
<1>1. ASSUME NEW c \in Calls, PipeInput(c) \/ PipeOutput(c) PROVE TypeOK'
  <2>1. EndsOf(c) \subseteq UNION {EndsOf(d) : d \in Calls}
    OBVIOUS
  <2>2. CASE PipeInput(c)
    BY <2>1, <2>2 DEF IInv, PipeInput, ServerOpens
  <2>3. CASE PipeOutput(c)
    BY <2>1, <2>3 DEF IInv, PipeOutput, ServerOpens
  <2>4. QED
    BY <1>1, <2>2, <2>3
<1>2. ASSUME NEW c \in Calls, PipeFails(c) \/ ForkFails(c) PROVE TypeOK'
  BY <1>2 DEF IInv, PipeFails, ForkFails, Returns
<1>3. ASSUME NEW c \in Calls, Fork(c) PROVE TypeOK'
  BY <1>3 DEF IInv, Fork
<1>4. ASSUME NEW c \in Calls, CloseInputW(c) \/ CloseOutputR(c) PROVE TypeOK'
  BY <1>4 DEF IInv, CloseInputW, CloseOutputR, ServerCloses
<1>5. ASSUME NEW c \in Calls, Write(c) PROVE TypeOK'
  <2>1. total[c] = sent[c]
    BY <1>5 DEF IInv, Write, InWriteLoop, Position
  <2>2. PICK n \in 1..(job[c].body - total[c]) :
          /\ outbuf[c] + n <= Cap
          /\ outbuf' = [outbuf EXCEPT ![c] = @ + n]
          /\ sent' = [sent EXCEPT ![c] = @ + n]
          /\ total' = [total EXCEPT ![c] = (@ + n) % (SizeMax + 1)]
    BY <1>5 DEF Write
  <2>3. job[c].body \in 0..SizeMax /\ total[c] + n <= job[c].body
    BY <2>2 DEF IInv
  <2>4. (total[c] + n) % (SizeMax + 1) \in 0..SizeMax
    <3>1. total[c] + n \in Nat
      BY <2>2 DEF IInv
    <3>2. QED
      BY <3>1, SizeT
  <2>5. QED
    BY <1>5, <2>1, <2>2, <2>3, <2>4 DEF IInv, Write
<1>6. ASSUME NEW c \in Calls, WriteFails(c) PROVE TypeOK'
  <2>1. (total[c] + SizeMax) % (SizeMax + 1) \in 0..SizeMax
    <3>1. total[c] + SizeMax \in Nat
      BY DEF IInv
    <3>2. QED
      BY <3>1, SizeT
  <2>2. QED
    BY <1>6, <2>1 DEF IInv, WriteFails
<1>7. ASSUME NEW c \in Calls, EndWrite(c) \/ ReadEof(c) PROVE TypeOK'
  BY <1>7 DEF IInv, EndWrite, ReadEof
<1>8. ASSUME NEW c \in Calls, Read(c) PROVE TypeOK'
  BY <1>8 DEF IInv, Read
<1>9. ASSUME NEW c \in Calls, Waitpid(c) PROVE TypeOK'
  BY <1>9 DEF IInv, Phases, Waitpid, Returns, ServerCloses, StatusOf, Alive
<1>10. ASSUME NEW c \in Calls, Redirect(c) \/ Exec(c) PROVE TypeOK'
  BY <1>10 DEF IInv, Redirect, Exec
<1>11. ASSUME NEW c \in Calls, ExecFails(c) PROVE TypeOK'
  <2>1. inbuf[c] = 0
    BY <1>11 DEF IInv, ExecFails, Counts
  <2>2. QED
    BY <1>11, <2>1 DEF IInv, ExecFails, Exits
<1>12. ASSUME NEW c \in Calls, ReadStdin(c) PROVE TypeOK'
  BY <1>12 DEF IInv, ReadStdin, Counts
<1>13. ASSUME NEW c \in Calls, WriteStdout(c) PROVE TypeOK'
  BY <1>13 DEF IInv, WriteStdout
<1>14. ASSUME NEW c \in Calls, ProgramExits(c) \/ ProgramKilled(c) PROVE TypeOK'
  BY <1>14 DEF IInv, ProgramExits, ProgramKilled, Exits
<1>15. CASE UNCHANGED vars
  BY <1>15 DEF IInv, vars
<1>16. QED
  BY <1>1, <1>2, <1>3, <1>4, <1>5, <1>6, <1>7, <1>8, <1>9, <1>10, <1>11, <1>12, <1>13, <1>14, <1>15
     DEF Next, Worker, Spawn, Transfer, Child, ChildProgress, Finished

(* What is written to a pipe is in it until it is read, and only a child   *)
(* that runs reads or writes.                                              *)
LEMMA CountsStep == IInv /\ [Next]_vars => \A d \in Calls : Counts(d)'
<1> SUFFICES ASSUME IInv, [Next]_vars, NEW d \in Calls PROVE Counts(d)'
  OBVIOUS
<1> USE BodiesFit DEF IInv, TypeOK, Counts, parentVars, childVars, pipeVars, Goes
<1>1. ASSUME NEW c \in Calls, Spawn(c) PROVE Counts(d)'
  BY <1>1 DEF Spawn, PipeInput, PipeOutput, PipeFails, Fork, ForkFails, CloseInputW, CloseOutputR,
              Phases, BeforeFork
<1>2. ASSUME NEW c \in Calls, Write(c) PROVE Counts(d)'
  <2>1. total[c] = sent[c]
    BY <1>2 DEF Write, InWriteLoop, Position
  <2>2. PICK n \in 1..(job[c].body - total[c]) :
          /\ outbuf' = [outbuf EXCEPT ![c] = @ + n]
          /\ sent' = [sent EXCEPT ![c] = @ + n]
    BY <1>2 DEF Write
  <2>3. job[c].body \in Nat /\ n \in Nat /\ sent[c] + n <= job[c].body
    BY <2>1, <2>2
  <2>4. job' = job /\ put' = put /\ res_body' = res_body /\ inbuf' = inbuf /\ got' = got /\ cpc' = cpc
    BY <1>2 DEF Write
  <2>5. QED
    BY <2>2, <2>3, <2>4
<1>3. ASSUME NEW c \in Calls, WriteFails(c) \/ EndWrite(c) \/ Read(c) \/ ReadEof(c) \/ Waitpid(c)
      PROVE  Counts(d)'
  BY <1>3 DEF WriteFails, EndWrite, Read, ReadEof, Waitpid
<1>4. ASSUME NEW c \in Calls, Redirect(c) \/ Exec(c) \/ ExecFails(c) PROVE Counts(d)'
  BY <1>4 DEF Redirect, Exec, ExecFails, Exits
<1>5. ASSUME NEW c \in Calls, ReadStdin(c) \/ WriteStdout(c) PROVE Counts(d)'
  <2>1. CASE ReadStdin(c)
    <3>1. /\ outbuf' = [outbuf EXCEPT ![c] = @ - 1] /\ outbuf[c] \in Nat \ {0}
          /\ got' = [got EXCEPT ![c] = @ + 1]
          /\ UNCHANGED <<job, put, res_body, inbuf, sent, cpc>> /\ cpc[c] = "run"
      BY <2>1 DEF ReadStdin
    <3>2. QED
      BY <3>1
  <2>2. CASE WriteStdout(c)
    <3>1. cpc[c] = "run"
      BY <2>2 DEF WriteStdout, MayWrite, Runs
    <3>2. QED
      BY <2>2, <3>1 DEF WriteStdout
  <2>3. QED
    BY <1>5, <2>1, <2>2
<1>6. ASSUME NEW c \in Calls, ProgramExits(c) \/ ProgramKilled(c) PROVE Counts(d)'
  BY <1>6 DEF ProgramExits, ProgramKilled, Exits, MayExit, Runs
<1>7. CASE UNCHANGED vars
  BY <1>7 DEF vars
<1>8. QED
  BY <1>1, <1>2, <1>3, <1>4, <1>5, <1>6, <1>7
     DEF Next, Worker, Transfer, Child, ChildProgress, Finished

(* The worker sees the end of the program's output only when the program   *)
(* has ended: it has an end to write to until then.                        *)
LEMMA EofMeansEnd ==
  ASSUME IInv, NEW c \in Calls, ReadEof(c)
  PROVE  cpc[c] = "zombie" /\ inbuf[c] = 0
<1>1. In(c, "w") \notin fds[c] /\ inbuf[c] = 0
  BY DEF ReadEof, AtEof, IsOpen, Procs
<1>2. cpc[c] \notin Alive
  BY <1>1 DEF IInv, ChildHas
<1>3. QED
  BY <1>1, <1>2 DEF IInv, Phases, ReadEof, Goes

(* A program that exits by itself has read its whole body: the server has  *)
(* the other end of its standard input open, so that it finds no end there.*)
LEMMA ExitMeansBody ==
  ASSUME IInv, NEW c \in Calls, ProgramExits(c)
  PROVE  got[c] = job[c].body
<1>1. cpc[c] = "run"
  BY DEF ProgramExits, MayExit, Runs
<1>2. pc[c] \notin {"pipe_input", "pipe_output", "done"}
  BY <1>1 DEF IInv, Phases, BeforeFork
<1>3. ~StdinEof(c)
  BY <1>2 DEF IInv, ServerHas, StdinEof, IsOpen, Procs
<1>4. QED
  BY <1>3 DEF ProgramExits, MayExit
-----------------------------------------------------------------------------
(* The child is where the worker thinks it is.                             *)
LEMMA PhasesStep == IInv /\ [Next]_vars => \A d \in Calls : Phases(d)'
<1> SUFFICES ASSUME IInv, [Next]_vars, NEW d \in Calls PROVE Phases(d)'
  OBVIOUS
<1> USE DEF IInv, TypeOK, Phases, BeforeFork, Alive, parentVars, childVars, pipeVars, Goes
<1>1. ASSUME NEW c \in Calls, PipeInput(c) \/ PipeOutput(c) \/ PipeFails(c) \/ ForkFails(c)
      PROVE  Phases(d)'
  BY <1>1 DEF PipeInput, PipeOutput, PipeFails, ForkFails, Returns
<1>2. ASSUME NEW c \in Calls, Fork(c) PROVE Phases(d)'
  BY <1>2 DEF Fork
<1>3. ASSUME NEW c \in Calls, CloseInputW(c) \/ CloseOutputR(c) PROVE Phases(d)'
  BY <1>3 DEF CloseInputW, CloseOutputR
<1>4. ASSUME NEW c \in Calls, Write(c) \/ WriteFails(c) \/ EndWrite(c) PROVE Phases(d)'
  BY <1>4 DEF Write, WriteFails, EndWrite, InWriteLoop, WriteBroken
<1>5. ASSUME NEW c \in Calls, Read(c) PROVE Phases(d)'
  BY <1>5 DEF Read
<1>6. ASSUME NEW c \in Calls, ReadEof(c) PROVE Phases(d)'
  <2>1. cpc[c] = "zombie" /\ inbuf[c] = 0
    BY <1>6, EofMeansEnd
  <2>2. QED
    BY <1>6, <2>1 DEF ReadEof
<1>7. ASSUME NEW c \in Calls, Waitpid(c) PROVE Phases(d)'
  BY <1>7 DEF Waitpid, Returns, StatusOf
<1>8. ASSUME NEW c \in Calls, Redirect(c) \/ Exec(c) PROVE Phases(d)'
  BY <1>8 DEF Redirect, Exec
<1>9. ASSUME NEW c \in Calls, ExecFails(c) PROVE Phases(d)'
  BY <1>9 DEF ExecFails, Exits
<1>10. ASSUME NEW c \in Calls, ReadStdin(c) PROVE Phases(d)'
  BY <1>10 DEF ReadStdin
<1>11. ASSUME NEW c \in Calls, WriteStdout(c) PROVE Phases(d)'
  BY <1>11 DEF WriteStdout, MayWrite, Runs
<1>12. ASSUME NEW c \in Calls, ProgramExits(c) PROVE Phases(d)'
  BY <1>12, ExitMeansBody DEF ProgramExits, MayExit, Runs, Exits
<1>13. ASSUME NEW c \in Calls, ProgramKilled(c) PROVE Phases(d)'
  BY <1>13 DEF ProgramKilled, Exits
<1>14. CASE UNCHANGED vars
  BY <1>14 DEF vars
<1>15. QED
  BY <1>1, <1>2, <1>3, <1>4, <1>5, <1>6, <1>7, <1>8, <1>9, <1>10, <1>11, <1>12, <1>13, <1>14
     DEF Next, Worker, Spawn, Transfer, Child, ChildProgress, Finished
-----------------------------------------------------------------------------
(* The worker of a call opens and closes ends of that call only.           *)
LEMMA ServerHasStep == IInv /\ [Next]_vars => \A d \in Calls : ServerHas(d)'
<1> SUFFICES ASSUME IInv, [Next]_vars, NEW d \in Calls PROVE ServerHas(d)'
  OBVIOUS
<1> USE CallsAssumption, EndsDiffer
    DEF IInv, TypeOK, ServerHas, EndsOf, Procs, parentVars, childVars, pipeVars, Goes
<1>1. ASSUME NEW c \in Calls, PipeInput(c) PROVE ServerHas(d)'
  BY <1>1 DEF PipeInput, ServerOpens
<1>2. ASSUME NEW c \in Calls, PipeOutput(c) PROVE ServerHas(d)'
  BY <1>2 DEF PipeOutput, ServerOpens
<1>3. ASSUME NEW c \in Calls, PipeFails(c) \/ ForkFails(c) PROVE ServerHas(d)'
  BY <1>3 DEF PipeFails, ForkFails, Returns, Phases, BeforeFork
<1>4. ASSUME NEW c \in Calls, Fork(c) PROVE ServerHas(d)'
  BY <1>4 DEF Fork
<1>5. ASSUME NEW c \in Calls, CloseInputW(c) PROVE ServerHas(d)'
  BY <1>5 DEF CloseInputW, ServerCloses
<1>6. ASSUME NEW c \in Calls, CloseOutputR(c) PROVE ServerHas(d)'
  BY <1>6 DEF CloseOutputR, ServerCloses
<1>7. ASSUME NEW c \in Calls, \/ Write(c) \/ WriteFails(c) \/ EndWrite(c) \/ Read(c) \/ ReadEof(c)
      PROVE  ServerHas(d)'
  BY <1>7 DEF Write, WriteFails, EndWrite, Read, ReadEof
<1>8. ASSUME NEW c \in Calls, Waitpid(c) PROVE ServerHas(d)'
  BY <1>8 DEF Waitpid, Returns, ServerCloses
<1>9. ASSUME NEW c \in Calls, Child(c) PROVE ServerHas(d)'
  <2>1. fds'[Server] = fds[Server] /\ pc' = pc /\ result' = result
    BY <1>9 DEF Child, ChildProgress, Redirect, Exec, ExecFails, ReadStdin, WriteStdout,
                ProgramExits, ProgramKilled, Exits
  <2>2. cpc[c] \in Alive
    BY <1>9 DEF Child, ChildProgress, Redirect, Exec, ExecFails, ReadStdin, WriteStdout,
                ProgramExits, ProgramKilled, MayWrite, MayExit, Runs, Alive
  <2>3. pc[c] # "done"
    BY <2>2 DEF Phases, Alive
  <2>4. \A e \in Calls : e # c => cpc'[e] = cpc[e]
    BY <1>9 DEF Child, ChildProgress, Redirect, Exec, ExecFails, ReadStdin, WriteStdout,
                ProgramExits, ProgramKilled, Exits
  <2>5. QED
    BY <2>1, <2>3, <2>4
<1>10. CASE UNCHANGED vars
  BY <1>10 DEF vars
<1>11. QED
  BY <1>1, <1>2, <1>3, <1>4, <1>5, <1>6, <1>7, <1>8, <1>9, <1>10
     DEF Next, Worker, Spawn, Transfer, Finished

(* A child starts with both of its ends, because the server has them at    *)
(* fork, and gives them up only by ending.                                 *)
LEMMA ChildHasStep == IInv /\ [Next]_vars => \A d \in Calls : ChildHas(d)'
<1> SUFFICES ASSUME IInv, [Next]_vars, NEW d \in Calls PROVE ChildHas(d)'
  OBVIOUS
<1> USE CallsAssumption, EndsDiffer
    DEF IInv, TypeOK, ChildHas, Alive, Procs, parentVars, childVars, pipeVars, Goes
<1>1. ASSUME NEW c \in Calls, Fork(c) PROVE ChildHas(d)'
  <2>1. In(c, "w") \in fds[Server] /\ Out(c, "r") \in fds[Server]
    BY <1>1 DEF Fork, ServerHas
  <2>2. QED
    BY <1>1, <2>1 DEF Fork
<1>2. ASSUME NEW c \in Calls, PipeInput(c) \/ PipeOutput(c) \/ PipeFails(c) \/ ForkFails(c)
      PROVE  ChildHas(d)'
  BY <1>2 DEF PipeInput, PipeOutput, PipeFails, ForkFails, ServerOpens
<1>3. ASSUME NEW c \in Calls, CloseInputW(c) \/ CloseOutputR(c) PROVE ChildHas(d)'
  BY <1>3 DEF CloseInputW, CloseOutputR, ServerCloses
<1>4. ASSUME NEW c \in Calls, Write(c) \/ WriteFails(c) \/ EndWrite(c) \/ Read(c) \/ ReadEof(c)
      PROVE  ChildHas(d)'
  BY <1>4 DEF Write, WriteFails, EndWrite, Read, ReadEof
<1>5. ASSUME NEW c \in Calls, Waitpid(c) PROVE ChildHas(d)'
  BY <1>5 DEF Waitpid, ServerCloses
<1>6. ASSUME NEW c \in Calls, Redirect(c) PROVE ChildHas(d)'
  BY <1>6 DEF Redirect
<1>7. ASSUME NEW c \in Calls, Exec(c) \/ ReadStdin(c) \/ WriteStdout(c) PROVE ChildHas(d)'
  BY <1>7 DEF Exec, ReadStdin, WriteStdout
<1>8. ASSUME NEW c \in Calls, ExecFails(c) \/ ProgramExits(c) \/ ProgramKilled(c) PROVE ChildHas(d)'
  BY <1>8 DEF ExecFails, ProgramExits, ProgramKilled, Exits
<1>9. CASE UNCHANGED vars
  BY <1>9 DEF vars
<1>10. QED
  BY <1>1, <1>2, <1>3, <1>4, <1>5, <1>6, <1>7, <1>8, <1>9
     DEF Next, Worker, Spawn, Transfer, Child, ChildProgress, Finished

(* Once the worker writes, no process that lacks the reading end of its    *)
(* pipe can come by it: the server does not have it for a fork to copy.    *)
LEMMA ReadersOnlyLeave ==
  ASSUME IInv, [Next]_vars, NEW d \in Calls, pc[d] = "write", ~IsOpen(Out(d, "r"))
  PROVE  ~IsOpen(Out(d, "r"))'
<1>1. \A p \in Procs : Out(d, "r") \notin fds[p]
  BY DEF IsOpen
<1>2. SUFFICES ASSUME NEW p \in Procs PROVE Out(d, "r") \notin fds'[p]
  BY DEF IsOpen
<1>3. fds \in [Procs -> SUBSET UNION {EndsOf(c) : c \in Calls}] /\ Server \in Procs /\ Calls \subseteq Procs
  BY DEF IInv, TypeOK, Procs
<1>4. ASSUME NEW c \in Calls, PipeInput(c) \/ PipeOutput(c) PROVE Out(d, "r") \notin fds'[p]
  BY <1>1, <1>3, <1>4, EndsDiffer DEF PipeInput, PipeOutput, ServerOpens, Goes
<1>5. ASSUME NEW c \in Calls, Fork(c) PROVE Out(d, "r") \notin fds'[p]
  BY <1>1, <1>3, <1>5 DEF Fork
<1>6. ASSUME NEW c \in Calls, CloseInputW(c) \/ CloseOutputR(c) \/ Waitpid(c)
      PROVE  Out(d, "r") \notin fds'[p]
  BY <1>1, <1>3, <1>6 DEF CloseInputW, CloseOutputR, Waitpid, ServerCloses
<1>7. ASSUME NEW c \in Calls, ExecFails(c) \/ ProgramExits(c) \/ ProgramKilled(c)
      PROVE  Out(d, "r") \notin fds'[p]
  BY <1>1, <1>3, <1>7 DEF ExecFails, ProgramExits, ProgramKilled, Exits
<1>8. ASSUME NEW c \in Calls, Redirect(c) PROVE Out(d, "r") \notin fds'[p]
  BY <1>1, <1>3, <1>8 DEF Redirect
<1>9. CASE fds' = fds
  BY <1>1, <1>9
<1>10. QED
  BY <1>4, <1>5, <1>6, <1>7, <1>8, <1>9
     DEF Next, Worker, Spawn, Transfer, Child, ChildProgress, Finished, vars, PipeFails, ForkFails,
         Write, WriteFails, EndWrite, Read, ReadEof, Exec, ReadStdin, WriteStdout

(* A write that succeeds moves the loop by what the pipe has taken.        *)
LEMMA PositionStep == IInv /\ [Next]_vars => \A d \in Calls : Position(d)'
<1> SUFFICES ASSUME IInv, [Next]_vars, NEW d \in Calls PROVE Position(d)'
  OBVIOUS
<1>1. pc[d] = "write" /\ ~IsOpen(Out(d, "r")) => ~IsOpen(Out(d, "r"))'
  BY ReadersOnlyLeave
<1> USE <1>1 DEF IInv, TypeOK, Position, BeforeFork, parentVars, childVars, pipeVars, Goes
<1>2. ASSUME NEW c \in Calls, Write(c) PROVE Position(d)'
  <2>1. pc[c] = "write" /\ total[c] = sent[c]
    BY <1>2 DEF Write, InWriteLoop
  <2>2. PICK n \in 1..(job[c].body - total[c]) :
          /\ sent' = [sent EXCEPT ![c] = @ + n]
          /\ total' = [total EXCEPT ![c] = (@ + n) % (SizeMax + 1)]
    BY <1>2 DEF Write
  <2>3. total[c] + n \in 0..SizeMax
    <3>1. job[c].body \in 0..SizeMax
      BY BodiesFit
    <3>2. QED
      BY <2>2, <3>1, SizesAssumption
  <2>4. (total[c] + n) % (SizeMax + 1) = sent[c] + n
    BY <2>1, <2>3, SizeT
  <2>5. pc' = pc
    BY <1>2 DEF Write
  <2>6. QED
    BY <2>1, <2>2, <2>4, <2>5
<1>3. ASSUME NEW c \in Calls, WriteFails(c) PROVE Position(d)'
  BY <1>3 DEF WriteFails, WriteBroken, InWriteLoop
<1>4. ASSUME NEW c \in Calls, PipeInput(c) \/ PipeOutput(c) \/ PipeFails(c) \/ Fork(c) \/ ForkFails(c)
      PROVE  Position(d)'
  BY <1>4 DEF PipeInput, PipeOutput, PipeFails, Fork, ForkFails
<1>5. ASSUME NEW c \in Calls, CloseInputW(c) \/ CloseOutputR(c) PROVE Position(d)'
  BY <1>5 DEF CloseInputW, CloseOutputR
<1>6. ASSUME NEW c \in Calls, EndWrite(c) \/ Read(c) \/ ReadEof(c) \/ Waitpid(c) PROVE Position(d)'
  BY <1>6 DEF EndWrite, Read, ReadEof, Waitpid
<1>7. ASSUME NEW c \in Calls, Child(c) PROVE Position(d)'
  <2>1. UNCHANGED <<pc, total, sent>>
    BY <1>7 DEF Child, ChildProgress, Redirect, Exec, ExecFails, ReadStdin, WriteStdout,
                ProgramExits, ProgramKilled
  <2>2. QED
    BY <2>1
<1>8. CASE UNCHANGED vars
  BY <1>8 DEF vars
<1>9. QED
  BY <1>2, <1>3, <1>4, <1>5, <1>6, <1>7, <1>8 DEF Next, Worker, Spawn, Transfer, Finished
-----------------------------------------------------------------------------
(* So the invariant always holds.                                          *)
LEMMA Invariance == Spec => []IInv
<1>1. IInv /\ [Next]_vars => IInv'
  BY TypesStep, CountsStep, PhasesStep, ServerHasStep, ChildHasStep, PositionStep DEF IInv
<1>2. QED
  BY <1>1, IInvInit, PTL DEF Spec

(* The types of ProcessCGI: no pipe holds more than it can, no program is  *)
(* given more than its body.                                               *)
THEOREM CgiTypes == Spec => []TypeOK
<1>1. IInv => TypeOK
  BY DEF IInv
<1>2. QED
  BY <1>1, Invariance, PTL

(* The end of the program's output means its end, whatever descriptors     *)
(* other children have inherited.                                          *)
THEOREM EndOfOutput == Spec => []EofIsExit
<1>1. IInv => EofIsExit
  BY DEF IInv, TypeOK, Phases, Counts, EofIsExit
<1>2. QED
  BY <1>1, Invariance, PTL

(* A 200 has the whole body of the request behind it, and in front of it   *)
(* the whole output of the program.                                        *)
THEOREM CompleteOk == Spec => []OkIsComplete
<1>1. ASSUME IInv, NEW c \in Calls, result[c] = "OK"
      PROVE  got[c] = job[c].body /\ res_body[c] = put[c] /\ exit[c] = "exit0"
  <2>1. cpc[c] = "reaped"
    BY <1>1 DEF IInv, TypeOK, Phases
  <2>2. exit[c] \in {"exit0", "exit1", "killed"} /\ StatusOf(exit[c]) = "OK"
    BY <1>1, <2>1 DEF IInv, TypeOK, Phases, Alive
  <2>3. exit[c] = "exit0"
    BY <2>2 DEF StatusOf
  <2>4. QED
    <3>1. inbuf[c] = 0 /\ got[c] = job[c].body
      BY <1>1, <2>1, <2>3 DEF IInv, Phases
    <3>2. put[c] = res_body[c] + inbuf[c] /\ res_body[c] \in Nat
      BY <1>1 DEF IInv, TypeOK, Counts
    <3>3. QED
      BY <2>3, <3>1, <3>2
<1>2. IInv => OkIsComplete
  BY <1>1 DEF OkIsComplete
<1>3. QED
  BY <1>2, Invariance, PTL

(* What a call leaves open, and that it leaves no zombie.                  *)
THEOREM NoOtherLeaks == Spec => []LeaksOnlyOnSpawnFailure
<1>1. ASSUME IInv, NEW c \in Calls, pc[c] = "done"
      PROVE  \/ cpc[c] = "reaped" /\ fds[Server] \cap EndsOf(c) = {}
             \/ /\ cpc[c] = "none"
                /\ \/ result[c] = "NOT_FOUND" /\ EndsOf(c) \subseteq fds[Server]
                   \/ /\ result[c] = "SERVER_ERROR"
                      /\ fds[Server] \cap EndsOf(c) \in {{}, {In(c, "r"), In(c, "w")}}
  <2>1. cpc[c] = "reaped" => fds[Server] \cap EndsOf(c) = {}
    BY <1>1 DEF IInv, ServerHas
  <2>2. cpc[c] = "none" /\ result[c] = "NOT_FOUND" => EndsOf(c) \subseteq fds[Server]
    BY <1>1 DEF IInv, ServerHas
  <2>3. cpc[c] = "none" /\ result[c] = "SERVER_ERROR" =>
          fds[Server] \cap EndsOf(c) = {} \/ fds[Server] \cap EndsOf(c) = {In(c, "r"), In(c, "w")}
    BY <1>1 DEF IInv, ServerHas, EndsOf
  <2>4. /\ cpc[c] \in {"none", "reaped"}
        /\ cpc[c] = "none" => result[c] \in {"NOT_FOUND", "SERVER_ERROR"}
    BY <1>1 DEF IInv, Phases
  <2>5. QED
    BY <2>1, <2>2, <2>3, <2>4
<1>2. IInv => LeaksOnlyOnSpawnFailure
  BY <1>1 DEF LeaksOnlyOnSpawnFailure
<1>3. QED
  BY <1>2, Invariance, PTL

(* No byte of a body enters the pipe twice: a write goes through only      *)
(* while no write has failed.                                              *)
THEOREM WritesOnce == Spec => NoResend
<1>1. IInv /\ [Next]_vars => \A c \in Calls : sent'[c] # sent[c] => total[c] = sent[c]
  <2> SUFFICES ASSUME IInv, [Next]_vars, NEW c \in Calls, sent'[c] # sent[c]
               PROVE  total[c] = sent[c]
    OBVIOUS
  <2>1. ASSUME NEW d \in Calls, Spawn(d) PROVE sent' = sent
    BY <2>1 DEF Spawn, PipeInput, PipeOutput, PipeFails, Fork, ForkFails, CloseInputW, CloseOutputR
  <2>2. ASSUME NEW d \in Calls, Transfer(d), ~Write(d) PROVE sent' = sent
    BY <2>2 DEF Transfer, WriteFails, EndWrite, Read, ReadEof, Waitpid
  <2>3. ASSUME NEW d \in Calls, Child(d) PROVE sent' = sent
    BY <2>3 DEF Child, ChildProgress, parentVars, Redirect, Exec, ExecFails, ReadStdin, WriteStdout,
                ProgramExits, ProgramKilled
  <2>4. PICK d \in Calls : Write(d)
    BY <2>1, <2>2, <2>3 DEF Next, Worker, Finished, vars, parentVars
  <2>5. d = c
    BY <2>4 DEF Write, IInv, TypeOK
  <2>6. QED
    BY <2>4, <2>5 DEF IInv, Write, InWriteLoop, Position
<1>2. QED
  BY <1>1, Invariance, PTL DEF Spec, NoResend
-----------------------------------------------------------------------------
(* Between fork and the end of the program, and between that and the       *)
(* return, nothing happens to the abstract call.                           *)
LEMMA InvisibleStep ==
  ASSUME IInv, NEW c \in Calls,
         \/ PipeInput(c) \/ PipeOutput(c) \/ CloseInputW(c) \/ CloseOutputR(c)
         \/ Write(c) \/ WriteFails(c) \/ EndWrite(c) \/ Read(c) \/ ReadEof(c)
         \/ Redirect(c) \/ Exec(c) \/ ReadStdin(c) \/ WriteStdout(c)
  PROVE  UNCHANGED Call!vars
<1> USE DEF IInv, TypeOK, StateOf, OutputOf, ResBodyOf, Goes, parentVars, childVars, pipeVars
<1>1. SUFFICES /\ exit' = exit /\ result' = result
               /\ \A e \in Calls : /\ StateOf(e)' = StateOf(e)
                                   /\ OutputOf(e)' = OutputOf(e)
                                   /\ ResBodyOf(e)' = ResBodyOf(e)
  BY DEF Call!vars
<1>2. CASE PipeInput(c) \/ PipeOutput(c) \/ CloseInputW(c) \/ CloseOutputR(c)
  BY <1>2 DEF PipeInput, PipeOutput, CloseInputW, CloseOutputR
<1>3. CASE Write(c) \/ WriteFails(c) \/ EndWrite(c) \/ ReadEof(c)
  BY <1>3 DEF Write, WriteFails, EndWrite, ReadEof
<1>4. CASE Read(c)
  BY <1>4 DEF Read
<1>5. CASE Redirect(c) \/ Exec(c) \/ ReadStdin(c)
  BY <1>5 DEF Redirect, Exec, ReadStdin
<1>6. CASE WriteStdout(c)
  <2>1. exit[c] = "none"
    BY <1>6 DEF WriteStdout, MayWrite, Runs, Phases, Alive
  <2>2. QED
    BY <1>6, <2>1 DEF WriteStdout
<1>7. QED
  BY <1>2, <1>3, <1>4, <1>5, <1>6

(* fork is the start of the abstract call, a failing pipe or fork its      *)
(* return without a program.                                               *)
LEMMA StartStep ==
  ASSUME IInv, NEW c \in Calls, Fork(c) \/ PipeFails(c) \/ ForkFails(c)
  PROVE  Call!Start(c) \/ Call!StartFails(c)
<1> USE DEF IInv, TypeOK, Goes, parentVars, childVars, pipeVars
<1>1. pc[c] \in BeforeFork /\ StateOf(c) = "starting"
  BY DEF Fork, PipeFails, ForkFails, Phases, BeforeFork, StateOf
<1>2. res_body[c] = 0
  BY <1>1 DEF Phases, Counts
<1>3. CASE Fork(c)
  <2>1. \A e \in Calls : /\ StateOf(e)' = IF e = c THEN "running" ELSE StateOf(e)
                         /\ OutputOf(e)' = OutputOf(e)
                         /\ ResBodyOf(e)' = ResBodyOf(e)
    BY <1>1, <1>3 DEF Fork, Phases, BeforeFork, StateOf, OutputOf, ResBodyOf
  <2>2. exit' = exit /\ result' = result
    BY <1>3 DEF Fork
  <2>3. Call!Start(c)
    BY <1>1, <2>1, <2>2 DEF Call!Start, Call!Goes
  <2>4. QED
    BY <2>3
<1>4. CASE PipeFails(c) \/ ForkFails(c)
  <2>1. \A e \in Calls : /\ StateOf(e)' = IF e = c THEN "returned" ELSE StateOf(e)
                         /\ OutputOf(e)' = OutputOf(e)
                         /\ ResBodyOf(e)' = ResBodyOf(e)
    BY <1>1, <1>2, <1>4 DEF PipeFails, ForkFails, StateOf, OutputOf, ResBodyOf
  <2>2. exit' = exit /\ \E code \in Call!NotStarted : result' = [result EXCEPT ![c] = code]
    BY <1>4 DEF PipeFails, ForkFails, Returns, Call!NotStarted
  <2>3. Call!StartFails(c)
    BY <1>1, <2>1, <2>2 DEF Call!StartFails, Call!Goes
  <2>4. QED
    BY <2>3
<1>5. QED
  BY <1>3, <1>4

(* However a child ends, its program ends, with the output it has written. *)
LEMMA EndStep ==
  ASSUME IInv, IInv', NEW c \in Calls, ExecFails(c) \/ ProgramExits(c) \/ ProgramKilled(c)
  PROVE  Call!ProgramEnds(c)
<1> USE DEF IInv, TypeOK, Goes, parentVars, childVars, pipeVars
<1>1. cpc[c] \in Alive
  BY DEF ExecFails, ProgramExits, ProgramKilled, MayExit, Runs, Alive
<1>2. pc[c] # "done" /\ exit[c] = "none"
  BY <1>1 DEF Phases, Alive
<1>3. /\ UNCHANGED <<pc, res_body, result>>
      /\ \A e \in Calls : e # c => put'[e] = put[e] /\ cpc'[e] = cpc[e]
      /\ \E how \in Call!Outcomes : exit' = [exit EXCEPT ![c] = how]
  BY DEF ExecFails, ProgramExits, ProgramKilled, Exits, Call!Outcomes
<1>4. \A e \in Calls : /\ StateOf(e)' = IF e = c THEN "ended" ELSE StateOf(e)
                       /\ OutputOf(e)' \in Nat
                       /\ e # c => OutputOf(e)' = OutputOf(e)
                       /\ ResBodyOf(e)' = ResBodyOf(e)
  BY <1>2, <1>3 DEF Call!Outcomes, StateOf, OutputOf, ResBodyOf
<1>5. StateOf(c) = "running"
  BY <1>1, <1>2 DEF Alive, StateOf
<1>6. Call!Goes(c, "running", "ended")
  BY <1>4, <1>5 DEF Call!Goes
<1>7. /\ [e \in Calls |-> OutputOf(e)]' \in [Calls -> Nat]
      /\ \A e \in Calls \ {c} : [d \in Calls |-> OutputOf(d)]'[e] = [d \in Calls |-> OutputOf(d)][e]
      /\ [e \in Calls |-> ResBodyOf(e)]' = [e \in Calls |-> ResBodyOf(e)]
  BY <1>4
<1>8. result' = result
  BY <1>3
<1>9. QED
  BY <1>3, <1>6, <1>7, <1>8 DEF Call!ProgramEnds

(* waitpid returns what the abstract call returns: the status of the end,  *)
(* and all of the output, of which nothing is left in the pipe.            *)
LEMMA ReturnStep ==
  ASSUME IInv, NEW c \in Calls, Waitpid(c)
  PROVE  Call!Return(c)
<1> USE DEF IInv, TypeOK, Goes, parentVars, childVars, pipeVars
<1>1. pc[c] = "wait" /\ cpc[c] = "zombie" /\ exit[c] # "none" /\ inbuf[c] = 0
  BY DEF Waitpid, Phases, Alive
<1>2. res_body[c] = put[c]
  BY <1>1 DEF Counts
<1>3. \A e \in Calls : /\ StateOf(e)' = IF e = c THEN "returned" ELSE StateOf(e)
                       /\ OutputOf(e)' = OutputOf(e)
                       /\ ResBodyOf(e)' = IF e = c THEN OutputOf(c) ELSE ResBodyOf(e)
  BY <1>1, <1>2 DEF Waitpid, StateOf, OutputOf, ResBodyOf
<1>4. exit' = exit /\ result' = [result EXCEPT ![c] = Call!StatusOf(exit[c])]
  BY DEF Waitpid, Returns, StatusOf, Call!StatusOf
<1>5. StateOf(c) = "ended"
  BY <1>1 DEF StateOf
<1>6. QED
  BY <1>3, <1>4, <1>5 DEF Call!Return, Call!Goes

(* Every step of the program is a step of an abstract call or none of it.  *)
LEMMA CallStep == IInv /\ IInv' /\ [Next]_vars => [Call!Next]_(Call!vars)
<1> SUFFICES ASSUME IInv, IInv', [Next]_vars
             PROVE  Call!Next \/ UNCHANGED Call!vars
  OBVIOUS
<1>1. CASE UNCHANGED vars
  BY <1>1 DEF vars, parentVars, childVars, pipeVars, Call!vars, StateOf, OutputOf, ResBodyOf
<1>2. ASSUME NEW c \in Calls, Worker(c) \/ Child(c)
      PROVE  Call!Next \/ UNCHANGED Call!vars
  BY <1>2, InvisibleStep, StartStep, EndStep, ReturnStep
     DEF Worker, Spawn, Transfer, Child, ChildProgress, Call!Next
<1>3. QED
  BY <1>1, <1>2 DEF Next, Finished

(* ProcessCGI implements the safety of CgiCall for any number of calls:    *)
(* at most one program for a call, and a return only after its end, with   *)
(* its status and its whole output.                                        *)
THEOREM CgiCallRefinement == Spec => Call!Spec
<1>1. Init => Call!Init
  BY DEF Init, Call!Init, StateOf, OutputOf, ResBodyOf
<1>2. QED
  BY <1>1, CallStep, Invariance, PTL DEF Spec, Call!Spec
=============================================================================
