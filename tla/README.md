# A TLA+ model of HttpSever

HttpSever is a small HTTP/1.0 server in C++: one thread accepts connections and
hands them to a pool of six worker threads; a worker reads one request, answers
it with a file under `wwwroot` or with the output of a CGI program that it
forks, and closes the connection. These modules model that server from its
source, TLC checks them on small instances, and TLAPS proves the safety of every
part and of the composed server for every instance. All paths below are relative to
the repository.

How to run it: `tlc -config X.cfg M` for the runs of PROJECT.json, `tlapm M.tla` for
the proofs, where M is `QueueLemmas`, `ThreadPoolProofs`, `HttpSeverProofs`,
`ProcessCGIProofs`, `EndPointProofs` (some minutes), `ReadLineProofs`, `FormLemmas` or
`CgiProgramProofs`.

## Inventory

| component | source | state | operations |
|---|---|---|---|
| accept loop | `HttpSever.hpp`, `main.cpp` | `sock`, the lazily built pool | `Loop`: accept, make a `Task`, `push_task`; SIGPIPE ignored |
| thread pool | `ThreadPool/threadpool.hpp`, `ThreadPool/task.hpp` | `task_queue`, `mutex`, `cond`, `instance` | `init_threadPool`, `thread_routine`, `push_task`, `thread_wait`, `thread_wakeup` |
| EndPoint, reading | `Protocol.hpp:115-219`, `tool/Util.hpp:21-56` | `request`, `stop`, the socket's unread bytes | `RecvRequestLine`, `RecvRequestHeads`, `Parse...`, `RecvReqBody`, `Util::readLine` |
| EndPoint, answering | `Protocol.hpp:335-566` | `request.path/size/cgi`, `response` with its `fd` | `BuildResponse`, `ProcessNoCGI`, `BuildOK`, `BuildError`, `SendResponse`, destructor |
| ProcessCGI | `Protocol.hpp:220-334` | two pipes, the child, `total`, `res_body` | pipe, fork, exec, write loop, read loop, waitpid |
| CGI programs | `CGI/cgi.cpp`, `CGI/connect.cpp` | parameters, the MySQL table `user` | `GetParameter`, `decode_uri`, `insert`, `main` |
| TcpSever | `TcpSever/TcpSever.hpp` | `listen_socket` | `Socket`, `Bind`, `Listen`, `GetInstance` |
| Log, Util | `log/log.hpp`, `tool/Util.hpp` | standard output, localtime's lock and result | `Log`, `cutString`, `convertTimeStamp2TimeStr` |
| not program logic | `CGI/include`, `wwwroot`, `Makefile`, `build.sh`, `output` | | vendored MySQL headers, pages, build |

**How they interact.** The accept loop and the workers share the queue under one
mutex and one condition variable. Connections travel as bare descriptor numbers:
from `accept` to the queue, to a worker's `task`, to `EndPoint::sock`, and are
closed by `~EndPoint`; the number is then free for the next `accept` or `open`.
All workers share the process's descriptor table, and every `fork` copies it
whole: a child has the pipe ends, client sockets and the listening socket that
exist at that moment. Two pipes join the worker to its child, and `waitpid` joins
their ends. The files under `wwwroot` are read by name, up to three times for
one request (stat, open, stat of the 404 page).

**What is hard.** Wake-ups against barging workers; numbers that are used again;
descriptors inherited by unrelated children; a worker and a program that wait for
each other; `ssize_t` results kept in `size_t`; what happens between stat, open
and sendfile; clients that stop sending or reading anywhere. PROJECT.json lists each hazard at its
line, with the properties that watch it.

**What makes each part correct.**

- accept loop and pool: each connection is started once, in order, while a worker
  is idle; no pop of an empty queue; no lost wake-up; each open descriptor has one owner.
- reading: the lines are those of the byte stream, however it arrives, and no byte
  beyond the empty line is taken before the body; a reader ends when its client does.
- answering: one response, to the right client, whose body has the announced length
  and fits its status; what is opened is closed, and only that.
- ProcessCGI: 200 only for a program that ended well with its whole input taken and
  its whole output collected; the child is reaped, the pipe ends are closed; it returns.
- CGI programs: a page only when the row was stored, and one row for one page; each escape of the name decoded once.
- TcpSever: success reported only for a socket that listens on the requested port.
- Log: one line per call.

## Modules

| module | models | state and actions |
|---|---|---|
| `TaskQueue` | abstract: what the pool promises | `staff`, `pending`, `serving`; Hire, Submit, Start, Finish |
| `ThreadPool` | accept loop, pool, task | the code's `task_queue`, `mutex`, each thread's place (`mpc`, `wpc`) and local (`sock`, `task`); one action per mutex operation, wait, signal, push and pop |
| `ThreadPoolProofs`, `QueueLemmas` | | invariants, refinement and their proofs; lemmas on queues |
| `ProcessCGI` | several calls of ProcessCGI in one process | descriptors per process, bytes in each pipe, the write loop's `total`; one action per system call of the worker and the child |
| `ProcessCGIProofs` | | invariants of ProcessCGI, its refinement of CgiCall, and their proofs |
| `EndPoint` | several EndPoints on one descriptor table and one site | `ep[c]` has the members of one EndPoint and the place of its worker; one action per received unit, stat, open, build, send and close |
| `EndPointProofs` | | invariants of EndPoint, its refinement of HttpExchange, and their proofs |
| `CgiCall` | abstract: what a call of ProcessCGI promises the response | Start, StartFails, ProgramEnds, Return; ProcessCGI implements it |
| `HttpExchange` | abstract: what HanderReq promises a client | Accept, Leave, Respond, SendBody, Close, Abandon; EndPoint implements it |
| `ReadLine` | readLine under RecvRequestLine and RecvRequestHeads | the stream sent so far, `pos`, `ch`, `line`, `lines`; one action per recv, peek and append |
| `ReadLineProofs` | | invariants of ReadLine and their proofs |
| `HttpSever` | the composition: TcpSever, accept loop, pool, handlers, programs, clients, kill and restart | `lsock`, the kernel's `queue`, the pool as TaskQueue, `hpc[w]` (a handler's place), `holds[p]` (the sockets a program has copies of), `leaked` |
| `HttpSeverProofs` | | invariants of HttpSever and their proofs |
| `CgiProgram` | both CGI programs, under a client that submits again | one program per try: `parameter`, `row`, `output`, `exit`; GetParameter, Calculate, the insert with its failures, the page |
| `FormLemmas`, `CgiProgramProofs` | | what encoding, cutting and decoding do to a text of any length; invariants of CgiProgram and their proofs |
| `MC...` | | the instances for TLC |

**ThreadPool.** A handler (`ProcessOn`) is one step that closes its descriptor;
between Pop and ProcessOn a worker is busy for as long as the environment likes.
GetInstance's double-checked lock is called by one thread only, so construction
is a phase of Main: threads appear one by one and run at once; `pthread_create`
may fail at any of them, after which the pool goes on with what it has. `stop`
and `states` never change and are not variables. `wait` releases the mutex and
blocks in one step, as POSIX has it; spurious wake-ups are an action.

**ProcessCGI.** Bytes are counted, not spelled out. An end of a pipe is open while
any process has it, which is what decides end of file and a failing write; a child
starts with a copy of everything the server has open and gives it up when it ends.
Writing with no reader fails with -1 (SIGPIPE is ignored), which a `size_t` holds
as `SizeMax`; `total` is counted modulo `SizeMax + 1`. The two bundled programs read
`Content_Length` bytes, write, and exit with 0; they may be killed at any moment
(the division in `cgi.cpp:70`). Two more kinds of program stand for others that the
mechanism is meant for: a filter, and a program that reads to the end of its input.
Neither the bundled programs nor these exit with 0 before they have read their input;
what OkIsComplete says of the body rests on that, since the server does not compare
what it wrote with what it had to write. `MutualWait(c)` is the wait of a program and its
server for each other, which the bundled programs never come to and the other two kinds
may. Such a program hangs with copies of the pipe ends that were open at its fork, so it
can hold up calls that are not its own: CallReturns therefore has as its premise that
*no* program and server wait for each other for ever, and CgiCall promises a return only
while no program runs.
`tzlock` is the lock inside localtime, which a child has as it was at fork.

**EndPoint.** The request is a stream of units, so that a client may stop or leave at
any point; header names, values and the separator are kept as far as
ParseRequestHeads and HaveReqBody tell them apart. `tab` is the descriptor table:
`accept` and `open` take the lowest free number and fail without one. What is sent
reaches whoever is at the other end of that number *now*. The site's files are
overwritten in place (an open file changes too) or replaced (it does not).
A connection holds `Window` bytes of a body that its client has not read; send and
sendfile go on only as it finds room, in as many steps as it takes, and a client may
read, stop reading for ever, or leave. The status line and the headers are the first
bytes on a connection and are taken to fit.
ProcessCGI is one step that may return what a call of CgiCall returns, which
ProcessCGI implements: a status with all of the output, or a failure to start. That it is
a step says that the call returns; ProcessCGI's CallReturns has the premises.
EndPoint implements HttpExchange in turn: an exchange is "answering" from SendHead
to the destructor, what has been answered ends if its client reads all it is sent or
leaves, and an endpoint that reaches the destructor without SendHead has
lost its client. CgiCall and HttpExchange have two specifications: `FairSpec`, which
the runs check the implementations to be (WF(Ends) of HttpExchange follows from the
fairness of HanderReq), and its safety part `Spec`, which the theorems state.

**ReadLine.** One byte at a time, with the peek after `\r` as an action of its own,
which waits for a byte or for the end of the stream.

**HttpSever.** Each part is taken by what it promises: the pool is an instance of
TaskQueue, a program runs and ends (CgiCall), a response with its closes is one
step, of a worker whose client reads. Before that step the client may stall
(`Stall`): the worker is then in send or sendfile until the client leaves
(`ClientGone`) or the server is killed. `Starved` is the state in which the clients that
do not send and those that do not read have all workers, or all descriptors that are
left, their sockets and the files under way to them. What is kept is what the parts share: `Used` is the set of descriptors that
connections and handlers hold, `leaked` counts those that failed calls of pipe and
fork leave open, and every step that needs a descriptor looks at both (`CanOpen`).
A program has a copy of every socket that was open at its fork (nothing is closed
on exec); a client sees the end of its connection when the last copy is gone, and
the port stays open while a program has the listening socket. Crash is the end of
the process at any moment: its programs run on, and Restart finds them. The three
steps of InitSever are actions, of which socket may fail as it likes (unless
`SocketMayFail` is FALSE) and bind fails when a program still holds the port.

**CgiProgram.** Bytes are their codes, because the properties are about what
decoding does to them. `Cut` is cutString with results that start empty, as both
callers have them; `DecodeUri` follows the loop, `HexValue` what the stream
extraction makes of two characters. A program whose server was killed is an
orphan: it runs beside the program of the next try, and the read it does not check
may find the end of the pipe, which repeats the last byte. What a browser encodes are
`Letters`: any byte that a field of one line takes but space, quote and backslash. A
request that no browser made (`Raw`) may have any bytes from which the program gets no
quote and no backslash. The database may refuse
to connect, refuse the statement, or store the row and lose the connection.

## Runs

The bounds are in the cfg files; each instance is the smallest in which the cases
named here occur.

| run | instance | what it shows |
|---|---|---|
| PoolContract | 3 workers, 3 descriptors, any number of failing `pthread_create`, down to no thread | TypeOK, PopNonEmpty, NoStrandedTask, OneOwner; the pool implements TaskQueue, and its fairness; KeepsWorkersBusy; EveryConnectionEnds (handlers that end, one thread or more). With 3 workers a woken, a barging and a sleeping one coexist, with 3 descriptors a queue of two behind a running task |
| CgiCalls | 2 calls, POST bodies of 4 bytes through pipes of 1, GET, bundled, missing and filter programs; pipe and fork may fail | EofIsExit, OkIsComplete, LeaksOnlyOnSpawnFailure, NoResend, CallReturns, ImplementsCgiCall. A body larger than the pipe is what makes the write loop wait, fail and go round; the second call is what inherits and is inherited from. 4 bytes are enough for a filter and its server to hang, so the premise of CallReturns is false of some behaviours and true of others; one that was forked between another call's fork and its close of `input[1]` keeps that call's output open, and the two hang together |
| CgiFailedExec | 1 call, another worker possibly in localtime at fork | violated: the child of a failed execl exits |
| CgiMutualWait | 1 call, a filter or a program that reads to the end | violated: the two never wait for each other. (With `Programs = {"filter"}` alone TLC finds the other wait, with four bytes of body through pipes of one) |
| EndPointShared | 2 connections, descriptors 3 to 5: the fourth request for one fails | OwnDescriptors, AnswerToItsClient |
| EndPointAnswers | 1 connection, 8 requests, 5 sites, files of 0 to 3 bytes, one change of a file at any moment | TypeOK, TakesItsRequest, WholeBody, BodyFitsLength, BodyFitsStatus, EveryRequestAnswered, EndsWhenClientLeaves, ImplementsHttpExchange: every branch of ReadRequest and BuildResponse. A file of 3 is more than one sendfile transfers (MaxSendfile = 2), and a body of 2 is more than the connection holds (Window = 1), so send and sendfile wait for a client that does not read. One change is enough to disagree with any stat that went before; the safety part also holds with three |
| EndPointMissing | 1 connection, no change of a file | violated: a missing resource is a 404 |
| ReadLineLines | every stream over `\r`, `\n` and one other byte, up to 5 bytes | LinesOfStream, HeadersEndAtBlank, LfLineReturned |
| ReadLineCr | up to 3 bytes | violated: a line that ends in `\r` is returned without another byte |
| ServerLife | 3 clients (two may stay silent, as many as there are workers, and any may stop reading), 2 workers, 1 program at a time, 8 descriptors, backlog 2, one kill | TypeOK, AcceptSurvives, AnswerUnlessKilled, NobodyWaitsForEver, EndsForTheClient, ServesAgain. With 8 descriptors two handlers in ProcessCGI and a third connection do not fit, with one process the second fork fails: both kinds of leak happen, one after the other |
| ServerReady | the same, socket never fails | violated: the accept loop starts on a socket that listens on the port (TcpSever's log lines). A restarted server whose port an orphan holds listens elsewhere |
| CgiPrograms | forms of names up to 2 and passwords up to 1 byte over `%`, `&`, `2`, `=` and a two-byte letter; every name of up to 4 bytes over `%`, `0`, `4`, `g` as a request that no browser made; texts that lack a separator; two tries | TypeOK, PageMeansRow, RetryStoresOnce, RowsAsTyped, DecodesOnce. Two tries are an orphan and its successor; four bytes are an escape, and one that overlaps it or is cut off |

Deadlock is checked except where the server really may stop: PoolContract (no
thread at all), ServerLife (a server that listens on no port of use), CgiPrograms
(the client has its page or has tried often enough) and the runs that look for a
violation.

The five violated properties are comments of the code; PROJECT.json's findings
quote them and say what the code does instead.

**Names of bounds.** `Workers`, `Socks`, `Calls`, `Conns`, `Fds` (how many of each);
`Bodies`, `MaxOut`, `Cap` (bytes); `SizeMax` (2^64-1 in the program; any value
greater than a body shows the same wrap); `MaxSize`, `MaxSendfile` (0x7ffff000 in
Linux), `Window` (the socket buffers' size); `MaxLen`; `Deploys`, `Crashes`, `MaxTries` (how often a file changes, the
server is killed, a client submits); `Programs` (the processes that the system
grants), `Backlog` (5 in TcpSever.hpp). Only ReadLine's Send, ProcessCGI's MayWrite,
EndPoint's Changes, HttpSever's Crash and CgiProgram's Submit have a bound in their
guard; `Fds`, `Programs` and `Backlog` are limits of the system, and reaching them is
part of the model.

## Fairness

- ThreadPool, FairSpec: threads that can run do run (weak fairness of each worker
  and of Main), and Main gets the mutex if it is free again and again (strong
  fairness of LockQueue): the kernel passes no blocked thread over for ever. Nothing
  is assumed of clients, handlers or spurious wake-ups. EveryConnectionEnds has as a
  premise (HandlersEnd) that handlers end, which is what the clients decide: no socket
  has a timeout.
- ProcessCGI, FairSpec: the worker and the child go on when they can. Nothing makes
  a program be killed, and programs may wait for ever. CallReturns has as a premise that
  no program and its server wait for each other for ever, which is so for the two bundled
  programs; its run leaves localtime unlocked at fork (CgiFailedExec is where it is not).
- CgiCall, FairSpec: a call whose program has ended returns if no program runs.
- EndPoint, FairSpec: the worker of each connection and the accept loop go on when they
  can, and a client that has more to send sends it. No client has to read or to leave.
  Each connection has a worker here; ThreadPool is where it may have to wait for one.
  EveryRequestAnswered is about the first byte of the response, which no client has to
  read for; EndsWhenClientLeaves has the leaving as its premise.
- HttpExchange, FairSpec: what has been answered ends if its client has read all it was
  sent, or has left.
- ReadLine, FairSpec: the worker goes on when it can. The client need not send or close.
- HttpSever, FairSpec: the server's threads go on when they can, each worker as a whole
  (its steps exclude each other), programs end (each within the call of its
  worker, or as an orphan), and a client notices the end of its connection. Nobody has to
  connect, to send, to read or to leave, and nobody has to restart a server that was
  killed. That programs end is true of the bundled two; a server that is asked for others
  may be held by them as ProcessCGI shows.

## Proofs

A theorem assumes what the module it is about assumes of its constants, by name, and
nothing else. Most invariants that the runs check are not inductive; each proof module
defines `IInv`, the strengthening that is, which TLC has found to hold in the instances
of the runs. The proof that a step keeps it has one case for each action.

**The pool.** For every set of workers (finite) and of descriptors and every `MinThreads`:

| theorem of ThreadPoolProofs | says |
|---|---|
| TypeCorrect | `Spec => []TypeOK` |
| PopsFindATask | `Spec => []PopNonEmpty` |
| NoLostWakeup | `Spec => []NoStrandedTask` |
| DescriptorOwned | `Spec => []OneOwner` |
| Refinement | `Spec => ImplementsTaskQueue` |

They assume what ThreadPool assumes of its constants: the workers are finitely many,
and the special values differ from threads and descriptors. The argument:

1. `Control` = TypeOK, PopNonEmpty, MutexInv (the owner of the mutex is the thread
   whose place says so) and LocalInv (a local holds a connection exactly where the
   code uses it) is inductive. TypeOK alone is not: a Pop of an empty queue would
   yield no descriptor, so types need PopNonEmpty, which needs mutual exclusion.
2. NoStrandedTask is preserved given Control: a push is covered by the signal to come,
   a signal turns a sleeper into a worker in flight, a pop takes one worker and one
   task, and a worker that goes to sleep has just found the queue empty under the mutex.
   The counting uses lemmas on how the set of workers in flight grows and shrinks by one.
3. OneOwner is preserved given Control: lemmas say which elements Append and Tail
   leave in a queue without repetition.
4. `IInv` = Control, NoStrandedTask and OneOwner is invariant; each of the first four
   theorems is one part of it.
5. Refinement: Accept, the mutex, the waits and the signal leave TaskQueue's state alone
   (InvisibleStep); CreateThread, Push, Pop and ProcessOn are Hire, Submit, Start and
   Finish (ContractStep). Submit needs OneOwner: what is pushed is not known to the pool.

**The composed server.** For every finite set of clients, workers and programs, and
every limit on descriptors, backlog and number of kills:

| theorem of HttpSeverProofs | says |
|---|---|
| ServerTypes | `Spec => []TypeOK`, the descriptor limit included |
| AcceptKeepsADescriptor | `Spec => []AcceptSurvives` |
| AnsweredUnlessKilled | `Spec => []AnswerUnlessKilled` |

1. AnsweredUnlessKilled needs PortIsServers: until the first kill, a program has the
   listening socket only while the server has it too. The one step that drops a
   connection besides the kill itself, the end of the last program that holds the port
   when the server does not, therefore comes after a kill.
2. The limit (`Budget`: the descriptors in use and leaked fit, and not all are leaked)
   is inductive with Owned: each connection of the pool is open and has one place in
   it. Budget alone is not: a failing ProcessCGI turns the two or four pipe ends that it
   holds into leaked ones, and what keeps the last descriptor from being leaked is that
   the handler's own connection is in use. Lemmas say how the set `Used` changes when a
   handler goes on (UsedByOthers) and how its cardinality does.

**ProcessCGI.** For any finite number of calls at once, any bodies, outputs, capacities
of a pipe and any width of `size_t` that holds the bodies:

| theorem of ProcessCGIProofs | says |
|---|---|
| CgiTypes | `Spec => []TypeOK` |
| EndOfOutput | `Spec => []EofIsExit` |
| CompleteOk | `Spec => []OkIsComplete` |
| NoOtherLeaks | `Spec => []LeaksOnlyOnSpawnFailure` |
| WritesOnce | `Spec => NoResend`, an action property |
| CgiCallRefinement | `Spec => Call!Spec` |

1. `Counts`: what went into a pipe is in it or came out. `Phases`: how far the child is
   when the worker is at a given line. Neither says who has an end open.
2. `ServerHas` and `ChildHas` do, for each end and each line. EofIsExit needs both: the
   worker reads the end of file when no process has the writing end of its pipe, and the
   child has it for as long as it lives. What other children have inherited can only delay
   it, so nothing is said of it.
3. OkIsComplete and the leaks are parts of Counts, Phases and ServerHas at "done".
4. `Position`, for NoResend: the loop's `total` is the number of bytes that went into the
   pipe, or there is no reader left. A failing write adds -1 to it, which moves the loop
   backwards; that no byte is written again rests on ReadersOnlyLeave: once nobody can
   read a pipe, nobody ever will, as only a fork of the server hands out its ends, and the
   server closed that one long before.
5. Refinement: Fork and the failures to start are CgiCall's Start and StartFails, a child's
   end is ProgramEnds, the end of waitpid is Return; all other steps are invisible.

**EndPoint.** For any set of connections, any finite set of descriptors, any requests,
sites and number of changes of the site:

| theorem of EndPointProofs | says |
|---|---|
| EndPointTypes | `Spec => []TypeOK` |
| DescriptorsOwned | `Spec => []OwnDescriptors` |
| AnswersOwnClient | `Spec => []AnswerToItsClient` |
| NoMoreThanAnnounced | `Spec => []BodyFitsLength` |
| BodyOfItsStatus | `Spec => []BodyFitsStatus` |
| WholeBodySent | `Spec => []WholeBody` |
| ExchangeRefinement | `Spec => Exchange!Spec` |

1. `OwnsBoth` and `NoneLost` relate the descriptor table to the endpoints, in both
   directions: what a member names is the endpoint's own, and what is open is named by a
   member. The second is what keeps a number that accept or open hands out from being one
   that another endpoint still uses.
2. `Members` says what path, size, status, fd and `cgi` are at each place of HanderReq,
   the detour over HELPER_ERROR included: BuildError opens the 404 page, and the size it
   announces is from a stat of its own.
3. `Response` relates these members to what the client has received; `Unchanged` says that
   before the first change of the site, what was stat'ed, opened and sent is one file.
   BodyFitsLength and BodyFitsStatus come from Response, WholeBody from Unchanged.
4. A step of one endpoint keeps all of this for the others (OthersKeep), since each of them
   owns what it uses; for the endpoint itself there is one lemma for each action.
5. Refinement: Accept, SendHead, the sends of the body and the destructor are HttpExchange's
   actions, the others leave its state alone; an endpoint reaches the destructor without
   SendHead only when its client has left (AsksOrAnswers).

**ReadLine.** For streams of any length (`MaxLen` is any number) over any bytes:

| theorem of ReadLineProofs | says |
|---|---|
| ReadLineTypes | `Spec => []TypeOK` |
| LinesAreThoseOfTheStream | `Spec => []LinesOfStream` |
| BodyBeginsBehindBlank | `Spec => []HeadersEndAtBlank` |

Both properties speak of the k-th line end of what has been sent so far, which is more
with every step of the client, and a `\r` at the end of it is a line end only until a
`\n` follows. So `Returned` says that every line end that was used is settled: it is a
`\n`, or something follows it, or nothing ever will. `Taken` says what the current line
and position are since the last of them. The lemmas EndIsUnique and NextEnd count line
ends up to a position, and SendKeepsEnds is the step of the client. BodyBeginsBehindBlank
is about bytes: the position never passes the end of the first empty line, and is there
when the body begins. The blanks at or before the last line end that was used are among
the lines returned (BlankAmongReturned), of which only the last one may be blank, and then
the worker is at the body (BlankIsLast of the invariant); beyond that there is no line end
as far as the worker has come (NoEndInLine).

**CgiProgram.** For any forms of letters, any requests without quote and backslash, and any
number of tries:

| theorem of CgiProgramProofs | says |
|---|---|
| ProgramTypes | `Spec => []TypeOK` |
| PageOnlyWithRow | `Spec => []PageMeansRow` |
| StoredOnce | `Spec => []RetryStoresOnce` |
| StoredAsTyped | `Spec => []RowsAsTyped` |
| NameDecodedOnce | `Spec => []DecodesOnce` |

1. `Course` is one program's way through its code, `Passed` what a program has read when
   its server lived. `Waiting` relates the tries to the client: all but the last are over,
   or are orphans. `StoredLast`: a row that no failure explains belongs to the last try,
   and a page is on its way. RetryStoresOnce alone is not inductive, as it says nothing of
   a program whose row is stored and whose page is not yet sent.
2. RowsAsTyped needs that the programs undo what the browser did. DecodeEncode of
   FormLemmas states it for every text of bytes: DecodeUri(Encode(s)) = s; FormIsRead adds that
   cutString finds the separators, since no encoded text contains one. The induction is
   over a set of numbers (Induct, from the well-foundedness of `<` on the naturals), for a
   predicate cannot be passed to the library's theorem. DecodeUri and the folds of Encode
   are recursive functions: lemmas first show that there is a function with the recursive
   equation, by extending one that has it for n places to n + 1.
3. DecodesOnce compares decode_uri with a reference that is not a loop: the escapes of a
   text are the set of places that begin one and that no other escape covers, and a place
   is kept unless it is a digit of an escape. EscapesExist shows that there is such a set
   for every text, RankExists that the kept places can be counted through, KeptFollows
   that decode_uri's loop goes from each to the next; DecodesLikeReference puts them
   together.

**Model-checked only.** TakesItsRequest, and all liveness (KeepsWorkersBusy,
EveryConnectionEnds, CallReturns, EveryRequestAnswered, EndsWhenClientLeaves, LfLineReturned, NobodyWaitsForEver,
EndsForTheClient, ServesAgain) and the fairness in the three refinements: the prover has
no ENABLED. No theorem says what Atoi computes, as no property speaks of the number.

## Not modelled

- The vendored MySQL headers under `CGI/include`: 20 000 of the repository's 21 400
  lines. They declare the client library, of which `connect.cpp` calls five functions
  (modelled by what the caller sees of them); the server's own code is about 1 160
  lines, so the share of all lines that the modules stand for stays small.
- The text of request lines and headers beyond what routing and lengths tell apart;
  Content-Type and suffixes; the words of the response and of the page.
- `Log` and `convertTimeStamp2TimeStr`: nothing reads the log, and its lines may mix.
  Only localtime's lock matters to other state, and ProcessCGI has it.
- Resets that destroy a response because request bytes were left unread: they are
  left unread in EndPoint, what TCP then does is not modelled.
- `recv`, `send` and `sendfile` failing for other reasons than the client's leaving. The
  headers' sends never wait in EndPoint; in HttpSever they count as part of the response.
- Descriptor 0: nothing closes the listening socket, which is opened before any file, so
  no later `open` can return 0; EndPoint takes descriptors to be greater than 0.
- In CgiProgram: names and passwords with a quote or a backslash, which become part of the
  SQL text (`connect.cpp:117-121`); spaces, which a browser sends as `+` and the program
  keeps so. TypedAssumption and RawAssumption exclude them. Numbers that an `int` does not
  hold.
- A program that exits with 0 before it has read its input (see ProcessCGI).
- A power failure or a full disk; two servers started on one port.

## Plan

Done: the pool with its contract and proofs; ProcessCGI and CgiCall; EndPoint and HttpExchange;
ReadLine; the composition HttpSever with start and restart, and its first proofs;
CgiProgram; the proof of every safety property that a passing run checks, but TakesItsRequest. Left, in this
order:

1. TakesItsRequest as a theorem.
2. EndPoint's ProcessCGI step as an instance of CgiCall, and the proofs kept.
3. That a handler of HttpSever, its programs and its client are an HttpExchange: the
   composition takes that from EndPoint so far without saying it in a formula.
