-------------------------- MODULE HttpSeverProofs --------------------------
(***************************************************************************)
(* What HttpSever promises for every number of clients, workers, programs  *)
(* and descriptors: its type invariant with the limit on descriptors, that *)
(* failing calls of pipe and fork never leak the descriptor that accept    *)
(* needs, and that only the end of the process costs a client its answer.  *)
(***************************************************************************)
EXTENDS HttpSever, QueueLemmas, FiniteSetTheorems, SequenceTheorems, TLAPS

(* TypeOK but for the limit on descriptors, which needs the invariants     *)
(* below.                                                                  *)
Types ==
  /\ lpc \in {"down", "socket", "bind", "listen", "accept"}
  /\ lsock \in {"none", "unbound", "bound", "port", "other"}
  /\ queue \in Seq(Clients) /\ Len(queue) <= Backlog
  /\ wants \in [Clients -> {"silent", "unread", "left", "page", "program"}]
  /\ phase \in [Clients -> {"away", "queued", "held", "closed"}]
  /\ outcome \in [Clients -> {"none", "answer", "dropped"}]
  /\ staff = Workers /\ pending \in Seq(Clients)
  /\ serving \in [Workers -> Clients \cup {NoClient}]
  /\ hpc \in [Workers -> {"read", "open", "pipe_input", "pipe_output", "fork", "wait",
                          "send", "sendfile"}]
  /\ running \subseteq Programs
  /\ caller \in [Programs -> Workers \cup {NoWorker}]
  /\ holds \in [Programs -> SUBSET (Clients \cup {Port})]
  /\ leaked \in Nat
  /\ crashes \in 0..Crashes

(* Types holds initially and is preserved by every step.                   *)
LEMMA TypesInit == Init => Types
BY EmptySeq, BoundsAssumption DEF Init, Types

(* No step of the server, its clients or its programs leaves the types.    *)
LEMMA TypesStep == Types /\ [Next]_vars => Types'
<1> SUFFICES ASSUME Types, [Next]_vars PROVE Types'
  OBVIOUS
<1> USE DistinctAssumption, BoundsAssumption
    DEF Types, bootVars, clientVars, poolVars, progVars
<1>1. CASE Socket \/ Bind \/ Listen
  BY <1>1 DEF Socket, Bind, Listen, Boots
<1>2. CASE Accept
  <2>1. Head(queue) \in Clients /\ Tail(queue) \in Seq(Clients)
        /\ Len(Tail(queue)) <= Backlog
    BY <1>2, HeadTailProperties DEF Accept
  <2>2. pending' = Append(pending, Head(queue)) /\ staff' = staff /\ serving' = serving
    BY <1>2 DEF Accept, Pool!Submit
  <2>3. pending' \in Seq(Clients)
    BY <2>1, <2>2, AppendProperties
  <2>4. QED
    BY <1>2, <2>1, <2>2, <2>3 DEF Accept
<1>3. CASE Crash
  <2>1. queue' \in Seq(Clients) /\ Len(queue') <= Backlog /\ pending' \in Seq(Clients)
    BY <1>3, EmptySeq DEF Crash
  <2>2. QED
    BY <1>3, <2>1 DEF Crash
<1>4. CASE Restart
  BY <1>4 DEF Restart
<1>5. ASSUME NEW c \in Clients, Connect(c) PROVE Types'
  <2>1. queue' \in Seq(Clients) /\ Len(queue') <= Backlog
    BY <1>5, AppendProperties DEF Connect
  <2>2. PICK what \in Wants[c] : wants' = [wants EXCEPT ![c] = what]
    BY <1>5 DEF Connect
  <2>3. what \in {"silent", "page", "program"}
    BY WantsAssumption
  <2>4. QED
    BY <1>5, <2>1, <2>2, <2>3 DEF Connect
<1>6. ASSUME NEW c \in Clients, Stall(c) \/ Leave(c) \/ SeesEnd(c) PROVE Types'
  BY <1>6 DEF Stall, Leave, Changes, SeesEnd
<1>7. ASSUME NEW p \in Programs, ProgramEnds(p) PROVE Types'
  <2>1. CASE QueueDropped
    <3>1. queue' \in Seq(Clients) /\ Len(queue') <= Backlog
      BY <2>1, EmptySeq DEF QueueDropped
    <3>2. QED
      BY <1>7, <2>1, <3>1 DEF ProgramEnds, QueueDropped
  <2>2. CASE UNCHANGED <<queue, outcome, phase>>
    BY <1>7, <2>2 DEF ProgramEnds
  <2>3. QED
    BY <1>7, <2>1, <2>2 DEF ProgramEnds
<1>8. ASSUME NEW w \in Workers, Handler(w) PROVE Types'
  <2>1. CASE Start(w)
    <3>1. /\ pending # <<>> /\ staff' = staff /\ pending' = Tail(pending)
          /\ serving' = [serving EXCEPT ![w] = Head(pending)]
      BY <2>1 DEF Start, Pool!Start
    <3>2. Head(pending) \in Clients /\ pending' \in Seq(Clients)
      BY <3>1, HeadTailProperties
    <3>3. QED
      BY <2>1, <3>1, <3>2 DEF Start
  <2>2. CASE ReadRequest(w) \/ Open(w) \/ PipeInput(w) \/ PipeOutput(w) \/ Waitpid(w)
    BY <2>2 DEF ReadRequest, Open, PipeInput, PipeOutput, Waitpid, Goes, Handles
  <2>3. CASE Fork(w)
    BY <2>3 DEF Fork, Goes, Handles, Held
  <2>4. CASE ForkFails(w)
    BY <2>4 DEF ForkFails, Goes, Handles
  <2>5. CASE SendResponse(w) \/ ClientGone(w)
    <3>1. PICK to \in {"closed", "away"} : Deletes(w, serving[w], to) /\ leaked' = leaked
      BY <2>5 DEF SendResponse, ClientGone
    <3>2. outcome' \in [Clients -> {"none", "answer", "dropped"}]
      BY <2>5 DEF SendResponse, ClientGone
    <3>3. holds' \in [Programs -> SUBSET (Clients \cup {Port})]
      BY <2>5 DEF SendResponse, ClientGone
    <3>4. QED
      BY <3>1, <3>2, <3>3 DEF Deletes, Pool!Finish
  <2>6. QED
    BY <1>8, <2>1, <2>2, <2>3, <2>4, <2>5 DEF Handler
<1>9. CASE UNCHANGED vars
  BY <1>9 DEF vars
<1>10. QED
  BY <1>1, <1>2, <1>3, <1>4, <1>5, <1>6, <1>7, <1>8, <1>9 DEF Next, Boot
-----------------------------------------------------------------------------
(* Until the server is first killed, nothing but the server itself keeps   *)
(* the port open.                                                          *)
PortIsServers == /\ lsock = "port" => lpc = "accept"
                 /\ \A p \in Programs : Port \in holds[p] => lsock = "port" \/ crashes > 0

(* A program gets the port from a server that listens, and the server      *)
(* gives it up only when it is killed.                                     *)
LEMMA PortIsServersStep == Types /\ PortIsServers /\ [Next]_vars => PortIsServers'
<1> SUFFICES ASSUME Types, PortIsServers, [Next]_vars PROVE PortIsServers'
  OBVIOUS
<1> USE DistinctAssumption DEF Types, PortIsServers, bootVars, clientVars, poolVars, progVars
<1>1. CASE Socket \/ Bind \/ Listen
  BY <1>1 DEF Socket, Bind, Listen, Boots
<1>2. CASE Accept \/ Restart
  BY <1>2 DEF Accept, Restart
<1>3. CASE Crash
  BY <1>3 DEF Crash
<1>4. ASSUME NEW c \in Clients, Connect(c) \/ Stall(c) \/ Leave(c) \/ SeesEnd(c)
      PROVE  PortIsServers'
  BY <1>4 DEF Connect, Stall, Leave, Changes, SeesEnd
<1>5. ASSUME NEW p \in Programs, ProgramEnds(p) PROVE PortIsServers'
  BY <1>5 DEF ProgramEnds
<1>6. ASSUME NEW w \in Workers, Handler(w) PROVE PortIsServers'
  <2>1. CASE Fork(w)
    BY <2>1 DEF Fork, Goes, Handles, Held
  <2>2. CASE Start(w) \/ ReadRequest(w) \/ Open(w) \/ PipeInput(w) \/ PipeOutput(w)
             \/ ForkFails(w) \/ Waitpid(w)
    BY <2>2 DEF Start, ReadRequest, Open, PipeInput, PipeOutput, ForkFails, Waitpid, Handles
  <2>3. CASE SendResponse(w) \/ ClientGone(w)
    BY <2>3 DEF SendResponse, ClientGone, Deletes
  <2>4. QED
    BY <1>6, <2>1, <2>2, <2>3 DEF Handler
<1>7. CASE UNCHANGED vars
  BY <1>7 DEF vars
<1>8. QED
  BY <1>1, <1>2, <1>3, <1>4, <1>5, <1>6, <1>7 DEF Next, Boot

(* A connection is dropped by a crash, or when the last program that holds *)
(* the port ends: then there was a crash before.                           *)
LEMMA AnswerUnlessKilledStep ==
  Types /\ PortIsServers /\ AnswerUnlessKilled /\ [Next]_vars => AnswerUnlessKilled'
<1> SUFFICES ASSUME Types, PortIsServers, AnswerUnlessKilled, [Next]_vars
             PROVE  AnswerUnlessKilled'
  OBVIOUS
<1> USE DEF Types, AnswerUnlessKilled, bootVars, clientVars, poolVars, progVars
<1>1. CASE Socket \/ Bind \/ Listen \/ Accept \/ Restart
  BY <1>1 DEF Socket, Bind, Listen, Boots, Accept, Restart
<1>2. CASE Crash
  BY <1>2 DEF Crash
<1>3. ASSUME NEW c \in Clients, Connect(c) \/ Stall(c) \/ Leave(c) \/ SeesEnd(c)
      PROVE  AnswerUnlessKilled'
  BY <1>3 DEF Connect, Stall, Leave, Changes, SeesEnd
<1>4. ASSUME NEW p \in Programs, ProgramEnds(p) PROVE AnswerUnlessKilled'
  <2>1. CASE outcome' = outcome
    BY <1>4, <2>1 DEF ProgramEnds
  <2>2. CASE PortOpen /\ lsock # "port"
    BY <1>4, <2>2 DEF PortOpen, HeldByPrograms, PortIsServers, ProgramEnds
  <2>3. QED
    BY <1>4, <2>1, <2>2 DEF ProgramEnds
<1>5. ASSUME NEW w \in Workers, Handler(w) PROVE AnswerUnlessKilled'
  <2>1. CASE Start(w) \/ ReadRequest(w) \/ Open(w) \/ PipeInput(w) \/ PipeOutput(w)
             \/ Fork(w) \/ ForkFails(w) \/ Waitpid(w)
    BY <2>1 DEF Start, ReadRequest, Open, PipeInput, PipeOutput, Fork, ForkFails, Waitpid, Handles
  <2>2. CASE SendResponse(w) \/ ClientGone(w)
    BY <2>2 DEF SendResponse, ClientGone, Deletes
  <2>3. QED
    BY <1>5, <2>1, <2>2 DEF Handler
<1>6. CASE UNCHANGED vars
  BY <1>6 DEF vars
<1>7. QED
  BY <1>1, <1>2, <1>3, <1>4, <1>5, <1>6 DEF Next, Boot

(* Neither the limit on descriptors nor the one on processes ever costs a  *)
(* client its answer.                                                      *)
THEOREM AnsweredUnlessKilled == Spec => []AnswerUnlessKilled
<1>1. Init => Types /\ PortIsServers /\ AnswerUnlessKilled
  BY TypesInit DEF Init, PortIsServers, AnswerUnlessKilled
<1>2. Types /\ PortIsServers /\ AnswerUnlessKilled /\ [Next]_vars
        => (Types /\ PortIsServers /\ AnswerUnlessKilled)'
  BY TypesStep, PortIsServersStep, AnswerUnlessKilledStep
<1>3. QED
  BY <1>1, <1>2, PTL DEF Spec
-----------------------------------------------------------------------------
(* Every connection of the pool is open and has one place in it, and an    *)
(* idle worker is at the beginning of its handler.                         *)
Owned ==
  /\ NoRepeat(pending)
  /\ \A c \in Elements(pending) : phase[c] = "held" /\ \A w \in Workers : serving[w] # c
  /\ \A w \in Workers : serving[w] # NoClient => phase[serving[w]] = "held"
  /\ \A v, w \in Workers : serving[v] = serving[w] /\ serving[w] # NoClient => v = w
  /\ \A w \in Workers : serving[w] = NoClient => hpc[w] = "read"

(* A connection that is not held is in no place of the pool.               *)
LEMMA OwnedAreHeld ==
  ASSUME Owned, NEW c \in Clients, phase[c] # "held"
  PROVE  c \notin Elements(pending) /\ \A w \in Workers : serving[w] # c
BY DistinctAssumption DEF Owned

(* What waits in the pool's queue is a client's connection.                *)
LEMMA PendingAreClients == Types => Elements(pending) \subseteq Clients
BY LenProperties DEF Types, Elements

(* Initially the pool is empty.                                            *)
LEMMA OwnedInit == Init => Owned
BY DistinctAssumption DEF Init, Owned, NoRepeat, Elements

(* Connections enter the pool by Accept, move by Start and leave when they *)
(* are closed, or with the process.                                        *)
LEMMA OwnedStep == Types /\ Owned /\ [Next]_vars => Owned'
<1> SUFFICES ASSUME Types, Owned, [Next]_vars PROVE Owned'
  OBVIOUS
<1> USE DistinctAssumption DEF Types, bootVars, clientVars, poolVars, progVars
<1>a. Elements(pending) \subseteq Clients
  BY PendingAreClients
<1>1. CASE UNCHANGED <<pending, serving, phase, hpc>>
  BY <1>1 DEF Owned, Elements, NoRepeat
<1>2. CASE Accept
  <2> DEFINE c == Head(queue)
  <2>1. c \in Clients
    BY <1>2, HeadTailProperties DEF Accept
  <2>2. /\ pending' = Append(pending, c) /\ serving' = serving /\ hpc' = hpc
        /\ phase' = [phase EXCEPT ![c] = "held"]
        /\ ~Pool!Known(c)
    BY <1>2 DEF Accept, Pool!Submit
  <2> HIDE DEF c
  <2>3. c \notin Elements(pending) /\ \A w \in Workers : serving[w] # c
    BY <2>2 DEF Pool!Known, Elements
  <2>4. Elements(pending') = Elements(pending) \cup {c} /\ NoRepeat(pending')
    BY <2>1, <2>2, <2>3, ElementsAppend DEF Owned
  <2>5. \A d \in Clients : phase[d] = "held" => phase'[d] = "held"
    BY <2>2
  <2>6. \A d \in Elements(pending') : phase'[d] = "held" /\ \A w \in Workers : serving'[w] # d
    BY <2>1, <2>2, <2>3, <2>4 DEF Owned
  <2>7. \A w \in Workers : serving'[w] # NoClient => phase'[serving'[w]] = "held"
    BY <2>2, <2>5 DEF Owned
  <2>8. QED
    BY <2>2, <2>4, <2>6, <2>7 DEF Owned
<1>3. CASE Crash
  BY <1>3 DEF Crash, Owned, Elements, NoRepeat
<1>4. ASSUME NEW c \in Clients, phase[c] # "held",
             UNCHANGED <<pending, serving, hpc>>,
             NEW to, phase' = [phase EXCEPT ![c] = to]
      PROVE  Owned'
  <2>1. Elements(pending') = Elements(pending) /\ NoRepeat(pending')
    BY <1>4 DEF Owned, Elements, NoRepeat
  <2>2. c \notin Elements(pending) /\ \A w \in Workers : serving[w] # c
    BY <1>4, OwnedAreHeld
  <2>3. QED
    BY <1>4, <2>1, <2>2 DEF Owned
<1>5. ASSUME NEW c \in Clients, Connect(c) \/ SeesEnd(c) PROVE Owned'
  <2>1. CASE Connect(c)
    BY <1>4, <2>1 DEF Connect
  <2>2. CASE SeesEnd(c)
    BY <1>4, <2>2 DEF SeesEnd
  <2>3. QED
    BY <1>5, <2>1, <2>2
<1>6. ASSUME NEW p \in Programs, ProgramEnds(p) PROVE Owned'
  <2>1. UNCHANGED <<pending, serving, hpc>>
    BY <1>6 DEF ProgramEnds
  <2>2. \A c \in Clients : phase[c] = "held" => phase'[c] = "held"
    BY <1>6 DEF ProgramEnds, QueueDropped
  <2>3. Elements(pending') = Elements(pending) /\ NoRepeat(pending')
    BY <2>1 DEF Owned
  <2>4. QED
    BY <1>a, <2>1, <2>2, <2>3 DEF Owned
<1>7. ASSUME NEW w \in Workers, Start(w) PROVE Owned'
  <2> DEFINE c == Head(pending)
  <2>1. /\ serving[w] = NoClient /\ pending # <<>>
        /\ serving' = [serving EXCEPT ![w] = c] /\ pending' = Tail(pending)
        /\ phase' = phase /\ hpc' = hpc
    BY <1>7 DEF Start, Pool!Start, Pool!Idle
  <2>2. c \in Clients
    BY <2>1, HeadTailProperties
  <2>3. /\ c \in Elements(pending) /\ Elements(pending') = Elements(pending) \ {c}
        /\ NoRepeat(pending')
    BY <2>1, ElementsTail DEF Owned
  <2> HIDE DEF c
  <2>4. phase[c] = "held" /\ \A v \in Workers : serving[v] # c
    BY <2>3 DEF Owned
  <2>5. QED
    BY <2>1, <2>2, <2>3, <2>4 DEF Owned
<1>8. ASSUME NEW w \in Workers, NEW from, NEW to, Goes(w, from, to), Handles(w)
      PROVE  Owned'
  <2>1. UNCHANGED <<pending, serving, phase>> /\ serving[w] # NoClient
        /\ hpc' = [hpc EXCEPT ![w] = to]
    BY <1>8 DEF Goes, Handles
  <2>2. Elements(pending') = Elements(pending) /\ NoRepeat(pending')
    BY <2>1 DEF Owned
  <2>3. QED
    BY <2>1, <2>2 DEF Owned
<1>9. ASSUME NEW w \in Workers, SendResponse(w) \/ ClientGone(w) PROVE Owned'
  <2> DEFINE c == serving[w]
  <2>1. PICK to : /\ serving[w] # NoClient
                  /\ serving' = [serving EXCEPT ![w] = NoClient] /\ pending' = pending
                  /\ hpc' = [hpc EXCEPT ![w] = "read"]
                  /\ phase' = [phase EXCEPT ![c] = to]
    BY <1>9 DEF SendResponse, ClientGone, Deletes, Pool!Finish
  <2>2. c \in Clients
    BY <2>1
  <2> HIDE DEF c
  <2>3. Elements(pending') = Elements(pending) /\ NoRepeat(pending')
    BY <2>1 DEF Owned
  <2>4. c \notin Elements(pending) /\ \A v \in Workers : v # w => serving[v] # c
    BY <2>1 DEF Owned, c
  <2>5. /\ \A d \in Elements(pending') : phase'[d] = "held" /\ \A v \in Workers : serving'[v] # d
        /\ \A v \in Workers : serving'[v] # NoClient => v # w /\ serving'[v] = serving[v]
    BY <1>a, <2>1, <2>2, <2>3, <2>4 DEF Owned
  <2>6. \A v \in Workers : serving'[v] # NoClient => phase'[serving'[v]] = "held"
    BY <2>1, <2>2, <2>4, <2>5 DEF Owned
  <2>7. QED
    BY <2>1, <2>3, <2>5, <2>6 DEF Owned
<1>10. ASSUME NEW w \in Workers, Handler(w) PROVE Owned'
  <2>1. CASE ReadRequest(w) \/ Open(w) \/ PipeInput(w) \/ PipeOutput(w)
             \/ Fork(w) \/ ForkFails(w) \/ Waitpid(w)
    <3>1. Handles(w) /\ \E from, to : Goes(w, from, to)
      BY <2>1 DEF ReadRequest, Open, PipeInput, PipeOutput, Fork, ForkFails, Waitpid
    <3>2. QED
      BY <1>8, <3>1
  <2>2. QED
    BY <1>7, <1>9, <1>10, <2>1 DEF Handler
<1>11. CASE Socket \/ Bind \/ Listen \/ Restart \/ (\E c \in Clients : Stall(c) \/ Leave(c))
           \/ UNCHANGED vars
  BY <1>1, <1>11 DEF Socket, Bind, Listen, Boots, Restart, Stall, Leave, Changes, vars
<1>12. QED
  BY <1>2, <1>3, <1>5, <1>6, <1>10, <1>11 DEF Next, Boot
-----------------------------------------------------------------------------
(* The descriptors in use are finitely many.                               *)
LEMMA UsedFinite == IsFiniteSet(Used) /\ Cardinality(Used) \in Nat
<1> DEFINE conns == Clients \X {0}
           files == Workers \X (1..4)
<1>1. IsFiniteSet(conns)
  BY FiniteAssumption, FS_Singleton, FS_Product
<1>2. IsFiniteSet(files)
  <2>1. 1 \in Int /\ 4 \in Int
    OBVIOUS
  <2>2. IsFiniteSet(1..4)
    BY <2>1, FS_Interval
  <2>3. QED
    BY <2>2, FiniteAssumption, FS_Product
<1>3. IsFiniteSet(conns \cup files)
  BY <1>1, <1>2, FS_Union
<1>4. Used \subseteq conns \cup files
  BY DEF Used, Held
<1>5. IsFiniteSet(Used)
  BY <1>3, <1>4, FS_Subset
<1>6. QED
  BY <1>5, FS_CardinalityType

(* A handler that goes on gives up or takes descriptors of its own, and    *)
(* nobody else does.                                                       *)
LEMMA UsedByOthers ==
  ASSUME Types, NEW w \in Workers, NEW from, NEW to, Goes(w, from, to), phase' = phase
  PROVE  /\ Used' \ {<<w, n>> : n \in 1..4} = Used \ {<<w, n>> : n \in 1..4}
         /\ \A n \in 1..4 : /\ <<w, n>> \in Used <=> n <= Opened(w)
                            /\ <<w, n>> \in Used' <=> n <= Opened(w)'
<1>1. Held' = Held
  BY DEF Held
<1>2. \A v \in Workers : v # w => Opened(v)' = Opened(v)
  BY DEF Goes, Opened, Types
<1> DEFINE own == {<<w, n>> : n \in 1..4}
<1>3. \A v \in Workers, n \in 1..4 : <<v, n>> \in Used <=> n <= Opened(v)
  BY DEF Used
<1>4. \A v \in Workers, n \in 1..4 : <<v, n>> \in Used' <=> n <= Opened(v)'
  BY DEF Used
<1>5. ASSUME NEW d, d \notin own PROVE d \in Used' <=> d \in Used
  <2>1. CASE d \in Held \X {0}
    BY <1>1, <2>1 DEF Used
  <2>2. CASE d \in Workers \X (1..4)
    <3>1. PICK v \in Workers, n \in 1..4 : d = <<v, n>>
      BY <2>2
    <3>2. v # w
      BY <1>5, <3>1
    <3>3. QED
      BY <1>2, <1>3, <1>4, <3>1, <3>2
  <2>3. CASE d \notin (Held \X {0}) \cup (Workers \X (1..4))
    BY <1>1, <2>3 DEF Used
  <2>4. QED
    BY <2>1, <2>2, <2>3
<1>6. QED
  BY <1>3, <1>4, <1>5

(* A descriptor more changes the count by no more than one.                *)
LEMMA CountTakesOne ==
  ASSUME NEW a, Used' \subseteq Used \cup {a}
  PROVE  Cardinality(Used') \in Nat /\ Cardinality(Used') <= Cardinality(Used) + 1
<1>1. /\ IsFiniteSet(Used \cup {a})
      /\ Cardinality(Used \cup {a}) \in Nat
      /\ Cardinality(Used \cup {a}) <= Cardinality(Used) + 1
  BY UsedFinite, FS_AddElement, FS_CardinalityType
<1>2. /\ IsFiniteSet(Used') /\ Cardinality(Used') \in Nat
      /\ Cardinality(Used') <= Cardinality(Used \cup {a})
  BY <1>1, FS_Subset, FS_CardinalityType
<1>3. QED
  BY <1>1, <1>2, UsedFinite

(* The same of two descriptors, for a pipe.                                *)
LEMMA CountTakesTwo ==
  ASSUME NEW a, NEW b, Used' \subseteq Used \cup {a, b}
  PROVE  Cardinality(Used') \in Nat /\ Cardinality(Used') <= Cardinality(Used) + 2
<1> DEFINE V == Used \cup {a}
           U == V \cup {b}
<1>1. IsFiniteSet(V) /\ Cardinality(V) \in Nat /\ Cardinality(V) <= Cardinality(Used) + 1
  BY UsedFinite, FS_AddElement, FS_CardinalityType
<1>2. Used' \subseteq U
  OBVIOUS
<1> HIDE DEF V
<1>3. IsFiniteSet(U) /\ Cardinality(U) <= Cardinality(V) + 1
  BY <1>1, FS_AddElement
<1> HIDE DEF U
<1>4. Cardinality(U) \in Nat
  BY <1>3, FS_CardinalityType
<1>5. IsFiniteSet(Used') /\ Cardinality(Used') <= Cardinality(U)
  BY <1>2, <1>3, FS_Subset
<1>6. Cardinality(Used') \in Nat
  BY <1>5, FS_CardinalityType
<1>7. QED
  BY <1>1, <1>3, <1>4, <1>5, <1>6, UsedFinite

(* Two elements less are two less to count.                                *)
LEMMA CountGivesTwo ==
  ASSUME NEW S, IsFiniteSet(S), NEW a \in S, NEW b \in S, a # b
  PROVE  /\ IsFiniteSet(S \ {a, b})
         /\ Cardinality(S \ {a, b}) = Cardinality(S) - 2
<1>1. /\ IsFiniteSet(S \ {a})
      /\ Cardinality(S \ {a}) = Cardinality(S) - 1
  BY FS_RemoveElement
<1>2. b \in S \ {a} /\ S \ {a, b} = (S \ {a}) \ {b}
  OBVIOUS
<1>3. /\ IsFiniteSet(S \ {a, b})
      /\ Cardinality(S \ {a, b}) = Cardinality(S \ {a}) - 1
  BY <1>1, <1>2, FS_RemoveElement
<1>4. Cardinality(S) \in Nat
  BY FS_CardinalityType
<1>5. QED
  BY <1>1, <1>3, <1>4

(* A set that shrinks does not count more.                                 *)
LEMMA CountShrinks ==
  ASSUME Used' \subseteq Used
  PROVE  Cardinality(Used') \in Nat /\ Cardinality(Used') <= Cardinality(Used)
BY UsedFinite, FS_Subset, FS_CardinalityType

(* The limit is kept, and a leak leaves the connection's own descriptor    *)
(* out: a handler that leaks still holds it.                               *)
Budget == CanOpen(0) /\ AcceptSurvives

(* Initially no descriptor is in use.                                      *)
LEMMA BudgetInit == Init => Budget
<1> SUFFICES ASSUME Init PROVE Budget
  OBVIOUS
<1>1. Used = {}
  BY DEF Init, Used, Held, Opened
<1>2. Cardinality(Used) = 0
  BY <1>1, FS_EmptySet
<1>3. QED
  BY <1>2, BoundsAssumption DEF Init, Budget, CanOpen, AcceptSurvives

(* Every step that opens a descriptor has found one free, and every step   *)
(* that leaks gives up as many as it leaks.                                *)
LEMMA BudgetStep == Types /\ Owned /\ Budget /\ [Next]_vars => Budget'
<1> SUFFICES ASSUME Types, Owned, Budget, [Next]_vars PROVE Budget'
  OBVIOUS
<1> USE BoundsAssumption DEF bootVars, clientVars, poolVars, progVars
<1>a. leaked \in Nat /\ Fds \in Nat \ {0} /\ Cardinality(Used) \in Nat
  BY UsedFinite DEF Types
<1>b. Cardinality(Used) + leaked <= Fds /\ leaked < Fds
  BY <1>a DEF Budget, CanOpen, AcceptSurvives
<1>1. ASSUME Used' \subseteq Used, leaked' \in {0, leaked} PROVE Budget'
  BY <1>1, <1>a, <1>b, CountShrinks DEF Budget, CanOpen, AcceptSurvives
<1>2. ASSUME Cardinality(Used') \in Nat, Cardinality(Used') + leaked <= Fds, leaked' = leaked
      PROVE  Budget'
  BY <1>2, <1>a, <1>b DEF Budget, CanOpen, AcceptSurvives
<1>3. CASE UNCHANGED <<phase, hpc, leaked>>
  <2>1. Used' = Used
    BY <1>3 DEF Used, Held, Opened
  <2>2. QED
    BY <1>1, <1>3, <2>1
<1>4. ASSUME UNCHANGED <<hpc, leaked>>,
             \A c \in Clients : phase'[c] = "held" => phase[c] = "held"
      PROVE  Budget'
  <2>1. Used' \subseteq Used
    BY <1>4 DEF Used, Held, Opened
  <2>2. QED
    BY <1>1, <1>4, <2>1
<1>5. CASE Accept
  <2> DEFINE c == Head(queue)
  <2>1. /\ phase' = [phase EXCEPT ![c] = "held"] /\ UNCHANGED <<hpc, leaked>>
        /\ Cardinality(Used) + leaked + 1 <= Fds
    BY <1>5 DEF Accept, CanOpen
  <2>2. Used' \subseteq Used \cup {<<c, 0>>}
    BY <2>1 DEF Used, Held, Opened, Types
  <2> HIDE DEF c
  <2>3. Cardinality(Used') \in Nat /\ Cardinality(Used') <= Cardinality(Used) + 1
    BY <2>2, CountTakesOne
  <2>4. QED
    BY <1>2, <1>a, <2>1, <2>3
<1>6. CASE Crash
  <2>1. Used' = {}
    BY <1>6 DEF Crash, Used, Held, Opened, Types
  <2>2. QED
    BY <1>1, <1>6, <2>1 DEF Crash
<1>7. ASSUME NEW c \in Clients, Connect(c) \/ SeesEnd(c) PROVE Budget'
  BY <1>4, <1>7 DEF Connect, SeesEnd, Types
<1>8. ASSUME NEW p \in Programs, ProgramEnds(p) PROVE Budget'
  BY <1>4, <1>8 DEF ProgramEnds, QueueDropped
<1>9. ASSUME NEW w \in Workers, SendResponse(w) \/ ClientGone(w) PROVE Budget'
  <2>1. PICK to \in {"closed", "away"} :
          /\ hpc' = [hpc EXCEPT ![w] = "read"] /\ leaked' = leaked
          /\ phase' = [phase EXCEPT ![serving[w]] = to]
    BY <1>9 DEF SendResponse, ClientGone, Deletes
  <2>2. \A v \in Workers : Opened(v)' <= Opened(v)
    BY <2>1 DEF Opened, Types
  <2>3. Held' \subseteq Held
    BY <2>1 DEF Held, Types
  <2>4. Used' \subseteq Used
    BY <2>2, <2>3 DEF Used, Opened
  <2>5. QED
    BY <1>1, <2>1, <2>4
<1>10. ASSUME NEW w \in Workers, NEW from, NEW to, Goes(w, from, to),
              UNCHANGED <<phase, leaked>>, Opened(w)' <= Opened(w)
       PROVE  Budget'
  <2>1. \A v \in Workers : Opened(v)' <= Opened(v)
    BY <1>10 DEF Goes, Opened, Types
  <2>2. Used' \subseteq Used
    BY <1>10, <2>1 DEF Used, Held, Opened
  <2>3. QED
    BY <1>1, <1>10, <2>2
<1>11. ASSUME NEW w \in Workers, NEW from, NEW to, Goes(w, from, to),
              UNCHANGED <<phase, leaked>>, CanOpen(Opened(w)' - Opened(w)),
              Opened(w)' - Opened(w) \in {1, 2}
       PROVE  Budget'
  <2> DEFINE n == Opened(w)
             m == Opened(w)'
  <2>1. n \in 0..4 /\ m \in 0..4
    BY DEF Opened
  <2>2. Cardinality(Used) + leaked + (m - n) <= Fds
    BY <1>11 DEF CanOpen
  <2>3. /\ Used' \ {<<w, k>> : k \in 1..4} = Used \ {<<w, k>> : k \in 1..4}
        /\ \A k \in 1..4 : /\ <<w, k>> \in Used <=> k <= n
                           /\ <<w, k>> \in Used' <=> k <= m
    BY <1>11, UsedByOthers
  <2> HIDE DEF n, m
  <2>4. CASE m = n + 1
    <3>1. Used' \subseteq Used \cup {<<w, m>>}
      BY <2>1, <2>3, <2>4
    <3>2. QED
      BY <1>2, <1>11, <1>a, <2>1, <2>2, <2>4, <3>1, CountTakesOne
  <2>5. CASE m = n + 2
    <3>1. Used' \subseteq Used \cup {<<w, n + 1>>, <<w, n + 2>>}
      BY <2>1, <2>3, <2>5
    <3>2. Cardinality(Used') \in Nat /\ Cardinality(Used') <= Cardinality(Used) + 2
      BY <3>1, CountTakesTwo
    <3>3. QED
      BY <1>2, <1>11, <1>a, <2>1, <2>2, <2>5, <3>2
  <2>6. QED
    BY <1>11, <2>1, <2>4, <2>5 DEF n, m
<1>12. ASSUME NEW w \in Workers, NEW from, NEW to, Goes(w, from, to), phase' = phase,
              NEW n \in {2, 4}, Opened(w) = n, Opened(w)' = 0, leaked' = leaked + n
       PROVE  Budget'
  <2>1. /\ Used' \ {<<w, k>> : k \in 1..4} = Used \ {<<w, k>> : k \in 1..4}
        /\ \A k \in 1..4 : /\ <<w, k>> \in Used <=> k <= n
                           /\ <<w, k>> \notin Used'
    BY <1>12, UsedByOthers
  <2>2. Cardinality(Used') = Cardinality(Used) - n
    <3> DEFINE U == Used \ {<<w, 1>>, <<w, 2>>}
    <3>a. <<w, 1>> \in Used /\ <<w, 2>> \in Used /\ <<w, 1>> # <<w, 2>>
      BY <2>1
    <3>1. IsFiniteSet(U) /\ Cardinality(U) = Cardinality(Used) - 2
      BY <3>a, UsedFinite, CountGivesTwo
    <3>2. CASE n = 2
      <4>1. Used' = U
        BY <2>1, <3>2
      <4>2. QED
        BY <3>1, <3>2, <4>1
    <3>3. CASE n = 4
      <4>1. <<w, 3>> \in U /\ <<w, 4>> \in U /\ Used' = U \ {<<w, 3>>, <<w, 4>>}
        BY <2>1, <3>3
      <4> HIDE DEF U
      <4>2. Cardinality(Used') = Cardinality(U) - 2
        BY <3>1, <4>1, CountGivesTwo
      <4>3. QED
        BY <1>a, <3>1, <3>3, <4>2
    <3>4. QED
      BY <3>2, <3>3
  <2>3. <<serving[w], 0>> \in Used'
    BY <1>12 DEF Goes, Owned, Types, Used, Held
  <2>4. Cardinality(Used') \in Nat \ {0}
    <3>1. Used' \subseteq Used
      BY <2>1
    <3>2. IsFiniteSet(Used')
      BY <3>1, UsedFinite, FS_Subset
    <3>3. QED
      BY <2>3, <3>2, FS_EmptySet, FS_CardinalityType
  <2>5. QED
    BY <1>12, <1>a, <1>b, <2>2, <2>4 DEF Budget, CanOpen, AcceptSurvives
<1>13. ASSUME NEW w \in Workers, Handler(w) PROVE Budget'
  <2>1. CASE Start(w)
    BY <1>3, <2>1 DEF Start
  <2>2. CASE ReadRequest(w) \/ Waitpid(w) \/ Fork(w)
    <3>1. PICK from \in {"read", "wait", "fork"},
               to \in {"open", "pipe_input", "send", "wait"} :
            /\ Goes(w, from, to) /\ UNCHANGED <<phase, leaked>>
            /\ to = "wait" => from = "fork"
      BY <2>2 DEF ReadRequest, Waitpid, Fork, Handles
    <3>2. hpc[w] = from /\ hpc'[w] = to
      BY <3>1 DEF Goes, Types
    <3>3. Opened(w)' <= Opened(w)
      BY <3>1, <3>2 DEF Opened
    <3>4. QED
      BY <1>10, <3>1, <3>3
  <2>3. CASE Open(w)
    <3>1. /\ hpc[w] = "open" /\ UNCHANGED <<phase, leaked>>
          /\ hpc'[w] = IF CanOpen(1) THEN "sendfile" ELSE "send"
          /\ Goes(w, "open", IF CanOpen(1) THEN "sendfile" ELSE "send")
      BY <2>3 DEF Open, Handles, Goes, Types
    <3>2. Opened(w) = 0 /\ Opened(w)' = IF CanOpen(1) THEN 1 ELSE 0
      BY <3>1 DEF Opened
    <3>3. QED
      BY <1>10, <1>11, <3>1, <3>2
  <2>4. CASE PipeInput(w)
    <3>1. /\ hpc[w] = "pipe_input" /\ UNCHANGED <<phase, leaked>>
          /\ hpc'[w] = IF CanOpen(2) THEN "pipe_output" ELSE "open"
          /\ Goes(w, "pipe_input", IF CanOpen(2) THEN "pipe_output" ELSE "open")
      BY <2>4 DEF PipeInput, Handles, Goes, Types
    <3>2. Opened(w) = 0 /\ Opened(w)' = IF CanOpen(2) THEN 2 ELSE 0
      BY <3>1 DEF Opened
    <3>3. QED
      BY <1>10, <1>11, <3>1, <3>2
  <2>5. CASE PipeOutput(w)
    BY <1>11, <1>12, <2>5 DEF PipeOutput, Goes, Handles, Opened, Types
  <2>6. CASE ForkFails(w)
    BY <1>12, <2>6 DEF ForkFails, Goes, Handles, Opened, Types
  <2>7. QED
    BY <1>9, <1>13, <2>1, <2>2, <2>3, <2>4, <2>5, <2>6 DEF Handler
<1>14. CASE Boot \/ Restart \/ (\E c \in Clients : Stall(c) \/ Leave(c)) \/ UNCHANGED vars
  BY <1>3, <1>14 DEF Boot, Socket, Bind, Listen, Boots, Restart, Stall, Leave, Changes, vars
<1>15. QED
  BY <1>5, <1>6, <1>7, <1>8, <1>13, <1>14 DEF Next
-----------------------------------------------------------------------------
(* The inductive invariant.                                                *)
IInv == Types /\ Owned /\ Budget

(* IInv holds of every reachable state.                                    *)
LEMMA Invariance == Spec => []IInv
<1>1. Init => IInv
  BY TypesInit, OwnedInit, BudgetInit DEF IInv
<1>2. IInv /\ [Next]_vars => IInv'
  BY TypesStep, OwnedStep, BudgetStep DEF IInv
<1>3. QED
  BY <1>1, <1>2, PTL DEF Spec

(* All variables keep their types, and no more descriptors are in use and  *)
(* leaked than the system lets the server have.                            *)
THEOREM ServerTypes == Spec => []TypeOK
<1>1. IInv => TypeOK
  BY DEF IInv, Types, Budget, TypeOK
<1>2. QED
  BY <1>1, Invariance, PTL

(* However often pipe and fork fail, accept keeps a descriptor that is not *)
(* leaked.                                                                 *)
THEOREM AcceptKeepsADescriptor == Spec => []AcceptSurvives
<1>1. IInv => AcceptSurvives
  BY DEF IInv, Budget
<1>2. QED
  BY <1>1, Invariance, PTL
=============================================================================
