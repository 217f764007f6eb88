--------------------------- MODULE EndPointProofs ---------------------------
(***************************************************************************)
(* What EndPoint promises for any number of connections, descriptors,      *)
(* requests and sites, however often the site changes: its type invariant, *)
(* OwnDescriptors, AnswerToItsClient, BodyFitsLength, BodyFitsStatus and   *)
(* WholeBody, and that each of its steps is a step of HttpExchange or      *)
(* leaves HttpExchange's state alone.                                      *)
(***************************************************************************)
EXTENDS EndPoint, WellFoundedInduction, SequenceTheorems, TLAPS

Reading   == {"accept", "line", "heads", "body", "build", "stat_index"}
Routes    == {"cgi", "open"}
Sending   == {"send_head", "send_body", "sendfile", "close_file"}
Over      == {"delete", "done"}
Unsent    == Reading \cup Routes \cup {"helper", "stat_page", "send_head"}

(* The file that the endpoint of c has open: the one that it was asked for *)
(* or the 404 page.                                                        *)
FileOf(c) == IF ep[c].status = 200 THEN ep[c].path ELSE "page404"
HasFile(c) == ep[c].fd # NoFd /\ ~At(c, "delete") /\ ~At(c, "done")

(* A connection is its endpoint's own, and so is the file.                 *)
OwnsBoth(c) ==
  /\ ~At(c, "accept") /\ ~At(c, "done") =>
       sock[c] \in Fds /\ tab[sock[c]].of = "conn" /\ tab[sock[c]].own = c
  /\ HasFile(c) =>
       ep[c].fd \in Fds /\ tab[ep[c].fd].of = FileOf(c) /\ tab[ep[c].fd].own = c

(* What is open belongs to an endpoint, and the endpoint has it.           *)
Owned == \A f \in Fds : tab[f].of # "free" => tab[f].own \in Conns
NoneLost(c) ==
  \A f \in Fds : tab[f].of # "free" /\ tab[f].own = c =>
    \/ f = sock[c] /\ ~At(c, "accept") /\ ~At(c, "done")
    \/ f = ep[c].fd /\ HasFile(c)

(* What the members of an endpoint are at each place of its worker.        *)
Members(c) ==
  /\ ep[c].pc \in Reading \cup Routes =>
       ep[c].fd = NoFd /\ ep[c].status = 200 /\ ep[c].announced = Unset /\ ep[c].total = 0
  /\ At(c, "cgi") => ep[c].cgi
  /\ At(c, "open") => ~ep[c].cgi /\ ep[c].path \in {"target", "index"} /\ ep[c].size # Unset
  /\ At(c, "helper") =>
       /\ ep[c].announced = Unset /\ ep[c].total = 0
       /\ IF ep[c].status = 200 /\ ~ep[c].cgi
            THEN ep[c].fd # NoFd /\ ep[c].path \in {"target", "index"} /\ ep[c].size # Unset
            ELSE ep[c].fd = NoFd
  /\ At(c, "stat_page") => ep[c].status # 200 /\ ~ep[c].cgi /\ ep[c].fd # NoFd /\ ep[c].total = 0
  /\ ep[c].pc \in Sending =>
       IF ep[c].cgi THEN ep[c].fd = NoFd /\ ep[c].status = 200 /\ ep[c].announced = ep[c].res_body
       ELSE IF ep[c].fd = NoFd THEN ep[c].status # 200 /\ ep[c].announced = Unset
       ELSE /\ ep[c].announced = ep[c].size /\ ep[c].size # Unset
            /\ ep[c].status = 200 => ep[c].path \in {"target", "index"}
  /\ At(c, "send_head") => ep[c].total = 0
  /\ At(c, "send_body") => ep[c].cgi /\ ep[c].total <= ep[c].res_body
  /\ At(c, "sendfile") \/ At(c, "close_file") => ~ep[c].cgi

(* What the client of c has been sent.                                     *)
Answer(c) == <<[code |-> ep[c].status, length |-> ep[c].announced]>>
Response(c) ==
  /\ ep[c].pc \in Unsent => got[c] = Nothing
  /\ \/ ep[c].pc \in Unsent
     \/ got[c] = Nothing /\ c \in left
     \/ /\ got[c].heads = Answer(c) /\ got[c].from = {c}
        /\ ep[c].status # 200 \/ ep[c].announced # Unset
        /\ got[c].body = 0 \/ got[c].body <= ep[c].announced
        /\ At(c, "send_body") => got[c].body = ep[c].total
        /\ At(c, "sendfile") => got[c].body = ep[c].total
        /\ got[c].of \subseteq (IF ep[c].status # 200 THEN {"page404"}
                                ELSE IF ep[c].cgi THEN {"program"} ELSE {"target", "index"})

(* Before the site first changes, what is stat'ed, what is opened and what *)
(* is sent are the same file.                                              *)
Unchanged(c) ==
  deployed = 0 =>
    /\ At(c, "open") => ep[c].size = site[ep[c].path].size
    /\ HasFile(c) =>
         /\ site[FileOf(c)].type # "absent"
         /\ tab[ep[c].fd].size = site[FileOf(c)].size
         /\ ~At(c, "stat_page") => ep[c].size = tab[ep[c].fd].size
    /\ ep[c].pc \in {"close_file"} \cup Over /\ c \notin left /\ got[c].heads # <<>> =>
         \/ got[c].body = ep[c].announced
         \/ ~ep[c].cgi /\ (ep[c].announced = Unset \/ ep[c].announced > MaxSendfile)

IInv == /\ TypeOK
        /\ Owned
        /\ \A c \in Conns : OwnsBoth(c) /\ NoneLost(c) /\ Members(c) /\ Response(c) /\ Unchanged(c)
-----------------------------------------------------------------------------
(* A set of numbers that is not empty has a least one, which Min chooses.  *)
LEMMA MinOfNats ==
  ASSUME NEW S \in SUBSET Nat, S # {}
  PROVE  Min(S) \in S /\ \A n \in S : Min(S) <= n
<1>1. PICK x \in S : \A y \in S : ~(<<y, x>> \in OpToRel(<, Nat))
  BY WFMin, NatLessThanWellFounded, Zenon
<1>2. ASSUME NEW y \in S PROVE x <= y
  <2>1. SUFFICES ASSUME y < x PROVE FALSE
    OBVIOUS
  <2>2. <<y, x>> \in Nat \X Nat /\ <<y, x>>[1] < <<y, x>>[2]
    BY <2>1
  <2>3. <<y, x>> \in OpToRel(<, Nat)
    BY <2>2 DEF OpToRel
  <2>4. QED
    BY <1>1, <2>3
<1>3. QED
  BY <1>2 DEF Min

(* The lowest free descriptor is one that is free.                         *)
LEMMA LowestFree ==
  ASSUME FreeFds # {}
  PROVE  Min(FreeFds) \in Fds /\ tab[Min(FreeFds)].of = "free" /\ Min(FreeFds) # NoFd
<1>1. FreeFds \in SUBSET Nat
  BY NumbersAssumption DEF FreeFds
<1>2. Min(FreeFds) \in FreeFds
  BY <1>1, MinOfNats
<1>3. QED
  BY <1>2, NumbersAssumption DEF FreeFds, NoFd

(* The header that ParseRequestHeads keeps is one of the request's.        *)
LEMMA RequestTypes ==
  ASSUME NEW r \in Requests
  PROVE  Len(r.heads) \in Nat /\ StreamLen(r) \in Nat /\ ContentLength(r) \in Int
<1>1. r.heads \in Seq(Headers) /\ r.body \in Nat
  BY RequestsAssumption
<1>2. Len(r.heads) \in Nat /\ StreamLen(r) \in Nat
  BY <1>1, LenProperties DEF StreamLen
<1>3. CASE HaveReqBody(r)
  <2>1. Lengths(r) \in SUBSET Nat /\ Lengths(r) # {}
    BY <1>1, <1>3, LenProperties DEF Lengths, HaveReqBody
  <2>2. Min(Lengths(r)) \in DOMAIN r.heads
    BY <2>1, MinOfNats DEF Lengths
  <2>3. r.heads[Min(Lengths(r))] \in Headers
    BY <1>1, <2>2, ElementOfSeq, LenProperties
  <2>4. QED
    BY <1>2, <1>3, <2>3 DEF ContentLength, Headers
<1>4. CASE ~HaveReqBody(r)
  BY <1>2, <1>4 DEF ContentLength
<1>5. QED
  BY <1>3, <1>4

(* What sendfile is to send is no more than it was asked for and no more   *)
(* than it can, and of a file that is neither it is all.                   *)
LEMMA SendfileSends ==
  ASSUME TypeOK, NEW c \in Conns, ep[c].fd \in Fds, ep[c].size # Unset
  PROVE  /\ SendfileCount(c) \in Nat
         /\ SendfileCount(c) <= ep[c].size
         /\ tab[ep[c].fd].size = ep[c].size /\ ep[c].size <= MaxSendfile
              => SendfileCount(c) = ep[c].size
<1>1. ep[c].size \in Nat /\ tab[ep[c].fd].size \in Nat /\ MaxSendfile \in Nat
  <2>1. ep[c].size \in -1..MaxSize
    BY DEF TypeOK, EndPoints
  <2>2. tab[ep[c].fd].size \in 0..MaxSize
    BY DEF TypeOK, Descriptors
  <2>3. QED
    BY <2>1, <2>2, NumbersAssumption DEF Unset
<1> DEFINE S == {ep[c].size, tab[ep[c].fd].size, MaxSendfile}
<1>2. S \in SUBSET Nat /\ S # {}
  BY <1>1
<1>3. Min(S) \in S /\ \A n \in S : Min(S) <= n
  BY <1>2, MinOfNats
<1>4. QED
  BY <1>1, <1>3 DEF SendfileCount

(* As long as sendfile sends, it sends the endpoint's own file, and not    *)
(* more of it than was announced.                                          *)
LEMMA SendfileSome ==
  ASSUME TypeOK, NEW c \in Conns, OwnsBoth(c), Members(c), Sendfile(c)
  PROVE  /\ At(c, "sendfile") /\ Peers(sock[c]) # {}
         /\ ep[c].fd # NoFd /\ ep[c].fd \in Fds /\ tab[ep[c].fd].of = FileOf(c) /\ HasFile(c)
         /\ ep[c].size \in 0..MaxSize /\ ep[c].announced = ep[c].size /\ ~ep[c].cgi
         /\ ep[c].status = 200 => ep[c].path \in {"target", "index"}
         /\ \E n \in Nat : /\ n > 0 /\ ep[c].total + n <= ep[c].size
                           /\ got' = Delivered(c, sock[c], <<>>, {tab[ep[c].fd].of}, n)
                           /\ ep' = [ep EXCEPT ![c].total = @ + n]
<1>1. At(c, "sendfile") /\ ep[c].fd # NoFd /\ Peers(sock[c]) # {}
  BY DEF Sendfile, InSendfile, Takes
<1>2. /\ HasFile(c) /\ ~ep[c].cgi /\ ep[c].announced = ep[c].size /\ ep[c].size # Unset
      /\ ep[c].status = 200 => ep[c].path \in {"target", "index"}
  BY <1>1 DEF Members, Sending, HasFile, At
<1>3. ep[c].fd \in Fds /\ tab[ep[c].fd].of = FileOf(c)
  BY <1>2 DEF OwnsBoth
<1>4. ep[c].size \in 0..MaxSize /\ ep[c].total \in Nat
  BY <1>2 DEF TypeOK, EndPoints, Unset
<1>5. SendfileCount(c) \in Nat /\ SendfileCount(c) <= ep[c].size
  BY <1>2, <1>3, SendfileSends
<1>6. PICK n \in 1..(SendfileCount(c) - ep[c].total) :
        /\ got' = Delivered(c, sock[c], <<>>, {tab[ep[c].fd].of}, n)
        /\ ep' = [ep EXCEPT ![c].total = @ + n]
  BY DEF Sendfile
<1>7. n \in Nat /\ n > 0 /\ ep[c].total + n <= ep[c].size
  BY <1>4, <1>5
<1>8. QED
  BY <1>1, <1>2, <1>3, <1>4, <1>6, <1>7
-----------------------------------------------------------------------------
(* No connection has begun when the server starts.                         *)
LEMMA IInvInit == Init => IInv
<1> SUFFICES ASSUME Init PROVE IInv
  OBVIOUS
<1> USE NumbersAssumption, SwitchesAssumption DEF Init
<1>1. TypeOK
  <2>1. Nothing \in Sent
    BY EmptySeq DEF Nothing, Sent, Heads, Contents
  <2>2. NewEndPoint.size \in -1..MaxSize /\ NewEndPoint.announced \in -1..MaxSize
    BY DEF NewEndPoint, Unset
  <2>3. NewEndPoint \in EndPoints
    BY <2>2 DEF NewEndPoint, EndPoints, Statuses, Places, Paths, NoFd
  <2>4. Free \in Descriptors
    BY DEF Free, Descriptors
  <2>5. site \in [Paths -> Entries]
    BY SitesAssumption
  <2>6. \A c \in Conns : taken[c] <= arrived[c] /\ arrived[c] <= StreamLen(req[c])
    BY RequestTypes, RequestsAssumption, LenProperties DEF StreamLen
  <2>7. QED
    BY <2>1, <2>3, <2>4, <2>5, <2>6 DEF TypeOK
<1>2. Owned
  BY DEF Owned, Free
<1>3. ASSUME NEW c \in Conns
      PROVE  OwnsBoth(c) /\ NoneLost(c) /\ Members(c) /\ Response(c) /\ Unchanged(c)
  BY <1>3 DEF OwnsBoth, NoneLost, Free, Members, Response, Unchanged, HasFile, At, NewEndPoint,
     Nothing, Reading, Routes, Sending, Over, Unsent, NoFd
<1>4. QED
  BY <1>1, <1>2, <1>3 DEF IInv
-----------------------------------------------------------------------------
(* What open and close make of the descriptor table.                       *)
LEMMA TableTypes ==
  ASSUME TypeOK
  PROVE  /\ \A c \in Conns, of \in Paths \cup {"conn"}, size \in 0..MaxSize :
              FreeFds # {} => Opened(c, of, size) \in [Fds -> Descriptors]
         /\ \A fd : Closed(fd) \in [Fds -> Descriptors]
<1> USE DEF TypeOK, Descriptors
<1>1. ASSUME NEW c \in Conns, NEW of \in Paths \cup {"conn"}, NEW size \in 0..MaxSize, FreeFds # {}
      PROVE  Opened(c, of, size) \in [Fds -> Descriptors]
  BY <1>1, LowestFree DEF Opened
<1>2. ASSUME NEW fd PROVE Closed(fd) \in [Fds -> Descriptors]
  BY NumbersAssumption DEF Closed, Free
<1>3. QED
  BY <1>1, <1>2

(* What is sent on a descriptor adds to what one client has, if anyone.    *)
LEMMA DeliveredTypes ==
  ASSUME TypeOK, NEW c \in Conns, NEW fd, NEW heads \in Heads, NEW of \in SUBSET Contents,
         NEW n \in Nat
  PROVE  Delivered(c, fd, heads, of, n) \in [Conns -> Sent]
<1>1. got \in [Conns -> Sent]
  BY DEF TypeOK
<1>2. ASSUME NEW d \in Conns
      PROVE  [heads |-> got[d].heads \o heads, body |-> got[d].body + n,
              of |-> got[d].of \cup of, from |-> got[d].from \cup {c}] \in Sent
  <2>1. got[d].heads \o heads \in Heads
    BY <1>1, ConcatProperties DEF Sent, Heads
  <2>2. QED
    BY <1>1, <2>1 DEF Sent
<1>3. QED
  BY <1>1, <1>2 DEF Delivered

(* The clients and the site.                                               *)
LEMMA OutsideTypes ==
  ASSUME TypeOK, (\E c \in Conns : Client(c)) \/ Deploy
  PROVE  TypeOK'
<1> USE DEF TypeOK, clientVars, siteVars
<1>1. ASSUME NEW c \in Conns, Arrive(c) PROVE TypeOK'
  <2>1. StreamLen(req[c]) \in Nat
    BY RequestTypes
  <2>2. QED
    BY <1>1, <2>1 DEF Arrive
<1>2. ASSUME NEW c \in Conns, Leave(c) PROVE TypeOK'
  BY <1>2 DEF Leave
<1>6. ASSUME NEW c \in Conns, ReadAnswer(c) PROVE TypeOK'
  <2>1. PICK n \in 1..(got[c].body - read[c]) : read' = [read EXCEPT ![c] = @ + n]
    BY <1>6 DEF ReadAnswer
  <2>2. got[c].body \in Nat /\ read[c] \in Nat
    BY DEF Sent
  <2>3. read[c] + n \in Nat
    BY <2>2
  <2>4. read' \in [Conns -> Nat]
    BY <2>1, <2>3
  <2>5. QED
    BY <1>6, <2>4 DEF ReadAnswer
<1>3. ASSUME NEW path \in Paths, NEW n \in 0..MaxSize, Overwrite(path, n) PROVE TypeOK'
  <2>1. deployed' \in 0..Deploys
    BY <1>3, SwitchesAssumption DEF Overwrite, Changes
  <2>2. site' \in [Paths -> Entries]
    BY <1>3 DEF Overwrite, Entries
  <2>3. tab' \in [Fds -> Descriptors]
    BY <1>3 DEF Overwrite, Descriptors
  <2>4. QED
    BY <1>3, <2>1, <2>2, <2>3 DEF Overwrite
<1>4. ASSUME NEW path \in Paths, NEW entry \in Entries, Replace(path, entry) PROVE TypeOK'
  <2>1. deployed' \in 0..Deploys
    BY <1>4, SwitchesAssumption DEF Replace, Changes
  <2>2. tab' \in [Fds -> Descriptors]
    BY <1>4 DEF Replace, Descriptors
  <2>3. QED
    BY <1>4, <2>1, <2>2 DEF Replace
<1>5. QED
  BY <1>1, <1>2, <1>3, <1>4, <1>6 DEF Client, Deploy

(* A change of some members of an endpoint is an endpoint.                 *)
LEMMA Changed ==
  ASSUME NEW e \in EndPoints, NEW pc \in Places
  PROVE  /\ \A n \in Int : [e EXCEPT !.pc = pc, !.length = n] \in EndPoints
         /\ \A code \in Statuses : [e EXCEPT !.pc = pc, !.status = code] \in EndPoints
         /\ \A n \in -1..MaxSize : /\ [e EXCEPT !.pc = pc, !.size = n] \in EndPoints
                                  /\ [e EXCEPT !.pc = pc, !.announced = n] \in EndPoints
                                  /\ [e EXCEPT !.pc = pc, !.size = n, !.announced = n] \in EndPoints
         /\ \A code \in Statuses, n \in 0..MaxSize :
              [e EXCEPT !.pc = pc, !.status = code, !.res_body = n] \in EndPoints
         /\ \A code \in Statuses, f \in Fds :
              [e EXCEPT !.pc = pc, !.status = code, !.fd = f] \in EndPoints
         /\ \A f \in Fds : [e EXCEPT !.pc = pc, !.cgi = FALSE, !.fd = f] \in EndPoints
         /\ \A b \in BOOLEAN, path \in Paths, n \in -1..MaxSize :
              [e EXCEPT !.pc = pc, !.cgi = b, !.path = path, !.size = n] \in EndPoints
<1>1. \A n \in Int : [e EXCEPT !.pc = pc, !.length = n] \in EndPoints
  BY DEF EndPoints
<1>2. \A code \in Statuses : [e EXCEPT !.pc = pc, !.status = code] \in EndPoints
  BY DEF EndPoints
<1>3. \A n \in -1..MaxSize : [e EXCEPT !.pc = pc, !.size = n] \in EndPoints
  BY DEF EndPoints
<1>4. \A n \in -1..MaxSize : [e EXCEPT !.pc = pc, !.announced = n] \in EndPoints
  BY DEF EndPoints
<1>5. \A n \in -1..MaxSize : [e EXCEPT !.pc = pc, !.size = n, !.announced = n] \in EndPoints
  BY DEF EndPoints
<1>6. \A code \in Statuses, n \in 0..MaxSize :
         [e EXCEPT !.pc = pc, !.status = code, !.res_body = n] \in EndPoints
  BY DEF EndPoints
<1>7. \A code \in Statuses, f \in Fds : [e EXCEPT !.pc = pc, !.status = code, !.fd = f] \in EndPoints
  BY DEF EndPoints
<1>8. \A f \in Fds : [e EXCEPT !.pc = pc, !.cgi = FALSE, !.fd = f] \in EndPoints
  BY DEF EndPoints
<1>9. \A b \in BOOLEAN, path \in Paths, n \in -1..MaxSize :
         [e EXCEPT !.pc = pc, !.cgi = b, !.path = path, !.size = n] \in EndPoints
  BY DEF EndPoints
<1>10. QED
  BY <1>1, <1>2, <1>3, <1>4, <1>5, <1>6, <1>7, <1>8, <1>9

(* What the worker of a connection does to the members of its endpoint.    *)
LEMMA MemberTypes ==
  ASSUME TypeOK, \A d \in Conns : OwnsBoth(d) /\ Members(d),
         NEW c \in Conns, Accept(c) \/ HanderReq(c)
  PROVE  ep' \in [Conns -> EndPoints]
<1>0. ep[c] \in EndPoints
  BY DEF TypeOK
<1>places. "helper" \in Places /\ "stat_page" \in Places
  BY DEF Places
<1> DEFINE Ok == 200  Bad == 400  Missing == 404
<1>codes. Ok \in Statuses /\ Bad \in Statuses /\ Missing \in Statuses
  BY DEF Statuses
<1>1. ep \in [Conns -> EndPoints] /\ req[c] \in Requests /\ site \in [Paths -> Entries]
  BY DEF TypeOK
<1>2. \A p \in Paths : site[p].size \in 0..MaxSize
  BY <1>1 DEF Entries
<1>3. FreeFds # {} => Min(FreeFds) \in Fds
  BY LowestFree
<1>4. CASE Accept(c)
  BY <1>1, <1>4 DEF Accept, EndPoints, Places
<1>5. CASE RecvRequestLine(c)
  BY <1>1, <1>5 DEF RecvRequestLine, EndPoints, Places
<1>6. CASE RecvHead(c)
  BY <1>1, <1>6 DEF RecvHead
<1>7. CASE RecvBlank(c)
  <2>1. ContentLength(req[c]) \in Int
    BY <1>1, RequestTypes
  <2>2. QED
    <3>1. [ep[c] EXCEPT !.pc = "body", !.length = ContentLength(req[c])] \in EndPoints
      BY <1>1, <2>1 DEF EndPoints, Places
    <3>2. ep' = [ep EXCEPT ![c] = [ep[c] EXCEPT !.pc = "body", !.length = ContentLength(req[c])]]
      BY <1>1, <1>7 DEF RecvBlank
    <3>3. QED
      BY <1>1, <3>1, <3>2
<1>8. CASE RecvReqBody(c)
  BY <1>1, <1>8 DEF RecvReqBody, EndPoints
<1>9. CASE BodyRead(c)
  BY <1>1, <1>9 DEF BodyRead, EndPoints, Places
<1>10. CASE RecvFails(c)
  BY <1>1, <1>10 DEF RecvFails, EndPoints, Places
<1>11. CASE RejectMethod(c)
  <2>1. ep' = [ep EXCEPT ![c].pc = "helper", ![c].status = Bad]
    BY <1>11 DEF RejectMethod
  <2> HIDE DEF Bad
  <2>2. [ep[c] EXCEPT !.pc = "helper", !.status = Bad] \in EndPoints
    BY <1>0, <1>places, <1>codes, Changed
  <2>3. ep' = [ep EXCEPT ![c] = [ep[c] EXCEPT !.pc = "helper", !.status = Bad]]
    BY <1>1, <2>1
  <2>4. QED
    BY <1>1, <2>2, <2>3
<1>12. ASSUME NEW path \in Paths, NEW file, file.size \in -1..MaxSize
       PROVE  Routed(c, path, file) \in [Conns -> EndPoints]
  <2> DEFINE cgi == WithParameters(req[c]) \/ file.type \in {"prog", "dir"}
  <2>1. cgi \in BOOLEAN
    OBVIOUS
  <2>2. (IF cgi THEN "cgi" ELSE "open") \in Places
    BY DEF Places
  <2> HIDE DEF cgi
  <2> DEFINE pc == IF cgi THEN "cgi" ELSE "open"
  <2> HIDE DEF pc
  <2>3. [ep[c] EXCEPT !.pc = pc, !.cgi = cgi, !.path = path, !.size = file.size] \in EndPoints
    BY <1>0, <1>12, <2>1, <2>2, Changed DEF pc
  <2>4. [ep EXCEPT ![c].pc = pc, ![c].cgi = cgi, ![c].path = path, ![c].size = file.size]
          = [ep EXCEPT ![c] = [ep[c] EXCEPT !.pc = pc, !.cgi = cgi, !.path = path, !.size = file.size]]
    BY <1>1
  <2>5. QED
    BY <1>1, <2>3, <2>4 DEF Routed, cgi, pc
<1>13. CASE StatTarget(c)
  <2>1. PathOf(req[c]) \in Paths
    BY DEF PathOf, Paths
  <2>2. site[PathOf(req[c])].size \in -1..MaxSize
    BY <1>2, <2>1
  <2>3. CASE ep' = Routed(c, PathOf(req[c]), site[PathOf(req[c])])
    BY <1>12, <2>1, <2>2, <2>3
  <2>4. CASE ep' = [ep EXCEPT ![c].pc = "helper", ![c].status = Missing]
    <3> HIDE DEF Missing
    <3>1. [ep[c] EXCEPT !.pc = "helper", !.status = Missing] \in EndPoints
      BY <1>0, <1>places, <1>codes, Changed
    <3>2. ep' = [ep EXCEPT ![c] = [ep[c] EXCEPT !.pc = "helper", !.status = Missing]]
      BY <1>1, <2>4
    <3>3. QED
      BY <1>1, <3>1, <3>2
  <2>5. CASE ep' = [ep EXCEPT ![c].pc = "stat_index", ![c].size = site[PathOf(req[c])].size]
    <3>1. [ep[c] EXCEPT !.pc = "stat_index", !.size = site[PathOf(req[c])].size] \in EndPoints
      BY <1>0, <2>2, Changed DEF Places
    <3>2. ep' = [ep EXCEPT ![c] = [ep[c] EXCEPT !.pc = "stat_index", !.size = site[PathOf(req[c])].size]]
      BY <1>1, <2>5
    <3>3. QED
      BY <1>1, <3>1, <3>2
  <2>6. QED
    BY <1>13, <2>3, <2>4, <2>5 DEF StatTarget
<1>14. CASE StatIndex(c)
  <2>1. "index" \in Paths
    BY DEF Paths
  <2>2. ep[c].size \in -1..MaxSize
    BY <1>1 DEF EndPoints
  <2>3. FileState(c).size \in -1..MaxSize
    BY <1>2, <2>1, <2>2 DEF FileState
  <2>4. QED
    BY <1>12, <1>14, <2>1, <2>3 DEF StatIndex
<1>15. CASE ProcessCGI(c)
  <2>1. PICK code \in CgiResults(ep[c].path), n \in 0..MaxSize :
          ep' = [ep EXCEPT ![c].pc = "helper", ![c].status = code, ![c].res_body = n]
    BY <1>15 DEF ProcessCGI
  <2>2. code \in Statuses
    BY DEF CgiResults, Statuses
  <2>3. QED
    <3>1. [ep[c] EXCEPT !.pc = "helper", !.status = code, !.res_body = n] \in EndPoints
      BY <1>0, <2>2, Changed DEF Places
    <3>2. ep' = [ep EXCEPT ![c] = [ep[c] EXCEPT !.pc = "helper", !.status = code, !.res_body = n]]
      BY <1>1, <2>1
    <3>3. QED
      BY <1>1, <3>1, <3>2
<1>16. CASE ProcessNoCGI(c)
  <2>1. CASE CanOpen(ep[c].path)
    <3>1. Min(FreeFds) \in Fds
      BY <1>3, <2>1 DEF CanOpen
    <3>2. ep' = [ep EXCEPT ![c].pc = "helper", ![c].status = Ok, ![c].fd = Min(FreeFds)]
      BY <1>16, <2>1 DEF ProcessNoCGI
    <3> HIDE DEF Ok
    <3>3. QED
      <4>1. [ep[c] EXCEPT !.pc = "helper", !.status = Ok, !.fd = Min(FreeFds)] \in EndPoints
        BY <1>0, <1>places, <1>codes, <3>1, Changed
      <4>2. ep' = [ep EXCEPT ![c] = [ep[c] EXCEPT !.pc = "helper", !.status = Ok, !.fd = Min(FreeFds)]]
        BY <1>1, <3>2
      <4>3. QED
        BY <1>1, <4>1, <4>2
  <2>2. CASE ~CanOpen(ep[c].path)
    BY <1>1, <1>16, <2>2 DEF ProcessNoCGI, EndPoints, Places, Statuses
  <2>3. QED
    BY <2>1, <2>2
<1>17. CASE BuildOK(c)
  <2> DEFINE n == IF ep[c].cgi THEN ep[c].res_body ELSE ep[c].size
  <2>1. n \in -1..MaxSize
    BY <1>1, NumbersAssumption DEF EndPoints
  <2>3. ep' = [ep EXCEPT ![c].pc = "send_head", ![c].announced = n]
    BY <1>17 DEF BuildOK
  <2> HIDE DEF n
  <2>2. QED
    <3>1. [ep[c] EXCEPT !.pc = "send_head", !.announced = n] \in EndPoints
      BY <1>0, <2>1, Changed DEF Places
    <3>2. ep' = [ep EXCEPT ![c] = [ep[c] EXCEPT !.pc = "send_head", !.announced = n]]
      BY <1>1, <2>3
    <3>3. QED
      BY <1>1, <3>1, <3>2
<1>18. CASE BuildError(c)
  <2>1. CASE CanOpen("page404")
    <3>1. Min(FreeFds) \in Fds
      BY <1>3, <2>1 DEF CanOpen
    <3>2. ep' = [ep EXCEPT ![c].pc = "stat_page", ![c].cgi = FALSE, ![c].fd = Min(FreeFds)]
      BY <1>18, <2>1 DEF BuildError
    <3>3. QED
      <4>1. [ep[c] EXCEPT !.pc = "stat_page", !.cgi = FALSE, !.fd = Min(FreeFds)] \in EndPoints
        BY <1>0, <1>places, <1>codes, <3>1, Changed
      <4>2. ep' = [ep EXCEPT ![c] = [ep[c] EXCEPT !.pc = "stat_page", !.cgi = FALSE, !.fd = Min(FreeFds)]]
        BY <1>1, <3>2
      <4>3. QED
        BY <1>1, <4>1, <4>2
  <2>2. CASE ~CanOpen("page404")
    BY <1>1, <1>18, <2>2 DEF BuildError, EndPoints, Places
  <2>3. QED
    BY <2>1, <2>2
<1>19. CASE BuildErrorStat(c)
  <2>1. PICK n \in PageSizes : ep' = [ep EXCEPT ![c].pc = "send_head", ![c].size = n, ![c].announced = n]
    BY <1>19 DEF BuildErrorStat
  <2>2. n \in -1..MaxSize
    BY <1>2, <2>1, NumbersAssumption DEF PageSizes, Paths
  <2>3. QED
    <3>1. [ep[c] EXCEPT !.pc = "send_head", !.size = n, !.announced = n] \in EndPoints
      BY <1>0, <2>2, Changed DEF Places
    <3>2. ep' = [ep EXCEPT ![c] = [ep[c] EXCEPT !.pc = "send_head", !.size = n, !.announced = n]]
      BY <1>1, <2>1
    <3>3. QED
      BY <1>1, <3>1, <3>2
<1>20. CASE SendHead(c)
  BY <1>1, <1>20 DEF SendHead, EndPoints, Places
<1>21. CASE SendBody(c)
  <2>1. PICK n \in 1..(ep[c].res_body - ep[c].total) : ep' = [ep EXCEPT ![c].total = @ + n]
    BY <1>21 DEF SendBody
  <2>2. ep[c].res_body \in 0..MaxSize /\ ep[c].total \in 0..MaxSize
    BY <1>1 DEF EndPoints
  <2>3. ep[c].total + n \in 0..MaxSize
    BY <2>1, <2>2, NumbersAssumption
  <2>4. QED
    BY <1>1, <2>1, <2>3 DEF EndPoints
<1>22. CASE EndSendBody(c)
  BY <1>1, <1>22 DEF EndSendBody, EndPoints, Places
<1>23. CASE Sendfile(c)
  <2>1. PICK n \in Nat : ep[c].total + n <= ep[c].size /\ ep' = [ep EXCEPT ![c].total = @ + n]
    BY <1>23, SendfileSome
  <2>2. ep[c].size \in 0..MaxSize /\ ep[c].total \in 0..MaxSize
    BY <1>1, <1>23, SendfileSome DEF EndPoints
  <2>3. ep[c].total + n \in 0..MaxSize
    BY <2>1, <2>2, NumbersAssumption
  <2>4. QED
    BY <1>1, <2>1, <2>3 DEF EndPoints
<1>27. CASE EndSendfile(c)
  BY <1>1, <1>27 DEF EndSendfile, EndPoints, Places
<1>24. CASE CloseFile(c)
  BY <1>1, <1>24 DEF CloseFile, EndPoints, Places
<1>25. CASE Delete(c)
  BY <1>1, <1>25 DEF Delete, EndPoints, Places
<1>26. QED
  BY <1>4, <1>5, <1>6, <1>7, <1>8, <1>9, <1>10, <1>11, <1>13, <1>14, <1>15, <1>16, <1>17, <1>18,
     <1>19, <1>20, <1>21, <1>22, <1>23, <1>24, <1>25, <1>27
  DEF HanderReq, ReadRequest, BuildResponse, SendResponse

(* What it does to the descriptors, to what is sent and to what is taken.  *)
LEMMA WorkerTypes ==
  ASSUME TypeOK, \A d \in Conns : OwnsBoth(d) /\ Members(d),
         NEW c \in Conns, Accept(c) \/ HanderReq(c)
  PROVE  TypeOK'
<1>1. ep' \in [Conns -> EndPoints]
  BY MemberTypes
<1>2. /\ UNCHANGED <<clientVars, siteVars>>
      /\ sock' = sock \/ (FreeFds # {} /\ sock' = [sock EXCEPT ![c] = Min(FreeFds)])
  BY DEF Accept, HanderReq, ReadRequest, BuildResponse, SendResponse, Delete, RecvRequestLine, RecvHead,
         RecvBlank, RecvReqBody, BodyRead, RecvFails, Recv, RejectMethod, StatTarget, StatIndex,
         ProcessCGI, ProcessNoCGI, BuildOK, BuildError, BuildErrorStat, Builds, SendHead, SendBody,
         EndSendBody, Sendfile, EndSendfile, CloseFile
<1>3. sock' \in [Conns -> Fds \cup {NoFd}]
  BY <1>2, LowestFree DEF TypeOK
<1>4. taken' \in [Conns -> Nat] /\ \A d \in Conns : taken'[d] <= arrived[d]
  <2>1. taken \in [Conns -> Nat] /\ arrived \in [Conns -> Nat] /\ \A d \in Conns : taken[d] <= arrived[d]
    BY DEF TypeOK
  <2>2. CASE taken' = taken
    BY <2>1, <2>2
  <2>3. CASE Recv(c)
    BY <2>1, <2>3 DEF Recv
  <2>4. QED
    BY <2>2, <2>3 DEF Accept, HanderReq, ReadRequest, BuildResponse, SendResponse, Delete, RecvRequestLine,
       RecvHead, RecvBlank, RecvReqBody, BodyRead, RecvFails, RejectMethod, StatTarget, StatIndex,
       ProcessCGI, ProcessNoCGI, BuildOK, BuildError, BuildErrorStat, Builds, SendHead, SendBody,
       EndSendBody, Sendfile, EndSendfile, CloseFile
<1>5. tab' \in [Fds -> Descriptors]
  <2>1. site \in [Paths -> Entries] /\ ep[c] \in EndPoints
    BY DEF TypeOK
  <2>2. \A p \in Paths : site[p].size \in 0..MaxSize
    BY <2>1 DEF Entries
  <2>3. CASE tab' = tab
    BY <2>3 DEF TypeOK
  <2>4. ASSUME NEW path \in Paths, CanOpen(path), tab' = Opened(c, path, site[path].size)
        PROVE  tab' \in [Fds -> Descriptors]
    BY <2>2, <2>4, TableTypes DEF CanOpen
  <2>5. CASE Accept(c)
    <3>1. 0 \in 0..MaxSize
      BY NumbersAssumption
    <3>2. QED
      BY <2>5, <3>1, TableTypes DEF Accept
  <2>6. CASE ProcessNoCGI(c)
    BY <2>1, <2>3, <2>4, <2>6 DEF ProcessNoCGI, EndPoints
  <2>7. CASE BuildError(c)
    BY <2>3, <2>4, <2>7 DEF BuildError, Paths
  <2>8. CASE CloseFile(c) \/ Delete(c)
    BY <2>8, TableTypes DEF CloseFile, Delete
  <2>9. QED
    BY <2>3, <2>5, <2>6, <2>7, <2>8 DEF HanderReq, ReadRequest, BuildResponse, SendResponse,
       RecvRequestLine, RecvHead, RecvBlank, RecvReqBody, BodyRead, RecvFails, Recv, RejectMethod,
       StatTarget, StatIndex, ProcessCGI, BuildOK, BuildErrorStat, SendHead, SendBody, EndSendBody,
       Sendfile, EndSendfile
<1>6. got' \in [Conns -> Sent]
  <2>1. ep[c] \in EndPoints /\ <<>> \in Heads
    BY EmptySeq DEF TypeOK, Heads
  <2>2. CASE got' = got
    BY <2>2 DEF TypeOK
  <2>3. CASE SendHead(c)
    <3>1. <<[code |-> ep[c].status, length |-> ep[c].announced]>> \in Heads
      BY <2>1 DEF EndPoints, Heads
    <3>2. {} \in SUBSET Contents
      OBVIOUS
    <3>3. QED
      BY <2>3, <3>1, <3>2, DeliveredTypes DEF SendHead
  <2>4. CASE SendBody(c)
    <3>1. PICK n \in 1..(ep[c].res_body - ep[c].total) : got' = Delivered(c, sock[c], <<>>, {"program"}, n)
      BY <2>4 DEF SendBody
    <3>2. n \in Nat /\ {"program"} \in SUBSET Contents
      BY <2>1, <3>1 DEF EndPoints, Contents
    <3>3. QED
      BY <2>1, <3>1, <3>2, DeliveredTypes
  <2>5. CASE Sendfile(c)
    <3>1. PICK n \in Nat : got' = Delivered(c, sock[c], <<>>, {tab[ep[c].fd].of}, n)
      BY <2>5, SendfileSome
    <3>2. {tab[ep[c].fd].of} \in SUBSET Contents
      BY <2>5, SendfileSome DEF FileOf, Contents
    <3>3. QED
      BY <2>1, <3>1, <3>2, DeliveredTypes
  <2>6. QED
    BY <2>2, <2>3, <2>4, <2>5 DEF Accept, HanderReq, ReadRequest, BuildResponse, SendResponse, Delete,
       RecvRequestLine, RecvHead, RecvBlank, RecvReqBody, BodyRead, RecvFails, Recv, RejectMethod,
       StatTarget, StatIndex, ProcessCGI, ProcessNoCGI, BuildOK, BuildError, BuildErrorStat, Builds,
       EndSendBody, EndSendfile, CloseFile
<1>7. QED
  BY <1>1, <1>2, <1>3, <1>4, <1>5, <1>6 DEF TypeOK, clientVars, siteVars

-----------------------------------------------------------------------------
(* Only its own client is at the other end of an endpoint's connection.    *)
LEMMA PeersOwn ==
  ASSUME NEW c \in Conns, OwnsBoth(c), ~At(c, "accept"), ~At(c, "done")
  PROVE  Peers(sock[c]) = {c} \ left
BY DEF OwnsBoth, Peers

(* So what the endpoint sends, no other client gets.                       *)
LEMMA DeliveredOwn ==
  ASSUME TypeOK, NEW c \in Conns, OwnsBoth(c), ~At(c, "accept"), ~At(c, "done"),
         NEW heads, NEW of, NEW n
  PROVE  /\ \A d \in Conns \ {c} : Delivered(c, sock[c], heads, of, n)[d] = got[d]
         /\ c \in left => Delivered(c, sock[c], heads, of, n)[c] = got[c]
         /\ c \notin left => Delivered(c, sock[c], heads, of, n)[c]
              = [heads |-> got[c].heads \o heads, body |-> got[c].body + n,
                 of |-> got[c].of \cup of, from |-> got[c].from \cup {c}]
<1>1. Peers(sock[c]) = {c} \ left
  BY PeersOwn
<1>2. QED
  BY <1>1 DEF Delivered

(* A worker leaves the endpoints, connections, files and clients of the    *)
(* others alone.                                                           *)
LEMMA OthersStay ==
  ASSUME TypeOK, NEW c \in Conns, OwnsBoth(c), Accept(c) \/ HanderReq(c)
  PROVE  /\ UNCHANGED <<left, siteVars>>
         /\ \A d \in Conns \ {c} : ep'[d] = ep[d] /\ sock'[d] = sock[d] /\ got'[d] = got[d]
         /\ \A f \in Fds : tab[f].of # "free" /\ tab[f].own # c => tab'[f] = tab[f]
         /\ \A f \in Fds : tab'[f] = tab[f] \/ tab'[f].of = "free" \/ tab'[f].own = c
<1>1. UNCHANGED <<left, siteVars>>
  BY DEF Accept, HanderReq, ReadRequest, BuildResponse, SendResponse, Delete, RecvRequestLine, RecvHead,
         RecvBlank, RecvReqBody, BodyRead, RecvFails, Recv, RejectMethod, StatTarget, StatIndex,
         ProcessCGI, ProcessNoCGI, BuildOK, BuildError, BuildErrorStat, Builds, SendHead, SendBody,
         EndSendBody, Sendfile, EndSendfile, CloseFile, clientVars, siteVars
<1>2. \A d \in Conns \ {c} : ep'[d] = ep[d] /\ sock'[d] = sock[d]
  <2>1. ep \in [Conns -> EndPoints] /\ sock \in [Conns -> Fds \cup {NoFd}]
    BY DEF TypeOK
  <2>2. CASE Accept(c)
    BY <2>1, <2>2 DEF Accept
  <2>3. CASE ReadRequest(c)
    BY <2>1, <2>3 DEF ReadRequest, RecvRequestLine, RecvHead, RecvBlank, RecvReqBody, BodyRead,
       RecvFails, Recv
  <2>4. CASE StatTarget(c) \/ StatIndex(c)
    BY <2>1, <2>4 DEF StatTarget, StatIndex, Routed, Builds
  <2>5. CASE RejectMethod(c) \/ ProcessCGI(c) \/ ProcessNoCGI(c)
    BY <2>1, <2>5 DEF RejectMethod, ProcessCGI, ProcessNoCGI, Builds
  <2>6. CASE BuildOK(c) \/ BuildError(c) \/ BuildErrorStat(c)
    <3>1. CASE BuildOK(c)
      BY <2>1, <3>1 DEF BuildOK, Builds
    <3>2. CASE BuildError(c)
      BY <2>1, <3>2 DEF BuildError, Builds
    <3>3. CASE BuildErrorStat(c)
      BY <2>1, <3>3 DEF BuildErrorStat, Builds
    <3>4. QED
      BY <2>6, <3>1, <3>2, <3>3
  <2>7. CASE SendResponse(c) \/ Delete(c)
    BY <2>1, <2>7 DEF SendResponse, SendHead, SendBody, EndSendBody, Sendfile, EndSendfile,
       CloseFile, Delete
  <2>8. QED
    BY <2>2, <2>3, <2>4, <2>5, <2>6, <2>7 DEF HanderReq, BuildResponse
<1>3. \A d \in Conns \ {c} : got'[d] = got[d]
  <2>1. CASE SendHead(c)
    <3>1. ~At(c, "accept") /\ ~At(c, "done")
      BY <2>1 DEF SendHead, At
    <3>2. got' = Delivered(c, sock[c], <<[code |-> ep[c].status, length |-> ep[c].announced]>>, {}, 0)
      BY <2>1 DEF SendHead
    <3>3. Peers(sock[c]) = {c} \ left
      BY <3>1, PeersOwn
    <3>4. QED
      BY <3>2, <3>3 DEF Delivered
  <2>2. CASE SendBody(c)
    <3>1. ~At(c, "accept") /\ ~At(c, "done")
      BY <2>2 DEF SendBody, InSendLoop, At
    <3>2. PICK n : got' = Delivered(c, sock[c], <<>>, {"program"}, n)
      BY <2>2 DEF SendBody
    <3>3. Peers(sock[c]) = {c} \ left
      BY <3>1, PeersOwn
    <3>4. QED
      BY <3>2, <3>3 DEF Delivered
  <2>3. CASE Sendfile(c)
    <3>1. ~At(c, "accept") /\ ~At(c, "done")
      BY <2>3 DEF Sendfile, InSendfile, At
    <3>2. PICK n : got' = Delivered(c, sock[c], <<>>, {tab[ep[c].fd].of}, n)
      BY <2>3 DEF Sendfile
    <3>3. Peers(sock[c]) = {c} \ left
      BY <3>1, PeersOwn
    <3>4. QED
      BY <3>2, <3>3 DEF Delivered
  <2>4. QED
    BY <2>1, <2>2, <2>3 DEF Accept, HanderReq, ReadRequest, BuildResponse, SendResponse, Delete,
       RecvRequestLine, RecvHead, RecvBlank, RecvReqBody, BodyRead, RecvFails, Recv, RejectMethod,
       StatTarget, StatIndex, ProcessCGI, ProcessNoCGI, BuildOK, BuildError, BuildErrorStat, Builds,
       EndSendBody, EndSendfile, CloseFile
<1>4. ASSUME NEW f \in Fds
      PROVE  /\ tab[f].of # "free" /\ tab[f].own # c => tab'[f] = tab[f]
             /\ tab'[f] = tab[f] \/ tab'[f].of = "free" \/ tab'[f].own = c
  <2>1. tab \in [Fds -> Descriptors]
    BY DEF TypeOK
  <2>2. CASE tab' = tab
    BY <2>2
  <2>3. ASSUME NEW of, NEW n, FreeFds # {}, tab' = Opened(c, of, n)
        PROVE  /\ tab[f].of # "free" => tab'[f] = tab[f]
               /\ tab'[f] = tab[f] \/ tab'[f].own = c
    BY <2>1, <2>3, LowestFree DEF Opened
  <2>4. CASE Accept(c)
    BY <2>3, <2>4 DEF Accept
  <2>5. CASE ProcessNoCGI(c)
    BY <2>2, <2>3, <2>5 DEF ProcessNoCGI, CanOpen
  <2>6. CASE BuildError(c)
    BY <2>2, <2>3, <2>6 DEF BuildError, CanOpen
  <2>7. CASE CloseFile(c)
    <3>1. ep[c].fd = f => tab[f].own = c
      <4>1. ~At(c, "delete") /\ ~At(c, "done") /\ f # NoFd
        BY <2>7, NumbersAssumption DEF CloseFile, At, NoFd
      <4>2. QED
        BY <4>1 DEF OwnsBoth, HasFile
    <3>2. QED
      BY <2>7, <3>1 DEF CloseFile, Closed, Free
  <2>8. CASE Delete(c)
    BY <2>8 DEF Delete, At, OwnsBoth, Closed, Free
  <2>9. QED
    BY <2>2, <2>4, <2>5, <2>6, <2>7, <2>8 DEF HanderReq, ReadRequest, BuildResponse, SendResponse,
       RecvRequestLine, RecvHead, RecvBlank, RecvReqBody, BodyRead, RecvFails, Recv, RejectMethod,
       StatTarget, StatIndex, ProcessCGI, BuildOK, BuildErrorStat, SendHead, SendBody, EndSendBody,
       Sendfile, EndSendfile
<1>5. QED
  BY <1>1, <1>2, <1>3, <1>4

(* What holds of an endpoint still does when another one's worker goes on. *)
LEMMA OthersKeep ==
  ASSUME TypeOK, NEW c \in Conns, OwnsBoth(c), Accept(c) \/ HanderReq(c),
         NEW d \in Conns \ {c},
         OwnsBoth(d) /\ NoneLost(d) /\ Members(d) /\ Response(d) /\ Unchanged(d)
  PROVE  (OwnsBoth(d) /\ NoneLost(d) /\ Members(d) /\ Response(d) /\ Unchanged(d))'
<1>1. /\ UNCHANGED <<left, site, deployed>>
      /\ ep'[d] = ep[d] /\ sock'[d] = sock[d] /\ got'[d] = got[d]
  BY OthersStay DEF siteVars
<1>2. \A f \in Fds : tab[f].of # "free" /\ tab[f].own = d => tab'[f] = tab[f]
  BY OthersStay
<1>3. OwnsBoth(d)'
  <2>1. FileOf(d) # "free"
    BY DEF FileOf, TypeOK, EndPoints, Paths
  <2>2. QED
    BY <1>1, <1>2, <2>1 DEF OwnsBoth, HasFile, FileOf, At
<1>4. Members(d)'
  BY <1>1 DEF Members, At
<1>8. NoneLost(d)'
  <2>1. \A f \in Fds : tab'[f] = tab[f] \/ tab'[f].of = "free" \/ tab'[f].own = c
    BY OthersStay
  <2>2. QED
    BY <1>1, <2>1 DEF NoneLost, HasFile, At
<1>5. Response(d)'
  BY <1>1 DEF Response, Answer, At
<1>6. Unchanged(d)'
  <2>1. FileOf(d) # "free"
    BY DEF FileOf, TypeOK, EndPoints, Paths
  <2>2. HasFile(d) => tab'[ep[d].fd] = tab[ep[d].fd]
    BY <1>2, <2>1 DEF OwnsBoth
  <2>3. QED
    BY <1>1, <2>2 DEF Unchanged, HasFile, FileOf, At
<1>7. QED
  BY <1>3, <1>4, <1>5, <1>6, <1>8

-----------------------------------------------------------------------------
(* A step that only moves the worker on keeps the members.                 *)
LEMMA MovesOn ==
  ASSUME TypeOK, NEW c \in Conns, NEW pc, ep' = [ep EXCEPT ![c].pc = pc]
  PROVE  /\ ep'[c].status = ep[c].status /\ ep'[c].cgi = ep[c].cgi /\ ep'[c].path = ep[c].path
         /\ ep'[c].size = ep[c].size /\ ep'[c].fd = ep[c].fd /\ ep'[c].res_body = ep[c].res_body
         /\ ep'[c].announced = ep[c].announced /\ ep'[c].total = ep[c].total
         /\ ep'[c].pc = pc
<1>1. ep \in [Conns -> EndPoints] /\ ep[c] \in EndPoints
  BY DEF TypeOK
<1>2. QED
  BY <1>1 DEF EndPoints

(* As long as the table stays as it is and the endpoint keeps what it has, *)
(* its connection and its file are its own.                                *)
LEMMA SameFiles ==
  ASSUME NEW c \in Conns, OwnsBoth(c), NoneLost(c), tab' = tab, sock' = sock,
         ~At(c, "accept") /\ ~At(c, "done"), ep'[c].pc \notin {"accept", "done"},
         HasFile(c)' <=> HasFile(c),
         HasFile(c) => ep'[c].fd = ep[c].fd /\ FileOf(c)' = FileOf(c)
  PROVE  OwnsBoth(c)' /\ NoneLost(c)'
BY DEF OwnsBoth, NoneLost, At

(* The file that an endpoint opens is its own.                             *)
LEMMA OpensFile ==
  ASSUME TypeOK, NEW c \in Conns, OwnsBoth(c), NoneLost(c), NEW of, NEW n, FreeFds # {},
         tab' = Opened(c, of, n), sock' = sock,
         ~At(c, "accept") /\ ~At(c, "done"), ep[c].fd = NoFd,
         ep'[c].pc \notin {"accept", "done", "delete"}, ep'[c].fd = Min(FreeFds), FileOf(c)' = of
  PROVE  OwnsBoth(c)' /\ NoneLost(c)' /\ tab'[ep'[c].fd].size = n
<1>1. tab \in [Fds -> Descriptors]
  BY DEF TypeOK
<1>2. Min(FreeFds) \in Fds /\ tab[Min(FreeFds)].of = "free"
  BY LowestFree
<1>3. tab'[Min(FreeFds)] = [of |-> of, own |-> c, size |-> n, live |-> TRUE]
  BY <1>1, <1>2 DEF Opened
<1>4. \A f \in Fds \ {Min(FreeFds)} : tab'[f] = tab[f]
  BY <1>1, <1>2 DEF Opened
<1>5. sock[c] \in Fds /\ tab[sock[c]].of = "conn" /\ tab[sock[c]].own = c
  BY DEF OwnsBoth
<1>6. OwnsBoth(c)'
  BY <1>2, <1>3, <1>4, <1>5 DEF OwnsBoth, HasFile, At
<1>7. NoneLost(c)'
  <2>1. HasFile(c)'
    BY <1>2, NumbersAssumption DEF HasFile, At, NoFd
  <2>2. ~HasFile(c)
    BY DEF HasFile
  <2>3. QED
    BY <1>4, <2>1, <2>2 DEF NoneLost, At
<1>8. QED
  BY <1>3, <1>6, <1>7

(* accept gives the endpoint its connection; it has nothing else yet.      *)
LEMMA AcceptKeeps ==
  ASSUME TypeOK, NEW c \in Conns, OwnsBoth(c), NoneLost(c), Members(c), Response(c), Unchanged(c),
         Accept(c)
  PROVE  (OwnsBoth(c) /\ NoneLost(c) /\ Members(c) /\ Response(c) /\ Unchanged(c))'
<1>1. ep[c].pc = "accept" /\ ep'[c].pc = "line"
  BY MovesOn DEF Accept, At
<1>2. /\ ep'[c].status = ep[c].status /\ ep'[c].fd = ep[c].fd
      /\ ep'[c].announced = ep[c].announced /\ ep'[c].total = ep[c].total
  BY MovesOn DEF Accept
<1>3. ep[c].fd = NoFd /\ ep[c].status = 200 /\ ep[c].announced = Unset /\ ep[c].total = 0
  BY <1>1 DEF Members, Reading, At
<1>4. /\ sock'[c] \in Fds /\ tab'[sock'[c]].of = "conn" /\ tab'[sock'[c]].own = c
      /\ \A f \in Fds \ {sock'[c]} : tab'[f] = tab[f]
  <2>1. tab \in [Fds -> Descriptors] /\ sock \in [Conns -> Fds \cup {NoFd}]
    BY DEF TypeOK
  <2>2. sock'[c] = Min(FreeFds) /\ tab' = Opened(c, "conn", 0) /\ sock'[c] \in Fds
    BY <2>1, LowestFree DEF Accept
  <2>3. QED
    BY <2>1, <2>2 DEF Opened
<1>5. OwnsBoth(c)' /\ NoneLost(c)'
  BY <1>1, <1>2, <1>3, <1>4 DEF OwnsBoth, NoneLost, HasFile, At
<1>6. Members(c)'
  BY <1>1, <1>2, <1>3 DEF Members, Reading, Routes, Sending, At
<1>7. Response(c)' /\ Unchanged(c)'
  <2>1. got' = got /\ ep[c].pc \in Unsent /\ ep'[c].pc \in Unsent
    BY <1>1 DEF Accept, Unsent, Reading
  <2>2. QED
    BY <1>1, <1>2, <1>3, <2>1 DEF Response, Unchanged, HasFile, Over, At
<1>8. QED
  BY <1>5, <1>6, <1>7

(* What ReadRequest does to an endpoint: it is asking, and will build a    *)
(* response or be deleted.                                                 *)
LEMMA ReadMoves ==
  ASSUME TypeOK, NEW c \in Conns, Members(c), ReadRequest(c)
  PROVE  /\ tab' = tab /\ sock' = sock /\ got' = got /\ left' = left
         /\ ep[c].pc \in {"line", "heads", "body"}
         /\ ep'[c].pc \in {"line", "heads", "body", "build"} \/ (ep'[c].pc = "delete" /\ c \in left)
         /\ ep'[c].status = ep[c].status /\ ep'[c].fd = ep[c].fd
         /\ ep'[c].announced = ep[c].announced /\ ep'[c].total = ep[c].total
         /\ ep[c].fd = NoFd /\ ep[c].status = 200 /\ ep[c].announced = Unset /\ ep[c].total = 0
<1>1. /\ tab' = tab /\ sock' = sock /\ got' = got /\ left' = left
      /\ ep[c].pc \in {"line", "heads", "body"}
  BY DEF ReadRequest, RecvRequestLine, RecvHead, RecvBlank, RecvReqBody, BodyRead, RecvFails, Recv, At,
         clientVars
<1>2. /\ ep'[c].pc \in {"line", "heads", "body", "build"} \/ (ep'[c].pc = "delete" /\ c \in left)
      /\ ep'[c].status = ep[c].status /\ ep'[c].fd = ep[c].fd
      /\ ep'[c].announced = ep[c].announced /\ ep'[c].total = ep[c].total
  <2>1. CASE RecvRequestLine(c)
    BY <2>1, MovesOn DEF RecvRequestLine
  <2>2. CASE RecvHead(c)
    BY <2>2, <1>1 DEF RecvHead
  <2>3. CASE RecvBlank(c)
    <3>1. ep' = [ep EXCEPT ![c].pc = "body", ![c].length = ContentLength(req[c])]
      BY <2>3 DEF RecvBlank
    <3>2. ep \in [Conns -> EndPoints] /\ ep[c] \in EndPoints
      BY DEF TypeOK
    <3>3. QED
      BY <3>1, <3>2 DEF EndPoints
  <2>4. CASE RecvReqBody(c)
    <3>1. ep' = [ep EXCEPT ![c].length = @ - 1]
      BY <2>4 DEF RecvReqBody
    <3>2. ep \in [Conns -> EndPoints] /\ ep[c] \in EndPoints
      BY DEF TypeOK
    <3>3. QED
      BY <1>1, <3>1, <3>2 DEF EndPoints
  <2>5. CASE BodyRead(c)
    BY <2>5, MovesOn DEF BodyRead
  <2>6. CASE RecvFails(c)
    BY <2>6, MovesOn DEF RecvFails
  <2>7. QED
    BY <2>1, <2>2, <2>3, <2>4, <2>5, <2>6 DEF ReadRequest
<1>3. ep[c].fd = NoFd /\ ep[c].status = 200 /\ ep[c].announced = Unset /\ ep[c].total = 0
  BY <1>1 DEF Members, Reading
<1>4. QED
  BY <1>1, <1>2, <1>3

(* While it reads its request an endpoint has no file and sends nothing.   *)
LEMMA ReadKeeps ==
  ASSUME TypeOK, NEW c \in Conns, OwnsBoth(c), NoneLost(c), Members(c), Response(c), Unchanged(c),
         ReadRequest(c)
  PROVE  (OwnsBoth(c) /\ NoneLost(c) /\ Members(c) /\ Response(c) /\ Unchanged(c))'
<1>1. /\ tab' = tab /\ sock' = sock /\ got' = got /\ left' = left
      /\ ep[c].pc \in {"line", "heads", "body"}
  BY ReadMoves
<1>2. /\ ep'[c].pc \in {"line", "heads", "body", "build"} \/ (ep'[c].pc = "delete" /\ c \in left)
      /\ ep'[c].status = ep[c].status /\ ep'[c].fd = ep[c].fd
      /\ ep'[c].announced = ep[c].announced /\ ep'[c].total = ep[c].total
  BY ReadMoves
<1>3. ep[c].fd = NoFd /\ ep[c].status = 200 /\ ep[c].announced = Unset /\ ep[c].total = 0
  BY ReadMoves
<1>4. OwnsBoth(c)' /\ NoneLost(c)'
  BY <1>1, <1>2, <1>3, SameFiles DEF HasFile, At
<1>5. Members(c)'
  BY <1>2, <1>3 DEF Members, Reading, Routes, Sending, At
<1>6. Response(c)' /\ Unchanged(c)'
  <2>1. got[c] = Nothing
    BY <1>1 DEF Response, Unsent, Reading
  <2>2. Response(c)'
    BY <1>1, <1>2, <2>1 DEF Response, Unsent, Reading
  <2>3. Unchanged(c)'
    BY <1>1, <1>2, <1>3, <2>1 DEF Unchanged, HasFile, Nothing, Over, At
  <2>4. QED
    BY <2>2, <2>3
<1>7. QED
  BY <1>4, <1>5, <1>6

-----------------------------------------------------------------------------
(* BuildResponse decides what is sent, and sends nothing.                  *)
LEMMA BuildSends ==
  ASSUME TypeOK, NEW c \in Conns, Response(c), BuildResponse(c)
  PROVE  /\ UNCHANGED <<site, deployed, sock, left, got>>
         /\ ep[c].pc \in {"build", "stat_index", "cgi", "open", "helper", "stat_page"}
         /\ got[c] = Nothing
<1>1. /\ UNCHANGED <<site, deployed, sock, left, got>>
      /\ ep[c].pc \in {"build", "stat_index", "cgi", "open", "helper", "stat_page"}
  BY DEF BuildResponse, RejectMethod, StatTarget, StatIndex, ProcessCGI, ProcessNoCGI, BuildOK,
         BuildError, BuildErrorStat, Builds, At, clientVars, siteVars
<1>2. QED
  BY <1>1 DEF Response, Unsent, Reading, Routes

(* Until it is done, its client has been sent nothing.                     *)
LEMMA Unsends ==
  ASSUME TypeOK, NEW c \in Conns, Response(c), BuildResponse(c), ep'[c].pc \in Unsent
  PROVE  Response(c)'
<1>1. got' = got /\ got[c] = Nothing
  BY BuildSends
<1>2. QED
  BY <1>1 DEF Response

(* Where the route to the file is chosen.                                  *)
LEMMA RoutedKeeps ==
  ASSUME TypeOK, NEW c \in Conns, OwnsBoth(c), NoneLost(c), Members(c), Response(c), Unchanged(c),
         StatTarget(c) \/ StatIndex(c),
         NEW path \in Paths, NEW file, ep' = Routed(c, path, file),
         file.type = "file" => file.size = site[path].size /\ file.size \in 0..MaxSize,
         ~WithParameters(req[c]) => path \in {"target", "index"},
         file.type \in {"file", "prog", "dir"}
  PROVE  (OwnsBoth(c) /\ NoneLost(c) /\ Members(c) /\ Response(c) /\ Unchanged(c))'
<1> DEFINE cgi == WithParameters(req[c]) \/ file.type \in {"prog", "dir"}
<1>1. /\ ep'[c].pc = (IF cgi THEN "cgi" ELSE "open") /\ ep'[c].cgi = cgi
      /\ ep'[c].path = path /\ ep'[c].size = file.size
      /\ ep'[c].status = ep[c].status /\ ep'[c].fd = ep[c].fd
      /\ ep'[c].announced = ep[c].announced /\ ep'[c].total = ep[c].total
  <2>1. ep \in [Conns -> EndPoints] /\ ep[c] \in EndPoints
    BY DEF TypeOK
  <2> DEFINE pc == IF cgi THEN "cgi" ELSE "open"
  <2>2. ep' = [ep EXCEPT ![c].pc = pc, ![c].cgi = cgi, ![c].path = path, ![c].size = file.size]
    BY DEF Routed
  <2> HIDE DEF cgi, pc
  <2>3. ep' = [ep EXCEPT ![c] = [ep[c] EXCEPT !.pc = pc, !.cgi = cgi, !.path = path, !.size = file.size]]
    BY <2>1, <2>2
  <2>4. ep'[c] = [ep[c] EXCEPT !.pc = pc, !.cgi = cgi, !.path = path, !.size = file.size]
    BY <2>1, <2>3
  <2>5. /\ ep'[c].pc = pc /\ ep'[c].cgi = cgi /\ ep'[c].path = path /\ ep'[c].size = file.size
        /\ ep'[c].status = ep[c].status /\ ep'[c].fd = ep[c].fd
        /\ ep'[c].announced = ep[c].announced /\ ep'[c].total = ep[c].total
    BY <2>1, <2>4 DEF EndPoints
  <2>6. QED
    BY <2>5 DEF pc
<1>2. /\ UNCHANGED <<site, deployed, sock, left, got, tab>> /\ got[c] = Nothing
      /\ ep[c].pc \in {"build", "stat_index"}
  BY BuildSends DEF BuildResponse, StatTarget, StatIndex, At
<1>3. ep[c].fd = NoFd /\ ep[c].status = 200 /\ ep[c].announced = Unset /\ ep[c].total = 0
  BY <1>2 DEF Members, Reading
<1>4. OwnsBoth(c)' /\ NoneLost(c)'
  BY <1>1, <1>2, <1>3, SameFiles DEF HasFile, At
<1>5. ~cgi => file.type = "file" /\ path \in {"target", "index"}
  OBVIOUS
<1>6. ~cgi => file.size # Unset
  BY NumbersAssumption DEF Unset
<1>7. Members(c)'
  <2> HIDE DEF cgi
  <2>1. CASE cgi
    BY <1>1, <1>3, <2>1 DEF Members, Reading, Routes, Sending, At
  <2>2. CASE ~cgi
    BY <1>1, <1>3, <1>5, <1>6, <2>2 DEF Members, Reading, Routes, Sending, At
  <2>3. QED
    BY <2>1, <2>2
<1>8. Response(c)'
  BY <1>1, Unsends DEF Unsent, Routes, BuildResponse
<1>9. Unchanged(c)'
  BY <1>1, <1>2, <1>3, <1>5 DEF Unchanged, HasFile, Over, At
<1>10. QED
  BY <1>4, <1>7, <1>8, <1>9

(* A step that fails only sets the status.                                 *)
LEMMA FailsWith ==
  ASSUME TypeOK, NEW c \in Conns, NEW code, code # 200,
         OwnsBoth(c), NoneLost(c), Members(c), Response(c), Unchanged(c),
         BuildResponse(c), tab' = tab, ~At(c, "helper"), ~At(c, "stat_page"),
         ep' = [ep EXCEPT ![c].pc = "helper", ![c].status = code]
  PROVE  (OwnsBoth(c) /\ NoneLost(c) /\ Members(c) /\ Response(c) /\ Unchanged(c))'
<1>1. /\ ep'[c].pc = "helper" /\ ep'[c].status = code /\ ep'[c].fd = ep[c].fd
      /\ ep'[c].announced = ep[c].announced /\ ep'[c].total = ep[c].total
  <2>1. ep \in [Conns -> EndPoints] /\ ep[c] \in EndPoints
    BY DEF TypeOK
  <2>2. ep'[c] = [ep[c] EXCEPT !.pc = "helper", !.status = code]
    BY <2>1
  <2>3. QED
    BY <2>1, <2>2 DEF EndPoints
<1>2. /\ UNCHANGED <<site, deployed, sock, left, got, tab>> /\ got[c] = Nothing
      /\ ep[c].pc \in Reading \cup Routes /\ ep[c].pc # "accept"
  BY BuildSends DEF Reading, Routes, At
<1>3. ep[c].fd = NoFd /\ ep[c].status = 200 /\ ep[c].announced = Unset /\ ep[c].total = 0
  BY <1>2 DEF Members
<1>4. OwnsBoth(c)' /\ NoneLost(c)'
  <2>1. ~At(c, "accept") /\ ~At(c, "done")
    BY <1>2 DEF At, Reading, Routes
  <2>2. QED
    BY <1>1, <1>2, <1>3, <2>1, SameFiles DEF HasFile
<1>5. Members(c)'
  BY <1>1, <1>3 DEF Members, Reading, Routes, Sending, At
<1>6. Response(c)'
  BY <1>1, Unsends DEF Unsent
<1>7. Unchanged(c)'
  BY <1>1, <1>2, <1>3 DEF Unchanged, HasFile, Over, At
<1>8. QED
  BY <1>4, <1>5, <1>6, <1>7

(* stat of what was asked for, and of index.html in a directory.           *)
LEMMA StatKeeps ==
  ASSUME TypeOK, NEW c \in Conns, OwnsBoth(c), NoneLost(c), Members(c), Response(c), Unchanged(c),
         StatTarget(c) \/ StatIndex(c)
  PROVE  (OwnsBoth(c) /\ NoneLost(c) /\ Members(c) /\ Response(c) /\ Unchanged(c))'
<1>1. site \in [Paths -> Entries]
  BY DEF TypeOK
<1>2. \A p \in Paths : site[p].size \in 0..MaxSize /\ site[p].type \in Types
  BY <1>1 DEF Entries
<1>3. CASE StatTarget(c)
  <2> DEFINE path == PathOf(req[c])
             file == site[path]
  <2>1. path \in Paths /\ (~WithParameters(req[c]) => path \in {"target", "index"})
    BY DEF PathOf, Paths, WithParameters
  <2>2. \/ ep' = [ep EXCEPT ![c].pc = "helper", ![c].status = 404]
        \/ ep' = [ep EXCEPT ![c].pc = "stat_index", ![c].size = file.size]
        \/ file.type \in {"file", "prog"} /\ ep' = Routed(c, path, file)
    BY <1>3 DEF StatTarget
  <2>3. file.size \in 0..MaxSize
    BY <1>2, <2>1
  <2>4. At(c, "build") /\ tab' = tab /\ BuildResponse(c)
    BY <1>3 DEF StatTarget, BuildResponse
  <2> HIDE DEF path
  <2>5. CASE ep' = [ep EXCEPT ![c].pc = "helper", ![c].status = 404]
    <3> DEFINE code == 404
    <3>1. code # 200 /\ ep' = [ep EXCEPT ![c].pc = "helper", ![c].status = code]
      BY <2>5
    <3> HIDE DEF code
    <3>2. QED
      BY <2>4, <3>1, FailsWith DEF At
  <2>6. CASE file.type \in {"file", "prog"} /\ ep' = Routed(c, path, file)
    BY <1>3, <2>1, <2>3, <2>6, RoutedKeeps
  <2>7. CASE ep' = [ep EXCEPT ![c].pc = "stat_index", ![c].size = file.size]
    <3>1. /\ ep'[c].pc = "stat_index" /\ ep'[c].status = ep[c].status /\ ep'[c].fd = ep[c].fd
          /\ ep'[c].announced = ep[c].announced /\ ep'[c].total = ep[c].total
      <4>1. ep \in [Conns -> EndPoints] /\ ep[c] \in EndPoints
        BY DEF TypeOK
      <4>2. ep'[c] = [ep[c] EXCEPT !.pc = "stat_index", !.size = file.size]
        BY <2>7, <4>1
      <4>3. QED
        BY <4>1, <4>2 DEF EndPoints
    <3>2. UNCHANGED <<site, deployed, sock, left, got>> /\ got[c] = Nothing
      BY <2>4, BuildSends
    <3>3. ep[c].fd = NoFd /\ ep[c].status = 200 /\ ep[c].announced = Unset /\ ep[c].total = 0
      BY <2>4 DEF Members, Reading, At
    <3>4. OwnsBoth(c)' /\ NoneLost(c)'
      BY <2>4, <3>1, <3>2, <3>3, SameFiles DEF HasFile, At
    <3>5. Members(c)'
      BY <3>1, <3>3 DEF Members, Reading, Routes, Sending, At
    <3>6. Response(c)'
      BY <2>4, <3>1, Unsends DEF Unsent, Reading
    <3>7. Unchanged(c)'
      BY <3>1, <3>3 DEF Unchanged, HasFile, Over, At
    <3>8. QED
      BY <3>4, <3>5, <3>6, <3>7
  <2>8. QED
    BY <2>2, <2>5, <2>6, <2>7
<1>4. CASE StatIndex(c)
  <2>1. ep' = Routed(c, "index", FileState(c)) /\ "index" \in Paths
    BY <1>4 DEF StatIndex, Paths
  <2>2. /\ FileState(c).type \in {"file", "prog", "dir"}
        /\ FileState(c).type = "file" =>
             FileState(c).size = site["index"].size /\ FileState(c).size \in 0..MaxSize
    BY <1>2, <2>1 DEF FileState, Types
  <2>3. QED
    BY <1>4, <2>1, <2>2, RoutedKeeps
<1>5. QED
  BY <1>3, <1>4


(* ProcessCGI and ProcessNoCGI: a program's output, an open file, or an    *)
(* error.                                                                  *)
LEMMA ProcessKeeps ==
  ASSUME TypeOK, NEW c \in Conns, OwnsBoth(c), NoneLost(c), Members(c), Response(c), Unchanged(c),
         ProcessCGI(c) \/ ProcessNoCGI(c)
  PROVE  (OwnsBoth(c) /\ NoneLost(c) /\ Members(c) /\ Response(c) /\ Unchanged(c))'
<1>1. ep \in [Conns -> EndPoints] /\ ep[c] \in EndPoints
  BY DEF TypeOK
<1>2. BuildResponse(c) /\ ep[c].pc \in Routes
  BY DEF BuildResponse, ProcessCGI, ProcessNoCGI, At, Routes
<1>3. UNCHANGED <<site, deployed, sock, left, got>> /\ got[c] = Nothing
  BY <1>2, BuildSends
<1>4. ep[c].fd = NoFd /\ ep[c].status = 200 /\ ep[c].announced = Unset /\ ep[c].total = 0
  BY <1>2 DEF Members
<1>5. CASE ProcessCGI(c)
  <2>1. PICK code, n : ep' = [ep EXCEPT ![c].pc = "helper", ![c].status = code, ![c].res_body = n]
    BY <1>5 DEF ProcessCGI
  <2>2. tab' = tab /\ ep[c].cgi
    BY <1>5 DEF ProcessCGI, Members
  <2>3. ep'[c] = [ep[c] EXCEPT !.pc = "helper", !.status = code, !.res_body = n]
    BY <1>1, <2>1
  <2>4. /\ ep'[c].pc = "helper" /\ ep'[c].cgi = ep[c].cgi /\ ep'[c].fd = ep[c].fd
        /\ ep'[c].announced = ep[c].announced /\ ep'[c].total = ep[c].total
    BY <1>1, <2>3 DEF EndPoints
  <2>5. OwnsBoth(c)' /\ NoneLost(c)'
    BY <1>2, <1>3, <1>4, <2>2, <2>4, SameFiles DEF HasFile, Routes, At
  <2>6. Members(c)'
    BY <1>4, <2>2, <2>4 DEF Members, Reading, Routes, Sending, At
  <2>7. Response(c)'
    BY <1>2, <2>4, Unsends DEF Unsent
  <2>8. Unchanged(c)'
    BY <1>4, <2>4 DEF Unchanged, HasFile, Over, At
  <2>9. QED
    BY <2>5, <2>6, <2>7, <2>8
<1>6. CASE ProcessNoCGI(c) /\ CanOpen(ep[c].path)
  <2> DEFINE ok == 200
  <2>1. /\ tab' = Opened(c, ep[c].path, site[ep[c].path].size)
        /\ ep' = [ep EXCEPT ![c].pc = "helper", ![c].status = ok, ![c].fd = Min(FreeFds)]
    BY <1>6 DEF ProcessNoCGI
  <2> HIDE DEF ok
  <2>2. ep'[c] = [ep[c] EXCEPT !.pc = "helper", !.status = ok, !.fd = Min(FreeFds)]
    BY <1>1, <2>1
  <2>3. /\ ep'[c].pc = "helper" /\ ep'[c].status = ok /\ ep'[c].fd = Min(FreeFds)
        /\ ep'[c].cgi = ep[c].cgi /\ ep'[c].path = ep[c].path /\ ep'[c].size = ep[c].size
        /\ ep'[c].announced = ep[c].announced /\ ep'[c].total = ep[c].total
    BY <1>1, <2>2 DEF EndPoints
  <2>4. /\ ~ep[c].cgi /\ ep[c].path \in {"target", "index"} /\ ep[c].size # Unset
        /\ At(c, "open")
    BY <1>6 DEF ProcessNoCGI, Members
  <2>5. FileOf(c)' = ep[c].path
    BY <2>3 DEF FileOf, ok
  <2>6. FreeFds # {} /\ site[ep[c].path].type # "absent"
    BY <1>6 DEF CanOpen
  <2>7. OwnsBoth(c)' /\ NoneLost(c)' /\ tab'[ep'[c].fd].size = site[ep[c].path].size
    <3>1. ~At(c, "accept") /\ ~At(c, "done")
      BY <2>4 DEF At
    <3>2. ep'[c].pc \notin {"accept", "done", "delete"}
      BY <2>3
    <3> DEFINE of == ep[c].path
               n == site[of].size
    <3>3. tab' = Opened(c, of, n) /\ FileOf(c)' = of /\ ep'[c].fd = Min(FreeFds)
      BY <2>1, <2>3, <2>5
    <3>4. sock' = sock /\ ep[c].fd = NoFd /\ FreeFds # {}
      BY <1>3, <1>4, <2>6
    <3> HIDE DEF of, n
    <3>5. OwnsBoth(c)' /\ NoneLost(c)' /\ tab'[ep'[c].fd].size = n
      BY <3>1, <3>2, <3>3, <3>4, OpensFile
    <3>6. QED
      BY <3>5 DEF of, n
  <2>8. ep'[c].fd # NoFd
    BY <2>3, <2>6, LowestFree
  <2>9. Members(c)'
    BY <1>4, <2>3, <2>4, <2>8 DEF Members, Reading, Routes, Sending, At, ok
  <2>10. Response(c)'
    BY <1>2, <2>3, Unsends DEF Unsent
  <2>11. Unchanged(c)'
    BY <1>3, <2>3, <2>4, <2>5, <2>6, <2>7 DEF Unchanged, HasFile, Over, At
  <2>12. QED
    BY <2>7, <2>9, <2>10, <2>11
<1>7. CASE ProcessNoCGI(c) /\ ~CanOpen(ep[c].path)
  <2> DEFINE code == 404
  <2>1. /\ code # 200 /\ ep' = [ep EXCEPT ![c].pc = "helper", ![c].status = code] /\ tab' = tab
        /\ At(c, "open")
    BY <1>7 DEF ProcessNoCGI
  <2> HIDE DEF code
  <2>2. QED
    BY <1>2, <2>1, FailsWith DEF At
<1>8. QED
  BY <1>5, <1>6, <1>7

(* BuildOK and BuildError: what will be announced is what will be sent.    *)
LEMMA HelperKeeps ==
  ASSUME TypeOK, NEW c \in Conns, OwnsBoth(c), NoneLost(c), Members(c), Response(c), Unchanged(c),
         BuildOK(c) \/ BuildError(c) \/ BuildErrorStat(c)
  PROVE  (OwnsBoth(c) /\ NoneLost(c) /\ Members(c) /\ Response(c) /\ Unchanged(c))'
<1>1. ep \in [Conns -> EndPoints] /\ ep[c] \in EndPoints
  BY DEF TypeOK
<1>2. BuildResponse(c) /\ ep[c].pc \in {"helper", "stat_page"}
  BY DEF BuildResponse, BuildOK, BuildError, BuildErrorStat, At
<1>3. UNCHANGED <<site, deployed, sock, left, got>> /\ got[c] = Nothing
  BY <1>2, BuildSends
<1>4. ep[c].total = 0
  BY <1>2 DEF Members, At
<1>5. CASE BuildOK(c)
  <2> DEFINE n == IF ep[c].cgi THEN ep[c].res_body ELSE ep[c].size
  <2>1. ep' = [ep EXCEPT ![c].pc = "send_head", ![c].announced = n] /\ tab' = tab
    BY <1>5 DEF BuildOK
  <2>2. At(c, "helper") /\ ep[c].status = 200
    BY <1>5 DEF BuildOK
  <2> HIDE DEF n
  <2>3. ep'[c] = [ep[c] EXCEPT !.pc = "send_head", !.announced = n]
    BY <1>1, <2>1
  <2>4. /\ ep'[c].pc = "send_head" /\ ep'[c].announced = n
        /\ ep'[c].status = ep[c].status /\ ep'[c].cgi = ep[c].cgi /\ ep'[c].path = ep[c].path
        /\ ep'[c].size = ep[c].size /\ ep'[c].fd = ep[c].fd /\ ep'[c].res_body = ep[c].res_body
        /\ ep'[c].total = ep[c].total
    BY <1>1, <2>3 DEF EndPoints
  <2>5. OwnsBoth(c)' /\ NoneLost(c)'
    <3>1. (HasFile(c)' <=> HasFile(c)) /\ FileOf(c)' = FileOf(c)
      BY <2>2, <2>4 DEF HasFile, FileOf, At
    <3>2. ~At(c, "accept") /\ ~At(c, "done")
      BY <2>2 DEF At
    <3>3. QED
      BY <1>3, <2>1, <2>4, <3>1, <3>2, SameFiles
  <2>6. Members(c)'
    BY <1>4, <2>2, <2>4 DEF Members, Reading, Routes, Sending, At, n
  <2>7. Response(c)'
    BY <1>2, <2>4, Unsends DEF Unsent
  <2>8. Unchanged(c)'
    BY <1>3, <2>1, <2>2, <2>4 DEF Unchanged, HasFile, FileOf, Over, At
  <2>9. QED
    BY <2>5, <2>6, <2>7, <2>8
<1>6. CASE BuildError(c) /\ CanOpen("page404")
  <2>1. /\ tab' = Opened(c, "page404", site["page404"].size)
        /\ ep' = [ep EXCEPT ![c].pc = "stat_page", ![c].cgi = FALSE, ![c].fd = Min(FreeFds)]
        /\ At(c, "helper") /\ ep[c].status # 200
    BY <1>6 DEF BuildError
  <2>2. ep'[c] = [ep[c] EXCEPT !.pc = "stat_page", !.cgi = FALSE, !.fd = Min(FreeFds)]
    BY <1>1, <2>1
  <2>3. /\ ep'[c].pc = "stat_page" /\ ep'[c].cgi = FALSE /\ ep'[c].fd = Min(FreeFds)
        /\ ep'[c].status = ep[c].status /\ ep'[c].total = ep[c].total
    BY <1>1, <2>2 DEF EndPoints
  <2>4. FileOf(c)' = "page404" /\ ep[c].fd = NoFd
    BY <2>1, <2>3 DEF FileOf, Members
  <2>5. FreeFds # {} /\ site["page404"].type # "absent"
    BY <1>6 DEF CanOpen
  <2>6. OwnsBoth(c)' /\ NoneLost(c)' /\ tab'[ep'[c].fd].size = site["page404"].size
    <3>1. ~At(c, "accept") /\ ~At(c, "done")
      BY <2>1 DEF At
    <3>2. ep'[c].pc \notin {"accept", "done", "delete"}
      BY <2>3
    <3> DEFINE of == "page404"
               n == site[of].size
    <3>3. tab' = Opened(c, of, n) /\ FileOf(c)' = of /\ ep'[c].fd = Min(FreeFds)
      BY <2>1, <2>3, <2>4
    <3>4. sock' = sock /\ ep[c].fd = NoFd /\ FreeFds # {}
      BY <1>3, <2>4, <2>5
    <3> HIDE DEF of, n
    <3>5. OwnsBoth(c)' /\ NoneLost(c)' /\ tab'[ep'[c].fd].size = n
      BY <3>1, <3>2, <3>3, <3>4, OpensFile
    <3>6. QED
      BY <3>5 DEF of, n
  <2>7. ep'[c].fd # NoFd
    BY <2>3, <2>5, LowestFree
  <2>8. Members(c)'
    BY <1>4, <2>1, <2>3, <2>7 DEF Members, Reading, Routes, Sending, At
  <2>9. Response(c)'
    BY <1>2, <2>3, Unsends DEF Unsent
  <2>10. Unchanged(c)'
    BY <1>3, <2>3, <2>4, <2>5, <2>6 DEF Unchanged, HasFile, Over, At
  <2>11. QED
    BY <2>6, <2>8, <2>9, <2>10
<1>7. CASE BuildError(c) /\ ~CanOpen("page404")
  <2>1. /\ tab' = tab /\ ep' = [ep EXCEPT ![c].pc = "send_head", ![c].cgi = FALSE]
        /\ At(c, "helper") /\ ep[c].status # 200
    BY <1>7 DEF BuildError
  <2>2. ep'[c] = [ep[c] EXCEPT !.pc = "send_head", !.cgi = FALSE]
    BY <1>1, <2>1
  <2>3. /\ ep'[c].pc = "send_head" /\ ep'[c].cgi = FALSE /\ ep'[c].fd = ep[c].fd
        /\ ep'[c].status = ep[c].status /\ ep'[c].announced = ep[c].announced
        /\ ep'[c].total = ep[c].total
    BY <1>1, <2>2 DEF EndPoints
  <2>4. ep[c].fd = NoFd /\ ep[c].announced = Unset
    BY <2>1 DEF Members
  <2>5. OwnsBoth(c)' /\ NoneLost(c)'
    BY <1>3, <2>1, <2>3, <2>4, SameFiles DEF HasFile, At
  <2>6. Members(c)'
    BY <1>4, <2>1, <2>3, <2>4 DEF Members, Reading, Routes, Sending, At
  <2>7. Response(c)'
    BY <1>2, <2>3, Unsends DEF Unsent
  <2>8. Unchanged(c)'
    BY <2>3, <2>4 DEF Unchanged, HasFile, Over, At
  <2>9. QED
    BY <2>5, <2>6, <2>7, <2>8
<1>8. CASE BuildErrorStat(c)
  <2>1. PICK n \in PageSizes : ep' = [ep EXCEPT ![c].pc = "send_head", ![c].size = n, ![c].announced = n]
    BY <1>8 DEF BuildErrorStat
  <2>2. tab' = tab /\ At(c, "stat_page")
    BY <1>8 DEF BuildErrorStat
  <2>3. ep'[c] = [ep[c] EXCEPT !.pc = "send_head", !.size = n, !.announced = n]
    BY <1>1, <2>1
  <2>4. /\ ep'[c].pc = "send_head" /\ ep'[c].size = n /\ ep'[c].announced = n
        /\ ep'[c].status = ep[c].status /\ ep'[c].cgi = ep[c].cgi /\ ep'[c].path = ep[c].path
        /\ ep'[c].fd = ep[c].fd /\ ep'[c].total = ep[c].total
    BY <1>1, <2>3 DEF EndPoints
  <2>5. ep[c].status # 200 /\ ~ep[c].cgi /\ ep[c].fd # NoFd
    BY <2>2 DEF Members
  <2>6. n # Unset
    <3>1. "page404" \in Paths /\ site \in [Paths -> Entries]
      BY DEF Paths, TypeOK
    <3>2. site["page404"].size \in 0..MaxSize
      BY <3>1 DEF Entries
    <3>3. QED
      BY <3>2, NumbersAssumption DEF PageSizes, Unset
  <2>7. FileOf(c)' = FileOf(c) /\ FileOf(c) = "page404"
    BY <2>4, <2>5 DEF FileOf
  <2>8. OwnsBoth(c)' /\ NoneLost(c)'
    BY <1>3, <2>2, <2>4, <2>7, SameFiles DEF HasFile, At
  <2>9. Members(c)'
    BY <1>4, <2>4, <2>5, <2>6 DEF Members, Reading, Routes, Sending, At
  <2>10. Response(c)'
    BY <1>2, <2>4, Unsends DEF Unsent
  <2>11. Unchanged(c)'
    <3>1. SUFFICES ASSUME deployed' = 0 PROVE Unchanged(c)'
      BY DEF Unchanged
    <3>2. site["page404"].type # "absent" /\ tab[ep[c].fd].size = site["page404"].size
      BY <1>3, <2>2, <2>5, <2>7, <3>1 DEF Unchanged, HasFile, At
    <3>3. n = site["page404"].size
      BY <3>2 DEF PageSizes
    <3>4. QED
      BY <1>3, <2>2, <2>4, <2>7, <3>2, <3>3 DEF Unchanged, HasFile, Over, At
  <2>12. QED
    BY <2>8, <2>9, <2>10, <2>11
<1>9. QED
  BY <1>5, <1>6, <1>7, <1>8

(* So BuildResponse keeps the invariant.                                   *)
LEMMA BuildKeeps ==
  ASSUME TypeOK, NEW c \in Conns, OwnsBoth(c), NoneLost(c), Members(c), Response(c), Unchanged(c),
         BuildResponse(c)
  PROVE  (OwnsBoth(c) /\ NoneLost(c) /\ Members(c) /\ Response(c) /\ Unchanged(c))'
<1>1. CASE RejectMethod(c)
  <2> DEFINE code == 400
  <2>1. /\ code # 200 /\ ep' = [ep EXCEPT ![c].pc = "helper", ![c].status = code] /\ tab' = tab
        /\ At(c, "build")
    BY <1>1 DEF RejectMethod
  <2> HIDE DEF code
  <2>2. QED
    BY <2>1, FailsWith DEF At
<1>2. QED
  BY <1>1, StatKeeps, ProcessKeeps, HelperKeeps DEF BuildResponse

-----------------------------------------------------------------------------
(* SendResponse: the headers first, then the body that they announce.      *)
LEMMA SendHeadKeeps ==
  ASSUME TypeOK, NEW c \in Conns, OwnsBoth(c), NoneLost(c), Members(c), Response(c), Unchanged(c),
         SendHead(c)
  PROVE  (OwnsBoth(c) /\ NoneLost(c) /\ Members(c) /\ Response(c) /\ Unchanged(c))'
<1> DEFINE pc == IF ep[c].cgi THEN "send_body" ELSE "sendfile"
<1>1. ep' = [ep EXCEPT ![c].pc = pc] /\ UNCHANGED <<left, site, deployed, tab, sock>> /\ At(c, "send_head")
  BY DEF SendHead, clientVars, siteVars
<1>2. pc = (IF ep[c].cgi THEN "send_body" ELSE "sendfile")
  OBVIOUS
<1> HIDE DEF pc
<1>3. /\ ep'[c].status = ep[c].status /\ ep'[c].cgi = ep[c].cgi /\ ep'[c].path = ep[c].path
      /\ ep'[c].size = ep[c].size /\ ep'[c].fd = ep[c].fd /\ ep'[c].res_body = ep[c].res_body
      /\ ep'[c].announced = ep[c].announced /\ ep'[c].total = ep[c].total
      /\ ep'[c].pc = pc
  BY <1>1, MovesOn
<1>4. HasFile(c)' = HasFile(c) /\ FileOf(c)' = FileOf(c)
  BY <1>1, <1>2, <1>3 DEF HasFile, FileOf, At
<1>5. OwnsBoth(c)' /\ NoneLost(c)'
  BY <1>1, <1>2, <1>3, <1>4, SameFiles DEF At
<1>6. Members(c)'
  <2>1. ep[c].res_body >= 0
    BY DEF TypeOK, EndPoints
  <2>2. CASE ep[c].cgi
    BY <1>1, <1>2, <1>3, <2>1, <2>2 DEF Members, Reading, Routes, Sending, At
  <2>3. CASE ~ep[c].cgi
    BY <1>1, <1>2, <1>3, <2>3 DEF Members, Reading, Routes, Sending, At
  <2>4. QED
    BY <2>2, <2>3
<1>7. Response(c)'
  <2>1. got[c] = Nothing /\ pc \notin Unsent
    BY <1>1, <1>2 DEF Response, Unsent, Reading, Routes, At
  <2>2. CASE c \in left
    <3>1. got'[c] = got[c]
      <4>1. Peers(sock[c]) = {c} \ left
        BY <1>1, PeersOwn DEF At
      <4>2. QED
        BY <2>2, <4>1 DEF SendHead, Delivered
    <3>2. QED
      BY <1>1, <1>3, <2>1, <2>2, <3>1 DEF Response
  <2>3. CASE c \notin left
    <3>1. got'[c] = [heads |-> got[c].heads \o <<[code |-> ep[c].status, length |-> ep[c].announced]>>,
                     body |-> got[c].body + 0, of |-> got[c].of \cup {}, from |-> got[c].from \cup {c}]
      <4>1. Peers(sock[c]) = {c} \ left
        BY <1>1, PeersOwn DEF At
      <4>2. QED
        BY <2>3, <4>1 DEF SendHead, Delivered
    <3>2. got'[c].heads = Answer(c)
      BY <2>1, <3>1 DEF Nothing, Answer
    <3>3. got'[c].body = 0 /\ got'[c].of = {} /\ got'[c].from = {c}
      BY <2>1, <3>1 DEF Nothing
    <3>4. Answer(c)' = Answer(c) /\ ep[c].total = 0
      BY <1>1, <1>3 DEF Answer, Members
    <3>6. ep[c].status # 200 \/ ep[c].announced # Unset
      <4>1. ep[c].res_body # Unset
        BY DEF TypeOK, EndPoints, Unset
      <4>2. QED
        BY <1>1, <4>1 DEF Members, Sending, At
    <3>5. QED
      BY <1>2, <1>3, <2>1, <3>2, <3>3, <3>4, <3>6 DEF Response, At
  <2>4. QED
    BY <2>2, <2>3
<1>8. Unchanged(c)'
  BY <1>1, <1>2, <1>3, <1>4 DEF Unchanged, Over, At
<1>9. QED
  BY <1>5, <1>6, <1>7, <1>8

(* A send of the program's output, of as much as the socket takes.         *)
LEMMA SendBodyKeeps ==
  ASSUME TypeOK, NEW c \in Conns, OwnsBoth(c), NoneLost(c), Members(c), Response(c), Unchanged(c),
         SendBody(c)
  PROVE  (OwnsBoth(c) /\ NoneLost(c) /\ Members(c) /\ Response(c) /\ Unchanged(c))'
<1>1. /\ UNCHANGED <<left, site, deployed, tab, sock>> /\ At(c, "send_body")
      /\ Peers(sock[c]) # {}
  BY DEF SendBody, InSendLoop, Takes, clientVars, siteVars
<1>2. PICK n \in 1..(ep[c].res_body - ep[c].total) :
        /\ got' = Delivered(c, sock[c], <<>>, {"program"}, n)
        /\ ep' = [ep EXCEPT ![c].total = @ + n]
  BY DEF SendBody
<1>3. ep \in [Conns -> EndPoints] /\ ep[c] \in EndPoints /\ got[c] \in Sent
  BY DEF TypeOK
<1>4. /\ ep'[c].status = ep[c].status /\ ep'[c].cgi = ep[c].cgi /\ ep'[c].path = ep[c].path
      /\ ep'[c].size = ep[c].size /\ ep'[c].fd = ep[c].fd /\ ep'[c].res_body = ep[c].res_body
      /\ ep'[c].announced = ep[c].announced /\ ep'[c].pc = ep[c].pc
      /\ ep'[c].total = ep[c].total + n
  <2>1. ep'[c] = [ep[c] EXCEPT !.total = @ + n]
    BY <1>2, <1>3
  <2>2. QED
    BY <1>3, <2>1 DEF EndPoints
<1>5. ep[c].res_body \in Nat /\ ep[c].total \in Nat /\ n \in Nat /\ ep[c].total + n <= ep[c].res_body
  BY <1>2, <1>3 DEF EndPoints
<1>6. HasFile(c)' = HasFile(c) /\ FileOf(c)' = FileOf(c)
  BY <1>4 DEF HasFile, FileOf, At
<1>7. OwnsBoth(c)' /\ NoneLost(c)'
  BY <1>1, <1>4, <1>6, SameFiles DEF At
<1>8. Members(c)'
  BY <1>1, <1>4, <1>5 DEF Members, Reading, Routes, Sending, At
<1>9. Response(c)'
  <2>1. Peers(sock[c]) = {c} \ left
    BY <1>1, PeersOwn DEF At
  <2>2. got'[c] = [heads |-> got[c].heads \o <<>>, body |-> got[c].body + n,
                   of |-> got[c].of \cup {"program"}, from |-> got[c].from \cup {c}]
    BY <1>1, <1>2, <2>1 DEF Delivered
  <2>3. /\ got[c].heads = Answer(c) /\ got[c].from = {c} /\ got[c].body = ep[c].total
        /\ got[c].of \subseteq {"program"} /\ ep[c].cgi /\ ep[c].status = 200
        /\ ep[c].announced = ep[c].res_body /\ ep[c].announced # Unset
    BY <1>1, <2>1 DEF Response, Members, Unsent, Reading, Routes, Sending, At
  <2>4. got'[c].heads = Answer(c)
    BY <2>2, <2>3 DEF Answer
  <2>5. Answer(c)' = Answer(c)
    BY <1>4 DEF Answer
  <2>6. /\ got'[c].from = {c} /\ got'[c].body = ep'[c].total /\ got'[c].body <= ep'[c].announced
        /\ got'[c].of \subseteq {"program"}
    BY <1>4, <1>5, <2>2, <2>3
  <2>7. QED
    BY <1>1, <1>4, <2>3, <2>4, <2>5, <2>6 DEF Response, Unsent, Reading, Routes, At
<1>10. Unchanged(c)'
  BY <1>1, <1>4, <1>6 DEF Unchanged, Over, At
<1>11. QED
  BY <1>7, <1>8, <1>9, <1>10


(* The loop of sends is left with the whole output sent, or by a client    *)
(* that is gone.                                                           *)
LEMMA EndSendBodyKeeps ==
  ASSUME TypeOK, NEW c \in Conns, OwnsBoth(c), NoneLost(c), Members(c), Response(c), Unchanged(c),
         EndSendBody(c)
  PROVE  (OwnsBoth(c) /\ NoneLost(c) /\ Members(c) /\ Response(c) /\ Unchanged(c))'
<1>1. /\ UNCHANGED <<left, site, deployed, tab, sock, got>> /\ At(c, "send_body")
      /\ ~InSendLoop(c) \/ Peers(sock[c]) = {}
  BY DEF EndSendBody, clientVars, siteVars
<1>2. /\ ep'[c].status = ep[c].status /\ ep'[c].cgi = ep[c].cgi /\ ep'[c].path = ep[c].path
      /\ ep'[c].size = ep[c].size /\ ep'[c].fd = ep[c].fd /\ ep'[c].res_body = ep[c].res_body
      /\ ep'[c].announced = ep[c].announced /\ ep'[c].total = ep[c].total
      /\ ep'[c].pc = "delete"
  BY MovesOn DEF EndSendBody
<1>3. ep[c].fd = NoFd /\ ep[c].cgi /\ ep[c].announced = ep[c].res_body /\ ep[c].total <= ep[c].res_body
  BY <1>1 DEF Members, Sending, At
<1>4. OwnsBoth(c)' /\ NoneLost(c)'
  BY <1>1, <1>2, <1>3, SameFiles DEF HasFile, At
<1>5. Members(c)'
  BY <1>2 DEF Members, Reading, Routes, Sending, At
<1>6. Response(c)'
  <2>1. ep[c].pc \notin Unsent /\ ep'[c].pc \notin Unsent
    BY <1>1, <1>2 DEF Unsent, Reading, Routes, At
  <2>2. QED
    BY <1>1, <1>2, <2>1 DEF Response, Answer, At
<1>7. Unchanged(c)'
  <2>1. ASSUME c \notin left, got[c].heads # <<>> PROVE got[c].body = ep[c].announced
    <3>1. Peers(sock[c]) # {}
      BY <1>1, <2>1, PeersOwn DEF At
    <3>2. ep[c].total >= ep[c].res_body
      <4>1. ep[c] \in EndPoints
        BY DEF TypeOK
      <4>2. QED
        BY <1>1, <3>1, <4>1 DEF InSendLoop, EndPoints
    <3>3. got[c].body = ep[c].total
      BY <1>1, <2>1 DEF Response, Unsent, Reading, Routes, Nothing, At
    <3>4. ep[c].total \in Nat /\ ep[c].res_body \in Nat
      BY DEF TypeOK, EndPoints
    <3>5. QED
      BY <1>3, <3>2, <3>3, <3>4
  <2>2. QED
    BY <1>1, <1>2, <1>3, <2>1 DEF Unchanged, HasFile, At
<1>8. QED
  BY <1>4, <1>5, <1>6, <1>7

(* sendfile sends more of the file that the endpoint has open.             *)
LEMMA SendfileKeeps ==
  ASSUME TypeOK, NEW c \in Conns, OwnsBoth(c), NoneLost(c), Members(c), Response(c), Unchanged(c),
         Sendfile(c)
  PROVE  (OwnsBoth(c) /\ NoneLost(c) /\ Members(c) /\ Response(c) /\ Unchanged(c))'
<1>1. UNCHANGED <<left, site, deployed, tab, sock>> /\ At(c, "sendfile")
  BY DEF Sendfile, InSendfile, clientVars, siteVars
<1>2. PICK n \in Nat : /\ n > 0 /\ ep[c].total + n <= ep[c].size
                      /\ got' = Delivered(c, sock[c], <<>>, {tab[ep[c].fd].of}, n)
                      /\ ep' = [ep EXCEPT ![c].total = @ + n]
  BY SendfileSome
<1>3. ep \in [Conns -> EndPoints] /\ ep[c] \in EndPoints /\ got[c] \in Sent
  BY DEF TypeOK
<1>4. /\ ep'[c].status = ep[c].status /\ ep'[c].cgi = ep[c].cgi /\ ep'[c].path = ep[c].path
      /\ ep'[c].size = ep[c].size /\ ep'[c].fd = ep[c].fd /\ ep'[c].res_body = ep[c].res_body
      /\ ep'[c].announced = ep[c].announced /\ ep'[c].pc = ep[c].pc
      /\ ep'[c].total = ep[c].total + n
  <2>1. ep'[c] = [ep[c] EXCEPT !.total = @ + n]
    BY <1>2, <1>3
  <2>2. QED
    BY <1>3, <2>1 DEF EndPoints
<1>5. HasFile(c)' = HasFile(c) /\ FileOf(c)' = FileOf(c)
  BY <1>4 DEF HasFile, FileOf, At
<1>6. OwnsBoth(c)' /\ NoneLost(c)'
  BY <1>1, <1>4, <1>5, SameFiles DEF At
<1>7. Members(c)'
  BY <1>1, <1>4 DEF Members, Reading, Routes, Sending, At
<1>8. Response(c)'
  <2>1. Peers(sock[c]) = {c} \ left /\ c \notin left
    <3>1. Peers(sock[c]) = {c} \ left
      BY <1>1, PeersOwn DEF At
    <3>2. QED
      BY <3>1, SendfileSome
  <2>2. got'[c] = [heads |-> got[c].heads \o <<>>, body |-> got[c].body + n,
                   of |-> got[c].of \cup {tab[ep[c].fd].of}, from |-> got[c].from \cup {c}]
    BY <1>2, <2>1 DEF Delivered
  <2>3. /\ ep[c].announced = ep[c].size /\ ~ep[c].cgi /\ tab[ep[c].fd].of = FileOf(c)
        /\ ep[c].status = 200 => ep[c].path \in {"target", "index"}
    BY SendfileSome
  <2>4. /\ got[c].heads = Answer(c) /\ got[c].from = {c} /\ got[c].body = ep[c].total
        /\ ep[c].status # 200 \/ ep[c].announced # Unset
        /\ got[c].of \subseteq (IF ep[c].status # 200 THEN {"page404"} ELSE {"target", "index"})
    BY <1>1, <2>1, <2>3 DEF Response, Unsent, Reading, Routes, At
  <2>5. FileOf(c) \in (IF ep[c].status # 200 THEN {"page404"} ELSE {"target", "index"})
    BY <2>3 DEF FileOf
  <2>6. got'[c].heads = Answer(c) /\ Answer(c)' = Answer(c)
    BY <1>4, <2>2, <2>4 DEF Answer
  <2>7. /\ got'[c].from = {c} /\ got'[c].body = ep'[c].total
        /\ got'[c].of \subseteq (IF ep[c].status # 200 THEN {"page404"} ELSE {"target", "index"})
    BY <1>4, <2>2, <2>3, <2>4, <2>5
  <2>8. got'[c].body <= ep'[c].announced
    BY <1>2, <1>4, <2>3, <2>7
  <2>9. QED
    BY <1>1, <1>4, <2>3, <2>4, <2>6, <2>7, <2>8 DEF Response, Unsent, Reading, Routes, At
<1>9. Unchanged(c)'
  BY <1>1, <1>4, <1>5 DEF Unchanged, Over, At
<1>10. QED
  BY <1>6, <1>7, <1>8, <1>9

(* It returns with all that it was to send sent, at the end of a file that *)
(* has become shorter, or by a client that is gone; without a file it has  *)
(* sent nothing.                                                           *)
LEMMA EndSendfileKeeps ==
  ASSUME TypeOK, NEW c \in Conns, OwnsBoth(c), NoneLost(c), Members(c), Response(c), Unchanged(c),
         EndSendfile(c)
  PROVE  (OwnsBoth(c) /\ NoneLost(c) /\ Members(c) /\ Response(c) /\ Unchanged(c))'
<1>1. /\ UNCHANGED <<left, site, deployed, tab, sock, got>> /\ At(c, "sendfile")
      /\ ~InSendfile(c) \/ Peers(sock[c]) = {}
  BY DEF EndSendfile, clientVars, siteVars
<1>2. /\ ep'[c].status = ep[c].status /\ ep'[c].cgi = ep[c].cgi /\ ep'[c].path = ep[c].path
      /\ ep'[c].size = ep[c].size /\ ep'[c].fd = ep[c].fd /\ ep'[c].res_body = ep[c].res_body
      /\ ep'[c].announced = ep[c].announced /\ ep'[c].total = ep[c].total
      /\ ep'[c].pc = "close_file"
  BY MovesOn DEF EndSendfile
<1>3. HasFile(c)' = HasFile(c) /\ FileOf(c)' = FileOf(c)
  BY <1>1, <1>2 DEF HasFile, FileOf, At
<1>4. OwnsBoth(c)' /\ NoneLost(c)'
  BY <1>1, <1>2, <1>3, SameFiles DEF At
<1>5. Members(c)'
  BY <1>1, <1>2 DEF Members, Reading, Routes, Sending, At
<1>6. Response(c)'
  <2>1. ep[c].pc \notin Unsent /\ ep'[c].pc \notin Unsent
    BY <1>1, <1>2 DEF Unsent, Reading, Routes, At
  <2>2. QED
    BY <1>1, <1>2, <2>1 DEF Response, Answer, At
<1>7. Unchanged(c)'
  <2>1. ~ep[c].cgi /\ (ep[c].fd = NoFd => ep[c].announced = Unset)
    BY <1>1 DEF Members, Sending, At
  <2>2. ASSUME deployed = 0, c \notin left, got[c].heads # <<>>, ep[c].fd # NoFd
        PROVE  got[c].body = ep[c].announced \/ ep[c].announced > MaxSendfile
    <3>1. /\ ep[c].announced = ep[c].size /\ ep[c].size # Unset /\ HasFile(c)
      BY <1>1, <2>1, <2>2 DEF Members, Sending, HasFile, At
    <3>2. ep[c].fd \in Fds /\ ep[c].size = tab[ep[c].fd].size
      BY <1>1, <2>2, <3>1 DEF OwnsBoth, Unchanged, At
    <3>3. ep[c].size \in Nat /\ ep[c].total \in Nat /\ MaxSendfile \in Nat
      BY <3>1, NumbersAssumption DEF TypeOK, EndPoints, Unset
    <3>4. CASE ep[c].size <= MaxSendfile
      <4>1. SendfileCount(c) = ep[c].size
        BY <3>1, <3>2, <3>4, SendfileSends
      <4>2. Peers(sock[c]) # {}
        BY <1>1, <2>2, PeersOwn DEF At
      <4>3. ep[c].total >= ep[c].size
        BY <1>1, <2>2, <3>3, <4>1, <4>2 DEF InSendfile
      <4>4. got[c].body = ep[c].total /\ (got[c].body = 0 \/ got[c].body <= ep[c].announced)
        BY <1>1, <2>2 DEF Response, Unsent, Reading, Routes, Nothing, At
      <4>5. QED
        BY <3>1, <3>3, <4>3, <4>4
    <3>5. CASE ep[c].size > MaxSendfile
      BY <3>1, <3>5
    <3>6. QED
      BY <3>3, <3>4, <3>5
  <2>3. QED
    BY <1>1, <1>2, <1>3, <2>1, <2>2 DEF Unchanged, Over, At
<1>8. QED
  BY <1>4, <1>5, <1>6, <1>7

(* Each descriptor is closed once, and it is the endpoint's own.           *)
LEMMA CloseFileKeeps ==
  ASSUME TypeOK, NEW c \in Conns, OwnsBoth(c), NoneLost(c), Members(c), Response(c), Unchanged(c),
         CloseFile(c) \/ Delete(c)
  PROVE  (OwnsBoth(c) /\ NoneLost(c) /\ Members(c) /\ Response(c) /\ Unchanged(c))'
<1>1. UNCHANGED <<left, site, deployed, sock, got>> /\ (At(c, "close_file") \/ At(c, "delete"))
  BY DEF CloseFile, Delete, clientVars, siteVars
<1>2. /\ ep'[c].status = ep[c].status /\ ep'[c].cgi = ep[c].cgi /\ ep'[c].path = ep[c].path
      /\ ep'[c].size = ep[c].size /\ ep'[c].fd = ep[c].fd /\ ep'[c].res_body = ep[c].res_body
      /\ ep'[c].announced = ep[c].announced /\ ep'[c].total = ep[c].total
      /\ ep'[c].pc \in Over
  <2>1. CASE CloseFile(c)
    BY <2>1, MovesOn DEF CloseFile, Over
  <2>2. CASE Delete(c)
    BY <2>2, MovesOn DEF Delete, Over
  <2>3. QED
    BY <2>1, <2>2
<1>3. ~HasFile(c)'
  BY <1>2 DEF HasFile, Over, At
<1>4. sock[c] \in Fds /\ tab[sock[c]].of = "conn" /\ tab[sock[c]].own = c
  BY <1>1 DEF OwnsBoth, At
<1>5. CASE CloseFile(c)
  <2>1. ep'[c].pc = "delete" /\ tab' = Closed(ep[c].fd) /\ ep[c].pc = "close_file"
    BY <1>5, MovesOn DEF CloseFile, At
  <2>2. ep[c].fd # sock[c]
    <3>1. FileOf(c) # "conn"
      BY DEF FileOf, TypeOK, EndPoints, Paths
    <3>2. NoFd \notin Fds
      BY NumbersAssumption DEF NoFd
    <3>3. QED
      BY <1>4, <2>1, <3>1, <3>2 DEF OwnsBoth, HasFile, At
  <2>3. OwnsBoth(c)'
    BY <1>1, <1>3, <1>4, <2>1, <2>2 DEF OwnsBoth, Closed
  <2>4. NoneLost(c)'
    BY <1>1, <2>1 DEF NoneLost, Closed, Free, At
  <2>5. QED
    BY <2>3, <2>4, <1>1, <1>2, <1>3
    DEF Members, Response, Unchanged, Answer, Unsent, Reading, Routes, Sending, Over, At
<1>6. CASE Delete(c)
  <2>1. ep'[c].pc = "done" /\ tab' = Closed(sock[c]) /\ ep[c].pc = "delete"
    BY <1>6, MovesOn DEF Delete, At
  <2>2. OwnsBoth(c)'
    BY <1>3, <2>1 DEF OwnsBoth, At
  <2>3. NoneLost(c)'
    BY <2>1 DEF NoneLost, HasFile, Closed, Free, At
  <2>4. QED
    BY <2>2, <2>3, <1>1, <1>2, <1>3
    DEF Members, Response, Unchanged, Answer, Unsent, Reading, Routes, Sending, Over, At
<1>7. QED
  BY <1>5, <1>6

(* So a step of the worker keeps the invariant of its own endpoint.        *)
LEMMA WorkerKeeps ==
  ASSUME TypeOK, NEW c \in Conns, OwnsBoth(c), NoneLost(c), Members(c), Response(c), Unchanged(c),
         Accept(c) \/ HanderReq(c)
  PROVE  (OwnsBoth(c) /\ NoneLost(c) /\ Members(c) /\ Response(c) /\ Unchanged(c))'
BY AcceptKeeps, ReadKeeps, BuildKeeps, SendHeadKeeps, SendBodyKeeps, EndSendBodyKeeps, SendfileKeeps,
   EndSendfileKeeps, CloseFileKeeps DEF HanderReq, SendResponse

-----------------------------------------------------------------------------
(* Clients and the site take nothing from an endpoint, and a client that   *)
(* has left does not come back.                                            *)
LEMMA OutsideKeeps ==
  ASSUME TypeOK, (\E d \in Conns : Client(d)) \/ Deploy,
         NEW c \in Conns, OwnsBoth(c), NoneLost(c), Members(c), Response(c), Unchanged(c)
  PROVE  (OwnsBoth(c) /\ NoneLost(c) /\ Members(c) /\ Response(c) /\ Unchanged(c))'
<1>1. /\ UNCHANGED <<got, sock, ep>> /\ left \subseteq left'
      /\ UNCHANGED <<site, deployed, tab>> \/ deployed' # 0
      /\ \A f \in Fds : tab'[f].of = tab[f].of /\ tab'[f].own = tab[f].own
  <2>1. tab \in [Fds -> Descriptors] /\ deployed \in Nat
    BY SwitchesAssumption DEF TypeOK
  <2>2. ASSUME NEW d \in Conns, Client(d)
        PROVE  UNCHANGED <<got, sock, ep, site, deployed, tab>> /\ left \subseteq left'
    BY <2>2 DEF Client, Arrive, ReadAnswer, Leave, siteVars
  <2>3. ASSUME NEW path \in Paths, NEW n, Overwrite(path, n)
        PROVE  /\ UNCHANGED <<got, sock, ep, left>> /\ deployed' # 0
               /\ \A f \in Fds : tab'[f].of = tab[f].of /\ tab'[f].own = tab[f].own
    BY <2>1, <2>3 DEF Overwrite, Changes, Descriptors, clientVars
  <2>4. ASSUME NEW path \in Paths, NEW entry, Replace(path, entry)
        PROVE  /\ UNCHANGED <<got, sock, ep, left>> /\ deployed' # 0
               /\ \A f \in Fds : tab'[f].of = tab[f].of /\ tab'[f].own = tab[f].own
    BY <2>1, <2>4 DEF Replace, Changes, Descriptors, clientVars
  <2>5. QED
    BY <2>2, <2>3, <2>4 DEF Deploy
<1>2. OwnsBoth(c)'
  BY <1>1 DEF OwnsBoth, HasFile, FileOf, At
<1>3. NoneLost(c)'
  BY <1>1 DEF NoneLost, HasFile, At
<1>4. Members(c)'
  BY <1>1 DEF Members, At
<1>5. Response(c)'
  BY <1>1 DEF Response, Answer, At
<1>6. Unchanged(c)'
  BY <1>1 DEF Unchanged, HasFile, FileOf, At
<1>7. QED
  BY <1>2, <1>3, <1>4, <1>5, <1>6

(* Every step keeps the invariant.                                         *)
LEMMA IInvNext == IInv /\ [Next]_vars => IInv'
<1> SUFFICES ASSUME IInv, [Next]_vars PROVE IInv'
  OBVIOUS
<1>1. /\ TypeOK /\ Owned
      /\ \A d \in Conns : OwnsBoth(d) /\ NoneLost(d) /\ Members(d) /\ Response(d) /\ Unchanged(d)
  BY DEF IInv
<1>2. ASSUME NEW c \in Conns, Accept(c) \/ HanderReq(c) PROVE IInv'
  <2>1. TypeOK'
    BY <1>1, <1>2, WorkerTypes
  <2>2. Owned'
    <3>1. \A f \in Fds : tab'[f] = tab[f] \/ tab'[f].of = "free" \/ tab'[f].own = c
      BY <1>1, <1>2, OthersStay
    <3>2. QED
      BY <1>1, <3>1 DEF Owned
  <2>3. ASSUME NEW d \in Conns
        PROVE  (OwnsBoth(d) /\ NoneLost(d) /\ Members(d) /\ Response(d) /\ Unchanged(d))'
    <3>1. CASE d = c
      BY <1>1, <1>2, <3>1, WorkerKeeps
    <3>2. CASE d # c
      BY <1>1, <1>2, <3>2, OthersKeep
    <3>3. QED
      BY <3>1, <3>2
  <2>4. QED
    BY <2>1, <2>2, <2>3 DEF IInv
<1>3. CASE (\E c \in Conns : Client(c)) \/ Deploy
  <2>1. TypeOK'
    BY <1>1, <1>3, OutsideTypes
  <2>2. Owned'
    <3>1. tab \in [Fds -> Descriptors]
      BY <1>1 DEF TypeOK
    <3>2. ASSUME NEW f \in Fds PROVE tab'[f].of = tab[f].of /\ tab'[f].own = tab[f].own
      <4>1. tab[f] \in Descriptors
        BY <3>1
      <4>2. QED
        BY <1>3, <3>1, <4>1 DEF Client, Arrive, ReadAnswer, Leave, Deploy, Overwrite, Replace, Descriptors
    <3>3. QED
      BY <1>1, <3>2 DEF Owned
  <2>3. ASSUME NEW d \in Conns
        PROVE  (OwnsBoth(d) /\ NoneLost(d) /\ Members(d) /\ Response(d) /\ Unchanged(d))'
    BY <1>1, <1>3, OutsideKeeps
  <2>4. QED
    BY <2>1, <2>2, <2>3 DEF IInv
<1>4. CASE UNCHANGED vars
  BY <1>1, <1>4 DEF IInv, TypeOK, Owned, OwnsBoth, NoneLost, Members, Response, Unchanged, Answer, HasFile,
     FileOf, At, vars, clientVars, siteVars
<1>5. QED
  BY <1>2, <1>3, <1>4 DEF Next, Finished

(* So the invariant always holds.                                          *)
LEMMA Invariance == Spec => []IInv
<1>1. Init => IInv
  BY IInvInit
<1>2. IInv /\ [Next]_vars => IInv'
  BY IInvNext
<1>3. QED
  BY <1>1, <1>2, PTL DEF Spec

-----------------------------------------------------------------------------
(* The variables of the endpoints have their types: no counter of          *)
(* ReadRequest, BuildResponse or SendResponse leaves its range, total      *)
(* among them, and no descriptor outside the limit is used.                *)
THEOREM EndPointTypes == Spec => []TypeOK
<1>1. IInv => TypeOK
  BY DEF IInv
<1>2. QED
  BY <1>1, Invariance, PTL

(* However the numbers of open, accept and close are used again among any  *)
(* number of workers, what an endpoint holds is its own connection and its *)
(* own file until it closes them, and what is open is held.                *)
THEOREM DescriptorsOwned == Spec => []OwnDescriptors
<1>1. IInv => OwnDescriptors
  <2> SUFFICES ASSUME IInv PROVE OwnDescriptors
    OBVIOUS
  <2>1. ASSUME NEW c \in Conns, NEW f \in Holds(c)
        PROVE  tab[f].own = c /\ (tab[f].of = "conn" <=> f = sock[c])
    <3>1. OwnsBoth(c) /\ Members(c) /\ ep[c] \in EndPoints
      BY DEF IInv, TypeOK
    <3>2. FileOf(c) # "conn"
      BY <3>1 DEF FileOf, EndPoints, Paths
    <3>3. CASE f = sock[c] /\ ~At(c, "accept") /\ ~At(c, "done")
      BY <3>1, <3>3 DEF OwnsBoth
    <3>4. CASE f = ep[c].fd /\ HasFile(c)
      <4>1. ~At(c, "accept") /\ ~At(c, "done")
        BY <3>1, <3>4 DEF HasFile, Members, Reading, At
      <4>2. QED
        BY <3>1, <3>2, <3>4, <4>1 DEF OwnsBoth
    <3>5. QED
      BY <2>1, <3>3, <3>4 DEF Holds, HasFile, At
  <2>2. ASSUME NEW f \in Fds \ FreeFds PROVE f \in Holds(tab[f].own)
    <3>1. tab[f].of # "free"
      BY <2>2 DEF FreeFds
    <3>2. tab[f].own \in Conns
      BY <2>2, <3>1 DEF IInv, Owned
    <3>3. NoneLost(tab[f].own)
      BY <3>2 DEF IInv
    <3>4. QED
      BY <2>2, <3>1, <3>3 DEF NoneLost, Holds, HasFile, At
  <2>3. QED
    BY <2>1, <2>2 DEF OwnDescriptors
<1>2. QED
  BY <1>1, Invariance, PTL

(* What an endpoint sends reaches the client of its own connection, and    *)
(* that client no second response.                                         *)
THEOREM AnswersOwnClient == Spec => []AnswerToItsClient
<1>1. ASSUME IInv, NEW c \in Conns PROVE Len(got[c].heads) <= 1 /\ got[c].from \subseteq {c}
  <2>1. Response(c)
    BY <1>1 DEF IInv
  <2>2. got[c] = Nothing \/ (got[c].heads = Answer(c) /\ got[c].from = {c})
    BY <2>1 DEF Response
  <2>3. CASE got[c] = Nothing
    BY <2>3 DEF Nothing
  <2>4. CASE got[c].heads = Answer(c) /\ got[c].from = {c}
    BY <2>4 DEF Answer
  <2>5. QED
    BY <2>2, <2>3, <2>4
<1>2. IInv => AnswerToItsClient
  BY <1>1 DEF AnswerToItsClient
<1>3. QED
  BY <1>2, Invariance, PTL

(* SendResponse never sends more than Content-Length says, of a file of    *)
(* any size that may change at any time, or of any program's output.       *)
THEOREM NoMoreThanAnnounced == Spec => []BodyFitsLength
<1>1. ASSUME IInv, NEW c \in Conns, got[c].body > 0
      PROVE  Len(got[c].heads) = 1 /\ got[c].body <= got[c].heads[1].length
  <2>1. Response(c)
    BY <1>1 DEF IInv
  <2>2. got[c].heads = Answer(c) /\ got[c].body <= ep[c].announced
    BY <1>1, <2>1 DEF Response, Nothing
  <2>3. QED
    BY <2>2 DEF Answer
<1>2. IInv => BodyFitsLength
  BY <1>1 DEF BodyFitsLength
<1>3. QED
  BY <1>2, Invariance, PTL

(* What is sent under a status is what that status is for: the output of a *)
(* program that failed, or a file that was opened for a 404, never is.     *)
THEOREM BodyOfItsStatus == Spec => []BodyFitsStatus
<1>1. ASSUME IInv, NEW c \in Conns, Len(got[c].heads) = 1
      PROVE  got[c].of \subseteq (IF got[c].heads[1].code # 200 THEN {"page404"}
                                  ELSE IF ep[c].cgi THEN {"program"} ELSE {"target", "index"})
  <2>1. Response(c)
    BY <1>1 DEF IInv
  <2>2. /\ got[c].heads = Answer(c)
        /\ got[c].of \subseteq (IF ep[c].status # 200 THEN {"page404"}
                                ELSE IF ep[c].cgi THEN {"program"} ELSE {"target", "index"})
    <3>1. got[c] # Nothing
      BY <1>1 DEF Nothing
    <3>2. QED
      BY <2>1, <3>1 DEF Response
  <2>3. QED
    BY <2>2 DEF Answer
<1>2. IInv => BodyFitsStatus
  BY <1>1 DEF BodyFitsStatus
<1>3. QED
  BY <1>2, Invariance, PTL

(* While nobody changes the site, whoever waits gets all that was          *)
(* announced, unless a file is larger than one sendfile can carry.         *)
THEOREM WholeBodySent == Spec => []WholeBody
<1>1. ASSUME IInv, NEW c \in Conns, deployed = 0, At(c, "done"), c \notin left, Len(got[c].heads) = 1,
             got[c].heads[1].length # Unset,
             got[c].heads[1].length <= MaxSendfile \/ got[c].of = {"program"}
      PROVE  got[c].body = got[c].heads[1].length
  <2>1. Response(c) /\ Unchanged(c) /\ ep[c].announced \in Int /\ MaxSendfile \in Int
    BY <1>1, NumbersAssumption DEF IInv, TypeOK, EndPoints
  <2>2. /\ got[c].heads = Answer(c)
        /\ got[c].of \subseteq (IF ep[c].status # 200 THEN {"page404"}
                                ELSE IF ep[c].cgi THEN {"program"} ELSE {"target", "index"})
    BY <1>1, <2>1 DEF Response, Nothing
  <2>3. got[c].heads # <<>> /\ got[c].heads[1].length = ep[c].announced
    BY <2>2 DEF Answer
  <2>4. \/ got[c].body = ep[c].announced
        \/ ~ep[c].cgi /\ (ep[c].announced = Unset \/ ep[c].announced > MaxSendfile)
    BY <1>1, <2>1, <2>3 DEF Unchanged, Over, At
  <2>5. ~ep[c].cgi => got[c].of # {"program"}
    BY <2>2
  <2>6. QED
    BY <1>1, <2>1, <2>3, <2>4, <2>5
<1>2. IInv => WholeBody
  BY <1>1 DEF WholeBody
<1>3. QED
  BY <1>2, Invariance, PTL

-----------------------------------------------------------------------------
(* The steps of HttpExchange, one connection at a time.                    *)
LEMMA OthersState ==
  ASSUME IInv, NEW c \in Conns, Accept(c) \/ HanderReq(c)
  PROVE  /\ left' = left /\ read' = read
         /\ \A d \in Conns \ {c} : StateOf(d)' = StateOf(d) /\ got'[d] = got[d]
<1>1. TypeOK /\ OwnsBoth(c)
  BY DEF IInv
<1>2. left' = left /\ \A d \in Conns \ {c} : ep'[d] = ep[d] /\ got'[d] = got[d]
  BY <1>1, OthersStay
<1>3. read' = read
  BY DEF Accept, HanderReq, ReadRequest, BuildResponse, SendResponse, Delete, RecvRequestLine, RecvHead,
         RecvBlank, RecvReqBody, BodyRead, RecvFails, Recv, RejectMethod, StatTarget, StatIndex,
         ProcessCGI, ProcessNoCGI, BuildOK, BuildError, BuildErrorStat, Builds, SendHead, SendBody,
         EndSendBody, Sendfile, EndSendfile, CloseFile, clientVars
<1>4. QED
  BY <1>2, <1>3 DEF StateOf, Answered, At

(* What the mapped variables are after a step on c.                        *)
LEMMA MappedState ==
  ASSUME NEW c \in Conns, \A d \in Conns \ {c} : StateOf(d)' = StateOf(d) /\ got'[d] = got[d]
  PROVE  /\ [d \in Conns |-> StateOf(d)]' = [[d \in Conns |-> StateOf(d)] EXCEPT ![c] = StateOf(c)']
         /\ [d \in Conns |-> got[d].heads]' = [[d \in Conns |-> got[d].heads] EXCEPT ![c] = got'[c].heads]
         /\ [d \in Conns |-> got[d].body]' = [[d \in Conns |-> got[d].body] EXCEPT ![c] = got'[c].body]
OBVIOUS

(* Reading and building are part of asking, and closing the file of        *)
(* answering.                                                              *)
LEMMA AsksOrAnswers ==
  ASSUME IInv, NEW c \in Conns,
         ReadRequest(c) \/ BuildResponse(c) \/ EndSendBody(c) \/ EndSendfile(c) \/ CloseFile(c)
  PROVE  UNCHANGED Exchange!vars
<1>1. TypeOK /\ OwnsBoth(c) /\ Members(c) /\ Response(c)
  BY DEF IInv
<1>2. got' = got
  BY <1>1, ReadMoves, BuildSends DEF EndSendBody, EndSendfile, CloseFile
<1>3. StateOf(c)' = StateOf(c)
  <2>1. CASE ReadRequest(c)
    BY <1>1, <2>1, ReadMoves DEF StateOf, Answered, At
  <2>2. CASE BuildResponse(c)
    <3>1. ep[c].pc \in {"build", "stat_index", "cgi", "open", "helper", "stat_page"}
      BY <1>1, <2>2, BuildSends
    <3>2. ep'[c].pc \in {"stat_index", "cgi", "open", "helper", "stat_page", "send_head"}
      <4>1. ep \in [Conns -> EndPoints] /\ ep[c] \in EndPoints
        BY <1>1 DEF TypeOK
      <4>2. CASE RejectMethod(c)
        BY <4>1, <4>2 DEF RejectMethod, EndPoints
      <4>8. CASE ProcessCGI(c)
        <5>1. PICK code, n : ep' = [ep EXCEPT ![c].pc = "helper", ![c].status = code, ![c].res_body = n]
          BY <4>8 DEF ProcessCGI
        <5>2. QED
          BY <4>1, <5>1 DEF EndPoints
      <4>7. CASE ProcessNoCGI(c)
        BY <4>1, <4>7 DEF ProcessNoCGI, EndPoints
      <4>3. CASE BuildOK(c) \/ BuildError(c)
        BY <4>1, <4>3 DEF BuildOK, BuildError, EndPoints
      <4>4. CASE BuildErrorStat(c)
        BY <4>1, <4>4 DEF BuildErrorStat, EndPoints
      <4>5. CASE StatTarget(c) \/ StatIndex(c)
        BY <4>1, <4>5 DEF StatTarget, StatIndex, Routed, EndPoints
      <4>6. QED
        BY <2>2, <4>2, <4>3, <4>4, <4>5, <4>7, <4>8 DEF BuildResponse
    <3>3. QED
      BY <3>1, <3>2 DEF StateOf, Answered, At
  <2>3. CASE EndSendBody(c) \/ CloseFile(c)
    <3>1. /\ ep'[c].pc = "delete" /\ ep[c].pc \in {"send_body", "close_file"}
          /\ ep'[c].status = ep[c].status /\ ep'[c].announced = ep[c].announced
      BY <1>1, <2>3, MovesOn DEF EndSendBody, CloseFile, At
    <3>2. ep[c].status # 200 \/ ep[c].announced # Unset
      <4>1. ep[c].res_body # Unset
        BY <1>1 DEF TypeOK, EndPoints, Unset
      <4>2. QED
        BY <1>1, <3>1, <4>1 DEF Members, Sending, At
    <3>3. QED
      BY <3>1, <3>2 DEF StateOf, Answered, At
  <2>5. CASE EndSendfile(c)
    <3>1. ep'[c].pc = "close_file" /\ ep[c].pc = "sendfile"
      BY <1>1, <2>5, MovesOn DEF EndSendfile, At
    <3>2. QED
      BY <3>1 DEF StateOf, Answered, At
  <2>4. QED
    BY <2>1, <2>2, <2>3, <2>5
<1>4. left' = left /\ read' = read /\ \A d \in Conns : StateOf(d)' = StateOf(d)
  BY <1>3, OthersState DEF HanderReq, SendResponse
<1>5. QED
  BY <1>2, <1>4 DEF Exchange!vars

(* Taking the connection.                                                  *)
LEMMA AcceptStep ==
  ASSUME IInv, NEW c \in Conns, Accept(c)
  PROVE  Exchange!Accept(c)
<1>1. TypeOK
  BY DEF IInv
<1>2. ep'[c].pc = "line" /\ ep[c].pc = "accept" /\ got' = got
  BY <1>1, MovesOn DEF Accept, At
<1>3. StateOf(c) = "unaccepted" /\ StateOf(c)' = "asking"
  BY <1>2 DEF StateOf, Answered, At
<1>4. left' = left /\ read' = read /\ \A d \in Conns \ {c} : StateOf(d)' = StateOf(d) /\ got'[d] = got[d]
  BY OthersState
<1>5. QED
  BY <1>2, <1>3, <1>4, MappedState DEF Exchange!Accept, Exchange!Goes

(* The headers are the response's beginning, unless the client is gone.    *)
LEMMA SendHeadStep ==
  ASSUME IInv, NEW c \in Conns, SendHead(c)
  PROVE  Exchange!Respond(c)
<1>1. TypeOK /\ OwnsBoth(c) /\ Response(c) /\ (Response(c))' /\ TypeOK'
  <2>1. IInv'
    BY IInvNext DEF Next, HanderReq, SendResponse
  <2>2. QED
    BY <2>1 DEF IInv
<1>2. ep[c].pc = "send_head" /\ ep'[c].pc \in {"send_body", "sendfile"}
  <2> DEFINE pc == IF ep[c].cgi THEN "send_body" ELSE "sendfile"
  <2>1. ep' = [ep EXCEPT ![c].pc = pc] /\ ep[c].pc = "send_head"
    BY DEF SendHead, At
  <2>2. pc \in {"send_body", "sendfile"}
    OBVIOUS
  <2> HIDE DEF pc
  <2>3. QED
    BY <1>1, <2>1, <2>2, MovesOn
<1>3. StateOf(c) = "asking" /\ StateOf(c)' = "answering"
  BY <1>2 DEF StateOf, Answered, At
<1>4. got[c] = Nothing
  BY <1>1, <1>2 DEF Response, Unsent
<1>5. left' = left /\ read' = read /\ \A d \in Conns \ {c} : StateOf(d)' = StateOf(d) /\ got'[d] = got[d]
  BY OthersState DEF HanderReq, SendResponse
<1>6. Peers(sock[c]) = {c} \ left
  BY <1>1, <1>2, PeersOwn DEF At
<1>7. CASE c \in left
  <2>1. got' = got
    <3>1. got'[c] = got[c]
      BY <1>6, <1>7 DEF SendHead, Delivered
    <3>2. QED
      BY <1>1, <1>5, <3>1 DEF TypeOK
  <2>2. QED
    BY <1>3, <1>5, <1>7, <2>1, MappedState DEF Exchange!Respond, Exchange!Goes
<1>8. CASE c \notin left
  <2> DEFINE answer == <<[code |-> ep[c].status, length |-> ep[c].announced]>>
  <2>1. got'[c].heads = answer /\ got'[c].body = got[c].body
    <3>1. got'[c] = [heads |-> got[c].heads \o answer, body |-> got[c].body + 0,
                     of |-> got[c].of \cup {}, from |-> got[c].from \cup {c}]
      BY <1>6, <1>8 DEF SendHead, Delivered
    <3>2. QED
      BY <1>4, <3>1 DEF Nothing
  <2>2. answer \in Seq([code : Statuses, length : Int]) /\ Len(answer) = 1
    <3>1. ep[c].status \in Statuses /\ ep[c].announced \in Int
      BY <1>1 DEF TypeOK, EndPoints
    <3>2. QED
      BY <3>1
  <2> HIDE DEF answer
  <2> DEFINE heads == [d \in Conns |-> got[d].heads]
             body == [d \in Conns |-> got[d].body]
  <2>3. heads' = [heads EXCEPT ![c] = answer] /\ body' = body /\ heads'[c] = answer
    BY <1>5, <2>1, MappedState
  <2>4. [d \in Conns |-> StateOf(d)]' = [[d \in Conns |-> StateOf(d)] EXCEPT ![c] = "answering"]
    BY <1>3, <1>5, MappedState
  <2>5. QED
    BY <1>3, <1>5, <1>8, <2>2, <2>3, <2>4 DEF Exchange!Respond, Exchange!Goes
<1>9. QED
  BY <1>7, <1>8


(* What is sent of the body stays within what was announced.               *)
LEMMA MoreBody ==
  ASSUME IInv, [Next]_vars, NEW c \in Conns, c \notin left, left' = left, read' = read,
         StateOf(c) = "answering", StateOf(c)' = StateOf(c),
         ep[c].pc \notin Unsent, ep'[c].pc \notin Unsent, ep'[c].announced = ep[c].announced,
         NEW n \in Nat, got'[c].body = got[c].body + n, n > 0, Answer(c)' = Answer(c),
         \A d \in Conns \ {c} : StateOf(d)' = StateOf(d) /\ got'[d] = got[d]
  PROVE  Exchange!SendBody(c)
<1>1. Response(c) /\ Response(c)' /\ TypeOK /\ TypeOK'
  BY IInvNext DEF IInv
<1>2. got[c].body \in Nat /\ got'[c].body \in Nat /\ ep[c].announced \in Int
  BY <1>1 DEF TypeOK, Sent, EndPoints
<1>3. got'[c] # Nothing
  BY <1>2 DEF Nothing
<1>4. got[c].heads = Answer(c)
  BY <1>1 DEF Response
<1>5. got'[c].heads = Answer(c) /\ got'[c].body <= ep[c].announced
  BY <1>1, <1>2, <1>3 DEF Response
<1>6. got[c].heads[1].length = ep[c].announced
  BY <1>4 DEF Answer
<1> DEFINE heads == [d \in Conns |-> got[d].heads]
           body == [d \in Conns |-> got[d].body]
           state == [d \in Conns |-> StateOf(d)]
<1>7. heads' = heads /\ state' = state
  BY <1>4, <1>5
<1>8. body' = [body EXCEPT ![c] = got'[c].body] /\ body'[c] = got'[c].body /\ body[c] = got[c].body
  BY MappedState
<1>9. body'[c] \in body[c]..heads[c][1].length
  BY <1>2, <1>5, <1>6, <1>8
<1>10. body' = [body EXCEPT ![c] = body'[c]] /\ state[c] = "answering"
  BY <1>8
<1>11. QED
  BY <1>7, <1>9, <1>10 DEF Exchange!SendBody

(* One send of a program's output is more of the body.                     *)
LEMMA SendBodyStep ==
  ASSUME IInv, NEW c \in Conns, SendBody(c)
  PROVE  Exchange!SendBody(c)
<1>1. TypeOK /\ OwnsBoth(c) /\ At(c, "send_body")
  BY DEF IInv, SendBody, InSendLoop
<1>2. ep \in [Conns -> EndPoints] /\ ep[c] \in EndPoints /\ got[c] \in Sent
  BY <1>1 DEF TypeOK
<1>3. PICK n \in 1..(ep[c].res_body - ep[c].total) :
        /\ got' = Delivered(c, sock[c], <<>>, {"program"}, n)
        /\ ep' = [ep EXCEPT ![c].total = @ + n]
  BY DEF SendBody
<1>4. n \in Nat /\ n > 0
  BY <1>2, <1>3 DEF EndPoints
<1>5. /\ ep'[c].pc = ep[c].pc /\ ep'[c].status = ep[c].status /\ ep'[c].announced = ep[c].announced
  <2>1. ep'[c] = [ep[c] EXCEPT !.total = @ + n]
    BY <1>2, <1>3
  <2>2. QED
    BY <1>2, <2>1 DEF EndPoints
<1>6. c \notin left /\ Peers(sock[c]) = {c} \ left
  <2>1. Peers(sock[c]) = {c} \ left
    BY <1>1, PeersOwn DEF At
  <2>2. QED
    BY <2>1 DEF SendBody, Takes
<1>7. got'[c].body = got[c].body + n
  BY <1>2, <1>3, <1>6 DEF Delivered
<1>8. left' = left /\ read' = read /\ \A d \in Conns \ {c} : StateOf(d)' = StateOf(d) /\ got'[d] = got[d]
  BY OthersState DEF HanderReq, SendResponse
<1>9. /\ StateOf(c) = "answering" /\ StateOf(c)' = StateOf(c) /\ Answer(c)' = Answer(c)
      /\ ep[c].pc \notin Unsent /\ ep'[c].pc \notin Unsent
  BY <1>1, <1>5 DEF StateOf, Answered, Answer, Unsent, Reading, Routes, At
<1>10. [Next]_vars
  BY DEF Next, HanderReq, SendResponse
<1>11. QED
  BY <1>4, <1>5, <1>6, <1>7, <1>8, <1>9, <1>10, MoreBody

(* So is what sendfile sends.                                              *)
LEMMA SendfileStep ==
  ASSUME IInv, NEW c \in Conns, Sendfile(c)
  PROVE  Exchange!SendBody(c)
<1>1. TypeOK /\ OwnsBoth(c) /\ Members(c) /\ At(c, "sendfile")
  BY DEF IInv, Sendfile, InSendfile
<1>2. ep \in [Conns -> EndPoints] /\ ep[c] \in EndPoints /\ got[c] \in Sent
  BY <1>1 DEF TypeOK
<1>3. PICK n \in Nat : /\ n > 0
                      /\ got' = Delivered(c, sock[c], <<>>, {tab[ep[c].fd].of}, n)
                      /\ ep' = [ep EXCEPT ![c].total = @ + n]
  BY <1>1, SendfileSome
<1>4. ep'[c].pc = ep[c].pc /\ ep'[c].status = ep[c].status /\ ep'[c].announced = ep[c].announced
  <2>1. ep'[c] = [ep[c] EXCEPT !.total = @ + n]
    BY <1>2, <1>3
  <2>2. QED
    BY <1>2, <2>1 DEF EndPoints
<1>5. c \notin left /\ Peers(sock[c]) = {c} \ left
  <2>1. Peers(sock[c]) = {c} \ left
    BY <1>1, PeersOwn DEF At
  <2>2. QED
    BY <1>1, <2>1, SendfileSome
<1>6. got'[c].body = got[c].body + n
  BY <1>2, <1>3, <1>5 DEF Delivered
<1>7. left' = left /\ read' = read /\ \A d \in Conns \ {c} : StateOf(d)' = StateOf(d) /\ got'[d] = got[d]
  BY OthersState DEF HanderReq, SendResponse
<1>8. /\ StateOf(c) = "answering" /\ StateOf(c)' = StateOf(c) /\ Answer(c)' = Answer(c)
      /\ ep[c].pc \notin Unsent /\ ep'[c].pc \notin Unsent
  BY <1>1, <1>4 DEF StateOf, Answered, Answer, Unsent, Reading, Routes, At
<1>9. [Next]_vars
  BY DEF Next, HanderReq, SendResponse
<1>10. QED
  BY <1>3, <1>4, <1>5, <1>6, <1>7, <1>8, <1>9, MoreBody

(* The end, after the response or, for a client that has left, without.    *)
LEMMA DeleteStep ==
  ASSUME IInv, NEW c \in Conns, Delete(c)
  PROVE  Exchange!Ends(c)
<1>1. TypeOK /\ OwnsBoth(c) /\ Response(c)
  BY DEF IInv
<1>2. ep[c].pc = "delete" /\ ep'[c].pc = "done" /\ got' = got
  BY <1>1, MovesOn DEF Delete, At
<1>3. left' = left /\ read' = read /\ \A d \in Conns \ {c} : StateOf(d)' = StateOf(d) /\ got'[d] = got[d]
  BY OthersState DEF HanderReq
<1>4. StateOf(c)' = "closed"
  BY <1>2 DEF StateOf, At
<1>5. CASE StateOf(c) = "answering"
  BY <1>2, <1>3, <1>4, <1>5, MappedState DEF Exchange!Ends, Exchange!Close, Exchange!Goes
<1>6. CASE StateOf(c) = "asking" /\ c \in left
  BY <1>2, <1>3, <1>4, <1>6, MappedState DEF Exchange!Ends, Exchange!Abandon, Exchange!Goes
<1>7. StateOf(c) = "answering" \/ (StateOf(c) = "asking" /\ c \in left)
  BY <1>1, <1>2 DEF StateOf, Answered, Response, Unsent, Reading, Routes, At
<1>8. QED
  BY <1>5, <1>6, <1>7

(* Every step of the program is a step of the exchange or none of it.      *)
LEMMA ExchangeStep == IInv /\ [Next]_vars => [Exchange!Next]_(Exchange!vars)
<1> SUFFICES ASSUME IInv, [Next]_vars PROVE Exchange!Next \/ UNCHANGED Exchange!vars
  OBVIOUS
<1>1. ASSUME NEW c \in Conns, Accept(c) \/ HanderReq(c)
      PROVE  Exchange!Next \/ UNCHANGED Exchange!vars
  <2>1. CASE Accept(c)
    BY <2>1, AcceptStep DEF Exchange!Next
  <2>2. CASE ReadRequest(c) \/ BuildResponse(c) \/ EndSendBody(c) \/ EndSendfile(c) \/ CloseFile(c)
    BY <2>2, AsksOrAnswers
  <2>3. CASE SendHead(c)
    BY <2>3, SendHeadStep DEF Exchange!Next
  <2>4. CASE SendBody(c)
    BY <2>4, SendBodyStep DEF Exchange!Next
  <2>5. CASE Sendfile(c)
    BY <2>5, SendfileStep DEF Exchange!Next
  <2>6. CASE Delete(c)
    BY <2>6, DeleteStep DEF Exchange!Next
  <2>7. QED
    BY <1>1, <2>1, <2>2, <2>3, <2>4, <2>5, <2>6 DEF HanderReq, SendResponse
<1>2. ASSUME NEW c \in Conns, Leave(c) PROVE Exchange!Next
  <2>1. Exchange!Leave(c)
    BY <1>2 DEF Leave, Exchange!Leave, StateOf, Answered, At
  <2>2. QED
    BY <2>1 DEF Exchange!Next
<1>7. ASSUME NEW c \in Conns, ReadAnswer(c) PROVE Exchange!Next
  <2>1. PICK n \in 1..(got[c].body - read[c]) : read' = [read EXCEPT ![c] = @ + n]
    BY <1>7 DEF ReadAnswer
  <2>2. got[c].body \in Nat /\ read[c] \in Nat /\ read \in [Conns -> Nat]
    BY DEF IInv, TypeOK, Sent
  <2>3. read'[c] = read[c] + n /\ read' = [read EXCEPT ![c] = read'[c]]
    BY <2>1, <2>2
  <2>4. read'[c] \in read[c]..got[c].body
    BY <2>1, <2>2, <2>3
  <2>5. Exchange!Read(c)
    BY <1>7, <2>3, <2>4 DEF ReadAnswer, Exchange!Read, StateOf, Answered, At
  <2>6. QED
    BY <2>5 DEF Exchange!Next
<1>3. CASE UNCHANGED <<ep, got, left, read>>
  BY <1>3 DEF Exchange!vars, StateOf, Answered, At
<1>4. ASSUME NEW c \in Conns, Arrive(c) PROVE UNCHANGED <<ep, got, left, read>>
  BY <1>4 DEF Arrive
<1>5. CASE Deploy \/ UNCHANGED vars
  BY <1>3, <1>5 DEF Deploy, Overwrite, Replace, vars, clientVars
<1>6. QED
  BY <1>1, <1>2, <1>3, <1>4, <1>5, <1>7 DEF Next, Finished, Client

(* EndPoint implements the safety of HttpExchange for any number of        *)
(* connections, whatever the clients do and however the site changes: at   *)
(* most one response, headers first, its body within Content-Length, and   *)
(* an end without one only for a client that has left.                     *)
THEOREM ExchangeRefinement == Spec => Exchange!Spec
<1>1. Init => Exchange!Init
  BY DEF Init, Exchange!Init, StateOf, Answered, At, NewEndPoint, Nothing
<1>2. QED
  BY <1>1, ExchangeStep, Invariance, PTL DEF Spec, Exchange!Spec
=============================================================================
