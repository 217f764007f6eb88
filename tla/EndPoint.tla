------------------------------ MODULE EndPoint ------------------------------
(***************************************************************************)
(* One EndPoint per connection (Protocol.hpp): ReadRequest, BuildResponse, *)
(* SendResponse and the destructor, as CallBack::HanderReq calls them, run *)
(* by the workers of one process at the same time.  What they share is the *)
(* process's descriptor table, from which open and accept take the lowest  *)
(* free number, and the site under wwwroot, which may change while it is   *)
(* served.  The clients send, stop sending, read what they are sent, stop  *)
(* reading and leave when they like.                                       *)
(*                                                                         *)
(* A request is a stream of units: the request line, each header line, the *)
(* blank line, each byte of the body (Util::readLine, which cuts bytes     *)
(* into lines, is module ReadLine).  ProcessCGI is taken here by what it   *)
(* returns; module ProcessCGI has its inside.                              *)
(***************************************************************************)
EXTENDS Integers, Sequences, FiniteSets, FiniteSetsExt

CONSTANTS Conns,         \* the connections
          Nobody,        \* the owner of a descriptor that is free
          Requests,      \* what a client may send
          Sites,         \* what the site may be at first
          Fds,           \* the descriptors that the limit leaves for connections and files
          MaxSize,       \* bound: the largest file or program output
          MaxSendfile,   \* the most that one sendfile transfers
          Window,        \* the bytes of a body that a connection holds until they are read
          Deploys,       \* bound: how often the site changes while it is served
          SpawnMayFail   \* may ProcessCGI fail to start a program?

(* key and sep of a header: the text before the first ": ", if the line    *)
(* has one; n: what atoi makes of the rest.                                *)
Headers == [key : {"Content-Length", "content-length", "Host"}, sep : BOOLEAN, n : Int]

Paths == {"target", "index", "page404", "uri_with_query"}
Types == {"absent", "dir", "file", "prog"}
Entries == {e \in [type : Types, size : 0..MaxSize] : e.type = "absent" => e.size = 0}

ASSUME NumbersAssumption == /\ MaxSize \in Nat /\ MaxSendfile \in Nat
                            /\ Window \in Nat \ {0}
                            /\ Fds \subseteq Nat \ {0} /\ IsFiniteSet(Fds)
ASSUME RequestsAssumption ==
         \A r \in Requests : /\ r.method \in {"GET", "POST", "OTHER"}
                             /\ r.query \in BOOLEAN
                             /\ r.heads \in Seq(Headers)
                             /\ r.body \in Nat
ASSUME SitesAssumption ==
         \A s \in Sites : /\ s \in [Paths -> Entries]
                          /\ s["uri_with_query"].type = "absent"
                          /\ s["index"].type # "absent" => s["target"].type = "dir"
ASSUME NobodyAssumption == Nobody \notin Conns
ASSUME SwitchesAssumption == Deploys \in Nat /\ SpawnMayFail \in BOOLEAN

VARIABLES
  req,      \* req[c]: the request that client c sends
  arrived,  \* arrived[c]: units of it that have reached the server
  taken,    \* taken[c]: units of it that the endpoint has received
  left,     \* the clients that have closed their connection
  read,     \* read[c]: bytes of its response's body that client c has read
  got,      \* got[c]: what client c has been sent
  site,     \* the files under wwwroot
  deployed, \* how often they have changed
  tab,      \* the descriptor table
  sock,     \* sock[c]: EndPoint::sock
  ep        \* ep[c]: the members of the EndPoint of c and where its worker is

clientVars == <<req, arrived, left, read>>
siteVars == <<site, deployed>>
vars == <<clientVars, taken, got, siteVars, tab, sock, ep>>

NoFd == -1
Unset == -1
Free == [of |-> "free", own |-> Nobody, size |-> 0, live |-> FALSE]

StreamLen(r) == Len(r.heads) + 2 + r.body

NewEndPoint == [pc |-> "accept", length |-> 0, status |-> 200, cgi |-> FALSE, path |-> "target",
                size |-> Unset, fd |-> NoFd, res_body |-> 0, announced |-> Unset, total |-> 0]

Nothing == [heads |-> <<>>, body |-> 0, of |-> {}, from |-> {}]

Init == /\ req \in [Conns -> Requests]
        /\ arrived = [c \in Conns |-> 0]
        /\ taken = [c \in Conns |-> 0]
        /\ left = {}
        /\ read = [c \in Conns |-> 0]
        /\ got = [c \in Conns |-> Nothing]
        /\ site \in Sites
        /\ deployed = 0
        /\ tab = [f \in Fds |-> Free]
        /\ sock = [c \in Conns |-> NoFd]
        /\ ep = [c \in Conns |-> NewEndPoint]

At(c, where) == ep[c].pc = where

-----------------------------------------------------------------------------
(* The clients and the site.                                               *)

Arrive(c) == /\ c \notin left
             /\ arrived[c] < StreamLen(req[c])
             /\ arrived' = [arrived EXCEPT ![c] = @ + 1]
             /\ UNCHANGED <<req, left, read, taken, got, siteVars, tab, sock, ep>>

ReadAnswer(c) == /\ c \notin left
                 /\ \E n \in 1..(got[c].body - read[c]) : read' = [read EXCEPT ![c] = @ + n]
                 /\ UNCHANGED <<req, arrived, left, taken, got, siteVars, tab, sock, ep>>

Leave(c) == /\ c \notin left
            /\ left' = left \cup {c}
            /\ UNCHANGED <<req, arrived, read, taken, got, siteVars, tab, sock, ep>>

Changes == deployed < Deploys /\ deployed' = deployed + 1

(* A file is written in place: those who have it open see the new size.    *)
Overwrite(path, n) == /\ Changes
                      /\ site[path].type = "file"
                      /\ site' = [site EXCEPT ![path].size = n]
                      /\ tab' = [f \in Fds |-> IF tab[f].of = path /\ tab[f].live
                                            THEN [tab[f] EXCEPT !.size = n] ELSE tab[f]]
                      /\ UNCHANGED <<clientVars, taken, got, sock, ep>>

(* A file is replaced or removed: those who have it open keep the old one. *)
Replace(path, entry) == /\ Changes
                        /\ path # "uri_with_query"
                        /\ site[path].type # "dir" /\ entry.type # "dir"
                        /\ path = "index" => site["target"].type = "dir"
                        /\ site' = [site EXCEPT ![path] = entry]
                        /\ tab' = [f \in Fds |-> IF tab[f].of = path
                                              THEN [tab[f] EXCEPT !.live = FALSE] ELSE tab[f]]
                        /\ UNCHANGED <<clientVars, taken, got, sock, ep>>

-----------------------------------------------------------------------------
(* Descriptors.                                                            *)

FreeFds == {f \in Fds : tab[f].of = "free"}

Opened(c, of, size) == [tab EXCEPT ![Min(FreeFds)] = [of |-> of, own |-> c, size |-> size, live |-> TRUE]]

(* close of a number that is not open changes nothing.                     *)
Closed(fd) == [f \in Fds |-> IF f = fd THEN Free ELSE tab[f]]

CanOpen(path) == site[path].type # "absent" /\ FreeFds # {}

(* accept gives the connection the lowest free number; without one it      *)
(* fails and HttpSever::Loop tries again.                                  *)
SharedVariable(c) == /\ At(c, "accept")
                     /\ FreeFds # {}
                     /\ sock' = [d \in Conns |-> IF d = c \/ At(d, "line") THEN Min(FreeFds) ELSE sock[d]]
                     /\ tab' = Opened(c, "conn", 0)
                     /\ ep' = [ep EXCEPT ![c].pc = "line"]
                     /\ UNCHANGED <<clientVars, taken, got, siteVars>>
Accept(c) == /\ At(c, "accept")
             /\ FreeFds # {}
             /\ sock' = [sock EXCEPT ![c] = Min(FreeFds)]
             /\ tab' = Opened(c, "conn", 0)
             /\ ep' = [ep EXCEPT ![c].pc = "line"]
             /\ UNCHANGED <<clientVars, taken, got, siteVars>>

-----------------------------------------------------------------------------
(* ReadRequest.                                                            *)

Recv(c) == /\ taken[c] < arrived[c]
           /\ taken' = [taken EXCEPT ![c] = @ + 1]
           /\ UNCHANGED <<clientVars, got, siteVars, tab, sock>>

RecvRequestLine(c) == /\ At(c, "line")
                      /\ Recv(c)
                      /\ ep' = [ep EXCEPT ![c].pc = "heads"]

RecvHead(c) == /\ At(c, "heads")
               /\ taken[c] <= Len(req[c].heads)
               /\ Recv(c)
               /\ UNCHANGED ep

(* ParseRequestHeads keeps the first value of a key, and only of lines     *)
(* with the separator; HaveReqBody looks the exact key up, for POST only.  *)
Lengths(r) == {i \in DOMAIN r.heads : r.heads[i].key = "Content-Length" /\ r.heads[i].sep}
HaveReqBody(r) == r.method = "POST" /\ Lengths(r) # {}
ContentLength(r) == IF HaveReqBody(r) THEN r.heads[Min(Lengths(r))].n ELSE 0

RecvBlank(c) == /\ At(c, "heads")
                /\ taken[c] > Len(req[c].heads)
                /\ Recv(c)
                /\ ep' = [ep EXCEPT ![c].pc = "body", ![c].length = ContentLength(req[c])]

RecvReqBodyToZero(c) == /\ At(c, "body")
                        /\ ep[c].length >= 0
                        /\ Recv(c)
                        /\ ep' = [ep EXCEPT ![c].length = @ - 1]
RecvReqBody(c) == /\ At(c, "body")
                  /\ ep[c].length > 0
                  /\ Recv(c)
                  /\ ep' = [ep EXCEPT ![c].length = @ - 1]

BodyReadAtZero(c) == /\ At(c, "body")
                     /\ ep[c].length = 0
                     /\ ep' = [ep EXCEPT ![c].pc = "build"]
                     /\ UNCHANGED <<clientVars, taken, got, siteVars, tab, sock>>
BodyRead(c) == /\ At(c, "body")
               /\ ep[c].length <= 0
               /\ ep' = [ep EXCEPT ![c].pc = "build"]
               /\ UNCHANGED <<clientVars, taken, got, siteVars, tab, sock>>

(* End of stream, or a reset that also drops what has arrived: stop is     *)
(* set, no response is built, and HanderReq deletes the endpoint.          *)
RecvFails(c) == /\ \/ At(c, "line")
                   \/ At(c, "heads")
                   \/ At(c, "body") /\ ep[c].length > 0
                /\ c \in left
                /\ ep' = [ep EXCEPT ![c].pc = "delete"]
                /\ UNCHANGED <<clientVars, taken, got, siteVars, tab, sock>>

-----------------------------------------------------------------------------
(* BuildResponse.                                                          *)

Builds(c) == UNCHANGED <<clientVars, taken, got, siteVars, sock>>

RejectMethod(c) == /\ At(c, "build")
                   /\ req[c].method = "OTHER"
                   /\ ep' = [ep EXCEPT ![c].pc = "helper", ![c].status = 400]
                   /\ Builds(c) /\ UNCHANGED tab

WithParameters(r) == r.method = "POST" \/ r.query

(* A POST keeps the ? and what follows in its path.                        *)
PathOf(r) == IF r.method = "POST" /\ r.query THEN "uri_with_query" ELSE "target"

(* The state of the file decides between CGI and plain file: an x bit, and *)
(* a directory has them, means CGI.                                        *)
Routed(c, path, file) ==
  LET cgi == WithParameters(req[c]) \/ file.type \in {"prog", "dir"}
  IN  [ep EXCEPT ![c].pc = IF cgi THEN "cgi" ELSE "open",
                 ![c].cgi = cgi, ![c].path = path, ![c].size = file.size]

StatTarget(c) ==
  LET path == PathOf(req[c])
      file == site[path]
  IN  /\ At(c, "build")
      /\ req[c].method # "OTHER"
      /\ \/ /\ file.type = "absent"
            /\ ep' = [ep EXCEPT ![c].pc = "helper", ![c].status = 404]
         \/ /\ file.type = "dir"
            /\ ep' = [ep EXCEPT ![c].pc = "stat_index", ![c].size = file.size]
         \/ /\ file.type \in {"file", "prog"}
            /\ ep' = Routed(c, path, file)
      /\ Builds(c) /\ UNCHANGED tab

(* The second stat is not checked: without an index.html file_state is     *)
(* still that of the directory.                                            *)
FileState(c) == IF site["index"].type = "absent" THEN [type |-> "dir", size |-> ep[c].size]
                                                 ELSE site["index"]
StatIndex(c) == /\ At(c, "stat_index")
                /\ ep' = Routed(c, "index", FileState(c))
                /\ Builds(c) /\ UNCHANGED tab

(* What ProcessCGI can return for what is at the path by now.              *)
ExitCodes(path) == {0, 1}
CgiResults(path) ==
  (IF site[path].type = "prog" THEN {200, 400, 500} ELSE {400})
    \cup (IF SpawnMayFail THEN {404, 500} ELSE {})

ProcessCGI(c) == /\ At(c, "cgi")
                 /\ \E code \in CgiResults(ep[c].path), n \in 0..MaxSize :
                      ep' = [ep EXCEPT ![c].pc = "helper", ![c].status = code, ![c].res_body = n]
                 /\ Builds(c) /\ UNCHANGED tab

ProcessNoCGI(c) ==
  LET path == ep[c].path
  IN  /\ At(c, "open")
      /\ \/ /\ CanOpen(path)
            /\ tab' = Opened(c, path, site[path].size)
            /\ ep' = [ep EXCEPT ![c].pc = "helper", ![c].status = 200, ![c].fd = Min(FreeFds)]
         \/ /\ ~CanOpen(path)
            /\ UNCHANGED tab
            /\ ep' = [ep EXCEPT ![c].pc = "helper", ![c].status = 404]
      /\ Builds(c)

BuildOK(c) == /\ At(c, "helper")
              /\ ep[c].status = 200
              /\ ep' = [ep EXCEPT ![c].pc = "send_head",
                                  ![c].announced = IF ep[c].cgi THEN ep[c].res_body ELSE ep[c].size]
              /\ Builds(c) /\ UNCHANGED tab

(* Every error is answered with the 404 page; without the page there are   *)
(* no headers and no body.                                                 *)
BuildErrorWithCgi(c) ==
  /\ At(c, "helper")
  /\ ep[c].status # 200
  /\ CanOpen("page404")
  /\ tab' = Opened(c, "page404", site["page404"].size)
  /\ ep' = [ep EXCEPT ![c].pc = "stat_page", ![c].fd = Min(FreeFds)]
  /\ Builds(c)
BuildError(c) ==
  /\ At(c, "helper")
  /\ ep[c].status # 200
  /\ \/ /\ CanOpen("page404")
        /\ tab' = Opened(c, "page404", site["page404"].size)
        /\ ep' = [ep EXCEPT ![c].pc = "stat_page", ![c].cgi = FALSE, ![c].fd = Min(FreeFds)]
     \/ /\ ~CanOpen("page404")
        /\ UNCHANGED tab
        /\ ep' = [ep EXCEPT ![c].pc = "send_head", ![c].cgi = FALSE]
  /\ Builds(c)

(* The page is opened first and then asked for its size by name; if it is  *)
(* gone by then, the size is what happened to be on the stack.             *)
PageSizes == IF site["page404"].type = "absent" THEN 0..MaxSize ELSE {site["page404"].size}
BuildErrorStat(c) == /\ At(c, "stat_page")
                     /\ \E n \in PageSizes :
                          ep' = [ep EXCEPT ![c].pc = "send_head", ![c].size = n, ![c].announced = n]
                     /\ Builds(c) /\ UNCHANGED tab

-----------------------------------------------------------------------------
(* SendResponse and the destructor.                                        *)

(* The client at the other end of a descriptor, if there is one.           *)
Peers(fd) == {d \in Conns \ left : fd \in Fds /\ tab[fd].of = "conn" /\ tab[fd].own = d}

(* What is sent on a descriptor, by the endpoint of c: the clients' view.  *)
Delivered(c, fd, heads, of, n) ==
  [d \in Conns |-> IF d \notin Peers(fd) THEN got[d]
                   ELSE [heads |-> got[d].heads \o heads, body |-> got[d].body + n,
                         of |-> got[d].of \cup of, from |-> got[d].from \cup {c}]]

(* send and sendfile wait until the connection has room for more.          *)
Takes(fd, n) == /\ Peers(fd) # {}
                /\ \A d \in Peers(fd) : got[d].body + n <= read[d] + Window

(* The status line, the headers and the blank line; no result is checked.  *)
(* They are the first to be sent on the connection, which has room for     *)
(* them.                                                                   *)
SendHead(c) == /\ At(c, "send_head")
               /\ got' = Delivered(c, sock[c], <<[code |-> ep[c].status, length |-> ep[c].announced]>>, {}, 0)
               /\ ep' = [ep EXCEPT ![c].pc = IF ep[c].cgi THEN "send_body" ELSE "sendfile"]
               /\ UNCHANGED <<clientVars, taken, siteVars, tab, sock>>

InSendLoop(c) == At(c, "send_body") /\ ep[c].total < ep[c].res_body

(* send puts the rest of the output into the connection as it finds room:  *)
(* a call that has to wait is a series of these.                           *)
SendBody(c) == /\ InSendLoop(c)
               /\ \E n \in 1..(ep[c].res_body - ep[c].total) :
                    /\ Takes(sock[c], n)
                    /\ got' = Delivered(c, sock[c], <<>>, {"program"}, n)
                    /\ ep' = [ep EXCEPT ![c].total = @ + n]
               /\ UNCHANGED <<clientVars, taken, siteVars, tab, sock>>

(* The loop ends with the whole output sent, or, once the client is gone,  *)
(* when its failing sends have brought total, a size_t, below 0.           *)
SendsTheRest(c) == /\ At(c, "send_body")
                   /\ ~InSendLoop(c)
                   /\ ep' = [ep EXCEPT ![c].pc = "delete"]
                   /\ UNCHANGED <<clientVars, taken, got, siteVars, tab, sock>>
SendOnce(c) == /\ At(c, "send_body")
               /\ ep' = [ep EXCEPT ![c].pc = "delete"]
               /\ UNCHANGED <<clientVars, taken, got, siteVars, tab, sock>>
EndSendBody(c) == /\ At(c, "send_body")
                  /\ ~InSendLoop(c) \/ Peers(sock[c]) = {}
                  /\ ep' = [ep EXCEPT ![c].pc = "delete"]
                  /\ UNCHANGED <<clientVars, taken, got, siteVars, tab, sock>>

(* One call, its result not checked: request.size bytes at most, fewer     *)
(* when the file has become shorter; again a series of steps, which look   *)
(* at the file as it is by then.                                           *)
WholeFile(c) == Min({tab[ep[c].fd].size, MaxSendfile})
SendfileCount(c) == Min({ep[c].size, tab[ep[c].fd].size, MaxSendfile})
InSendfile(c) == /\ At(c, "sendfile") /\ ep[c].fd # NoFd
                 /\ ep[c].total < SendfileCount(c)

Sendfile(c) == /\ InSendfile(c)
               /\ \E n \in 1..(SendfileCount(c) - ep[c].total) :
                    /\ Takes(sock[c], n)
                    /\ got' = Delivered(c, sock[c], <<>>, {tab[ep[c].fd].of}, n)
                    /\ ep' = [ep EXCEPT ![c].total = @ + n]
               /\ UNCHANGED <<clientVars, taken, siteVars, tab, sock>>

(* It returns with the count reached, at the end of the file, or with an   *)
(* error: the client is gone, or no file has been opened.                  *)
EndSendfile(c) == /\ At(c, "sendfile")
                  /\ ~InSendfile(c) \/ Peers(sock[c]) = {}
                  /\ ep' = [ep EXCEPT ![c].pc = "close_file"]
                  /\ UNCHANGED <<clientVars, taken, got, siteVars, tab, sock>>

ForgetFile(c) == /\ At(c, "close_file")
                 /\ ep' = [ep EXCEPT ![c].pc = "delete"]
                 /\ UNCHANGED <<clientVars, taken, got, siteVars, tab, sock>>
CloseFile(c) == /\ At(c, "close_file")
                /\ tab' = Closed(ep[c].fd)
                /\ ep' = [ep EXCEPT ![c].pc = "delete"]
                /\ UNCHANGED <<clientVars, taken, got, siteVars, sock>>

Delete(c) == /\ At(c, "delete")
             /\ tab' = Closed(sock[c])
             /\ ep' = [ep EXCEPT ![c].pc = "done"]
             /\ UNCHANGED <<clientVars, taken, got, siteVars, sock>>

-----------------------------------------------------------------------------
Client(c) == Arrive(c) \/ ReadAnswer(c) \/ Leave(c)
Deploy == \E path \in Paths : \/ \E n \in 0..MaxSize : Overwrite(path, n)
                              \/ \E entry \in Entries : Replace(path, entry)

ReadRequest(c) == \/ RecvRequestLine(c) \/ RecvHead(c) \/ RecvBlank(c)
                  \/ RecvReqBody(c) \/ BodyRead(c) \/ RecvFails(c)
BuildResponse(c) == \/ RejectMethod(c) \/ StatTarget(c) \/ StatIndex(c)
                    \/ ProcessCGI(c) \/ ProcessNoCGI(c)
                    \/ BuildOK(c) \/ BuildError(c) \/ BuildErrorStat(c)
SendResponse(c) == \/ SendHead(c) \/ SendBody(c) \/ EndSendBody(c)
                   \/ Sendfile(c) \/ EndSendfile(c) \/ CloseFile(c)
HanderReq(c) == ReadRequest(c) \/ BuildResponse(c) \/ SendResponse(c) \/ Delete(c)

AllDone == \A c \in Conns : At(c, "done")
Finished == AllDone /\ UNCHANGED vars

Next == \/ \E c \in Conns : Client(c) \/ Accept(c) \/ HanderReq(c)
        \/ Deploy
        \/ Finished

Spec == Init /\ [][Next]_vars

(* A worker goes on when it can, and so do the loop that accepts and a     *)
(* client that has more to send.  No client has to read or to leave.       *)
FairSpec == /\ Spec
            /\ \A c \in Conns : /\ WF_vars(Accept(c) \/ HanderReq(c))
                                /\ WF_vars(Arrive(c))
-----------------------------------------------------------------------------
Statuses == {200, 400, 404, 500}
Heads == Seq([code : Statuses, length : -1..MaxSize])
Contents == {"target", "index", "page404", "program"}
Sent == [heads : Heads, body : Nat, of : SUBSET Contents, from : SUBSET Conns]
Descriptors == [of : Paths \cup {"free", "conn"}, own : Conns \cup {Nobody}, size : 0..MaxSize,
                live : BOOLEAN]
Places == {"accept", "line", "heads", "body", "build", "stat_index", "cgi", "open", "helper",
           "stat_page", "send_head", "send_body", "sendfile", "close_file", "delete", "done"}
EndPoints == [pc : Places, length : Int, status : Statuses, cgi : BOOLEAN, path : Paths,
              size : -1..MaxSize, fd : Fds \cup {NoFd}, res_body : 0..MaxSize,
              announced : -1..MaxSize, total : 0..MaxSize]

TypeOK ==
  /\ req \in [Conns -> Requests]
  /\ arrived \in [Conns -> Nat] /\ taken \in [Conns -> Nat]
  /\ \A c \in Conns : taken[c] <= arrived[c] /\ arrived[c] <= StreamLen(req[c])
  /\ left \subseteq Conns
  /\ read \in [Conns -> Nat]
  /\ got \in [Conns -> Sent]
  /\ site \in [Paths -> Entries] /\ deployed \in 0..Deploys
  /\ tab \in [Fds -> Descriptors]
  /\ sock \in [Conns -> Fds \cup {NoFd}]
  /\ ep \in [Conns -> EndPoints]

(* The descriptors that the endpoint of c has to give back.                *)
Holds(c) == (IF ep[c].pc \in {"accept", "done"} THEN {} ELSE {sock[c]})
              \cup (IF ep[c].pc \in {"delete", "done"} THEN {} ELSE {ep[c].fd} \ {NoFd})

(* Numbers are used again as soon as they are closed, and still: what an   *)
(* endpoint holds is its own connection and its own file, nothing is       *)
(* closed under it, and nothing stays open that no endpoint holds.         *)
OwnDescriptors ==
  /\ \A c \in Conns : \A f \in Holds(c) : tab[f].own = c /\ (tab[f].of = "conn" <=> f = sock[c])
  /\ \A f \in Fds \ FreeFds : f \in Holds(tab[f].own)

(* However much a client sends, its endpoint takes the request line, the   *)
(* headers and as many bytes of body as the header it goes by asks for,    *)
(* none of what follows, and all of it before it answers.                  *)
RequestUnits(r) == Len(r.heads) + 2 + (IF ContentLength(r) > 0 THEN ContentLength(r) ELSE 0)
TakesItsRequest ==
  \A c \in Conns : /\ taken[c] <= RequestUnits(req[c])
                   /\ got[c].heads # <<>> => taken[c] = RequestUnits(req[c])

(* A client is sent one response at most, by the endpoint of its own       *)
(* connection.                                                             *)
AnswerToItsClient ==
  \A c \in Conns : Len(got[c].heads) <= 1 /\ got[c].from \subseteq {c}

(* However the site changes between stat, open and sendfile, no more body  *)
(* is sent than Content-Length has announced, and none without it.         *)
BodyFitsLength ==
  \A c \in Conns : got[c].body > 0 =>
    Len(got[c].heads) = 1 /\ got[c].body <= got[c].heads[1].length

(* A 200 carries the requested file or a program's output, and every other *)
(* status the 404 page: what a failed program wrote is not sent.           *)
BodyFitsStatus ==
  \A c \in Conns : Len(got[c].heads) = 1 =>
    got[c].of \subseteq (IF got[c].heads[1].code # 200 THEN {"page404"}
                        ELSE IF ep[c].cgi THEN {"program"} ELSE {"target", "index"})

(* While the site stays as it is, a client that does not leave has been    *)
(* sent every byte that Content-Length has announced when its endpoint has *)
(* ended, if one sendfile can carry the file.                              *)
WholeBody ==
  \A c \in Conns : deployed = 0 /\ At(c, "done") /\ c \notin left /\ Len(got[c].heads) = 1 =>
    LET n == got[c].heads[1].length
    IN  n # Unset /\ (n <= MaxSendfile \/ got[c].of = {"program"}) => got[c].body = n

(* A client that has sent its request, with as much body as the header the *)
(* endpoint goes by asks for, gets a response if it waits for it.          *)
Complete(c) == arrived[c] = StreamLen(req[c]) /\ ContentLength(req[c]) <= req[c].body
EveryRequestAnswered ==
  \A c \in Conns : Complete(c) ~> (Len(got[c].heads) = 1 \/ c \in left)

(* Whatever the endpoint is doing when its client leaves, receiving or in  *)
(* the middle of the body, it comes to its end.                            *)
EndsWhenClientLeaves == \A c \in Conns : c \in left ~> At(c, "done")
-----------------------------------------------------------------------------
(* The abstract exchange that an endpoint implements: its response begins  *)
(* with SendHead, and "delete" is reached without one when recv fails.     *)
Answered(c) == \/ ep[c].pc \in {"send_body", "sendfile", "close_file"}
               \/ At(c, "delete") /\ (ep[c].status # 200 \/ ep[c].announced # Unset)
StateOf(c) == IF At(c, "accept") THEN "unaccepted"
              ELSE IF At(c, "done") THEN "closed"
              ELSE IF Answered(c) THEN "answering" ELSE "asking"
Exchange == INSTANCE HttpExchange WITH
              Codes <- Statuses,
              state <- [c \in Conns |-> StateOf(c)],
              heads <- [c \in Conns |-> got[c].heads],
              body  <- [c \in Conns |-> got[c].body]

(* However the site changes under it and whenever the client stops or      *)
(* leaves, HanderReq is one exchange: one response, headers first, its     *)
(* body within the announced length, then the end, unless the client stays *)
(* and does not read; without a response only for a client that left.      *)
ImplementsHttpExchange == Exchange!FairSpec
-----------------------------------------------------------------------------
(* What the comments of the code say.                                      *)

(* Protocol.hpp:512: a resource that does not exist is a 404 error.        *)
MissingIs404 ==
  \A c \in Conns :
    LET r == req[c]
        missing == \/ site["target"].type = "absent"
                   \/ site["target"].type = "dir" /\ site["index"].type = "absent"
    IN  deployed = 0 /\ r.method = "GET" /\ missing /\ Len(got[c].heads) = 1 => got[c].heads[1].code = 404
=============================================================================
