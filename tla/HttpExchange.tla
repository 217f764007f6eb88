---------------------------- MODULE HttpExchange ----------------------------
(***************************************************************************)
(* What CallBack::HanderReq (Protocol.hpp:577-594) promises the client of  *)
(* each connection, with no descriptor, no file and no program in sight:   *)
(* one response at most, its headers first, its body no longer than they   *)
(* say, then the end of the connection; and the end without a response     *)
(* only for a client that has left.                                        *)
(***************************************************************************)
EXTENDS Integers, Sequences

CONSTANTS Conns,  \* the connections
          Codes   \* the status codes that a response may have

VARIABLES state,  \* state[c]: "unaccepted", "asking", "answering" or "closed"
          left,   \* the clients that have closed their side
          read,   \* read[c]: how many bytes of body client c has read
          heads,  \* heads[c]: the headers that client c has been sent
          body    \* body[c]: how many bytes of body

vars == <<state, left, read, heads, body>>

Init == /\ state = [c \in Conns |-> "unaccepted"]
        /\ left = {}
        /\ read = [c \in Conns |-> 0]
        /\ heads = [c \in Conns |-> <<>>]
        /\ body = [c \in Conns |-> 0]

Goes(c, from, to) == state[c] = from /\ state' = [state EXCEPT ![c] = to]

Accept(c) == Goes(c, "unaccepted", "asking") /\ UNCHANGED <<left, read, heads, body>>

Leave(c) == /\ c \notin left
            /\ left' = left \cup {c}
            /\ UNCHANGED <<state, read, heads, body>>

Read(c) == /\ c \notin left
           /\ read'[c] \in read[c]..body[c]
           /\ read' = [read EXCEPT ![c] = read'[c]]
           /\ UNCHANGED <<state, left, heads, body>>

Respond(c) == /\ Goes(c, "asking", "answering")
              /\ IF c \in left THEN UNCHANGED heads
                 ELSE /\ heads'[c] \in Seq([code : Codes, length : Int]) /\ Len(heads'[c]) = 1
                      /\ heads' = [heads EXCEPT ![c] = heads'[c]]
              /\ UNCHANGED <<left, read, body>>

SendBody(c) == /\ state[c] = "answering" /\ c \notin left
               /\ body'[c] \in body[c]..heads[c][1].length
               /\ body' = [body EXCEPT ![c] = body'[c]]
               /\ UNCHANGED <<state, left, read, heads>>

Close(c) == Goes(c, "answering", "closed") /\ UNCHANGED <<left, read, heads, body>>

Abandon(c) == /\ c \in left
              /\ Goes(c, "asking", "closed")
              /\ UNCHANGED <<left, read, heads, body>>

Ends(c) == Close(c) \/ Abandon(c)

Next == \E c \in Conns : Accept(c) \/ Leave(c) \/ Read(c) \/ Respond(c) \/ SendBody(c) \/ Ends(c)

Spec == Init /\ [][Next]_vars

(* What has been answered comes to its end if its client reads all it is   *)
(* sent or leaves; a client that does neither may be waited for, for ever. *)
CaughtUp(c) == c \in left \/ read[c] = body[c]
FairSpec == Spec /\ \A c \in Conns : WF_vars(Ends(c) /\ CaughtUp(c))
=============================================================================
