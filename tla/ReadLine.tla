------------------------------ MODULE ReadLine ------------------------------
(***************************************************************************)
(* Util::readLine (tool/Util.hpp) under its two callers, RecvRequestLine   *)
(* and RecvRequestHeads (Protocol.hpp): bytes are received one at a time,  *)
(* and a line may end in "\n", "\r\n" or "\r".  After a "\r" the next byte *)
(* is peeked at.  The client's bytes come when they come, and it may close *)
(* the connection between any two of them.                                 *)
(***************************************************************************)
EXTENDS Naturals, Sequences, FiniteSets

CONSTANTS Bytes,    \* bytes other than the two that end lines
          CR, LF,   \* "\r" and "\n"
          MaxLen    \* bound: the longest stream

ASSUME BytesAssumption == CR # LF /\ CR \notin Bytes /\ LF \notin Bytes
ASSUME MaxLenAssumption == MaxLen \in Nat

Chars == Bytes \cup {CR, LF}

VARIABLES
  stream,   \* the bytes that the client has sent so far
  ended,    \* has the client closed its side?
  pos,      \* how many of them recv has taken
  pc,       \* where the worker is in readLine, or in its callers
  ch,       \* readLine's ch between recv and out += ch
  line,     \* readLine's out
  lines     \* the lines returned so far: the request line, then the headers

clientVars == <<stream, ended>>
vars == <<clientVars, pos, pc, ch, line, lines>>

Init == /\ stream = <<>>
        /\ ended = FALSE
        /\ pos = 0
        /\ pc = "recv"
        /\ ch = LF
        /\ line = <<>>
        /\ lines = <<>>

Send(b) == /\ ~ended
           /\ Len(stream) < MaxLen
           /\ stream' = Append(stream, b)
           /\ UNCHANGED <<ended, pos, pc, ch, line, lines>>

Close == /\ ~ended
         /\ ended' = TRUE
         /\ UNCHANGED <<stream, pos, pc, ch, line, lines>>

-----------------------------------------------------------------------------
Next1 == stream[pos + 1]
Available == pos < Len(stream)
AtEof == ~Available /\ ended

(* The loop's recv: a "\r" is looked into further.                         *)
LooksAhead(b) == b \in {CR, LF}
KeepsCr(b) == FALSE
PeeksAfter(b) == b = CR
Recv == /\ pc = "recv"
        /\ Available
        /\ pos' = pos + 1
        /\ ch' = Next1
        /\ pc' = IF PeeksAfter(Next1) THEN "peek" ELSE "append"
        /\ UNCHANGED <<clientVars, line, lines>>

(* recv with MSG_PEEK waits for a byte too.  A "\n" is taken as well; any  *)
(* other byte, and the end of the stream, leaves "\r" to stand for "\n".   *)
TakesAny(b) == 1
LeavesLf(b) == 0
TakesLf(b) == IF b = LF THEN 1 ELSE 0
Peek == /\ pc = "peek"
        /\ Available \/ AtEof
        /\ ch' = LF
        /\ pos' = IF Available THEN pos + TakesLf(Next1) ELSE pos
        /\ pc' = "append"
        /\ UNCHANGED <<clientVars, line, lines>>

(* out += ch; a "\n" ends the line, and the empty line the headers.        *)
BlankWithCr(l) == l = <<CR, LF>>
IsBlank(l) == l = <<LF>>
LastLine(l) == IsBlank(l) /\ lines # <<>>
AppendChar == /\ pc = "append"
              /\ line' = IF ch = LF THEN <<>> ELSE Append(line, ch)
              /\ lines' = IF ch = LF THEN Append(lines, Append(line, ch)) ELSE lines
              /\ pc' = IF ch = LF /\ LastLine(Append(line, ch)) THEN "body" ELSE "recv"
              /\ UNCHANGED <<clientVars, pos, ch>>

(* recv returns 0: readLine returns 0, and its caller sets stop.           *)
Eof == /\ pc = "recv"
       /\ AtEof
       /\ pc' = "stop"
       /\ UNCHANGED <<clientVars, pos, ch, line, lines>>

Worker == Recv \/ Peek \/ AppendChar \/ Eof
Finished == pc \in {"body", "stop"} /\ UNCHANGED vars
Next == (\E b \in Chars : Send(b)) \/ Close \/ Worker \/ Finished

Spec == Init /\ [][Next]_vars
FairSpec == Spec /\ WF_vars(Worker)
-----------------------------------------------------------------------------
TypeOK == /\ stream \in Seq(Chars) /\ Len(stream) <= MaxLen
          /\ ended \in BOOLEAN
          /\ pos \in 0..Len(stream)
          /\ pc \in {"recv", "peek", "append", "body", "stop"}
          /\ ch \in Chars
          /\ line \in Seq(Bytes)
          /\ lines \in Seq(Seq(Bytes \cup {LF}))

(* Where the lines of a stream end, for a reader that has all of it: at a  *)
(* "\n", and at a "\r" that no "\n" follows.                               *)
LineEnds(s) == {i \in 1..Len(s) : \/ s[i] = LF
                                  \/ s[i] = CR /\ (i < Len(s) => s[i + 1] # LF)}

(* The end of line k, and what line k has before its ending.               *)
EndsUpTo(s, i) == {j \in LineEnds(s) : j <= i}
EndOf(s, k) == CHOOSE i \in LineEnds(s) \cup {0} : Cardinality(EndsUpTo(s, i)) = k
EndsInCrLf(s, k) == LET i == EndOf(s, k)
                    IN  s[i] = LF /\ i - 1 > EndOf(s, k - 1) /\ s[i - 1] = CR
Content(s, k) ==
  SubSeq(s, EndOf(s, k - 1) + 1, EndOf(s, k) - (IF EndsInCrLf(s, k) THEN 2 ELSE 1))

(* However the bytes arrive, the lines returned are those of the stream,   *)
(* in order, and none of the bytes after the last of them has been taken:  *)
(* what follows the empty line is left for the body.                       *)
LinesOfStream ==
  /\ \A k \in 1..Len(lines) : lines[k] = Append(Content(stream, k), LF)
  /\ pc \in {"recv", "body"} /\ line = <<>> => pos = EndOf(stream, Len(lines))

(* Where a line ends that has nothing before its ending.  The request line *)
(* is not one of them, as no line ends before it.                          *)
BlankEnds(s) == {n \in LineEnds(s) : \E m \in LineEnds(s) :
                   n = m + 1 \/ (n = m + 2 /\ s[n - 1] = CR /\ s[n] = LF)}

(* The body begins with the byte behind the first empty line after the     *)
(* request line: no byte behind that line is taken with the headers, none  *)
(* of its ending is left for the body, and the worker that has taken it    *)
(* asks for no more headers, and does not stop.                            *)
HeadersEndAtBlank ==
  /\ \A n \in BlankEnds(stream) : pos <= n
  /\ pc = "body" => pos \in BlankEnds(stream)
  /\ pc \in {"recv", "stop"} => pos \notin BlankEnds(stream)

(* A line that ends in "\n" is returned without waiting for more bytes:    *)
(* the worker does not wait while the client waits for its response.       *)
LinesUpTo(n) == Cardinality(EndsUpTo(stream, n))
LfLineReturned ==
  \A n \in 1..MaxLen :
    (Len(stream) >= n /\ stream[n] = LF) ~>
      (pc = "body" \/ (\E k \in 1..Len(lines) : k >= LinesUpTo(n)))
-----------------------------------------------------------------------------
(* tool/Util.hpp:24: every line ending is turned into "\n".  A line that ends   *)
(* in "\r" is returned as well, as the peeked-at byte decides nothing.     *)
CrLineReturned ==
  \A n \in 1..MaxLen :
    (Len(stream) >= n /\ stream[n] = CR) ~>
      (pc = "body" \/ (\E k \in 1..Len(lines) : k >= LinesUpTo(n)))
=============================================================================
