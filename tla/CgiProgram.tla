----------------------------- MODULE CgiProgram -----------------------------
(***************************************************************************)
(* The two CGI programs, CGI/connect.cpp (mysql_cgi, which registers a     *)
(* user) and CGI/cgi.cpp (cgi, which calculates), under a client that      *)
(* submits one request again until it is answered with a page.  A program  *)
(* whose server has ended goes on as an orphan, beside the one of the next *)
(* try.                                                                    *)
(*                                                                         *)
(* Bytes are their codes.  What has a quote or a backslash when it is put  *)
(* into the SQL statement is text of the statement, and is left out by the *)
(* assumptions; so is a name or password with a space, which a browser     *)
(* sends as "+" and nothing turns back.                                    *)
(***************************************************************************)
EXTENDS Integers, Sequences, SequencesExt, FiniteSets

CONSTANTS Typed,    \* what users type into the form: pairs of a name and a password
          Raw,      \* other parameters that a request may have
          MaxTries  \* bound: how often the client submits

Quote == 39
Backslash == 92

(* What a field of one line takes, but for the three characters above.     *)
Letters == (1..255) \ {10, 13, 32, Quote, Backslash}

ASSUME TypedAssumption == Typed \subseteq Seq(Letters) \X Seq(Letters)
ASSUME MaxTriesAssumption == MaxTries \in Nat \ {0}

Percent == 37
Amp == 38
Equal == 61

Tries == 1..MaxTries
NoRow == <<>>

VARIABLES
  bin, method,   \* which program is asked for, and how
  typed,         \* what the user typed; none when the request is no form's
  text,          \* the parameter of the request
  tries,         \* how often it was submitted
  answer,        \* what the client has of the last try
  pc,            \* pc[t]: where the program of try t is
  parameter,     \* parameter[t]: what GetParameter has read
  row,           \* row[t]: what it has stored in the table
  output, exit,  \* what it has printed and how it has ended
  orphans,       \* the tries whose server has ended before them
  faults         \* the tries that an outside failure has hit

requestVars == <<bin, method, typed, text>>
programVars == <<pc, parameter, row, output, exit>>
vars == <<requestVars, tries, answer, programVars, orphans, faults>>

-----------------------------------------------------------------------------
(* Util::cutString, with the results that it leaves alone empty as both    *)
(* callers have them.                                                      *)
Index(src, sep) == SelectInSeq(src, LAMBDA b : b = sep)

CutKeepsSep(src, sep) ==
  LET at == Index(src, sep)
  IN  IF at = 0 THEN <<<<>>, <<>>>>
      ELSE <<SubSeq(src, 1, at - 1), SubSeq(src, at, Len(src))>>
Cut(src, sep) ==
  LET at == Index(src, sep)
  IN  IF at = 0 THEN <<<<>>, <<>>>>
      ELSE <<SubSeq(src, 1, at - 1), SubSeq(src, at + 1, Len(src))>>

(* iss >> std::hex on two characters takes the digits it finds after a     *)
(* blank or a sign, and leaves 0 when it finds none.                       *)
Blanks == (9..13) \cup {32}
Digits == 48..57
Hex == Digits \cup (65..70) \cup (97..102)
Nibble(b) == CASE b \in Digits  -> b - 48
               [] b \in 65..70  -> b - 55
               [] b \in 97..102 -> b - 87
HexValue(a, b) == CASE a \in Hex /\ b \in Hex       -> 16 * Nibble(a) + Nibble(b)
                    [] a \in Hex /\ b \notin Hex    -> Nibble(a)
                    [] a \in Blanks /\ b \in Hex    -> Nibble(b)
                    [] a = 43 /\ b \in Hex          -> Nibble(b)
                    [] a = 45 /\ b \in Hex          -> (256 - Nibble(b)) % 256
                    [] OTHER                        -> 0

Decoded(uri, step) ==
  LET from[i \in 1..(Len(uri) + 3)] ==
        IF i > Len(uri) THEN <<>>
        ELSE IF uri[i] = Percent /\ i + 2 <= Len(uri)
             THEN <<HexValue(uri[i + 1], uri[i + 2])>> \o from[i + step]
             ELSE <<uri[i]>> \o from[i + 1]
  IN  from[1]
DecodeUriStepping(uri) == Decoded(uri, 2)
DecodeUri(uri) == Decoded(uri, 3)

(* main of both programs: key=value&key2=value2.                           *)
Values(p) == LET halves == Cut(p, Amp)
             IN  <<Cut(halves[1], Equal)[2], Cut(halves[2], Equal)[2]>>

RowOf(p) == <<DecodeUri(Values(p)[1]), Values(p)[2]>>

ASSUME RawAssumption == /\ Raw \subseteq Seq(1..255)
                        /\ \A p \in Raw : {Quote, Backslash} \cap
                             (ToSet(RowOf(p)[1]) \cup ToSet(RowOf(p)[2])) = {}

(* Blanks, a sign, and digits up to the first byte that is none.  Numbers  *)
(* that int cannot hold are left out.                                      *)
Atoi(s) ==
  LET first == SelectInSeq(s, LAMBDA b : b \notin Blanks)
      from[i \in 1..(Len(s) + 1), n \in Nat] ==
        IF i > Len(s) \/ s[i] \notin Digits THEN n ELSE from[i + 1, 10 * n + s[i] - 48]
  IN  CASE first = 0     -> 0
        [] s[first] = 43 -> from[first + 1, 0]
        [] s[first] = 45 -> -from[first + 1, 0]
        [] OTHER         -> from[first, 0]

-----------------------------------------------------------------------------
(* The browser escapes all but letters, digits and "*", "-", ".", "_".     *)
Digit(n) == IF n < 10 THEN 48 + n ELSE 55 + n
Escaped(b) == IF b \in Digits \cup (65..90) \cup (97..122) \cup {42, 45, 46, 95} THEN <<b>>
              ELSE <<Percent, Digit(b \div 16), Digit(b % 16)>>
Encode(s) == FlattenSeq([i \in 1..Len(s) |-> Escaped(s[i])])
FormText(form) == <<105, Equal>> \o Encode(form[1]) \o <<Amp, 112, Equal>> \o Encode(form[2])

Init == /\ bin \in {"cgi", "mysql_cgi"} /\ method \in {"GET", "POST"}
        /\ \/ typed \in Typed /\ text = FormText(typed)
           \/ typed = NoRow /\ text \in Raw
        /\ tries = 0 /\ answer = "none"
        /\ pc = [t \in Tries |-> "none"]
        /\ parameter = [t \in Tries |-> <<>>]
        /\ row = [t \in Tries |-> NoRow]
        /\ output = [t \in Tries |-> "none"]
        /\ exit = [t \in Tries |-> "none"]
        /\ orphans = {} /\ faults = {}

Submit == /\ answer \notin {"waiting", "page"} /\ tries < MaxTries
          /\ tries' = tries + 1
          /\ answer' = "waiting"
          /\ pc' = [pc EXCEPT ![tries'] = "read"]
          /\ UNCHANGED <<requestVars, parameter, row, output, exit, orphans, faults>>

(* The server sends a page for what a program that exits prints, and an    *)
(* error for one that a signal ends (Protocol.hpp:313-328).                *)
Answer == /\ answer = "waiting" /\ pc[tries] = "gone"
          /\ answer' = IF exit[tries] = "signal" THEN "error"
                       ELSE IF output[tries] = "page" THEN "page" ELSE "empty"
          /\ UNCHANGED <<requestVars, tries, programVars, orphans, faults>>

(* The server is killed, and started again before the next try.            *)
Crash == /\ answer = "waiting"
         /\ answer' = "lost"
         /\ orphans' = orphans \cup {tries} /\ faults' = faults \cup {tries}
         /\ UNCHANGED <<requestVars, tries, programVars>>

-----------------------------------------------------------------------------
(* A read that finds the end of the pipe leaves ch as it was.              *)
ReceivedUnset(k) == [i \in 1..Len(text) |-> IF i <= k THEN text[i] ELSE -1]
Received(k) == LET ch == IF k = 0 THEN 0 ELSE text[k]
               IN  [i \in 1..Len(text) |-> IF i <= k THEN text[i] ELSE ch]

GetParameter(t) ==
  /\ pc[t] = "read"
  /\ \E k \in 0..Len(text) :
       /\ k = Len(text) \/ (method = "POST" /\ t \in orphans)
       /\ parameter' = [parameter EXCEPT ![t] = Received(k)]
  /\ pc' = [pc EXCEPT ![t] = IF bin = "cgi" THEN "calculate" ELSE "connect"]
  /\ UNCHANGED <<requestVars, tries, answer, row, output, exit, orphans, faults>>

Exits(t, how, what) == /\ pc' = [pc EXCEPT ![t] = "gone"]
                       /\ exit' = [exit EXCEPT ![t] = how]
                       /\ output' = [output EXCEPT ![t] = what]
                       /\ UNCHANGED <<requestVars, tries, answer, parameter, orphans>>

(* cgi.cpp prints the quotient last, and dies of a division by zero.       *)
Calculate(t) == /\ pc[t] = "calculate"
                /\ IF Atoi(Values(parameter[t])[2]) = 0
                   THEN Exits(t, "signal", "none") ELSE Exits(t, "exit0", "page")
                /\ UNCHANGED <<row, faults>>

ConnectDb(t) == /\ pc[t] = "connect"
                /\ pc' = [pc EXCEPT ![t] = "query"]
                /\ UNCHANGED <<requestVars, tries, answer, parameter, row, output, exit,
                               orphans, faults>>

(* A failure is only logged: main returns 0 without having printed.        *)
ConnectFails(t) == /\ pc[t] = "connect"
                   /\ Exits(t, "exit0", "none")
                   /\ UNCHANGED <<row, faults>>

(* mysql_query takes the statement up to the first NUL, and one that has   *)
(* no end of its text is an error.  By the assumptions no value has a      *)
(* quote or a backslash, which would end or change the statement; half of  *)
(* a request, which an orphan may have, has none either.                   *)
IsStatement(r) == 0 \notin ToSet(r[1]) \cup ToSet(r[2])
Inserts(t) == /\ IsStatement(RowOf(parameter[t]))
              /\ row' = [row EXCEPT ![t] = RowOf(parameter[t])]

QueryInverted(t) == /\ pc[t] = "query"
                    /\ Inserts(t) /\ Exits(t, "exit0", "none") /\ UNCHANGED faults
Query(t) == /\ pc[t] = "query"
            /\ Inserts(t)
            /\ pc' = [pc EXCEPT ![t] = "print"]
            /\ UNCHANGED <<requestVars, tries, answer, parameter, output, exit, orphans, faults>>

(* The statement is refused, or nobody is left to carry it out.            *)
QueryFailsUnchecked(t) == /\ pc[t] = "query" /\ Exits(t, "exit0", "page")
                          /\ UNCHANGED <<row, faults>>
QueryFails(t) == /\ pc[t] = "query" /\ Exits(t, "exit0", "none")
                 /\ UNCHANGED <<row, faults>>

(* The row is stored, and the connection lost before the program knows.    *)
QueryLost(t) == /\ pc[t] = "query" /\ Inserts(t) /\ Exits(t, "exit0", "none")
                /\ faults' = faults \cup {t}

PrintPage(t) == /\ pc[t] = "print" /\ Exits(t, "exit0", "page")
            /\ UNCHANGED <<row, faults>>

Killed(t) == /\ pc[t] \notin {"none", "gone"} /\ Exits(t, "signal", "none")
             /\ faults' = faults \cup {t}
             /\ UNCHANGED row

Program(t) == \/ GetParameter(t) \/ Calculate(t)
              \/ ConnectDb(t) \/ ConnectFails(t)
              \/ Query(t) \/ QueryFails(t) \/ QueryLost(t) \/ PrintPage(t)

Next == Submit \/ Answer \/ Crash \/ \E t \in Tries : Program(t) \/ Killed(t)

Spec == Init /\ [][Next]_vars
-----------------------------------------------------------------------------
TypeOK ==
  /\ tries \in 0..MaxTries
  /\ answer \in {"none", "waiting", "page", "empty", "error", "lost"}
  /\ pc \in [Tries -> {"none", "read", "calculate", "connect", "query", "print", "gone"}]
  /\ parameter \in [Tries -> Seq(0..255)]
  /\ row \in [Tries -> {NoRow} \cup (Seq(0..255) \X Seq(0..255))]
  /\ output \in [Tries -> {"none", "page"}]
  /\ exit \in [Tries -> {"none", "exit0", "signal"}]
  /\ orphans \subseteq Tries /\ faults \subseteq Tries

(* The page that says the user is registered is sent only when the row is  *)
(* in the table, whatever failed on the way and whichever try it was.      *)
PageMeansRow == bin = "mysql_cgi" /\ answer = "page" => row[tries] # NoRow

(* Submitting again until there is a page registers the user once, but for *)
(* one more row for each try that was killed, or lost its server or its    *)
(* database: exit code 0 without a page means that nothing was stored.     *)
Stored == {t \in Tries : row[t] # NoRow}
RetryStoresOnce == Cardinality(Stored \ faults) <= 1

(* What is stored of any letters (not of a space, a quote or a backslash)  *)
(* is what was typed, unless the server ended before it had passed all of  *)
(* the request on.  The password is stored as the browser has sent it:     *)
(* only the name is decoded.                                               *)
RowsAsTyped == \A t \in Stored \ orphans :
                 typed # NoRow => row[t] = <<typed[1], Encode(typed[2])>>

(* Which places of a text begin an escape, none of which overlaps another; *)
(* which places decoding keeps, an escape's digits being none; and what    *)
(* the kept ones mean, in their order.                                     *)
IsEscape(u, i, E) == u[i] = Percent /\ i + 2 <= Len(u) /\ {i - 1, i - 2} \cap E = {}
Escapes(u) == CHOOSE E \in SUBSET (1..Len(u)) : \A i \in 1..Len(u) : i \in E <=> IsEscape(u, i, E)
Kept(u, E) == {i \in 1..Len(u) : {i - 1, i - 2} \cap E = {}}
UpTo(K, i) == Cardinality({j \in K : j <= i})
Meant(u, E, i) == IF i \in E THEN HexValue(u[i + 1], u[i + 2]) ELSE u[i]
Reference(u) ==
  LET E == Escapes(u)
      K == Kept(u, E)
  IN  [k \in 1..Cardinality(K) |-> Meant(u, E, CHOOSE i \in K : UpTo(K, i) = k)]

(* Of any name, even one that no browser has escaped, every escape is      *)
(* decoded once, from the left, and its result is not looked at again; an  *)
(* escape that the text cuts off stays.                                    *)
DecodesOnce == \A t \in Stored \ orphans : row[t][1] = Reference(Values(text)[1])
=============================================================================
