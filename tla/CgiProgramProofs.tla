-------------------------- MODULE CgiProgramProofs --------------------------
(***************************************************************************)
(* What the CGI programs promise for any form, any request and any number  *)
(* of tries: the type invariant, PageMeansRow, RetryStoresOnce,            *)
(* RowsAsTyped and DecodesOnce.                                            *)
(***************************************************************************)
EXTENDS FormLemmas

Running == {"calculate", "connect", "query", "print"}
Early == {"none", "read", "calculate", "connect", "query"}

(* The request is a form's, or another one.                                *)
Request == /\ text \in Seq(0..255)
           /\ typed # NoRow => typed \in Typed /\ text = FormText(typed)

(* A row is stored by a program that was asked to, once it has its         *)
(* parameter, and a page of mysql_cgi is printed after that.               *)
Course(t) ==
  /\ pc[t] = "calculate" => bin = "cgi"
  /\ pc[t] \in Early => row[t] = NoRow /\ output[t] = "none"
  /\ pc[t] = "print" => row[t] # NoRow
  /\ output[t] = "page" => pc[t] = "gone" /\ exit[t] = "exit0"
  /\ bin = "mysql_cgi" /\ output[t] = "page" => row[t] # NoRow

(* A program that has a server has all of its parameter once it has read   *)
(* it, and what it stores comes from there.                                *)
Passed(t) ==
  t \notin orphans => /\ pc[t] \in Running => parameter[t] = text
                      /\ row[t] # NoRow => row[t] = RowOf(text)

(* The client waits for the last try only, and those before are over, or   *)
(* run on without a server.                                                *)
Waiting ==
  /\ answer # "none" => tries \in Tries
  /\ answer = "page" => pc[tries] = "gone" /\ output[tries] = "page"
  /\ orphans \subseteq faults
  /\ \A t \in Tries : /\ pc[t] = "none" <=> t > tries
                      /\ pc[t] \notin {"none", "gone"} /\ t \notin faults =>
                           t = tries /\ answer = "waiting"

(* A row that no outside failure stood in the way of is that of the last   *)
(* try, and its client gets a page.                                        *)
StoredLast ==
  \A t \in Stored \ faults :
    /\ t = tries /\ answer \in {"waiting", "page"}
    /\ pc[t] = "print" \/ (pc[t] = "gone" /\ exit[t] = "exit0" /\ output[t] = "page")

IInv == /\ TypeOK /\ Request /\ Waiting /\ StoredLast
        /\ \A t \in Tries : Course(t) /\ Passed(t)
-----------------------------------------------------------------------------
(* What GetParameter reads are bytes, and all of the text if nothing cut   *)
(* it off.                                                                 *)
LEMMA ReceivedIs ==
  ASSUME Request, NEW k \in 0..Len(text)
  PROVE  Received(k) \in Seq(0..255) /\ (k = Len(text) => Received(k) = text)
<1>1. Len(text) \in Nat /\ \A i \in 1..Len(text) : text[i] \in 0..255
  BY LenProperties, ElementOfSeq DEF Request
<1> DEFINE c == IF k = 0 THEN 0 ELSE text[k]
           r == [i \in 1..Len(text) |-> IF i <= k THEN text[i] ELSE c]
<1>2. Received(k) = r
  BY DEF Received
<1>3. c \in 0..255
  BY <1>1
<1> HIDE DEF c
<1>4. r \in Seq(0..255)
  BY <1>1, <1>3, IsASeq
<1>5. ASSUME k = Len(text) PROVE r = text
  <2>1. Len(r) = Len(text) /\ \A i \in 1..Len(text) : r[i] = text[i]
    BY <1>1, <1>5
  <2> HIDE DEF r
  <2>2. QED
    BY <1>4, <2>1, SeqEqual DEF Request
<1>6. QED
  BY <1>2, <1>4, <1>5

(* A step of one program is about that program only.                       *)
LEMMA ProgramFrame ==
  ASSUME TypeOK, NEW t \in Tries, Program(t) \/ Killed(t)
  PROVE  /\ UNCHANGED <<bin, typed, text, tries, answer, orphans>>
         /\ faults \subseteq faults' /\ faults' \subseteq faults \cup {t}
         /\ \A u \in Tries : u # t =>
              /\ pc'[u] = pc[u] /\ parameter'[u] = parameter[u] /\ row'[u] = row[u]
              /\ output'[u] = output[u] /\ exit'[u] = exit[u]
         /\ pc[t] \notin {"none", "gone"} /\ pc'[t] # "none"
<1> USE DEF TypeOK, Exits, Inserts, requestVars
<1>1. CASE GetParameter(t)
  BY <1>1 DEF GetParameter
<1>2. CASE Calculate(t)
  BY <1>2 DEF Calculate
<1>3. CASE ConnectDb(t)
  BY <1>3 DEF ConnectDb
<1>4. CASE ConnectFails(t)
  BY <1>4 DEF ConnectFails
<1>5. CASE Query(t)
  BY <1>5 DEF Query
<1>6. CASE QueryFails(t)
  BY <1>6 DEF QueryFails
<1>7. CASE QueryLost(t)
  BY <1>7 DEF QueryLost
<1>8. CASE PrintPage(t)
  BY <1>8 DEF PrintPage
<1>9. CASE Killed(t)
  BY <1>9 DEF Killed
<1>10. QED
  BY <1>1, <1>2, <1>3, <1>4, <1>5, <1>6, <1>7, <1>8, <1>9 DEF Program

(* What a program that stores its row stores.                              *)
LEMMA InsertsRow ==
  ASSUME TypeOK, NEW t \in Tries, Inserts(t)
  PROVE  /\ row' = [row EXCEPT ![t] = RowOf(parameter[t])]
         /\ row'[t] = RowOf(parameter[t]) /\ row'[t] # NoRow
         /\ row' \in [Tries -> {NoRow} \cup (Seq(0..255) \X Seq(0..255))]
<1>1. row' = [row EXCEPT ![t] = RowOf(parameter[t])]
  BY DEF Inserts
<1>2. RowOf(parameter[t]) \in Seq(0..255) \X Seq(0..255) /\ RowOf(parameter[t]) # NoRow
  BY RowType DEF TypeOK
<1> DEFINE r == RowOf(parameter[t])
           R == Seq(0..255) \X Seq(0..255)
<1>3. row \in [Tries -> {NoRow} \cup R]
  BY DEF TypeOK
<1> HIDE DEF r, R
<1>4. row' = [row EXCEPT ![t] = r] /\ r \in R
  BY <1>1, <1>2 DEF r, R
<1>5. row'[t] = r /\ row' \in [Tries -> {NoRow} \cup R]
  BY <1>3, <1>4
<1>6. QED
  BY <1>1, <1>2, <1>5 DEF r, R

(* A step keeps the types, and the request stays what it was.              *)
LEMMA TypeStep ==
  ASSUME TypeOK, Request, Waiting, [Next]_vars
  PROVE  TypeOK' /\ Request'
<1> DEFINE P == Seq(0..255)
           R == {NoRow} \cup (Seq(0..255) \X Seq(0..255))
           Places == {"none", "read", "calculate", "connect", "query", "print", "gone"}
<1>1. TypeOK <=>
        /\ tries \in 0..MaxTries
        /\ answer \in {"none", "waiting", "page", "empty", "error", "lost"}
        /\ pc \in [Tries -> Places]
        /\ parameter \in [Tries -> P]
        /\ row \in [Tries -> R]
        /\ output \in [Tries -> {"none", "page"}]
        /\ exit \in [Tries -> {"none", "exit0", "signal"}]
        /\ orphans \subseteq Tries /\ faults \subseteq Tries
  BY DEF TypeOK
<1>2. TypeOK' <=>
        /\ tries' \in 0..MaxTries
        /\ answer' \in {"none", "waiting", "page", "empty", "error", "lost"}
        /\ pc' \in [Tries -> Places]
        /\ parameter' \in [Tries -> P]
        /\ row' \in [Tries -> R]
        /\ output' \in [Tries -> {"none", "page"}]
        /\ exit' \in [Tries -> {"none", "exit0", "signal"}]
        /\ orphans' \subseteq Tries /\ faults' \subseteq Tries
  BY DEF TypeOK
<1>3. UNCHANGED <<bin, method, typed, text>> => Request'
  BY DEF Request
<1> HIDE DEF P, R
<1> USE <1>1, <1>2, <1>3 DEF requestVars, programVars
<1>4. CASE Submit
  BY <1>4, MaxTriesAssumption DEF Submit, Tries
<1>5. CASE Answer
  BY <1>5 DEF Answer
<1>6. CASE Crash
  BY <1>6 DEF Crash, Waiting
<1>7. ASSUME NEW t \in Tries, GetParameter(t) PROVE TypeOK' /\ Request'
  <2>1. PICK k \in 0..Len(text) : parameter' = [parameter EXCEPT ![t] = Received(k)]
    BY <1>7 DEF GetParameter
  <2>2. Received(k) \in P
    BY ReceivedIs DEF P
  <2>3. parameter' \in [Tries -> P]
    BY <2>1, <2>2
  <2>4. QED
    BY <1>7, <2>3 DEF GetParameter
<1>8. ASSUME NEW t \in Tries, Inserts(t) PROVE row' \in [Tries -> R]
  BY <1>8, InsertsRow DEF R
<1>9. ASSUME NEW t \in Tries, Program(t) \/ Killed(t) PROVE TypeOK' /\ Request'
  <2>1. CASE GetParameter(t)
    BY <1>7, <2>1
  <2>2. CASE Calculate(t)
    BY <2>2 DEF Calculate, Exits
  <2>3. CASE ConnectDb(t)
    BY <2>3 DEF ConnectDb
  <2>4. CASE ConnectFails(t)
    BY <2>4 DEF ConnectFails, Exits
  <2>5. CASE Query(t)
    BY <1>8, <2>5 DEF Query
  <2>6. CASE QueryFails(t)
    BY <2>6 DEF QueryFails, Exits
  <2>7. CASE QueryLost(t)
    BY <1>8, <2>7 DEF QueryLost, Exits
  <2>8. CASE PrintPage(t)
    BY <2>8 DEF PrintPage, Exits
  <2>9. CASE Killed(t)
    BY <2>9 DEF Killed, Exits
  <2>10. QED
    BY <1>9, <2>1, <2>2, <2>3, <2>4, <2>5, <2>6, <2>7, <2>8, <2>9 DEF Program
<1>10. CASE UNCHANGED vars
  BY <1>10 DEF vars
<1>11. QED
  BY <1>4, <1>5, <1>6, <1>9, <1>10 DEF Next

(* A byte that is not 0 is a byte.                                         *)
LEMMA BytesAreNatural == Seq(1..255) \subseteq Seq(0..255)
<1>1. 1..255 \subseteq 0..255
  OBVIOUS
<1>2. QED
  BY <1>1, SeqMonotonic

(* So is a letter.                                                         *)
LEMMA LettersAreBytes == Seq(Letters) \subseteq Seq(0..255)
<1>1. Letters \subseteq 0..255
  BY DEF Letters
<1>2. QED
  BY <1>1, SeqMonotonic

(* A step of a program keeps its course, and stores nothing that a failure *)
(* does not excuse, unless a page follows.                                 *)
Pages(t) == pc[t] = "print" \/ (pc[t] = "gone" /\ exit[t] = "exit0" /\ output[t] = "page")
LEMMA CourseStep ==
  ASSUME TypeOK, Request, NEW t \in Tries, Course(t), Passed(t), Program(t) \/ Killed(t)
  PROVE  /\ Course(t)' /\ Passed(t)'
         /\ row'[t] # NoRow /\ t \notin faults' => Pages(t)'
<1>1. /\ pc \in [Tries -> {"none", "read", "calculate", "connect", "query", "print", "gone"}]
      /\ output \in [Tries -> {"none", "page"}]
      /\ exit \in [Tries -> {"none", "exit0", "signal"}]
      /\ parameter \in [Tries -> Seq(0..255)]
      /\ faults \subseteq Tries
  BY DEF TypeOK
<1>2. UNCHANGED <<bin, text, orphans>> /\ pc[t] \notin {"none", "gone"}
  BY ProgramFrame
<1> USE DEF Course, Passed, Pages, Early, Running
<1>3. CASE GetParameter(t)
  <2>1. PICK k \in 0..Len(text) : /\ k = Len(text) \/ (method = "POST" /\ t \in orphans)
                                  /\ parameter' = [parameter EXCEPT ![t] = Received(k)]
    BY <1>3 DEF GetParameter
  <2>2. t \notin orphans => parameter'[t] = text
    BY <1>1, <2>1, ReceivedIs
  <2>3. /\ pc[t] = "read" /\ pc'[t] = IF bin = "cgi" THEN "calculate" ELSE "connect"
        /\ UNCHANGED <<row, output, exit, faults>>
    BY <1>1, <1>3 DEF GetParameter
  <2>4. QED
    BY <1>2, <2>2, <2>3
<1>4. CASE Calculate(t)
  <2>1. /\ pc[t] = "calculate" /\ pc'[t] = "gone" /\ UNCHANGED <<row, faults, parameter>>
        /\ \/ exit'[t] = "signal" /\ output'[t] = "none"
           \/ exit'[t] = "exit0" /\ output'[t] = "page"
    BY <1>1, <1>4 DEF Calculate, Exits
  <2>2. QED
    BY <1>2, <2>1
<1>5. CASE ConnectDb(t)
  <2>1. /\ pc[t] = "connect" /\ pc'[t] = "query"
        /\ UNCHANGED <<row, faults, parameter, exit, output>>
    BY <1>1, <1>5 DEF ConnectDb
  <2>2. QED
    BY <1>2, <2>1
<1>6. CASE ConnectFails(t) \/ QueryFails(t)
  <2>1. /\ pc[t] \in {"connect", "query"} /\ pc'[t] = "gone" /\ UNCHANGED <<row, faults, parameter>>
        /\ exit'[t] = "exit0" /\ output'[t] = "none"
    BY <1>1, <1>6 DEF ConnectFails, QueryFails, Exits
  <2>2. QED
    BY <1>2, <2>1
<1>7. CASE Query(t)
  <2>1. /\ pc[t] = "query" /\ pc'[t] = "print" /\ UNCHANGED <<faults, parameter, exit, output>>
        /\ row'[t] = RowOf(parameter[t]) /\ row'[t] # NoRow
    BY <1>1, <1>7, InsertsRow DEF Query
  <2>2. QED
    BY <1>2, <2>1
<1>8. CASE QueryLost(t)
  <2>1. /\ pc[t] = "query" /\ pc'[t] = "gone" /\ t \in faults' /\ UNCHANGED parameter
        /\ exit'[t] = "exit0" /\ output'[t] = "none"
        /\ row'[t] = RowOf(parameter[t]) /\ row'[t] # NoRow
    BY <1>1, <1>8, InsertsRow DEF QueryLost, Exits
  <2>2. QED
    BY <1>2, <2>1
<1>9. CASE PrintPage(t)
  <2>1. /\ pc[t] = "print" /\ pc'[t] = "gone" /\ UNCHANGED <<row, faults, parameter>>
        /\ exit'[t] = "exit0" /\ output'[t] = "page"
    BY <1>1, <1>9 DEF PrintPage, Exits
  <2>2. QED
    BY <1>2, <2>1
<1>10. CASE Killed(t)
  <2>1. /\ pc'[t] = "gone" /\ t \in faults' /\ UNCHANGED <<row, parameter>>
        /\ exit'[t] = "signal" /\ output'[t] = "none"
    BY <1>1, <1>10 DEF Killed, Exits
  <2>2. QED
    BY <1>2, <2>1
<1>11. QED
  BY <1>3, <1>4, <1>5, <1>6, <1>7, <1>8, <1>9, <1>10 DEF Program

(* A step of a program, for the invariant.                                 *)
LEMMA ProgramStep ==
  ASSUME IInv, NEW t \in Tries, Program(t) \/ Killed(t)
  PROVE  /\ Waiting' /\ StoredLast'
         /\ \A u \in Tries : Course(u)' /\ Passed(u)'
<1> USE DEF IInv
<1>1. /\ UNCHANGED <<bin, typed, text, tries, answer, orphans>>
      /\ faults \subseteq faults' /\ faults' \subseteq faults \cup {t}
      /\ \A u \in Tries : u # t =>
           /\ pc'[u] = pc[u] /\ parameter'[u] = parameter[u] /\ row'[u] = row[u]
           /\ output'[u] = output[u] /\ exit'[u] = exit[u]
      /\ pc[t] \notin {"none", "gone"} /\ pc'[t] # "none"
  BY ProgramFrame
<1>2. /\ Course(t)' /\ Passed(t)'
      /\ row'[t] # NoRow /\ t \notin faults' => Pages(t)'
  BY CourseStep
<1>3. ASSUME NEW u \in Tries, u # t PROVE Course(u)' /\ Passed(u)'
  BY <1>1, <1>3 DEF Course, Passed
<1>4. Waiting'
  BY <1>1 DEF Waiting
<1>5. ASSUME NEW u \in (Stored \ faults)'
      PROVE  u = tries /\ answer \in {"waiting", "page"} /\ Pages(u)'
  <2>1. u \in Tries /\ row'[u] # NoRow /\ u \notin faults' /\ u \notin faults
    BY <1>1, <1>5 DEF Stored
  <2>2. CASE u # t
    BY <1>1, <2>1, <2>2 DEF StoredLast, Stored, Pages
  <2>3. CASE u = t
    <3>1. t = tries /\ answer = "waiting"
      BY <1>1, <2>1, <2>3 DEF Waiting
    <3>2. QED
      BY <1>2, <2>1, <2>3, <3>1
  <2>4. QED
    BY <2>2, <2>3
<1>6. StoredLast'
  BY <1>1, <1>5 DEF StoredLast, Pages
<1>7. QED
  BY <1>2, <1>3, <1>4, <1>6

(* A step of the client, or the end of its server.                         *)
LEMMA ClientStep ==
  ASSUME IInv, Submit \/ Answer \/ Crash
  PROVE  /\ Waiting' /\ StoredLast'
         /\ \A u \in Tries : Course(u)' /\ Passed(u)'
<1> USE DEF IInv, TypeOK, requestVars, programVars
<1>1. CASE Submit
  <2>1. /\ answer \notin {"waiting", "page"} /\ tries' = tries + 1 /\ tries' \in Tries
        /\ answer' = "waiting" /\ pc' = [pc EXCEPT ![tries'] = "read"]
        /\ UNCHANGED <<bin, text, typed, parameter, row, output, exit, orphans, faults>>
    BY <1>1, MaxTriesAssumption DEF Submit, Tries
  <2>2. /\ pc'[tries'] = "read" /\ pc[tries'] = "none"
        /\ \A u \in Tries : u # tries' => pc'[u] = pc[u]
    BY <2>1 DEF Waiting, Tries
  <2>3. Stored \ faults = {} /\ Stored' = Stored
    BY <2>1 DEF StoredLast, Stored
  <2>4. StoredLast'
    BY <2>1, <2>3 DEF StoredLast
  <2>5. ASSUME NEW u \in Tries PROVE Course(u)' /\ Passed(u)'
    BY <2>1, <2>2, <2>5 DEF Course, Passed, Early, Running
  <2>6. ASSUME NEW u \in Tries
        PROVE  /\ pc'[u] = "none" <=> u > tries'
               /\ pc'[u] \notin {"none", "gone"} /\ u \notin faults =>
                    u = tries' /\ answer' = "waiting"
    BY <2>1, <2>2 DEF Waiting, Tries
  <2>7. QED
    BY <2>1, <2>4, <2>5, <2>6 DEF Waiting
<1>2. CASE Answer
  <2>1. /\ answer = "waiting" /\ pc[tries] = "gone" /\ tries \in Tries
        /\ answer' = IF exit[tries] = "signal" THEN "error"
                     ELSE IF output[tries] = "page" THEN "page" ELSE "empty"
        /\ UNCHANGED <<bin, text, typed, tries, pc, parameter, row, output, exit, orphans, faults>>
    BY <1>2 DEF Answer, Waiting
  <2>2. \A u \in Tries : Course(u)' /\ Passed(u)'
    BY <2>1 DEF Course, Passed
  <2>3. Waiting'
    BY <2>1 DEF Waiting
  <2>4. StoredLast'
    BY <2>1 DEF StoredLast, Stored
  <2>5. QED
    BY <2>2, <2>3, <2>4
<1>3. CASE Crash
  <2>1. /\ answer = "waiting" /\ tries \in Tries /\ answer' = "lost"
        /\ orphans' = orphans \cup {tries} /\ faults' = faults \cup {tries}
        /\ UNCHANGED <<bin, text, typed, tries, pc, parameter, row, output, exit>>
    BY <1>3 DEF Crash, Waiting
  <2>2. \A u \in Tries : Course(u)' /\ Passed(u)'
    BY <2>1 DEF Course, Passed
  <2>3. Waiting'
    BY <2>1 DEF Waiting
  <2>4. StoredLast'
    BY <2>1 DEF StoredLast, Stored
  <2>5. QED
    BY <2>2, <2>3, <2>4
<1>4. QED
  BY <1>1, <1>2, <1>3

(* The parts together are inductive.                                       *)
LEMMA Invariance ==
  Spec => []IInv
<1>1. Init => IInv
  <2>1. SUFFICES ASSUME Init PROVE IInv
    OBVIOUS
  <2>2. Request
    <3>1. CASE typed \in Typed /\ text = FormText(typed)
      <4>1. typed \in Seq(0..255) \X Seq(0..255)
        BY <3>1, LettersAreBytes, TypedAssumption
      <4>2. QED
        BY <3>1, <4>1, FormIsRead DEF Request
    <3>2. CASE typed = NoRow /\ text \in Raw
      <4>1. text \in Seq(0..255)
        BY <3>2, BytesAreNatural, RawAssumption
      <4>2. QED
        BY <3>2, <4>1 DEF Request
    <3>3. QED
      BY <2>1, <3>1, <3>2 DEF Init
  <2>3. /\ tries = 0 /\ answer = "none"
        /\ pc = [t \in Tries |-> "none"]
        /\ parameter = [t \in Tries |-> <<>>]
        /\ row = [t \in Tries |-> NoRow]
        /\ output = [t \in Tries |-> "none"]
        /\ exit = [t \in Tries |-> "none"]
        /\ orphans = {} /\ faults = {}
    BY <2>1 DEF Init
  <2>4. TypeOK
    <3>1. parameter \in [Tries -> Seq(0..255)]
      BY <2>3, EmptySeq
    <3>2. row \in [Tries -> {NoRow} \cup (Seq(0..255) \X Seq(0..255))]
      BY <2>3
    <3>3. tries \in 0..MaxTries
      BY <2>3, MaxTriesAssumption
    <3>4. QED
      BY <2>3, <3>1, <3>2, <3>3 DEF TypeOK
  <2>5. Waiting
    BY <2>3, MaxTriesAssumption DEF Waiting, Tries
  <2>6. StoredLast
    BY <2>3 DEF StoredLast, Stored
  <2>7. \A t \in Tries : Course(t) /\ Passed(t)
    BY <2>3 DEF Course, Passed, Running
  <2>8. QED
    BY <2>2, <2>4, <2>5, <2>6, <2>7 DEF IInv
<1>2. IInv /\ [Next]_vars => IInv'
  <2>1. SUFFICES ASSUME IInv, [Next]_vars PROVE IInv'
    OBVIOUS
  <2>2. TypeOK' /\ Request'
    BY <2>1, TypeStep DEF IInv
  <2>3. /\ Waiting' /\ StoredLast'
        /\ \A u \in Tries : Course(u)' /\ Passed(u)'
    <3>1. CASE Submit \/ Answer \/ Crash
      BY <2>1, <3>1, ClientStep
    <3>2. CASE \E t \in Tries : Program(t) \/ Killed(t)
      BY <2>1, <3>2, ProgramStep
    <3>3. CASE UNCHANGED vars
      BY <2>1, <3>3 DEF IInv, vars, requestVars, programVars, Waiting, StoredLast, Stored,
                        Course, Passed
    <3>4. QED
      BY <2>1, <3>1, <3>2, <3>3 DEF Next
  <2>4. QED
    BY <2>2, <2>3 DEF IInv
<1>3. QED
  BY <1>1, <1>2, PTL DEF Spec
-----------------------------------------------------------------------------
(* Whatever bytes a request has, what is read of them and stored are byte  *)
(* strings again, and no other place or exit code is reached.              *)
THEOREM ProgramTypes == Spec => []TypeOK
<1>1. IInv => TypeOK
  BY DEF IInv
<1>2. QED
  BY <1>1, Invariance, PTL

(* A page of mysql_cgi is sent only when its row is in the table.          *)
THEOREM PageOnlyWithRow == Spec => []PageMeansRow
<1>1. IInv => PageMeansRow
  BY DEF IInv, PageMeansRow, Waiting, Course
<1>2. QED
  BY <1>1, Invariance, PTL

(* A client that submits until it has a page is registered once, but for   *)
(* tries that an outside failure hit.                                      *)
THEOREM StoredOnce == Spec => []RetryStoresOnce
<1>1. IInv => RetryStoresOnce
  <2>1. SUFFICES ASSUME IInv PROVE RetryStoresOnce
    OBVIOUS
  <2>2. Stored \ faults \subseteq {tries}
    BY <2>1 DEF IInv, StoredLast
  <2>3. IsFiniteSet({tries}) /\ Cardinality({tries}) = 1
    BY FS_Singleton
  <2>4. /\ Cardinality(Stored \ faults) \in Nat
        /\ Cardinality(Stored \ faults) <= Cardinality({tries})
    BY <2>2, <2>3, FS_Subset, FS_CardinalityType
  <2>5. QED
    BY <2>3, <2>4 DEF RetryStoresOnce
<1>2. QED
  BY <1>1, Invariance, PTL

(* Encoding, passing on, cutting and decoding give back the letters of the *)
(* name, and leave the password as it was sent, while there is a server.   *)
(* A space, a quote or a backslash is no letter: the assumption on what is *)
(* typed excludes them, as the code does not store them as typed.          *)
THEOREM StoredAsTyped == Spec => []RowsAsTyped
<1>1. IInv => RowsAsTyped
  <2>1. SUFFICES ASSUME IInv, NEW t \in Stored \ orphans, typed # NoRow
                 PROVE  row[t] = <<typed[1], Encode(typed[2])>>
    BY DEF RowsAsTyped
  <2>2. row[t] = RowOf(text)
    BY <2>1 DEF IInv, Passed, Stored
  <2>3. typed \in Typed /\ text = FormText(typed)
    BY <2>1 DEF IInv, Request
  <2>4. typed \in Seq(0..255) \X Seq(0..255)
    BY <2>3, LettersAreBytes, TypedAssumption
  <2>5. QED
    BY <2>2, <2>3, <2>4, FormIsRead
<1>2. QED
  BY <1>1, Invariance, PTL

(* Whatever text a request has, every escape of its name is decoded once,  *)
(* from the left, and the result is not looked at again.                   *)
THEOREM NameDecodedOnce == Spec => []DecodesOnce
<1>1. IInv => DecodesOnce
  <2>1. SUFFICES ASSUME IInv, NEW t \in Stored \ orphans
                 PROVE  row[t][1] = Reference(Values(text)[1])
    BY DEF DecodesOnce
  <2>2. row[t] = RowOf(text)
    BY <2>1 DEF IInv, Passed, Stored
  <2>3. text \in Seq(0..255)
    BY <2>1 DEF IInv, Request
  <2>4. Cut(text, Amp)[1] \in Seq(0..255)
    BY <2>3, CutType DEF Amp
  <2>5. Cut(Cut(text, Amp)[1], Equal)[2] \in Seq(0..255)
    BY <2>4, CutType DEF Equal
  <2>6. Values(text)[1] = Cut(Cut(text, Amp)[1], Equal)[2]
    BY DEF Values
  <2>7. row[t][1] = DecodeUri(Values(text)[1])
    BY <2>2 DEF RowOf
  <2>8. QED
    BY <2>5, <2>6, <2>7, DecodesLikeReference
<1>2. QED
  BY <1>1, Invariance, PTL
=============================================================================
