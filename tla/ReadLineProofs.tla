--------------------------- MODULE ReadLineProofs ---------------------------
(***************************************************************************)
(* What readLine and its callers promise for streams of any length over    *)
(* any bytes: the type invariant, LinesOfStream and HeadersEndAtBlank.     *)
(***************************************************************************)
EXTENDS ReadLine, FiniteSetTheorems, SequenceTheorems, TLAPS

(* i is where line k of s ends.                                            *)
IsEnd(s, k, i) == i \in LineEnds(s) \cup {0} /\ Cardinality(EndsUpTo(s, i)) = k

(* Whether byte i ends a line does not depend on what the client will send. *)
Settled(i) == i = 0 \/ stream[i] = LF \/ i < Len(stream) \/ ended

Base == EndOf(stream, Len(lines))

(* A byte that is to be appended is never "\r".                            *)
Appends == pc = "append" => ch \in Bytes \cup {LF}

(* Each line returned ends where a line of the stream does.                *)
Returned == \A k \in 0..Len(lines) :
              LET i == EndOf(stream, k)
              IN  IsEnd(stream, k, i) /\ i <= pos /\ Settled(i)

(* What has been taken since the last of them: a line, and its ending.     *)
EndTaken ==
  /\ pos \in LineEnds(stream) /\ Settled(pos)
  /\ \/ pos = Base + Len(line) + 1
     \/ pos = Base + Len(line) + 2 /\ stream[pos] = LF /\ stream[pos - 1] = CR
Taken ==
  /\ \A i \in 1..Len(line) : stream[Base + i] = line[i]
  /\ pc \in {"recv", "stop", "body"} => pos = Base + Len(line)
  /\ pc = "body" => line = <<>>
  /\ pc = "peek" => pos = Base + Len(line) + 1 /\ stream[pos] = CR
  /\ pc = "append" /\ ch \in Bytes => pos = Base + Len(line) + 1 /\ stream[pos] = ch
  /\ pc = "append" /\ ch = LF => EndTaken

Contents == \A k \in 1..Len(lines) : lines[k] = Append(Content(stream, k), LF)

(* An empty line after the first is the last line returned, and sends the  *)
(* worker to the body.                                                     *)
BlankIsLast ==
  /\ pc = "body" => Len(lines) > 1
  /\ \A k \in 1..Len(lines) : k > 1 => (lines[k] = <<LF>> <=> k = Len(lines) /\ pc = "body")

IInv == TypeOK /\ Appends /\ Returned /\ Taken /\ Contents /\ BlankIsLast
-----------------------------------------------------------------------------
(* The line ends of a sequence are positions of it.                        *)
LEMMA EndsArePositions ==
  ASSUME NEW s \in Seq(Chars)
  PROVE  Len(s) \in Nat /\ LineEnds(s) \subseteq 1..Len(s) /\ LineEnds(s) \subseteq Nat
BY LenProperties DEF LineEnds

(* Those up to a place are finitely many.                                  *)
LEMMA EndsAreFinite ==
  ASSUME NEW s \in Seq(Chars), NEW i \in Nat
  PROVE  IsFiniteSet(EndsUpTo(s, i)) /\ Cardinality(EndsUpTo(s, i)) \in Nat
<1>1. EndsUpTo(s, i) \subseteq 1..Len(s)
  BY EndsArePositions DEF EndsUpTo
<1>2. IsFiniteSet(1..Len(s))
  BY EndsArePositions, FS_Interval
<1>3. IsFiniteSet(EndsUpTo(s, i))
  BY <1>1, <1>2, FS_Subset
<1>4. QED
  BY <1>3, FS_CardinalityType

(* There are more line ends up to a later one.                             *)
LEMMA MoreEnds ==
  ASSUME NEW s \in Seq(Chars), NEW i \in Nat, NEW j \in LineEnds(s), i < j
  PROVE  Cardinality(EndsUpTo(s, i)) < Cardinality(EndsUpTo(s, j))
<1>1. j \in Nat /\ j \in EndsUpTo(s, j) /\ j \notin EndsUpTo(s, i)
  BY EndsArePositions DEF EndsUpTo
<1>2. EndsUpTo(s, i) \subseteq EndsUpTo(s, j)
  BY <1>1, EndsArePositions DEF EndsUpTo
<1>3. /\ IsFiniteSet(EndsUpTo(s, j))
      /\ Cardinality(EndsUpTo(s, i)) \in Nat
      /\ Cardinality(EndsUpTo(s, j)) \in Nat
  BY <1>1, EndsAreFinite
<1>4. QED
  BY <1>1, <1>2, <1>3, FS_Subset

(* So a line ends at one place only, and EndOf is that place.              *)
LEMMA EndIsUnique ==
  ASSUME NEW s \in Seq(Chars), NEW k \in Nat, NEW i, IsEnd(s, k, i)
  PROVE  EndOf(s, k) = i
<1>1. /\ EndOf(s, k) \in LineEnds(s) \cup {0}
      /\ Cardinality(EndsUpTo(s, EndOf(s, k))) = k
  BY DEF EndOf, IsEnd
<1> DEFINE e == EndOf(s, k)
<1> HIDE DEF e
<1>2. i \in Nat /\ e \in Nat
  BY <1>1, EndsArePositions DEF e, IsEnd
<1>3. ~(i < e)
  <2>1. SUFFICES ASSUME i < e PROVE FALSE
    OBVIOUS
  <2>2. e \in LineEnds(s)
    BY <1>1, <1>2, <2>1 DEF e
  <2>3. Cardinality(EndsUpTo(s, i)) < Cardinality(EndsUpTo(s, e))
    BY <1>2, <2>1, <2>2, MoreEnds
  <2>4. QED
    BY <1>1, <2>3 DEF e, IsEnd
<1>4. ~(e < i)
  <2>1. SUFFICES ASSUME e < i PROVE FALSE
    OBVIOUS
  <2>2. i \in LineEnds(s)
    BY <1>2, <2>1 DEF IsEnd
  <2>3. Cardinality(EndsUpTo(s, e)) < Cardinality(EndsUpTo(s, i))
    BY <1>2, <2>1, <2>2, MoreEnds
  <2>4. QED
    BY <1>1, <2>3 DEF e, IsEnd
<1>5. QED
  BY <1>2, <1>3, <1>4 DEF e

(* Nothing ends before the stream begins.                                  *)
LEMMA NoEndAtZero ==
  ASSUME NEW s \in Seq(Chars)
  PROVE  IsEnd(s, 0, 0) /\ EndOf(s, 0) = 0
<1>1. EndsUpTo(s, 0) = {}
  BY EndsArePositions DEF EndsUpTo
<1>2. IsEnd(s, 0, 0)
  BY <1>1, FS_EmptySet DEF IsEnd
<1>3. QED
  BY <1>2, EndIsUnique

(* The first line end after that of line k is that of line k + 1.          *)
LEMMA NextEnd ==
  ASSUME NEW s \in Seq(Chars), NEW k \in Nat, NEW i, IsEnd(s, k, i),
         NEW j \in LineEnds(s), i < j, \A m \in LineEnds(s) : m <= i \/ m >= j
  PROVE  IsEnd(s, k + 1, j)
<1>1. i \in Nat /\ j \in Nat
  BY EndsArePositions DEF IsEnd
<1>2. EndsUpTo(s, j) = EndsUpTo(s, i) \cup {j} /\ j \notin EndsUpTo(s, i)
  BY <1>1, EndsArePositions DEF EndsUpTo
<1>3. QED
  BY <1>1, <1>2, EndsAreFinite, FS_AddElement DEF IsEnd

(* A settled end stays where it is while the client sends.                 *)
LEMMA SendKeepsEnds ==
  ASSUME NEW s \in Seq(Chars), NEW b \in Chars, NEW k \in Nat, NEW i \in Nat,
         IsEnd(s, k, i), i = 0 \/ s[i] = LF \/ i < Len(s)
  PROVE  IsEnd(Append(s, b), k, i)
<1> DEFINE t == Append(s, b)
<1>1. t \in Seq(Chars) /\ Len(t) = Len(s) + 1 /\ \A j \in 1..Len(s) : t[j] = s[j]
  BY AppendProperties
<1> HIDE DEF t
<1>2. LineEnds(s) \subseteq 1..Len(s) /\ LineEnds(t) \subseteq 1..Len(t) /\ Len(s) \in Nat
  BY <1>1, EndsArePositions
<1>3. i <= Len(s)
  BY <1>2 DEF IsEnd
<1>4. ASSUME NEW j \in 1..Len(s), j <= i PROVE j \in LineEnds(s) <=> j \in LineEnds(t)
  <2>1. CASE j < Len(s)
    BY <1>1, <1>2, <2>1 DEF LineEnds
  <2>2. CASE j = Len(s)
    BY <1>1, <1>2, <1>3, <1>4, <2>2, BytesAssumption DEF LineEnds
  <2>3. QED
    BY <1>2, <2>1, <2>2
<1>5. EndsUpTo(t, i) = EndsUpTo(s, i)
  BY <1>1, <1>2, <1>3, <1>4 DEF EndsUpTo
<1>6. i \in LineEnds(t) \cup {0}
  BY <1>2, <1>3, <1>4 DEF IsEnd
<1>7. QED
  BY <1>5, <1>6 DEF IsEnd, t

(* What a line has before its ending, byte by byte.                        *)
LEMMA SubSeqIs ==
  ASSUME NEW S, NEW s \in Seq(S), NEW i \in Nat, NEW j \in Int, i <= j, j <= Len(s),
         NEW l \in Seq(S), Len(l) = j - i, \A m \in 1..Len(l) : s[i + m] = l[m]
  PROVE  SubSeq(s, i + 1, j) = l
<1>1. Len(s) \in Nat /\ Len(l) \in Nat
  BY LenProperties
<1>2. \A m \in (i + 1)..j : s[m] \in S
  BY <1>1, ElementOfSeq
<1>3. /\ SubSeq(s, i + 1, j) \in Seq(S)
      /\ Len(SubSeq(s, i + 1, j)) = j - i
      /\ \A m \in 1..(j - i) : SubSeq(s, i + 1, j)[m] = s[i + m]
  BY <1>1, <1>2, SubSeqProperties
<1>4. QED
  BY <1>1, <1>3, SeqEqual

(* What a sequence has up to a place does not change when it grows.        *)
LEMMA SubSeqOfAppend ==
  ASSUME NEW S, NEW s \in Seq(S), NEW b \in S, NEW i \in Nat \ {0}, NEW j \in Int, j <= Len(s)
  PROVE  SubSeq(Append(s, b), i, j) = SubSeq(s, i, j)
<1> DEFINE t == Append(s, b)
<1>1. t \in Seq(S) /\ Len(t) = Len(s) + 1 /\ \A m \in 1..Len(s) : t[m] = s[m]
  BY AppendProperties
<1>2. Len(s) \in Nat
  BY LenProperties
<1> HIDE DEF t
<1>3. CASE j < i
  BY <1>3, SubSeqEmpty DEF t
<1>4. CASE i <= j
  <2>1. /\ \A m \in i..j : s[m] \in S
        /\ \A m \in i..j : t[m] \in S
    BY <1>1, <1>2, ElementOfSeq
  <2>2. /\ SubSeq(s, i, j) \in Seq(S)
        /\ Len(SubSeq(s, i, j)) = j - i + 1
        /\ \A m \in 1..(j - i + 1) : SubSeq(s, i, j)[m] = s[i + m - 1]
    BY <1>4, <2>1, SubSeqProperties
  <2>3. /\ SubSeq(t, i, j) \in Seq(S)
        /\ Len(SubSeq(t, i, j)) = j - i + 1
        /\ \A m \in 1..(j - i + 1) : SubSeq(t, i, j)[m] = t[i + m - 1]
    BY <1>4, <2>1, SubSeqProperties
  <2>4. \A m \in 1..(j - i + 1) : SubSeq(t, i, j)[m] = SubSeq(s, i, j)[m]
    BY <1>1, <1>2, <2>2, <2>3
  <2>5. QED
    BY <2>2, <2>3, <2>4, SeqEqual DEF t
<1>5. QED
  BY <1>3, <1>4
-----------------------------------------------------------------------------
(* Each part of the invariant is preserved, given the ones before it.      *)
LEMMA TypeStep ==
  ASSUME TypeOK, Appends, [Next]_vars
  PROVE  TypeOK' /\ Appends'
<1> USE BytesAssumption, MaxLenAssumption DEF TypeOK, Appends
<1>1. Len(stream) \in Nat
  BY LenProperties
<1>2. ASSUME NEW b \in Chars, Send(b) PROVE TypeOK' /\ Appends'
  <2>1. stream' \in Seq(Chars) /\ Len(stream') = Len(stream) + 1
    BY <1>2, AppendProperties DEF Send
  <2>2. QED
    BY <1>1, <1>2, <2>1 DEF Send
<1>3. CASE Close
  BY <1>3 DEF Close
<1>4. CASE Recv
  <2>1. Next1 \in Chars /\ pos + 1 \in 0..Len(stream)
    BY <1>1, <1>4, ElementOfSeq DEF Recv, Available, Next1
  <2>2. QED
    BY <1>4, <2>1 DEF Recv, PeeksAfter, clientVars, Chars
<1>5. CASE Peek
  BY <1>1, <1>5 DEF Peek, Available, TakesLf, clientVars, Chars
<1>6. CASE AppendChar
  <2>1. CASE ch = LF
    <3>1. line \in Seq(Bytes \cup {LF})
      BY SeqMonotonic
    <3>2. Append(line, ch) \in Seq(Bytes \cup {LF})
      BY <2>1, <3>1, AppendProperties
    <3>3. lines' \in Seq(Seq(Bytes \cup {LF})) /\ line' \in Seq(Bytes)
      BY <1>6, <2>1, <3>2, AppendProperties, EmptySeq DEF AppendChar
    <3>4. QED
      BY <1>6, <3>3 DEF AppendChar, clientVars
  <2>2. CASE ch # LF
    <3>1. ch \in Bytes /\ line' = Append(line, ch)
      BY <1>6, <2>2 DEF AppendChar
    <3>2. line' \in Seq(Bytes)
      BY <3>1, AppendProperties
    <3>3. QED
      BY <1>6, <2>2, <3>2 DEF AppendChar, clientVars
  <2>3. QED
    BY <2>1, <2>2
<1>7. CASE Eof
  BY <1>7 DEF Eof, clientVars
<1>8. CASE UNCHANGED vars
  BY <1>8 DEF vars, clientVars
<1>9. QED
  BY <1>2, <1>3, <1>4, <1>5, <1>6, <1>7, <1>8 DEF Next, Worker, Finished

(* An empty line after the first is the last one.                          *)
LEMMA BlankStep ==
  ASSUME TypeOK, BlankIsLast, [Next]_vars
  PROVE  BlankIsLast'
<1>1. ASSUME UNCHANGED lines, pc' = "body" <=> pc = "body" PROVE BlankIsLast'
  BY <1>1 DEF BlankIsLast
<1>2. CASE AppendChar
  <2>1. CASE ch # LF
    BY <1>1, <1>2, <2>1 DEF AppendChar
  <2>2. CASE ch = LF
    <3> DEFINE l == Append(line, ch)
    <3>1. lines' = Append(lines, l) /\ pc = "append"
      BY <1>2, <2>2 DEF AppendChar
    <3>2. pc' = "body" <=> l = <<LF>> /\ lines # <<>>
      BY <1>2, <2>2 DEF AppendChar, LastLine, IsBlank
    <3> HIDE DEF l
    <3>3. lines \in Seq(Range(lines)) /\ Len(lines) \in Nat
      BY LenProperties, SeqOfRange DEF TypeOK
    <3>4. lines \in Seq(Range(lines) \cup {l})
      BY <3>3, SeqMonotonic
    <3>5. /\ Len(lines') = Len(lines) + 1
          /\ lines'[Len(lines) + 1] = l
          /\ \A k \in 1..Len(lines) : lines'[k] = lines[k]
      BY <3>1, <3>4, AppendProperties
    <3>6. lines # <<>> <=> Len(lines) > 0
      BY <3>3, EmptySeq DEF TypeOK
    <3>7. ASSUME NEW k \in 1..Len(lines'), k > 1
          PROVE  lines'[k] = <<LF>> <=> k = Len(lines') /\ pc' = "body"
      <4>1. CASE k = Len(lines) + 1
        <5>1. lines'[k] = l /\ k = Len(lines') /\ lines # <<>>
          BY <3>3, <3>5, <3>6, <3>7, <4>1
        <5>2. QED
          BY <3>2, <5>1
      <4>2. CASE k \in 1..Len(lines)
        BY <3>1, <3>3, <3>5, <3>7, <4>2 DEF BlankIsLast
      <4>3. QED
        BY <3>3, <3>5, <4>1, <4>2
    <3>8. QED
      BY <3>2, <3>3, <3>5, <3>6, <3>7 DEF BlankIsLast
  <2>3. QED
    BY <2>1, <2>2
<1>3. CASE Recv
  BY <1>1, <1>3 DEF Recv
<1>4. CASE Peek
  BY <1>1, <1>4 DEF Peek
<1>5. CASE Eof
  BY <1>1, <1>5 DEF Eof
<1>6. CASE UNCHANGED vars
  BY <1>1, <1>6 DEF vars
<1>7. CASE Close
  BY <1>1, <1>7 DEF Close
<1>8. CASE \E b \in Chars : Send(b)
  BY <1>1, <1>8 DEF Send
<1>9. QED
  BY <1>2, <1>3, <1>4, <1>5, <1>6, <1>7, <1>8 DEF Next, Worker, Finished

(* Line k of those returned ends behind the one before it, and what they   *)
(* end at has been taken.                                                  *)
LEMMA EndsInOrder ==
  ASSUME TypeOK, Returned, NEW k \in 1..Len(lines)
  PROVE  /\ EndOf(stream, k) \in LineEnds(stream) /\ EndOf(stream, k) \in 1..Len(stream)
         /\ EndOf(stream, k - 1) \in 0..Len(stream)
<1>1. Len(lines) \in Nat /\ Len(stream) \in Nat /\ stream \in Seq(Chars)
  BY LenProperties DEF TypeOK
<1>2. k \in 0..Len(lines) /\ k - 1 \in 0..Len(lines)
  BY <1>1
<1>3. IsEnd(stream, k, EndOf(stream, k)) /\ IsEnd(stream, k - 1, EndOf(stream, k - 1))
  BY <1>2 DEF Returned
<1>4. LineEnds(stream) \subseteq 1..Len(stream)
  BY <1>1, EndsArePositions
<1>5. EndOf(stream, k) # 0
  BY <1>1, <1>3, NoEndAtZero, FS_EmptySet DEF IsEnd
<1>6. QED
  BY <1>1, <1>3, <1>4, <1>5 DEF IsEnd

(* Where the next line begins.                                             *)
LEMMA BaseIsEnd ==
  ASSUME TypeOK, Returned
  PROVE  /\ Len(lines) \in Nat /\ Len(line) \in Nat /\ Len(stream) \in Nat
         /\ Base \in 0..Len(stream) /\ Base <= pos /\ pos \in 0..Len(stream)
         /\ IsEnd(stream, Len(lines), Base)
<1>1. Len(lines) \in Nat /\ Len(line) \in Nat /\ Len(stream) \in Nat /\ pos \in 0..Len(stream)
  BY LenProperties DEF TypeOK
<1>2. IsEnd(stream, Len(lines), Base) /\ Base <= pos
  BY <1>1 DEF Returned, Base
<1>3. Base \in 0..Len(stream)
  BY <1>1, <1>2, EndsArePositions DEF IsEnd, TypeOK
<1>4. QED
  BY <1>1, <1>2, <1>3

(* The client sends: no line that was returned, and nothing that was       *)
(* taken, is affected.                                                     *)
LEMMA SendStep ==
  ASSUME TypeOK, Appends, Returned, Taken, Contents, NEW b \in Chars, Send(b)
  PROVE  Returned' /\ Taken' /\ Contents'
<1>1. /\ stream' = Append(stream, b) /\ ~ended /\ ~ended'
      /\ UNCHANGED <<pos, pc, ch, line, lines>>
  BY DEF Send
<1>2. /\ stream' \in Seq(Chars) /\ Len(stream') = Len(stream) + 1
      /\ \A i \in 1..Len(stream) : stream'[i] = stream[i]
      /\ stream \in Seq(Chars)
  BY <1>1, AppendProperties DEF TypeOK
<1>3. /\ Len(lines) \in Nat /\ Len(line) \in Nat /\ Len(stream) \in Nat
      /\ Base \in 0..Len(stream) /\ Base <= pos /\ pos \in 0..Len(stream)
  BY BaseIsEnd
<1>4. ASSUME NEW k \in 0..Len(lines)
      PROVE  /\ EndOf(stream', k) = EndOf(stream, k)
             /\ IsEnd(stream', k, EndOf(stream, k))
             /\ EndOf(stream, k) <= pos
             /\ Settled(EndOf(stream, k))'
  <2> DEFINE i == EndOf(stream, k)
  <2>1. IsEnd(stream, k, i) /\ i <= pos /\ Settled(i)
    BY DEF Returned
  <2> HIDE DEF i
  <2>2. i \in Nat /\ k \in Nat /\ i <= Len(stream)
    BY <1>2, <1>3, <2>1, EndsArePositions DEF IsEnd
  <2>3. i = 0 \/ stream[i] = LF \/ i < Len(stream)
    BY <1>1, <2>1 DEF Settled
  <2>4. IsEnd(stream', k, i)
    BY <1>1, <1>2, <2>1, <2>2, <2>3, SendKeepsEnds
  <2>5. EndOf(stream', k) = i
    BY <1>2, <2>2, <2>4, EndIsUnique
  <2>6. i = 0 \/ stream'[i] = LF \/ i < Len(stream')
    BY <1>2, <1>3, <2>2, <2>3
  <2>7. QED
    BY <2>1, <2>4, <2>5, <2>6 DEF i, Settled
<1>5. Returned'
  BY <1>1, <1>4 DEF Returned
<1>6. Taken'
  <2>1. Base' = Base
    BY <1>1, <1>3, <1>4 DEF Base
  <2>2. ASSUME pc = "append", ch = LF
        PROVE  EndTaken'
    <3>1. pos \in LineEnds(stream) /\ Settled(pos)
      BY <2>2 DEF Taken, EndTaken
    <3>2. pos \in 1..Len(stream)
      BY <1>2, <3>1, EndsArePositions
    <3>3. stream[pos] = LF \/ pos < Len(stream)
      BY <1>1, <3>1, <3>2 DEF Settled
    <3>4. pos \in LineEnds(stream')
      BY <1>2, <1>3, <3>1, <3>2, <3>3 DEF LineEnds
    <3>5. stream'[pos] = LF \/ pos < Len(stream')
      BY <1>2, <1>3, <3>2, <3>3
    <3>6. CASE pos = Base + Len(line) + 1
      BY <1>1, <2>1, <3>4, <3>5, <3>6 DEF EndTaken, Settled
    <3>7. CASE pos = Base + Len(line) + 2 /\ stream[pos] = LF /\ stream[pos - 1] = CR
      <4>1. stream'[pos] = LF /\ stream'[pos - 1] = CR
        BY <1>2, <1>3, <3>2, <3>7
      <4>2. QED
        BY <1>1, <2>1, <3>4, <3>5, <3>7, <4>1 DEF EndTaken, Settled
    <3>8. QED
      BY <2>2, <3>6, <3>7 DEF Taken, EndTaken
  <2>3. Base + Len(line) <= pos
    BY <1>3 DEF Taken, EndTaken, TypeOK, Appends
  <2>4. \A i \in 1..Len(line) : Base + i \in 1..Len(stream)
    BY <1>3, <2>3
  <2>5. \A i \in 1..Len(line) : stream'[Base + i] = line[i]
    BY <1>2, <2>4 DEF Taken
  <2>6. \A i \in 1..Len(line) : stream'[Base' + i] = line'[i]
    BY <1>1, <2>1, <2>5
  <2>7. /\ pc \in {"recv", "stop", "body"} => pos = Base + Len(line)
        /\ pc = "body" => line = <<>>
    BY DEF Taken
  <2>8. pc = "peek" => pos = Base + Len(line) + 1 /\ stream'[pos] = CR
    BY <1>2, <1>3 DEF Taken
  <2>9. pc = "append" /\ ch \in Bytes => pos = Base + Len(line) + 1 /\ stream'[pos] = ch
    BY <1>2, <1>3 DEF Taken
  <2>10. QED
    BY <1>1, <2>1, <2>2, <2>6, <2>7, <2>8, <2>9 DEF Taken
<1>7. Contents'
  <2>1. SUFFICES ASSUME NEW k \in 1..Len(lines)
                 PROVE  Content(stream', k) = Content(stream, k)
    BY <1>1 DEF Contents
  <2>2. /\ EndOf(stream, k) \in 1..Len(stream)
        /\ EndOf(stream, k - 1) \in 0..Len(stream)
    BY EndsInOrder
  <2>3. EndOf(stream', k) = EndOf(stream, k) /\ EndOf(stream', k - 1) = EndOf(stream, k - 1)
    BY <1>3, <1>4
  <2> DEFINE i == EndOf(stream, k)
             d == EndOf(stream, k - 1)
  <2> HIDE DEF i, d
  <2>4. EndsInCrLf(stream', k) <=> EndsInCrLf(stream, k)
    <3>1. i \in 1..Len(stream) /\ d \in 0..Len(stream)
      BY <2>2 DEF i, d
    <3>2. stream'[i] = stream[i] /\ (i - 1 > d => stream'[i - 1] = stream[i - 1])
      BY <1>2, <1>3, <3>1
    <3>3. /\ EndsInCrLf(stream, k) <=> stream[i] = LF /\ i - 1 > d /\ stream[i - 1] = CR
          /\ EndsInCrLf(stream', k) <=> stream'[i] = LF /\ i - 1 > d /\ stream'[i - 1] = CR
      BY <2>3 DEF EndsInCrLf, i, d
    <3>4. QED
      BY <3>2, <3>3
  <2> DEFINE n == IF EndsInCrLf(stream, k) THEN 2 ELSE 1
  <2>5. n \in 1..2
    OBVIOUS
  <2>6. /\ Content(stream, k) = SubSeq(stream, d + 1, i - n)
        /\ Content(stream', k) = SubSeq(stream', d + 1, i - n)
    BY <2>3, <2>4 DEF Content, i, d
  <2> HIDE DEF n
  <2>7. d + 1 \in Nat \ {0} /\ i - n \in Int /\ i - n <= Len(stream)
    BY <1>3, <2>2, <2>5 DEF i, d
  <2>8. QED
    BY <1>1, <1>2, <2>6, <2>7, SubSeqOfAppend
<1>8. QED
  BY <1>5, <1>6, <1>7

(* A byte is taken, or looked at: what was returned stays.                 *)
LEMMA TakeStep ==
  ASSUME TypeOK, Appends, Returned, Taken, Contents, Recv \/ Peek
  PROVE  Returned' /\ Taken' /\ Contents'
<1>1. /\ UNCHANGED <<stream, ended, line, lines>>
      /\ Base' = Base
  BY DEF Recv, Peek, clientVars, Base
<1>2. /\ Len(lines) \in Nat /\ Len(line) \in Nat /\ Len(stream) \in Nat
      /\ Base \in 0..Len(stream) /\ Base <= pos /\ pos \in 0..Len(stream)
  BY BaseIsEnd
<1>3. pos' \in {pos, pos + 1}
  BY <1>2 DEF Recv, Peek, TakesLf
<1>4. Returned'
  <2>1. ASSUME NEW k \in 0..Len(lines)
        PROVE  LET i == EndOf(stream, k)
               IN  IsEnd(stream, k, i) /\ i <= pos' /\ Settled(i)'
    <3> DEFINE i == EndOf(stream, k)
    <3>1. IsEnd(stream, k, i) /\ i <= pos /\ Settled(i)
      BY DEF Returned
    <3> HIDE DEF i
    <3>2. i \in Nat
      BY <3>1, EndsArePositions DEF IsEnd, TypeOK
    <3>3. i <= pos'
      BY <1>2, <1>3, <3>1, <3>2
    <3>4. Settled(i)'
      BY <1>1, <3>1 DEF Settled, i
    <3>5. QED
      BY <3>1, <3>3, <3>4 DEF i
  <2>2. QED
    BY <1>1, <2>1 DEF Returned
<1>5. Contents'
  BY <1>1 DEF Contents
<1>6. \A i \in 1..Len(line') : stream'[Base' + i] = line'[i]
  BY <1>1 DEF Taken
<1>7. CASE Recv
  <2>1. /\ pos = Base + Len(line) /\ pos' = pos + 1 /\ pos' \in 1..Len(stream)
        /\ ch' = stream[pos']
        /\ pc' = IF ch' = CR THEN "peek" ELSE "append"
    BY <1>2, <1>7 DEF Recv, Taken, Available, Next1, PeeksAfter
  <2>2. ch' = LF => EndTaken'
    BY <1>1, <2>1 DEF LineEnds, Settled, EndTaken
  <2>3. CASE ch' = CR
    <3>1. pc' = "peek" /\ pos' = Base' + Len(line') + 1 /\ stream'[pos'] = CR
      BY <1>1, <2>1, <2>3
    <3>2. QED
      BY <1>4, <1>5, <1>6, <3>1 DEF Taken
  <2>4. CASE ch' # CR
    <3>1. pc' = "append" /\ pos' = Base' + Len(line') + 1 /\ stream'[pos'] = ch'
      BY <1>1, <2>1, <2>4
    <3>2. QED
      BY <1>4, <1>5, <1>6, <2>2, <3>1 DEF Taken
  <2>5. QED
    BY <2>3, <2>4
<1>8. CASE Peek
  <2>1. /\ pos = Base + Len(line) + 1 /\ stream[pos] = CR /\ pos \in 1..Len(stream)
        /\ ch' = LF /\ pc' = "append"
        /\ pos < Len(stream) \/ ended
        /\ pos' = IF pos < Len(stream) THEN pos + TakesLf(stream[pos + 1]) ELSE pos
    BY <1>2, <1>8 DEF Peek, Taken, Available, AtEof, Next1
  <2>2. EndTaken'
    <3>1. CASE pos < Len(stream) /\ stream[pos + 1] = LF
      <4>1. pos' = pos + 1 /\ stream'[pos'] = LF /\ stream'[pos' - 1] = CR
        BY <1>1, <1>2, <2>1, <3>1 DEF TakesLf
      <4>2. pos' \in LineEnds(stream')
        BY <1>1, <1>2, <3>1, <4>1 DEF LineEnds
      <4>3. pos' = Base' + Len(line') + 2
        BY <1>1, <1>2, <2>1, <4>1
      <4>4. QED
        BY <4>1, <4>2, <4>3 DEF EndTaken, Settled
    <3>2. CASE ~(pos < Len(stream) /\ stream[pos + 1] = LF)
      <4>1. pos' = pos
        BY <1>2, <2>1, <3>2 DEF TakesLf
      <4>2. pos' \in LineEnds(stream')
        BY <1>1, <1>2, <2>1, <3>2, <4>1 DEF LineEnds
      <4>3. pos' = Base' + Len(line') + 1
        BY <1>1, <2>1, <4>1
      <4>4. Settled(pos)'
        BY <1>1, <2>1, <4>1 DEF Settled
      <4>5. QED
        BY <4>1, <4>2, <4>3, <4>4 DEF EndTaken, Settled
    <3>3. QED
      BY <3>1, <3>2
  <2>3. QED
    BY <1>4, <1>5, <1>6, <2>1, <2>2, BytesAssumption DEF Taken
<1>9. QED
  BY <1>4, <1>5, <1>7, <1>8

(* A byte is appended; the one that ends the line makes it the next line   *)
(* of the stream.                                                          *)
LEMMA AppendStep ==
  ASSUME TypeOK, Appends, Returned, Taken, Contents, AppendChar
  PROVE  Returned' /\ Taken' /\ Contents'
<1> DEFINE n == Len(lines)
<1>1. /\ n \in Nat /\ Len(line) \in Nat /\ Len(stream) \in Nat
      /\ Base \in 0..Len(stream) /\ Base <= pos /\ pos \in 0..Len(stream)
      /\ IsEnd(stream, n, Base) /\ stream \in Seq(Chars) /\ line \in Seq(Bytes)
  BY BaseIsEnd DEF TypeOK
<1>2. pc = "append" /\ UNCHANGED <<stream, ended, pos, ch>>
  BY DEF AppendChar, clientVars
<1>3. CASE ch # LF
  <2>1. /\ ch \in Bytes /\ line' = Append(line, ch) /\ lines' = lines /\ pc' = "recv"
    BY <1>2, <1>3 DEF AppendChar, Appends
  <2>2. /\ Len(line') = Len(line) + 1 /\ line'[Len(line) + 1] = ch
        /\ \A i \in 1..Len(line) : line'[i] = line[i]
    BY <1>1, <2>1, AppendProperties
  <2>3. Base' = Base
    BY <1>2, <2>1 DEF Base
  <2>4. pos = Base + Len(line) + 1 /\ stream[pos] = ch
    BY <1>2, <2>1 DEF Taken
  <2>5. ASSUME NEW i \in 1..Len(line') PROVE stream[Base + i] = line'[i]
    <3>1. CASE i = Len(line) + 1
      <4>1. Base + i = pos
        BY <1>1, <2>4, <3>1
      <4>2. QED
        BY <2>2, <2>4, <3>1, <4>1
    <3>2. CASE i \in 1..Len(line)
      BY <2>2, <3>2 DEF Taken
    <3>3. QED
      BY <1>1, <2>2, <3>1, <3>2
  <2>6. pos = Base + Len(line')
    BY <1>1, <2>2, <2>4
  <2>7. Taken'
    BY <1>2, <2>1, <2>3, <2>5, <2>6 DEF Taken
  <2>8. Returned' /\ Contents'
    BY <1>2, <2>1 DEF Returned, Contents, Settled
  <2>9. QED
    BY <2>7, <2>8
<1>4. CASE ch = LF
  <2>1. /\ line' = <<>> /\ lines' = Append(lines, Append(line, LF)) /\ pc' \in {"recv", "body"}
    BY <1>4 DEF AppendChar
  <2>2. /\ pos \in LineEnds(stream) /\ Settled(pos) /\ pos \in 1..Len(stream)
        /\ \/ pos = Base + Len(line) + 1
           \/ pos = Base + Len(line) + 2 /\ stream[pos] = LF /\ stream[pos - 1] = CR
    BY <1>1, <1>2, <1>4, EndsArePositions DEF Taken, EndTaken
  <2>3. \A i \in 1..Len(line) : stream[Base + i] = line[i] /\ stream[Base + i] \in Bytes
    BY <1>1, ElementOfSeq DEF Taken
  <2>4. ASSUME NEW m \in LineEnds(stream), Base < m, m < pos PROVE FALSE
    <3>1. m \in 1..Len(stream) /\ (stream[m] = LF \/ (stream[m] = CR /\ stream[m + 1] # LF))
      BY <1>1, <2>2, <2>4 DEF LineEnds
    <3>2. CASE m <= Base + Len(line)
      <4>1. m - Base \in 1..Len(line) /\ Base + (m - Base) = m
        BY <1>1, <2>4, <3>1, <3>2
      <4>2. stream[m] \in Bytes
        BY <2>3, <4>1
      <4>3. QED
        BY <3>1, <4>2, BytesAssumption
    <3>3. CASE m > Base + Len(line)
      <4>1. m = pos - 1 /\ m + 1 = pos /\ stream[pos] = LF /\ stream[m] = CR
        BY <1>1, <2>2, <2>4, <3>1, <3>3
      <4>2. QED
        BY <3>1, <4>1, BytesAssumption
    <3>4. QED
      BY <1>1, <3>1, <3>2, <3>3
  <2>5. Base < pos /\ \A m \in LineEnds(stream) : m <= Base \/ m >= pos
    BY <1>1, <2>2, <2>4, EndsArePositions
  <2>6. IsEnd(stream, n + 1, pos)
    BY <1>1, <2>2, <2>5, NextEnd
  <2>7. EndOf(stream, n + 1) = pos /\ n + 1 \in Nat
    BY <1>1, <2>6, EndIsUnique
  <2>8. /\ Len(lines') = n + 1 /\ lines'[n + 1] = Append(line, LF)
        /\ \A k \in 1..n : lines'[k] = lines[k]
    <3>1. line \in Seq(Bytes \cup {LF})
      BY <1>1, SeqMonotonic
    <3>2. Append(line, LF) \in Seq(Bytes \cup {LF})
      BY <3>1, AppendProperties
    <3>3. QED
      BY <2>1, <3>2, AppendProperties DEF TypeOK
  <2>9. Base' = pos
    BY <1>2, <2>7, <2>8 DEF Base
  <2>10. Returned'
    <3>1. \A k \in 0..n : LET i == EndOf(stream, k)
                          IN  IsEnd(stream, k, i) /\ i <= pos /\ Settled(i)'
      BY <1>2 DEF Returned, Settled
    <3>2. IsEnd(stream, n + 1, pos) /\ pos <= pos /\ Settled(pos)'
      BY <1>1, <1>2, <2>2, <2>6 DEF Settled
    <3>3. \A k \in 0..(n + 1) : k \in 0..n \/ k = n + 1
      BY <1>1
    <3>4. QED
      BY <1>2, <2>7, <2>8, <3>1, <3>2, <3>3 DEF Returned
  <2>11. Content(stream, n + 1) = line
    <3>1. /\ EndsInCrLf(stream, n + 1) <=>
               stream[pos] = LF /\ pos - 1 > Base /\ stream[pos - 1] = CR
          /\ Content(stream, n + 1) =
               SubSeq(stream, Base + 1, pos - (IF EndsInCrLf(stream, n + 1) THEN 2 ELSE 1))
      <4>1. EndOf(stream, (n + 1) - 1) = Base
        BY <1>1 DEF Base
      <4>2. QED
        BY <2>7, <4>1 DEF EndsInCrLf, Content
    <3>2. pos - (IF EndsInCrLf(stream, n + 1) THEN 2 ELSE 1) = Base + Len(line)
      <4>1. CASE pos = Base + Len(line) + 1
        <5>1. ~EndsInCrLf(stream, n + 1)
          <6>1. SUFFICES ASSUME pos - 1 > Base, stream[pos - 1] = CR PROVE FALSE
            BY <3>1
          <6>2. Len(line) \in 1..Len(line) /\ pos - 1 = Base + Len(line)
            BY <1>1, <4>1, <6>1
          <6>3. stream[pos - 1] \in Bytes
            BY <2>3, <6>2
          <6>4. QED
            BY <6>1, <6>3, BytesAssumption
        <5>2. QED
          BY <1>1, <4>1, <5>1
      <4>2. CASE pos = Base + Len(line) + 2 /\ stream[pos] = LF /\ stream[pos - 1] = CR
        <5>1. pos - 1 > Base /\ pos - 2 = Base + Len(line)
          BY <1>1, <4>2
        <5>2. EndsInCrLf(stream, n + 1)
          BY <3>1, <4>2, <5>1
        <5>3. QED
          BY <5>1, <5>2
      <4>3. QED
        BY <2>2, <4>1, <4>2
    <3>3. Content(stream, n + 1) = SubSeq(stream, Base + 1, Base + Len(line))
      BY <3>1, <3>2
    <3>4. line \in Seq(Chars)
      BY <1>1, SeqMonotonic DEF Chars
    <3>5. Base + Len(line) <= Len(stream) /\ Base <= Base + Len(line)
      BY <1>1, <2>2
    <3>6. Len(line) = (Base + Len(line)) - Base
      BY <1>1
    <3>7. SubSeq(stream, Base + 1, Base + Len(line)) = line
      BY <1>1, <2>3, <3>4, <3>5, <3>6, SubSeqIs
    <3>8. QED
      BY <3>3, <3>7
  <2>12. Contents'
    <3>1. \A k \in 1..(n + 1) : k \in 1..n \/ k = n + 1
      BY <1>1
    <3>2. QED
      BY <1>2, <2>8, <2>11, <3>1 DEF Contents
  <2>13. Taken'
    BY <1>1, <1>2, <2>1, <2>9 DEF Taken
  <2>14. QED
    BY <2>10, <2>12, <2>13
<1>5. QED
  BY <1>3, <1>4

(* The parts together are inductive.                                       *)
LEMMA Invariance ==
  Spec => []IInv
<1>1. Init => IInv
  <2>1. SUFFICES ASSUME Init PROVE IInv
    OBVIOUS
  <2>2. TypeOK
    <3>1. <<>> \in Seq(Chars) /\ <<>> \in Seq(Bytes) /\ <<>> \in Seq(Seq(Bytes \cup {LF}))
      BY EmptySeq
    <3>2. Len(<<>>) = 0
      BY EmptySeq
    <3>3. /\ stream \in Seq(Chars) /\ Len(stream) = 0
          /\ line \in Seq(Bytes) /\ lines \in Seq(Seq(Bytes \cup {LF}))
      BY <2>1, <3>1, <3>2 DEF Init
    <3>4. ended \in BOOLEAN
      BY <2>1 DEF Init
    <3>5. Len(stream) <= MaxLen /\ pos \in 0..Len(stream)
      BY <2>1, <3>3, MaxLenAssumption DEF Init
    <3>6. pc \in {"recv", "peek", "append", "body", "stop"} /\ ch \in Chars
      BY <2>1 DEF Init, Chars
    <3>7. QED
      BY <3>3, <3>4, <3>5, <3>6 DEF TypeOK
  <2>3. Len(lines) = 0 /\ Len(line) = 0 /\ Len(stream) = 0 /\ stream \in Seq(Chars)
    BY <2>1, <2>2, EmptySeq DEF Init, TypeOK
  <2>4. IsEnd(stream, 0, 0) /\ EndOf(stream, 0) = 0
    BY <2>3, NoEndAtZero
  <2>5. Returned /\ Base = 0
    BY <2>1, <2>3, <2>4 DEF Init, Returned, Settled, Base
  <2>6. Taken
    BY <2>1, <2>3, <2>5 DEF Init, Taken
  <2>7. QED
    BY <2>1, <2>2, <2>3, <2>5, <2>6 DEF Init, IInv, Appends, Contents, BlankIsLast
<1>2. IInv /\ [Next]_vars => IInv'
  <2>1. SUFFICES ASSUME IInv, [Next]_vars PROVE IInv'
    OBVIOUS
  <2>2. TypeOK /\ Appends /\ Returned /\ Taken /\ Contents /\ BlankIsLast
    BY <2>1 DEF IInv
  <2>3. TypeOK' /\ Appends' /\ BlankIsLast'
    BY <2>1, <2>2, TypeStep, BlankStep
  <2>4. Returned' /\ Taken' /\ Contents'
    <3>1. CASE \E b \in Chars : Send(b)
      BY <2>2, <3>1, SendStep
    <3>2. CASE Recv \/ Peek
      BY <2>2, <3>2, TakeStep
    <3>3. CASE AppendChar
      BY <2>2, <3>3, AppendStep
    <3>4. CASE Close
      BY <2>2, <3>4 DEF Close, Returned, Settled, Base, Taken, EndTaken, Contents
    <3>5. CASE Eof
      BY <2>2, <3>5 DEF Eof, clientVars, Returned, Settled, Base, Taken, EndTaken, Contents
    <3>6. CASE UNCHANGED vars
      BY <2>2, <3>6 DEF vars, clientVars, Returned, Settled, Base, Taken, EndTaken, Contents
    <3>7. QED
      BY <2>1, <3>1, <3>2, <3>3, <3>4, <3>5, <3>6 DEF Next, Worker, Finished
  <2>5. QED
    BY <2>3, <2>4 DEF IInv
<1>3. QED
  BY <1>1, <1>2, PTL DEF Spec
-----------------------------------------------------------------------------
(* The members have their types wherever the stream stops: no "\r" is      *)
(* appended or returned, and recv takes no more than there is.             *)
THEOREM ReadLineTypes == Spec => []TypeOK
<1>1. IInv => TypeOK
  BY DEF IInv
<1>2. QED
  BY <1>1, Invariance, PTL

(* readLine returns the lines of the stream, in order and in whole,        *)
(* whatever their endings and however the bytes arrive, and takes nothing  *)
(* behind the last of them.                                                *)
THEOREM LinesAreThoseOfTheStream == Spec => []LinesOfStream
<1>1. IInv => LinesOfStream
  <2>1. SUFFICES ASSUME IInv PROVE LinesOfStream
    OBVIOUS
  <2>2. Len(line) = 0 /\ Base \in Nat => Base + Len(line) = Base
    OBVIOUS
  <2>3. Base \in Nat /\ (line = <<>> => Len(line) = 0)
    BY <2>1, BaseIsEnd DEF IInv
  <2>4. QED
    BY <2>1, <2>2, <2>3 DEF IInv, LinesOfStream, Taken, Contents, Base
<1>2. QED
  BY <1>1, Invariance, PTL

-----------------------------------------------------------------------------
(* An empty line among those returned is the last of them.                 *)
LEMMA BlankAmongReturned ==
  ASSUME IInv, NEW n \in BlankEnds(stream), n <= Base
  PROVE  n = Base /\ pc = "body"
<1>1. /\ stream \in Seq(Chars) /\ Len(stream) \in Nat /\ Len(lines) \in Nat
      /\ LineEnds(stream) \subseteq 1..Len(stream)
      /\ Base \in Nat /\ IsEnd(stream, Len(lines), Base)
  BY BaseIsEnd, EndsArePositions DEF IInv, TypeOK
<1>2. PICK m \in LineEnds(stream) :
        n = m + 1 \/ (n = m + 2 /\ stream[n - 1] = CR /\ stream[n] = LF)
  BY DEF BlankEnds
<1>3. n \in LineEnds(stream) /\ n \in Nat /\ m \in Nat /\ m > 0 /\ m < n
  BY <1>1, <1>2 DEF BlankEnds
<1> DEFINE k == Cardinality(EndsUpTo(stream, m))
<1>4. k \in Nat /\ IsEnd(stream, k, m)
  BY <1>1, <1>3, EndsAreFinite DEF IsEnd
<1>5. IsEnd(stream, k + 1, n)
  <2>1. ASSUME NEW i \in LineEnds(stream), m < i, i < n PROVE FALSE
    <3>1. i = n - 1 /\ stream[n - 1] = CR /\ stream[n] = LF /\ i < Len(stream)
      BY <1>1, <1>2, <1>3, <2>1
    <3>2. QED
      BY <1>3, <2>1, <3>1, BytesAssumption DEF LineEnds
  <2>2. \A i \in LineEnds(stream) : i <= m \/ i >= n
    BY <1>1, <1>3, <2>1
  <2>3. QED
    BY <1>1, <1>3, <1>4, <2>2, NextEnd
<1>6. k > 0
  <2>1. Cardinality(EndsUpTo(stream, 0)) < k
    BY <1>1, <1>3, MoreEnds
  <2>2. Cardinality(EndsUpTo(stream, 0)) \in Nat
    BY <1>1, EndsAreFinite
  <2>3. QED
    BY <1>4, <2>1, <2>2
<1> HIDE DEF k
<1>7. k + 1 <= Len(lines)
  <2>1. CASE n = Base
    BY <1>1, <1>4, <1>5, <2>1 DEF IsEnd
  <2>2. CASE n < Base
    <3>1. Base \in LineEnds(stream)
      BY <1>1, <1>3, <2>2 DEF IsEnd
    <3>2. QED
      BY <1>1, <1>3, <1>4, <1>5, <2>2, <3>1, MoreEnds DEF IsEnd
  <2>3. QED
    BY <1>1, <1>3, <2>1, <2>2
<1>8. EndOf(stream, k + 1) = n /\ EndOf(stream, (k + 1) - 1) = m
  <2>1. (k + 1) - 1 = k /\ k + 1 \in Nat
    BY <1>4
  <2>2. QED
    BY <1>1, <1>4, <1>5, <2>1, EndIsUnique
<1>9. Content(stream, k + 1) = <<>>
  <2>1. EndsInCrLf(stream, k + 1) <=> n = m + 2
    BY <1>2, <1>3, <1>8 DEF EndsInCrLf
  <2>2. Content(stream, k + 1) = SubSeq(stream, m + 1, m)
    BY <1>2, <1>3, <1>8, <2>1 DEF Content
  <2>3. QED
    BY <1>1, <1>3, <2>2, SubSeqEmpty
<1>10. lines[k + 1] = <<LF>> /\ k + 1 \in 1..Len(lines) /\ k + 1 > 1
  BY <1>1, <1>4, <1>6, <1>7, <1>9 DEF IInv, Contents
<1>11. k + 1 = Len(lines) /\ pc = "body"
  BY <1>10 DEF IInv, BlankIsLast
<1>12. QED
  BY <1>8, <1>11 DEF Base

(* Behind the last line returned no line has ended before what is taken.   *)
LEMMA NoEndInLine ==
  ASSUME IInv, NEW n \in LineEnds(stream), Base < n
  PROVE  pos <= n /\ (pc \in {"recv", "stop", "body"} => pos < n)
<1>1. /\ Len(line) \in Nat /\ Len(stream) \in Nat /\ line \in Seq(Bytes)
      /\ Base \in 0..Len(stream) /\ pos \in 0..Len(stream) /\ n \in 1..Len(stream)
  BY BaseIsEnd, EndsArePositions DEF IInv, TypeOK
<1>2. n > Base + Len(line)
  <2>1. SUFFICES ASSUME n <= Base + Len(line) PROVE FALSE
    BY <1>1
  <2>2. n - Base \in 1..Len(line) /\ Base + (n - Base) = n
    BY <1>1, <2>1
  <2>3. stream[n] = line[n - Base] /\ line[n - Base] \in Bytes
    BY <1>1, <2>2, ElementOfSeq DEF IInv, Taken
  <2>4. QED
    BY <2>3, BytesAssumption DEF LineEnds
<1>3. CASE pc \in {"recv", "stop", "body"}
  BY <1>1, <1>2, <1>3 DEF IInv, Taken
<1>4. CASE pc = "peek" \/ (pc = "append" /\ ch \in Bytes)
  BY <1>1, <1>2, <1>4 DEF IInv, Taken
<1>5. CASE pc = "append" /\ ch = LF
  <2>1. \/ pos = Base + Len(line) + 1
        \/ pos = Base + Len(line) + 2 /\ stream[pos] = LF /\ stream[pos - 1] = CR
    BY <1>5 DEF IInv, Taken, EndTaken
  <2>2. ~(n = pos - 1 /\ stream[pos] = LF /\ stream[pos - 1] = CR)
    <3>1. SUFFICES ASSUME n = pos - 1, stream[pos] = LF, stream[pos - 1] = CR PROVE FALSE
      OBVIOUS
    <3>2. n < Len(stream) /\ n + 1 = pos
      BY <1>1, <3>1
    <3>3. QED
      BY <3>1, <3>2, BytesAssumption DEF LineEnds
  <2>3. QED
    BY <1>1, <1>2, <1>5, <2>1, <2>2
<1>6. QED
  BY <1>3, <1>4, <1>5 DEF IInv, TypeOK, Appends

(* At the body, what was taken ends with an empty line.                    *)
LEMMA BodyIsBehindBlank ==
  ASSUME IInv, pc = "body"
  PROVE  pos \in BlankEnds(stream)
<1> DEFINE k == Len(lines)
           m == EndOf(stream, k - 1)
<1>1. /\ k \in Nat /\ k > 1 /\ Len(stream) \in Nat /\ stream \in Seq(Chars)
      /\ k \in 1..Len(lines) /\ k - 1 \in 1..Len(lines)
  BY BaseIsEnd DEF IInv, TypeOK, BlankIsLast
<1>2. EndOf(stream, k) = pos /\ pos \in 1..Len(stream) /\ pos \in LineEnds(stream)
  <2>1. Len(line) = 0 /\ pos = Base + Len(line)
    BY EmptySeq DEF IInv, Taken
  <2>2. Base = EndOf(stream, k) /\ Base \in LineEnds(stream) /\ Base \in 1..Len(stream)
    BY <1>1, EndsInOrder DEF IInv, Base
  <2>3. QED
    BY <1>1, <2>1, <2>2
<1>3. m \in LineEnds(stream) /\ m \in 1..Len(stream)
  BY <1>1, EndsInOrder DEF IInv
<1>4. m < pos
  <2>1. IsEnd(stream, k, pos) /\ IsEnd(stream, k - 1, m)
    BY <1>1, <1>2 DEF IInv, Returned
  <2>2. CASE pos < m
    BY <1>1, <1>2, <1>3, <2>1, <2>2, MoreEnds DEF IsEnd
  <2>3. CASE pos = m
    BY <1>1, <2>1, <2>3 DEF IsEnd
  <2>4. QED
    BY <1>2, <1>3, <2>2, <2>3
<1> DEFINE c == IF EndsInCrLf(stream, k) THEN 2 ELSE 1
<1>5. SubSeq(stream, m + 1, pos - c) = <<>>
  <2>1. lines[k] = <<LF>>
    BY <1>1 DEF IInv, BlankIsLast
  <2>2. lines[k] = Append(Content(stream, k), LF)
    BY <1>1 DEF IInv, Contents
  <2>3. Content(stream, k) = SubSeq(stream, m + 1, pos - c)
    BY <1>2 DEF Content
  <2>4. Content(stream, k) \in Seq(Chars)
    <3>1. \A i \in (m + 1)..(pos - c) : stream[i] \in Chars
      BY <1>1, <1>2, <1>3, ElementOfSeq
    <3>2. QED
      BY <1>2, <1>3, <2>3, <3>1, SubSeqProperties
  <2>5. Len(Append(Content(stream, k), LF)) = Len(Content(stream, k)) + 1
    BY <2>4, AppendProperties DEF Chars
  <2>6. Len(<<LF>>) = 1 /\ Len(Content(stream, k)) \in Nat
    BY <2>4, LenProperties
  <2>7. Len(Content(stream, k)) = 0
    BY <2>1, <2>2, <2>5, <2>6
  <2>8. QED
    BY <2>3, <2>4, <2>7, EmptySeq
<1>6. EndsInCrLf(stream, k) <=> stream[pos] = LF /\ pos - 1 > m /\ stream[pos - 1] = CR
  BY <1>2 DEF EndsInCrLf
<1> HIDE DEF m, k
<1>7. ~(m + 1 <= pos - c)
  <2>1. SUFFICES ASSUME m + 1 <= pos - c PROVE FALSE
    OBVIOUS
  <2>2. \A i \in (m + 1)..(pos - c) : stream[i] \in Chars
    BY <1>1, <1>2, <1>3, ElementOfSeq
  <2>3. Len(SubSeq(stream, m + 1, pos - c)) = pos - c - m
    BY <1>2, <1>3, <2>1, <2>2, SubSeqProperties
  <2>4. QED
    BY <1>2, <1>3, <1>5, <2>1, <2>3, EmptySeq
<1>8. pos = m + 1 \/ (pos = m + 2 /\ stream[pos - 1] = CR /\ stream[pos] = LF)
  BY <1>2, <1>3, <1>4, <1>6, <1>7
<1>9. QED
  BY <1>2, <1>3, <1>8 DEF BlankEnds

(* However the bytes arrive, and whatever their endings are, the body      *)
(* begins with the byte behind the first empty line after the request      *)
(* line: the headers take none of the body's bytes and leave it none of    *)
(* their own.                                                              *)
THEOREM BodyBeginsBehindBlank == Spec => []HeadersEndAtBlank
<1>1. IInv => HeadersEndAtBlank
  <2>1. SUFFICES ASSUME IInv PROVE HeadersEndAtBlank
    OBVIOUS
  <2>2. Base \in Nat /\ pos \in Nat /\ Base <= pos /\ BlankEnds(stream) \subseteq Nat
        /\ BlankEnds(stream) \subseteq LineEnds(stream)
    BY <2>1, BaseIsEnd, EndsArePositions DEF IInv, TypeOK, BlankEnds
  <2>3. ASSUME NEW n \in BlankEnds(stream)
        PROVE  pos <= n /\ (pc \in {"recv", "stop"} => pos # n)
    <3>1. CASE n <= Base
      <4>1. n = Base /\ pc = "body"
        BY <2>1, <3>1, BlankAmongReturned
      <4>2. pos = Base + Len(line) /\ Len(line) = 0
        BY <2>1, <4>1, EmptySeq DEF IInv, Taken
      <4>3. QED
        BY <2>2, <4>1, <4>2
    <3>2. CASE Base < n
      BY <2>1, <2>2, <3>2, NoEndInLine
    <3>3. QED
      BY <2>2, <3>1, <3>2
  <2>4. QED
    BY <2>1, <2>3, BodyIsBehindBlank DEF HeadersEndAtBlank
<1>2. QED
  BY <1>1, Invariance, PTL
=============================================================================
