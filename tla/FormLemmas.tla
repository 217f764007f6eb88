----------------------------- MODULE FormLemmas -----------------------------
(***************************************************************************)
(* What CgiProgram's operators compute, for texts of any length: the types *)
(* of cutString's and decode_uri's results, that decode_uri decodes every  *)
(* escape once, and that the programs find in a form what the browser has  *)
(* put there.                                                              *)
(***************************************************************************)
EXTENDS CgiProgram, WellFoundedInduction, SequenceTheorems, FiniteSetTheorems, TLAPS

(* A set of numbers that is not empty has a least one.                     *)
LEMMA LeastOf ==
  ASSUME NEW S \in SUBSET Nat, S # {}
  PROVE  \E n \in S : \A m \in S : n <= m
<1>1. PICK n \in S : \A m \in S : ~(<<m, n>> \in OpToRel(<, Nat))
  BY WFMin, NatLessThanWellFounded, Zenon
<1>2. ASSUME NEW m \in S PROVE n <= m
  <2>1. SUFFICES ASSUME m < n PROVE FALSE
    OBVIOUS
  <2>2. <<m, n>> \in Nat \X Nat /\ <<m, n>>[1] < <<m, n>>[2]
    BY <2>1
  <2>3. <<m, n>> \in OpToRel(<, Nat)
    BY <2>2 DEF OpToRel
  <2>4. QED
    BY <1>1, <2>3
<1>3. QED
  BY <1>2

(* Induction over numbers, with the set of those that have the property.   *)
LEMMA Induct ==
  ASSUME NEW S, 0 \in S, \A n \in Nat : n \in S => n + 1 \in S
  PROVE  \A n \in Nat : n \in S
<1>1. SUFFICES ASSUME Nat \ S # {} PROVE FALSE
  OBVIOUS
<1>2. PICK n \in Nat \ S : \A m \in Nat \ S : n <= m
  BY <1>1, LeastOf
<1>3. n - 1 \in Nat /\ n = (n - 1) + 1
  BY <1>2
<1>4. n - 1 \in S
  BY <1>2, <1>3
<1>5. QED
  BY <1>2, <1>3, <1>4

(* What decode_uri's loop yields from its place i on, given what it yields *)
(* from later places on.                                                   *)
StepFrom(uri, f, i) ==
  IF i > Len(uri) THEN <<>>
  ELSE IF uri[i] = Percent /\ i + 2 <= Len(uri)
       THEN <<HexValue(uri[i + 1], uri[i + 2])>> \o f[i + 3]
       ELSE <<uri[i]>> \o f[i + 1]

(* That recursion, which goes upwards, has a function: one that is right for*)
(* the last n places is extended by the place before them.                 *)
LEMMA DecodingExists ==
  ASSUME NEW S, NEW uri \in Seq(S)
  PROVE  \E f : f = [i \in 1..(Len(uri) + 3) |-> StepFrom(uri, f, i)]
<1> DEFINE N == Len(uri) + 3
           D == {n \in Nat : n <= N =>
                   \E f : /\ f = [i \in 1..N |-> f[i]]
                          /\ \A i \in 1..N : i > N - n => f[i] = StepFrom(uri, f, i)}
<1>1. Len(uri) \in Nat /\ N \in Nat
  BY LenProperties
<1>2. 0 \in D
  <2> DEFINE f == [i \in 1..N |-> <<>>]
  <2>1. f = [i \in 1..N |-> f[i]]
    OBVIOUS
  <2>2. \A i \in 1..N : ~(i > N - 0)
    BY <1>1
  <2>3. QED
    BY <2>1, <2>2
<1>3. ASSUME NEW n \in Nat, n \in D PROVE n + 1 \in D
  <2>1. SUFFICES ASSUME n + 1 <= N
                 PROVE  \E f : /\ f = [i \in 1..N |-> f[i]]
                               /\ \A i \in 1..N : i > N - (n + 1) => f[i] = StepFrom(uri, f, i)
    OBVIOUS
  <2>2. n <= N
    BY <1>1, <2>1
  <2>3. PICK f : /\ f = [i \in 1..N |-> f[i]]
                 /\ \A i \in 1..N : i > N - n => f[i] = StepFrom(uri, f, i)
    BY <1>3, <2>2
  <2> DEFINE at == N - n
             step == StepFrom(uri, f, at)
             g == [f EXCEPT ![at] = step]
  <2>4. at \in 1..N /\ at \in Nat
    BY <1>1, <2>1
  <2> HIDE DEF at, step
  <2>5. g = [i \in 1..N |-> g[i]] /\ g[at] = step /\ \A i \in 1..N : i # at => g[i] = f[i]
    BY <2>3, <2>4
  <2> HIDE DEF g
  <2>6. ASSUME NEW i \in 1..N, i >= at PROVE StepFrom(uri, g, i) = StepFrom(uri, f, i)
    <3>1. CASE i > Len(uri)
      BY <3>1 DEF StepFrom
    <3>2. CASE i <= Len(uri)
      <4>1. /\ i + 1 \in 1..N /\ i + 1 # at /\ i + 3 \in 1..N /\ i + 3 # at
        BY <1>1, <2>4, <2>6, <3>2
      <4>2. g[i + 1] = f[i + 1] /\ g[i + 3] = f[i + 3]
        BY <2>5, <4>1
      <4>3. QED
        BY <4>2 DEF StepFrom
    <3>3. QED
      BY <1>1, <3>1, <3>2
  <2>7. ASSUME NEW i \in 1..N, i > N - (n + 1) PROVE g[i] = StepFrom(uri, g, i)
    <3>1. i >= at
      BY <1>1, <2>7 DEF at
    <3>2. CASE i = at
      BY <2>5, <2>6, <3>1, <3>2 DEF step
    <3>3. CASE i # at
      <4>1. i > N - n
        BY <1>1, <2>4, <3>1, <3>3 DEF at
      <4>2. QED
        BY <2>3, <2>5, <2>6, <3>1, <3>3, <4>1
    <3>4. QED
      BY <3>2, <3>3
  <2>8. QED
    BY <2>5, <2>7
<1>4. N \in D
  <2> HIDE DEF D
  <2>1. QED
    BY <1>1, <1>2, <1>3, Induct
<1>5. PICK f : /\ f = [i \in 1..N |-> f[i]]
               /\ \A i \in 1..N : i > N - N => f[i] = StepFrom(uri, f, i)
  BY <1>1, <1>4
<1>6. \A i \in 1..N : f[i] = StepFrom(uri, f, i)
  BY <1>1, <1>5
<1>7. f = [i \in 1..N |-> StepFrom(uri, f, i)]
  BY <1>5, <1>6
<1>8. QED
  BY <1>7

(* DecodeUri is what that recursion yields from the first place on.        *)
LEMMA DecodingIs ==
  ASSUME NEW S, NEW uri \in Seq(S)
  PROVE  \E f : /\ \A i \in 1..(Len(uri) + 3) : f[i] = StepFrom(uri, f, i)
                /\ DecodeUri(uri) = f[1]
<1> DEFINE from[i \in 1..(Len(uri) + 3)] ==
             IF i > Len(uri) THEN <<>>
             ELSE IF uri[i] = Percent /\ i + 2 <= Len(uri)
                  THEN <<HexValue(uri[i + 1], uri[i + 2])>> \o from[i + 3]
                  ELSE <<uri[i]>> \o from[i + 1]
<1>1. DecodeUri(uri) = from[1]
  BY DEF DecodeUri, Decoded
<1>2. from = CHOOSE f : f = [i \in 1..(Len(uri) + 3) |-> StepFrom(uri, f, i)]
  BY DEF StepFrom
<1> HIDE DEF from
<1>3. from = [i \in 1..(Len(uri) + 3) |-> StepFrom(uri, from, i)]
  BY <1>2, DecodingExists
<1>4. \A i \in 1..(Len(uri) + 3) : from[i] = StepFrom(uri, from, i)
  BY <1>3
<1>5. QED
  BY <1>1, <1>4

(* What decode_uri puts in the place of an escape is a byte.               *)
LEMMA HexValueIsByte ==
  ASSUME NEW a \in 0..255, NEW b \in 0..255
  PROVE  HexValue(a, b) \in 0..255
<1>1. \A c \in Hex : Nibble(c) \in 0..15
  BY DEF Hex, Digits, Nibble
<1>2. \A c \in Hex : (256 - Nibble(c)) % 256 \in 0..255
  BY <1>1
<1>3. QED
  BY <1>1, <1>2 DEF HexValue

(* A text has a set of escapes, of which none overlaps another: one for    *)
(* its beginning is extended by the next place, or not.                    *)
LEMMA EscapesExist ==
  ASSUME NEW S, NEW u \in Seq(S)
  PROVE  /\ Escapes(u) \in SUBSET (1..Len(u))
         /\ \A i \in 1..Len(u) : i \in Escapes(u) <=> IsEscape(u, i, Escapes(u))
<1> DEFINE D == {n \in Nat : \E E \in SUBSET (1..n) :
                               \A i \in 1..n : i \in E <=> IsEscape(u, i, E)}
<1>1. Len(u) \in Nat
  BY LenProperties
<1>2. 0 \in D
  <2>1. 1..0 = {}
    OBVIOUS
  <2>2. QED
    BY <2>1
<1>3. ASSUME NEW n \in Nat, n \in D PROVE n + 1 \in D
  <2>1. PICK E \in SUBSET (1..n) : \A i \in 1..n : i \in E <=> IsEscape(u, i, E)
    BY <1>3
  <2> DEFINE F == IF IsEscape(u, n + 1, E) THEN E \cup {n + 1} ELSE E
  <2>2. F \in SUBSET (1..(n + 1))
    BY <2>1
  <2>3. ASSUME NEW i \in 1..(n + 1) PROVE IsEscape(u, i, F) <=> IsEscape(u, i, E)
    <3>1. {i - 1, i - 2} \cap F = {i - 1, i - 2} \cap E
      BY <2>1, <2>3
    <3>2. QED
      BY <3>1 DEF IsEscape
  <2>4. ASSUME NEW i \in 1..(n + 1) PROVE i \in F <=> IsEscape(u, i, E)
    <3>1. CASE i = n + 1
      <4>1. n + 1 \notin E
        BY <2>1
      <4>2. QED
        BY <3>1, <4>1
    <3>2. CASE i # n + 1
      <4>1. i \in 1..n /\ (i \in F <=> i \in E)
        BY <3>2
      <4>2. QED
        BY <2>1, <4>1
    <3>3. QED
      BY <3>1, <3>2
  <2> HIDE DEF F
  <2>5. QED
    BY <2>2, <2>3, <2>4
<1>4. Len(u) \in D
  <2> HIDE DEF D
  <2>1. QED
    BY <1>1, <1>2, <1>3, Induct
<1>5. \E E \in SUBSET (1..Len(u)) : \A i \in 1..Len(u) : i \in E <=> IsEscape(u, i, E)
  BY <1>4
<1>6. QED
  BY <1>5 DEF Escapes

(* How many members of a set of numbers there are up to a place.           *)
LEMMA UpToNext ==
  ASSUME NEW N \in Nat, NEW K \in SUBSET (1..N), NEW n \in Nat
  PROVE  /\ UpTo(K, n) \in Nat
         /\ UpTo(K, n + 1) = IF n + 1 \in K THEN UpTo(K, n) + 1 ELSE UpTo(K, n)
<1> DEFINE A == {j \in K : j <= n}
           B == {j \in K : j <= n + 1}
<1>1. IsFiniteSet(1..N)
  BY FS_Interval
<1>2. IsFiniteSet(A) /\ n + 1 \notin A
  <2>1. A \in SUBSET (1..N)
    OBVIOUS
  <2>2. ~(n + 1 <= n)
    OBVIOUS
  <2>3. n + 1 \notin A
    BY <2>2
  <2> HIDE DEF A
  <2>4. QED
    BY <1>1, <2>1, <2>3, FS_Subset
<1>3. Cardinality(A) \in Nat
  BY <1>2, FS_CardinalityType
<1>4. B = IF n + 1 \in K THEN A \cup {n + 1} ELSE A
  <2>1. \A j \in K : j <= n + 1 <=> j <= n \/ j = n + 1
    OBVIOUS
  <2>2. QED
    BY <2>1
<1> HIDE DEF A, B
<1>5. Cardinality(B) = IF n + 1 \in K THEN Cardinality(A) + 1 ELSE Cardinality(A)
  BY <1>2, <1>4, FS_AddElement
<1>6. QED
  BY <1>3, <1>5 DEF A, B, UpTo

(* A member counts for its own place.                                      *)
LEMMA UpToMember ==
  ASSUME NEW N \in Nat, NEW K \in SUBSET (1..N), NEW j \in K
  PROVE  UpTo(K, j - 1) \in Nat /\ UpTo(K, j) = UpTo(K, j - 1) + 1
<1>1. j - 1 \in Nat /\ (j - 1) + 1 = j
  OBVIOUS
<1> DEFINE i == j - 1
<1>2. i \in Nat /\ i + 1 = j
  BY <1>1
<1> HIDE DEF i
<1>3. /\ UpTo(K, i) \in Nat
      /\ UpTo(K, i + 1) = IF i + 1 \in K THEN UpTo(K, i) + 1 ELSE UpTo(K, i)
  BY <1>2, UpToNext
<1>4. QED
  BY <1>2, <1>3 DEF i

(* There are no fewer of them up to a later place.                         *)
LEMMA UpToGrows ==
  ASSUME NEW N \in Nat, NEW K \in SUBSET (1..N), NEW n \in Nat, NEW m \in Nat, n <= m
  PROVE  UpTo(K, n) <= UpTo(K, m)
<1> DEFINE A == {j \in K : j <= n}
           B == {j \in K : j <= m}
<1>1. IsFiniteSet(1..N)
  BY FS_Interval
<1>2. B \in SUBSET (1..N) /\ A \in SUBSET B
  <2>1. \A j \in K : j <= n => j <= m
    OBVIOUS
  <2>2. QED
    BY <2>1
<1> HIDE DEF A, B
<1>3. IsFiniteSet(B)
  BY <1>1, <1>2, FS_Subset
<1>4. Cardinality(A) <= Cardinality(B)
  BY <1>2, <1>3, FS_Subset
<1>5. QED
  BY <1>4 DEF A, B, UpTo

(* Before the first place there are none, up to the last there are all.    *)
LEMMA UpToEnds ==
  ASSUME NEW N \in Nat, NEW K \in SUBSET (1..N)
  PROVE  UpTo(K, 0) = 0 /\ UpTo(K, N) = Cardinality(K) /\ Cardinality(K) \in Nat
<1>1. {j \in K : j <= 0} = {} /\ {j \in K : j <= N} = K
  <2>1. \A j \in K : ~(j <= 0) /\ j <= N
    OBVIOUS
  <2>2. QED
    BY <2>1
<1>2. Cardinality({}) = 0
  BY FS_EmptySet
<1>3. IsFiniteSet(K)
  <2>1. IsFiniteSet(1..N)
    BY FS_Interval
  <2>2. QED
    BY <2>1, FS_Subset
<1>4. QED
  BY <1>1, <1>2, <1>3, FS_CardinalityType DEF UpTo

(* Each number up to that is the rank of a member.                         *)
LEMMA RankExists ==
  ASSUME NEW N \in Nat, NEW K \in SUBSET (1..N), NEW k \in 1..Cardinality(K)
  PROVE  \E i \in K : UpTo(K, i) = k
<1> DEFINE D == {n \in Nat : UpTo(K, n) >= k => \E i \in K : UpTo(K, i) = k}
<1>1. 0 \in D
  BY UpToEnds
<1>2. ASSUME NEW n \in Nat, n \in D PROVE n + 1 \in D
  <2>1. SUFFICES ASSUME UpTo(K, n + 1) >= k, ~(UpTo(K, n) >= k)
                 PROVE  \E i \in K : UpTo(K, i) = k
    BY <1>2
  <2>2. /\ UpTo(K, n) \in Nat
        /\ UpTo(K, n + 1) = IF n + 1 \in K THEN UpTo(K, n) + 1 ELSE UpTo(K, n)
    BY UpToNext
  <2>3. n + 1 \in K /\ UpTo(K, n + 1) = k
    BY <2>1, <2>2
  <2>4. QED
    BY <2>3
<1>3. N \in D
  <2> HIDE DEF D
  <2>1. QED
    BY <1>1, <1>2, Induct
<1>4. UpTo(K, N) >= k
  BY UpToEnds
<1>5. QED
  BY <1>3, <1>4

(* Behind a place that is kept comes the next one, or the end: an escape's *)
(* two digits are not kept.                                                *)
NextKept(E, i) == IF i \in E THEN i + 3 ELSE i + 1

LEMMA KeptFollows ==
  ASSUME NEW u \in Seq(0..255), NEW E, E = Escapes(u), NEW K, K = Kept(u, E),
         NEW i \in K, NEW q, q = NextKept(E, i)
  PROVE  /\ q \in K \cup {Len(u) + 1} /\ q > i /\ UpTo(K, q - 1) = UpTo(K, i - 1) + 1
         /\ \A j \in K : j > i => j >= q
         /\ i \in E <=> u[i] = Percent /\ i + 2 <= Len(u)
<1>1. Len(u) \in Nat
  BY LenProperties
<1>2. E \in SUBSET (1..Len(u)) /\ \A j \in 1..Len(u) : j \in E <=> IsEscape(u, j, E)
  BY EscapesExist
<1>3. /\ K \in SUBSET (1..Len(u)) /\ i \in 1..Len(u)
      /\ \A j \in 1..Len(u) : j \in K <=> j - 1 \notin E /\ j - 2 \notin E
  BY DEF Kept
<1>4. i \in E <=> u[i] = Percent /\ i + 2 <= Len(u)
  BY <1>2, <1>3 DEF IsEscape
<1>5. UpTo(K, i) = UpTo(K, i - 1) + 1
  BY <1>1, <1>3, UpToMember
<1>6. CASE i \in E
  <2>1. i + 1 \notin K /\ i + 2 \notin K /\ i + 2 <= Len(u)
    BY <1>1, <1>3, <1>4, <1>6
  <2>2. i + 1 \notin E /\ i + 2 \notin E
    <3>1. ASSUME NEW d \in {1, 2}, i + d \in E PROVE FALSE
      <4>1. i + d \in 1..Len(u)
        BY <1>2, <3>1
      <4>2. i \in {i + d - 1, i + d - 2}
        BY <1>3
      <4>3. QED
        BY <1>2, <1>6, <3>1, <4>1, <4>2 DEF IsEscape
    <3>2. QED
      BY <3>1
  <2>3. i + 3 \in K \cup {Len(u) + 1}
    <3>1. CASE i + 3 <= Len(u)
      <4>1. i + 3 \in 1..Len(u) /\ (i + 3) - 1 = i + 2 /\ (i + 3) - 2 = i + 1
        BY <1>3, <3>1
      <4>2. QED
        BY <1>3, <2>2, <4>1
    <3>2. QED
      BY <1>1, <1>3, <2>1, <3>1
  <2>4. UpTo(K, i + 1) = UpTo(K, i) /\ UpTo(K, i + 2) = UpTo(K, i + 1)
    <3>1. i \in Nat /\ i + 1 \in Nat /\ (i + 1) + 1 = i + 2
      BY <1>3
    <3>2. UpTo(K, i + 1) = UpTo(K, i) /\ UpTo(K, (i + 1) + 1) = UpTo(K, i + 1)
      BY <1>1, <1>3, <2>1, <3>1, UpToNext
    <3>3. QED
      BY <3>1, <3>2
  <2>5. ASSUME NEW j \in K, j > i PROVE j >= i + 3
    BY <1>3, <2>1, <2>5
  <2>6. q = i + 3 /\ q - 1 = i + 2 /\ q > i
    BY <1>3, <1>6 DEF NextKept
  <2>7. QED
    BY <1>4, <1>5, <2>3, <2>4, <2>5, <2>6
<1>7. CASE i \notin E
  <2>1. q = i + 1 /\ q - 1 = i /\ q > i
    BY <1>3, <1>7 DEF NextKept
  <2>2. i + 1 \in K \cup {Len(u) + 1}
    <3>1. CASE i + 1 <= Len(u)
      <4>1. i + 1 \in 1..Len(u) /\ (i + 1) - 1 = i /\ (i + 1) - 2 = i - 1
        BY <1>3, <3>1
      <4>2. QED
        BY <1>3, <1>7, <4>1
    <3>2. QED
      BY <1>1, <1>3, <3>1
  <2>3. ASSUME NEW j \in K, j > i PROVE j >= i + 1
    BY <1>3, <2>3
  <2>4. QED
    BY <1>4, <1>5, <2>1, <2>2, <2>3
<1>8. QED
  BY <1>6, <1>7

(* Decoding meets the kept places in their order, and puts for each what   *)
(* it means.                                                               *)
LEMMA DecodesKept ==
  ASSUME NEW u \in Seq(0..255), NEW E, E = Escapes(u), NEW K, K = Kept(u, E)
  PROVE  /\ DecodeUri(u) \in Seq(0..255) /\ Len(DecodeUri(u)) = Cardinality(K)
         /\ \A j \in K : DecodeUri(u)[UpTo(K, j)] = Meant(u, E, j)
<1> DEFINE N == Len(u)
           C == Cardinality(K)
           B == 0..255
<1>1. N \in Nat /\ N + 3 \in Nat
  BY LenProperties
<1>2. /\ E \in SUBSET (1..N) /\ K \in SUBSET (1..N)
      /\ \A j \in 1..N : j \in K <=> j - 1 \notin E /\ j - 2 \notin E
  BY EscapesExist DEF Kept
<1>3. C \in Nat /\ UpTo(K, 0) = 0 /\ UpTo(K, N) = C
  BY <1>1, <1>2, UpToEnds
<1>4. PICK f : /\ \A i \in 1..(N + 3) : f[i] = StepFrom(u, f, i)
               /\ DecodeUri(u) = f[1]
  BY DecodingIs
<1>5. \A j \in 1..N : u[j] \in B
  BY ElementOfSeq
<1>6. \A x \in B, y \in B : HexValue(x, y) \in B
  BY HexValueIsByte
<1> DEFINE Yields(i) == /\ f[i] \in Seq(B) /\ Len(f[i]) = C - UpTo(K, i - 1)
                        /\ \A j \in K : j >= i =>
                             f[i][UpTo(K, j) - UpTo(K, i - 1)] = Meant(u, E, j)
           T == {n \in Nat : \A i \in K \cup {N + 1} : i > (N + 1) - n => Yields(i)}
<1> HIDE DEF B
<1>7. Yields(N + 1)
  <2>1. f[N + 1] = <<>>
    <3>1. N + 1 \in 1..(N + 3) /\ N + 1 > N
      BY <1>1
    <3>2. f[N + 1] = StepFrom(u, f, N + 1)
      BY <1>4, <3>1
    <3>3. QED
      BY <3>1, <3>2 DEF StepFrom
  <2>2. ~\E j \in K : j >= N + 1
    BY <1>1, <1>2
  <2>3. (N + 1) - 1 = N /\ C - C = 0
    BY <1>1, <1>3
  <2>4. <<>> \in Seq(B) /\ Len(<<>>) = 0
    BY EmptySeq
  <2>5. QED
    BY <1>3, <2>1, <2>2, <2>3, <2>4
<1>8. ASSUME NEW i \in K, Yields(NextKept(E, i)) PROVE Yields(i)
  <2> DEFINE q == NextKept(E, i)
             m == Meant(u, E, i)
             a == UpTo(K, i - 1)
             b == UpTo(K, q - 1)
             h == <<m>>
             r == f[q]
  <2>1. i \in 1..N /\ i \in 1..(N + 3) /\ ~(i > N) /\ i - 1 \in Nat
    BY <1>1, <1>2
  <2>2. /\ q \in K \cup {N + 1} /\ q > i /\ b = a + 1
        /\ \A j \in K : j > i => j >= q
        /\ i \in E <=> u[i] = Percent /\ i + 2 <= N
    BY KeptFollows
  <2>3. f[i] = h \o r
    <3>1. f[i] = StepFrom(u, f, i)
      BY <1>4, <2>1
    <3>2. CASE i \in E
      BY <2>1, <2>2, <3>1, <3>2 DEF StepFrom, NextKept, Meant
    <3>3. CASE i \notin E
      BY <2>1, <2>2, <3>1, <3>3 DEF StepFrom, NextKept, Meant
    <3>4. QED
      BY <3>2, <3>3
  <2>4. m \in B
    <3>1. CASE i \in E
      <4>1. i + 1 \in 1..N /\ i + 2 \in 1..N
        BY <1>1, <2>1, <2>2, <3>1
      <4>2. QED
        BY <1>5, <1>6, <3>1, <4>1 DEF Meant
    <3>2. QED
      BY <1>5, <2>1, <3>1 DEF Meant
  <2>5. /\ r \in Seq(B) /\ Len(r) = C - b
        /\ \A j \in K : j >= q => r[UpTo(K, j) - b] = Meant(u, E, j)
    BY <1>8
  <2>6. a \in Nat /\ UpTo(K, i) = a + 1
    BY <1>1, <1>2, UpToMember
  <2>7. h \in Seq(B) /\ Len(h) = 1 /\ h[1] = m
    <3> HIDE DEF m
    <3>1. QED
      BY <2>4
  <2> HIDE DEF m, h, r, q, a, b
  <2>8. /\ f[i] \in Seq(B) /\ Len(f[i]) = 1 + Len(r) /\ f[i][1] = m
        /\ \A k \in 1..Len(r) : f[i][1 + k] = r[k]
    <3>1. Len(r) \in Nat
      BY <2>5, LenProperties
    <3>2. \A k \in 1..Len(r) : /\ 1 + k \in 1..(Len(h) + Len(r))
                              /\ ~(1 + k <= Len(h)) /\ (1 + k) - Len(h) = k
      BY <2>7, <3>1
    <3>3. 1 \in 1..(Len(h) + Len(r)) /\ 1 <= Len(h)
      BY <2>7, <3>1
    <3> DEFINE hr == h \o r
    <3>4. /\ hr \in Seq(B) /\ Len(hr) = Len(h) + Len(r)
          /\ \A k \in 1..(Len(h) + Len(r)) : hr[k] = IF k <= Len(h) THEN h[k] ELSE r[k - Len(h)]
      BY <2>5, <2>7, ConcatProperties
    <3> HIDE DEF hr
    <3>5. hr[1] = m /\ Len(hr) = 1 + Len(r)
      BY <2>7, <3>3, <3>4
    <3>6. ASSUME NEW k \in 1..Len(r) PROVE hr[1 + k] = r[k]
      BY <3>2, <3>4
    <3>7. QED
      BY <2>3, <3>4, <3>5, <3>6 DEF hr
  <2>9. ASSUME NEW j \in K, j >= i PROVE f[i][UpTo(K, j) - a] = Meant(u, E, j)
    <3>1. CASE j = i
      <4>1. UpTo(K, j) - a = 1
        BY <2>6, <3>1
      <4>2. QED
        BY <2>8, <3>1, <4>1 DEF m
    <3>2. CASE j # i
      <4>1. j \in Nat /\ j <= N /\ j > i /\ j >= q /\ q - 1 \in Nat /\ i \in Nat
        BY <1>1, <1>2, <2>1, <2>2, <2>9, <3>2
      <4>2. UpTo(K, j) \in Nat /\ UpTo(K, j) <= C /\ UpTo(K, i) <= UpTo(K, j - 1)
        <5>1. i <= j - 1 /\ j - 1 \in Nat
          BY <4>1
        <5>2. UpTo(K, j) \in Nat
          BY <1>1, <1>2, <4>1, UpToNext
        <5>3. UpTo(K, j) <= UpTo(K, N)
          BY <1>1, <1>2, <4>1, UpToGrows
        <5>4. UpTo(K, i) <= UpTo(K, j - 1)
          BY <1>1, <1>2, <4>1, <5>1, UpToGrows
        <5>5. QED
          BY <1>3, <5>2, <5>3, <5>4
      <4>3. UpTo(K, j) = UpTo(K, j - 1) + 1 /\ UpTo(K, j - 1) \in Nat
        BY <1>1, <1>2, UpToMember
      <4>4. UpTo(K, j) - b \in 1..Len(r) /\ UpTo(K, j) - a = 1 + (UpTo(K, j) - b)
        BY <1>3, <2>2, <2>5, <2>6, <4>2, <4>3 DEF b, a
      <4>5. r[UpTo(K, j) - b] = Meant(u, E, j)
        BY <2>5, <4>1
      <4>6. QED
        BY <2>8, <4>4, <4>5
    <3>3. QED
      BY <3>1, <3>2
  <2>10. Len(f[i]) = C - a
    BY <1>3, <2>2, <2>5, <2>6, <2>8
  <2>11. QED
    BY <2>8, <2>9, <2>10 DEF a
<1> HIDE DEF Yields
<1>9. 0 \in T
  BY <1>1, <1>2
<1>10. ASSUME NEW n \in Nat, n \in T PROVE n + 1 \in T
  <2>1. SUFFICES ASSUME NEW i \in K \cup {N + 1}, i > (N + 1) - (n + 1) PROVE Yields(i)
    OBVIOUS
  <2>2. CASE i = N + 1
    BY <1>7, <2>2
  <2>3. CASE i # N + 1
    <3>1. i \in K /\ i \in 1..N
      BY <1>2, <2>3
    <3>2. NextKept(E, i) \in K \cup {N + 1} /\ NextKept(E, i) > i
      BY <3>1, KeptFollows
    <3>3. NextKept(E, i) > (N + 1) - n
      BY <1>1, <1>2, <2>1, <3>1, <3>2
    <3>4. QED
      BY <1>8, <1>10, <3>1, <3>2, <3>3
  <2>4. QED
    BY <2>2, <2>3
<1>11. N + 1 \in T
  <2> HIDE DEF T
  <2>1. QED
    BY <1>1, <1>9, <1>10, Induct
<1>12. 1 \in K \cup {N + 1}
  BY <1>1, <1>2
<1>13. Yields(1)
  BY <1>1, <1>11, <1>12
<1>14. /\ f[1] \in Seq(B) /\ Len(f[1]) = C
       /\ \A j \in K : f[1][UpTo(K, j)] = Meant(u, E, j)
  <2>1. 1 - 1 = 0 /\ C - UpTo(K, 1 - 1) = C
    BY <1>3
  <2>2. ASSUME NEW j \in K PROVE j >= 1 /\ UpTo(K, j) - UpTo(K, 1 - 1) = UpTo(K, j)
    <3>1. UpTo(K, j) \in Nat
      <4>1. UpTo(K, j - 1) \in Nat /\ UpTo(K, j) = UpTo(K, j - 1) + 1
        BY <1>1, <1>2, UpToMember
      <4>2. QED
        BY <4>1
    <3>2. QED
      BY <1>2, <1>3, <2>1, <3>1
  <2>3. QED
    BY <1>13, <2>1, <2>2 DEF Yields
<1>15. QED
  BY <1>4, <1>14 DEF B

(* So what decode_uri yields are bytes.                                    *)
LEMMA DecodeUriType ==
  ASSUME NEW uri \in Seq(0..255)
  PROVE  DecodeUri(uri) \in Seq(0..255)
BY DecodesKept

(* decode_uri decodes every escape of a text once, and nothing else.       *)
LEMMA DecodesLikeReference ==
  ASSUME NEW u \in Seq(0..255)
  PROVE  DecodeUri(u) = Reference(u)
<1> DEFINE E == Escapes(u)
           K == Kept(u, E)
           d == DecodeUri(u)
           at(k) == CHOOSE i \in K : UpTo(K, i) = k
<1>1. Len(u) \in Nat /\ K \in SUBSET (1..Len(u))
  BY LenProperties DEF Kept
<1>2. /\ d \in Seq(0..255) /\ Len(d) = Cardinality(K)
      /\ \A j \in K : d[UpTo(K, j)] = Meant(u, E, j)
  BY DecodesKept
<1>3. d = [k \in 1..Cardinality(K) |-> d[k]]
  <2> HIDE DEF d, K
  <2>1. QED
    BY <1>2, LenProperties
<1>4. ASSUME NEW k \in 1..Cardinality(K) PROVE d[k] = Meant(u, E, at(k))
  <2>1. \E i \in K : UpTo(K, i) = k
    BY <1>1, RankExists
  <2>2. at(k) \in K /\ UpTo(K, at(k)) = k
    BY <2>1
  <2>3. QED
    BY <1>2, <2>2
<1>5. Reference(u) = [k \in 1..Cardinality(K) |-> Meant(u, E, at(k))]
  BY DEF Reference
<1> HIDE DEF d, K, at, E
<1>6. d = [k \in 1..Cardinality(K) |-> Meant(u, E, at(k))]
  BY <1>3, <1>4
<1>7. QED
  BY <1>5, <1>6 DEF d
-----------------------------------------------------------------------------
(* cutString cuts at the first separator.                                  *)
LEMMA IndexIs ==
  ASSUME NEW S, NEW s \in Seq(S), NEW c, NEW at \in 1..Len(s),
         s[at] = c, \A i \in 1..(at - 1) : s[i] # c
  PROVE  Index(s, c) = at
<1> DEFINE I == {i \in 1..Len(s) : s[i] = c}
<1>1. Index(s, c) = IF I # {} THEN Min(I) ELSE 0
  BY DEF Index, SelectInSeq
<1>2. Len(s) \in Nat
  BY LenProperties
<1>3. at \in I /\ \A i \in I : at <= i
  BY <1>2
<1>4. \A i \in I : i \in Nat
  BY <1>2
<1> HIDE DEF I
<1>5. Min(I) \in I /\ \A i \in I : Min(I) <= i
  BY <1>3 DEF Min
<1>6. Min(I) = at
  <2>1. Min(I) <= at /\ at <= Min(I) /\ Min(I) \in Nat /\ at \in Nat
    BY <1>2, <1>3, <1>4, <1>5
  <2>2. QED
    BY <2>1
<1>7. QED
  BY <1>1, <1>3, <1>6

(* A text with the separator in it: what is before it and what is after.   *)
LEMMA CutIs ==
  ASSUME NEW S, NEW a \in Seq(S), NEW b \in Seq(S), NEW c \in S,
         \A i \in 1..Len(a) : a[i] # c
  PROVE  Cut((a \o <<c>>) \o b, c) = <<a, b>>
<1> DEFINE h == a \o <<c>>
           s == h \o b
           at == Len(a) + 1
<1>1. Len(a) \in Nat /\ Len(b) \in Nat
  BY LenProperties
<1>2. <<c>> \in Seq(S) /\ Len(<<c>>) = 1 /\ <<c>>[1] = c
  OBVIOUS
<1>3. /\ h \in Seq(S) /\ Len(h) = at /\ h[at] = c
      /\ \A i \in 1..Len(a) : h[i] = a[i]
  BY <1>1, <1>2, ConcatProperties
<1> HIDE DEF h
<1>4. /\ s \in Seq(S) /\ Len(s) = at + Len(b)
      /\ \A i \in 1..at : s[i] = h[i]
      /\ \A i \in 1..Len(b) : s[at + i] = b[i]
  <2>1. /\ s \in Seq(S) /\ Len(s) = Len(h) + Len(b)
        /\ \A i \in 1..(Len(h) + Len(b)) : s[i] = IF i <= Len(h) THEN h[i] ELSE b[i - Len(h)]
    BY <1>3, ConcatProperties
  <2> HIDE DEF s
  <2>2. \A i \in 1..at : s[i] = h[i]
    BY <1>1, <1>3, <2>1
  <2>3. \A i \in 1..Len(b) : s[at + i] = b[i]
    <3>1. SUFFICES ASSUME NEW i \in 1..Len(b) PROVE s[at + i] = b[i]
      OBVIOUS
    <3>2. at + i \in 1..(Len(h) + Len(b)) /\ ~(at + i <= Len(h)) /\ (at + i) - Len(h) = i
      BY <1>1, <1>3
    <3>3. QED
      BY <2>1, <3>2
  <2>4. QED
    BY <1>3, <2>1, <2>2, <2>3
<1> HIDE DEF s
<1>5. at \in 1..Len(s) /\ s[at] = c /\ \A i \in 1..(at - 1) : s[i] # c
  <2>1. at \in 1..Len(s) /\ at \in 1..at /\ 1..(at - 1) = 1..Len(a)
    BY <1>1, <1>4
  <2>2. \A i \in 1..Len(a) : i \in 1..at
    BY <1>1
  <2>3. QED
    BY <1>3, <1>4, <2>1, <2>2
<1>6. Index(s, c) = at
  BY <1>4, <1>5, IndexIs
<1>7. SubSeq(s, 1, at - 1) = a
  <2>1. \A i \in 1..(at - 1) : s[i] \in S
    BY <1>1, <1>4, ElementOfSeq
  <2>2. /\ SubSeq(s, 1, at - 1) \in Seq(S) /\ Len(SubSeq(s, 1, at - 1)) = Len(a)
        /\ \A i \in 1..Len(a) : SubSeq(s, 1, at - 1)[i] = s[i]
    BY <1>1, <2>1, SubSeqProperties
  <2>3. \A i \in 1..Len(a) : s[i] = a[i]
    BY <1>1, <1>3, <1>4
  <2>4. QED
    BY <2>2, <2>3, SeqEqual
<1>8. SubSeq(s, at + 1, Len(s)) = b
  <2>1. \A i \in (at + 1)..Len(s) : s[i] \in S
    BY <1>1, <1>4, ElementOfSeq
  <2>2. /\ SubSeq(s, at + 1, Len(s)) \in Seq(S) /\ Len(SubSeq(s, at + 1, Len(s))) = Len(b)
        /\ \A i \in 1..Len(b) : SubSeq(s, at + 1, Len(s))[i] = s[at + i]
    BY <1>1, <1>4, <2>1, SubSeqProperties
  <2>3. QED
    BY <1>4, <2>2, SeqEqual
<1>9. Cut(s, c) = <<a, b>>
  <2>1. Index(s, c) # 0
    BY <1>1, <1>6
  <2>2. Cut(s, c) = <<SubSeq(s, 1, Index(s, c) - 1), SubSeq(s, Index(s, c) + 1, Len(s))>>
    BY <2>1 DEF Cut
  <2>3. QED
    BY <1>6, <1>7, <1>8, <2>2
<1>10. QED
  BY <1>9 DEF s, h

(* Both of its results are parts of the text.                              *)
LEMMA CutType ==
  ASSUME NEW S, NEW s \in Seq(S), NEW c
  PROVE  Cut(s, c)[1] \in Seq(S) /\ Cut(s, c)[2] \in Seq(S)
<1> DEFINE I == {i \in 1..Len(s) : s[i] = c}
           at == Index(s, c)
<1>1. at = IF I # {} THEN Min(I) ELSE 0
  BY DEF Index, SelectInSeq
<1>2. Len(s) \in Nat
  BY LenProperties
<1>3. at \in 0..Len(s)
  <2>1. SUFFICES ASSUME I # {} PROVE Min(I) \in 1..Len(s)
    BY <1>1, <1>2
  <2>2. I \in SUBSET Nat
    BY <1>2
  <2> HIDE DEF I
  <2>3. PICK m \in I : \A i \in I : m <= i
    BY <2>2, <2>1, LeastOf
  <2>4. Min(I) \in I
    BY <2>3 DEF Min
  <2>5. QED
    BY <2>4 DEF I
<1> HIDE DEF at
<1>4. CASE at = 0
  BY <1>4, EmptySeq DEF Cut, at
<1>5. CASE at # 0
  <2>1. \A i \in 1..Len(s) : s[i] \in S
    BY ElementOfSeq
  <2>2. SubSeq(s, 1, at - 1) \in Seq(S) /\ SubSeq(s, at + 1, Len(s)) \in Seq(S)
    <3>1. \A i \in 1..(at - 1) : s[i] \in S
      BY <1>2, <1>3, <2>1
    <3>2. \A i \in (at + 1)..Len(s) : s[i] \in S
      BY <1>2, <1>3, <2>1
    <3>3. QED
      BY <1>2, <1>3, <3>1, <3>2, SubSeqProperties
  <2>3. Cut(s, c) = <<SubSeq(s, 1, at - 1), SubSeq(s, at + 1, Len(s))>>
    BY <1>5 DEF Cut, at
  <2>4. QED
    BY <2>2, <2>3
<1>6. QED
  BY <1>4, <1>5
-----------------------------------------------------------------------------
(* What the browser leaves as it is, and what escapes are made of.         *)
Plain == Digits \cup (65..90) \cup (97..122) \cup {42, 45, 46, 95}
Safe == Plain \cup {Percent}

(* The two digits of an escape are those of the byte.                      *)
LEMMA EscapeOfByte ==
  ASSUME NEW b \in 0..255
  PROVE  /\ Digit(b \div 16) \in Plain \ {Percent} /\ Digit(b % 16) \in Plain \ {Percent}
         /\ HexValue(Digit(b \div 16), Digit(b % 16)) = b
<1> DEFINE m == b \div 16
           n == b % 16
<1>1. m \in 0..15 /\ n \in 0..15 /\ b = 16 * m + n
  OBVIOUS
<1> HIDE DEF m, n
<1>2. ASSUME NEW k \in 0..15
      PROVE  /\ Digit(k) \in Hex /\ Digit(k) \in Plain \ {Percent}
             /\ Nibble(Digit(k)) = k
  BY DEF Digit, Hex, Digits, Plain, Percent, Nibble
<1>3. HexValue(Digit(m), Digit(n)) = 16 * m + n
  <2>1. HexValue(Digit(m), Digit(n)) = 16 * Nibble(Digit(m)) + Nibble(Digit(n))
    <3>1. Digit(m) \in Hex /\ Digit(n) \in Hex
      BY <1>1, <1>2
    <3>2. Digit(m) \notin Blanks /\ Digit(m) # 43 /\ Digit(m) # 45
      BY <3>1 DEF Hex, Digits, Blanks
    <3>3. QED
      BY <3>1, <3>2 DEF HexValue
  <2>2. QED
    BY <1>1, <1>2, <2>1
<1>4. QED
  BY <1>1, <1>2, <1>3 DEF m, n

(* A byte is one that is left, or an escape.                               *)
LEMMA EscapedIs ==
  ASSUME NEW b \in 0..255
  PROVE  /\ Escaped(b) \in Seq(Safe)
         /\ \/ Escaped(b) = <<b>> /\ Len(Escaped(b)) = 1 /\ b # Percent
            \/ /\ Len(Escaped(b)) = 3 /\ Escaped(b)[1] = Percent
               /\ HexValue(Escaped(b)[2], Escaped(b)[3]) = b
<1>1. CASE b \in Plain
  <2>1. Escaped(b) = <<b>>
    BY <1>1 DEF Escaped, Plain
  <2>2. b \in Safe /\ b # Percent
    BY <1>1 DEF Safe, Plain, Digits, Percent
  <2>3. QED
    BY <2>1, <2>2
<1>2. CASE b \notin Plain
  <2> DEFINE h == Digit(b \div 16)
             l == Digit(b % 16)
  <2>1. Escaped(b) = <<Percent, h, l>>
    BY <1>2 DEF Escaped, Plain
  <2>2. h \in Safe /\ l \in Safe /\ HexValue(h, l) = b /\ Percent \in Safe
    BY EscapeOfByte DEF Safe
  <2> HIDE DEF h, l
  <2>3. QED
    BY <2>1, <2>2
<1>3. QED
  BY <1>1, <1>2

(* Encode in steps: what the first n bytes of s are encoded to.            *)
Partial(s, f) == /\ \A n \in 1..Len(s) : f[n] = f[n - 1] \o Escaped(s[n])
                 /\ f[0] = <<>>

(* What the first i sequences of q make when they are joined.              *)
FlatFrom(q, f, i) == IF i = 1 THEN q[i] ELSE f[i - 1] \o q[i]

(* The joined sequences, too, are the values of a function.                *)
LEMMA EncodingExists ==
  ASSUME NEW S, NEW q \in Seq(S)
  PROVE  \E f : f = [i \in 1..Len(q) |-> FlatFrom(q, f, i)]
<1> DEFINE N == Len(q)
           D == {n \in Nat : \E f : /\ f = [i \in 1..N |-> f[i]]
                                    /\ \A i \in 1..N : i <= n => f[i] = FlatFrom(q, f, i)}
<1>1. N \in Nat
  BY LenProperties
<1>2. 0 \in D
  <2> DEFINE f == [i \in 1..N |-> <<>>]
  <2>1. f = [i \in 1..N |-> f[i]]
    OBVIOUS
  <2>2. \A i \in 1..N : ~(i <= 0)
    BY <1>1
  <2>3. QED
    BY <2>1, <2>2
<1>3. ASSUME NEW n \in Nat, n \in D PROVE n + 1 \in D
  <2>1. PICK f : /\ f = [i \in 1..N |-> f[i]]
                 /\ \A i \in 1..N : i <= n => f[i] = FlatFrom(q, f, i)
    BY <1>3
  <2> DEFINE step == FlatFrom(q, f, n + 1)
             g == [f EXCEPT ![n + 1] = step]
  <2> HIDE DEF step
  <2>2. /\ g = [i \in 1..N |-> g[i]]
        /\ \A i \in 1..N : g[i] = IF i = n + 1 THEN step ELSE f[i]
    BY <2>1
  <2> HIDE DEF g
  <2>3. ASSUME NEW i \in 1..N, i <= n + 1 PROVE FlatFrom(q, g, i) = FlatFrom(q, f, i)
    <3>1. CASE i = 1
      BY <3>1 DEF FlatFrom
    <3>2. CASE i # 1
      <4>1. i - 1 \in 1..N /\ i - 1 # n + 1
        BY <1>1, <2>3, <3>2
      <4>2. g[i - 1] = f[i - 1]
        BY <2>2, <4>1
      <4>3. QED
        BY <3>2, <4>2 DEF FlatFrom
    <3>3. QED
      BY <3>1, <3>2
  <2>4. ASSUME NEW i \in 1..N, i <= n + 1 PROVE g[i] = FlatFrom(q, g, i)
    <3>1. CASE i = n + 1
      BY <2>2, <2>3, <3>1 DEF step
    <3>2. CASE i # n + 1
      <4>1. i <= n
        BY <1>1, <2>4, <3>2
      <4>2. g[i] = f[i] /\ f[i] = FlatFrom(q, f, i)
        BY <2>1, <2>2, <3>2, <4>1
      <4>3. QED
        BY <2>3, <2>4, <4>2
    <3>3. QED
      BY <3>1, <3>2
  <2>5. QED
    BY <2>2, <2>4
<1>4. N \in D
  <2> HIDE DEF D
  <2>1. QED
    BY <1>1, <1>2, <1>3, Induct
<1>5. PICK f : /\ f = [i \in 1..N |-> f[i]]
               /\ \A i \in 1..N : i <= N => f[i] = FlatFrom(q, f, i)
  BY <1>4
<1>6. \A i \in 1..N : f[i] = FlatFrom(q, f, i)
  BY <1>1, <1>5
<1>7. f = [i \in 1..N |-> FlatFrom(q, f, i)]
  BY <1>5, <1>6
<1>8. QED
  BY <1>7

(* Encode(s) is the last of them, when each byte's escape is one.          *)
LEMMA EncodingIs ==
  ASSUME NEW s \in Seq(0..255)
  PROVE  \E f : Partial(s, f) /\ Encode(s) = f[Len(s)]
<1> DEFINE q == [i \in 1..Len(s) |-> Escaped(s[i])]
<1>1. Len(s) \in Nat
  BY LenProperties
<1>2. \A i \in 1..Len(s) : Escaped(s[i]) \in Seq(Safe)
  BY ElementOfSeq, EscapedIs
<1>3. /\ q \in Seq(Seq(Safe)) /\ Len(q) = Len(s)
      /\ \A i \in 1..Len(s) : q[i] = Escaped(s[i]) /\ q[i] \in Seq(Safe)
  BY <1>1, <1>2, IsASeq
<1>4. Encode(s) = FlattenSeq(q)
  BY DEF Encode
<1> HIDE DEF q
<1>5. CASE Len(s) = 0
  <2> DEFINE f == [i \in {0} |-> <<>>]
  <2>1. q = <<>>
    BY <1>3, <1>5, EmptySeq
  <2>2. Encode(s) = <<>>
    BY <1>3, <1>4, <1>5, <2>1 DEF FlattenSeq
  <2>3. Partial(s, f) /\ f[Len(s)] = <<>>
    BY <1>5 DEF Partial
  <2>4. QED
    BY <2>2, <2>3
<1>6. CASE Len(s) # 0
  <2> DEFINE flatten[i \in 1..Len(q)] == IF i = 1 THEN q[i] ELSE flatten[i - 1] \o q[i]
  <2>1. FlattenSeq(q) = flatten[Len(q)]
    BY <1>3, <1>6 DEF FlattenSeq
  <2>2. flatten = CHOOSE f : f = [i \in 1..Len(q) |-> FlatFrom(q, f, i)]
    BY DEF FlatFrom
  <2> HIDE DEF flatten
  <2>3. flatten = [i \in 1..Len(q) |-> FlatFrom(q, flatten, i)]
    BY <1>3, <2>2, EncodingExists
  <2>4. \A i \in 1..Len(s) : flatten[i] = IF i = 1 THEN q[i] ELSE flatten[i - 1] \o q[i]
    BY <1>3, <2>3 DEF FlatFrom
  <2> DEFINE f == [i \in 0..Len(s) |-> IF i = 0 THEN <<>> ELSE flatten[i]]
  <2>5. f[0] = <<>> /\ \A i \in 1..Len(s) : f[i] = flatten[i]
    BY <1>1
  <2> HIDE DEF f
  <2>6. ASSUME NEW i \in 1..Len(s) PROVE f[i] = f[i - 1] \o Escaped(s[i])
    <3>1. CASE i = 1
      <4>1. f[i] = Escaped(s[i]) /\ f[i - 1] = <<>>
        BY <1>3, <2>4, <2>5, <3>1
      <4>2. Escaped(s[i]) \in Seq(Safe)
        BY <1>2
      <4>3. QED
        BY <4>1, <4>2, ConcatEmptySeq
    <3>2. CASE i # 1
      <4>1. i - 1 \in 1..Len(s)
        BY <1>1, <3>2
      <4>2. QED
        BY <1>3, <2>4, <2>5, <3>2, <4>1
    <3>3. QED
      BY <3>1, <3>2
  <2>7. Len(s) \in 1..Len(s)
    BY <1>1, <1>6
  <2>8. Encode(s) = f[Len(s)]
    BY <1>3, <1>4, <2>1, <2>5, <2>7
  <2>9. QED
    BY <2>5, <2>6, <2>8 DEF Partial
<1>7. QED
  BY <1>5, <1>6

(* It is made of what escapes are made of, and only grows.                 *)
LEMMA PartialType ==
  ASSUME NEW s \in Seq(0..255), NEW f, Partial(s, f)
  PROVE  \A n \in 0..Len(s) : f[n] \in Seq(Safe)
<1> DEFINE T == {n \in Nat : n <= Len(s) => f[n] \in Seq(Safe)}
<1>1. Len(s) \in Nat
  BY LenProperties
<1>2. 0 \in T
  BY EmptySeq DEF Partial
<1>3. ASSUME NEW n \in Nat, n \in T PROVE n + 1 \in T
  <2>1. SUFFICES ASSUME n + 1 <= Len(s) PROVE f[n + 1] \in Seq(Safe)
    OBVIOUS
  <2>2. n + 1 \in 1..Len(s) /\ (n + 1) - 1 = n /\ n <= Len(s)
    BY <1>1, <2>1
  <2>3. f[n + 1] = f[n] \o Escaped(s[n + 1])
    BY <2>2 DEF Partial
  <2>4. f[n] \in Seq(Safe) /\ Escaped(s[n + 1]) \in Seq(Safe)
    BY <1>3, <2>2, ElementOfSeq, EscapedIs
  <2>5. QED
    BY <2>3, <2>4, ConcatProperties
<1>4. \A n \in Nat : n \in T
  <2> HIDE DEF T
  <2>1. QED
    BY <1>2, <1>3, Induct
<1>5. QED
  BY <1>1, <1>4

(* Each byte adds its escape to what was there.                            *)
LEMMA PartialStep ==
  ASSUME NEW s \in Seq(0..255), NEW f, Partial(s, f), NEW n \in 1..Len(s)
  PROVE  /\ Len(f[n - 1]) \in Nat /\ Len(Escaped(s[n])) \in Nat
         /\ Len(f[n]) = Len(f[n - 1]) + Len(Escaped(s[n]))
         /\ \A j \in 1..Len(f[n - 1]) : f[n][j] = f[n - 1][j]
         /\ \A j \in 1..Len(Escaped(s[n])) : f[n][Len(f[n - 1]) + j] = Escaped(s[n])[j]
<1> DEFINE a == f[n - 1]
           b == Escaped(s[n])
<1>1. n - 1 \in 0..Len(s) /\ s[n] \in 0..255
  BY LenProperties, ElementOfSeq
<1>2. f[n] = a \o b /\ a \in Seq(Safe) /\ b \in Seq(Safe)
  BY <1>1, PartialType, EscapedIs DEF Partial
<1>3. Len(a) \in Nat /\ Len(b) \in Nat
  BY <1>2, LenProperties
<1> HIDE DEF a, b
<1>4. /\ Len(f[n]) = Len(a) + Len(b)
      /\ \A j \in 1..(Len(a) + Len(b)) : f[n][j] = IF j <= Len(a) THEN a[j] ELSE b[j - Len(a)]
  BY <1>2, ConcatProperties
<1>5. \A j \in 1..Len(a) : f[n][j] = a[j]
  BY <1>3, <1>4
<1>6. ASSUME NEW j \in 1..Len(b) PROVE f[n][Len(a) + j] = b[j]
  <2>1. Len(a) + j \in 1..(Len(a) + Len(b)) /\ ~(Len(a) + j <= Len(a)) /\ (Len(a) + j) - Len(a) = j
    BY <1>3
  <2>2. QED
    BY <1>4, <2>1
<1>7. QED
  BY <1>3, <1>4, <1>5, <1>6 DEF a, b

(* So all of them are the beginning of the whole encoding.                 *)
LEMMA PartialGrows ==
  ASSUME NEW s \in Seq(0..255), NEW f, Partial(s, f), NEW n \in 0..Len(s)
  PROVE  /\ Len(f[n]) \in Nat /\ Len(f[n]) <= Len(f[Len(s)])
         /\ \A j \in 1..Len(f[n]) : f[Len(s)][j] = f[n][j]
<1> DEFINE T == {m \in Nat : n + m <= Len(s) =>
                               /\ Len(f[n + m]) \in Nat /\ Len(f[n]) <= Len(f[n + m])
                               /\ \A j \in 1..Len(f[n]) : f[n + m][j] = f[n][j]}
<1>1. Len(s) \in Nat
  BY LenProperties
<1>2. \A m \in 0..Len(s) : Len(f[m]) \in Nat
  BY PartialType, LenProperties
<1>3. 0 \in T
  <2>1. n + 0 = n /\ Len(f[n]) \in Nat
    BY <1>1, <1>2
  <2>2. QED
    BY <2>1
<1>4. ASSUME NEW m \in Nat, m \in T PROVE m + 1 \in T
  <2>1. SUFFICES ASSUME n + (m + 1) <= Len(s)
                 PROVE  /\ Len(f[n + (m + 1)]) \in Nat /\ Len(f[n]) <= Len(f[n + (m + 1)])
                        /\ \A j \in 1..Len(f[n]) : f[n + (m + 1)][j] = f[n][j]
    OBVIOUS
  <2> DEFINE k == n + (m + 1)
  <2>2. k \in 1..Len(s) /\ k - 1 = n + m /\ n + m <= Len(s)
    BY <1>1, <2>1
  <2>3. /\ Len(f[n + m]) \in Nat /\ Len(f[n]) <= Len(f[n + m])
        /\ \A j \in 1..Len(f[n]) : f[n + m][j] = f[n][j]
    BY <1>4, <2>2
  <2> HIDE DEF k
  <2>4. /\ Len(Escaped(s[k])) \in Nat
        /\ Len(f[k]) = Len(f[n + m]) + Len(Escaped(s[k]))
        /\ \A j \in 1..Len(f[n + m]) : f[k][j] = f[n + m][j]
    <3>1. /\ Len(f[k - 1]) \in Nat /\ Len(Escaped(s[k])) \in Nat
          /\ Len(f[k]) = Len(f[k - 1]) + Len(Escaped(s[k]))
          /\ \A j \in 1..Len(f[k - 1]) : f[k][j] = f[k - 1][j]
          /\ \A j \in 1..Len(Escaped(s[k])) : f[k][Len(f[k - 1]) + j] = Escaped(s[k])[j]
      BY <2>2, PartialStep
    <3>2. QED
      BY <2>2, <3>1
  <2>5. \A j \in 1..Len(f[n]) : j \in 1..Len(f[n + m])
    BY <1>2, <2>3
  <2>6. Len(f[k]) \in Nat /\ Len(f[n]) <= Len(f[k])
    <3>1. Len(f[n]) \in Nat
      BY <1>2
    <3> DEFINE p == Len(f[n + m])
               q == Len(Escaped(s[k]))
    <3>2. p \in Nat /\ q \in Nat /\ Len(f[k]) = p + q /\ Len(f[n]) <= p
      BY <2>3, <2>4
    <3> HIDE DEF p, q
    <3>3. QED
      BY <3>1, <3>2
  <2>7. QED
    BY <2>3, <2>4, <2>5, <2>6 DEF k
<1>5. Len(s) - n \in T
  <2> HIDE DEF T
  <2>1. QED
    BY <1>1, <1>3, <1>4, Induct
<1>6. n + (Len(s) - n) = Len(s)
  BY <1>1
<1>7. QED
  BY <1>1, <1>2, <1>5, <1>6
-----------------------------------------------------------------------------
(* decode_uri undoes what the browser's encoding does, whatever the bytes. *)
LEMMA DecodeEncode ==
  ASSUME NEW s \in Seq(0..255)
  PROVE  Encode(s) \in Seq(Safe) /\ DecodeUri(Encode(s)) = s
<1> DEFINE e == Encode(s)
           L == Len(s)
<1>1. L \in Nat
  BY LenProperties
<1>2. PICK f : Partial(s, f) /\ e = f[L]
  BY EncodingIs
<1>3. e \in Seq(Safe) /\ Len(e) \in Nat
  BY <1>1, <1>2, PartialType, LenProperties
<1> HIDE DEF e
<1>4. PICK g : /\ \A i \in 1..(Len(e) + 3) : g[i] = StepFrom(e, g, i)
               /\ DecodeUri(e) = g[1]
  BY <1>3, DecodingIs
(* Behind what n bytes are encoded to, the bytes after them are decoded.   *)
<1> DEFINE Rest(n) == SubSeq(s, n + 1, L)
           T == {m \in Nat : m <= L => g[Len(f[L - m]) + 1] = Rest(L - m)}
<1>5. 0 \in T
  <2>1. g[Len(e) + 1] = <<>>
    <3>1. Len(e) + 1 \in 1..(Len(e) + 3) /\ Len(e) + 1 > Len(e)
      BY <1>3
    <3>2. g[Len(e) + 1] = StepFrom(e, g, Len(e) + 1)
      BY <1>4, <3>1
    <3>3. QED
      BY <3>1, <3>2 DEF StepFrom
  <2>2. Rest(L) = <<>>
    BY <1>1, SubSeqEmpty
  <2>3. L - 0 = L
    BY <1>1
  <2>4. QED
    BY <1>2, <2>1, <2>2, <2>3
<1>6. ASSUME NEW m \in Nat, m \in T PROVE m + 1 \in T
  <2>1. SUFFICES ASSUME m + 1 <= L PROVE g[Len(f[L - (m + 1)]) + 1] = Rest(L - (m + 1))
    OBVIOUS
  <2> DEFINE n == L - m
             at == Len(f[n - 1]) + 1
             b == s[n]
  <2>2. n \in 1..L /\ n \in 0..L /\ n - 1 \in 0..L /\ L - (m + 1) = n - 1
    BY <1>1, <2>1
  <2>3. g[Len(f[n]) + 1] = Rest(n)
    BY <1>1, <1>6, <2>1
  <2> HIDE DEF n
  <2>4. b \in 0..255
    BY <2>2, ElementOfSeq
  <2>5. /\ Len(f[n - 1]) \in Nat /\ Len(Escaped(b)) \in Nat
        /\ Len(f[n]) = Len(f[n - 1]) + Len(Escaped(b))
        /\ \A j \in 1..Len(Escaped(b)) : f[n][Len(f[n - 1]) + j] = Escaped(b)[j]
    BY <1>2, <2>2, PartialStep
  <2>6. Len(f[n]) <= Len(e) /\ \A j \in 1..Len(f[n]) : e[j] = f[n][j]
    BY <1>2, <2>2, PartialGrows
  <2>7. \A j \in 1..Len(Escaped(b)) : e[Len(f[n - 1]) + j] = Escaped(b)[j]
    <3> DEFINE p == Len(f[n - 1])
               q == Len(Escaped(b))
    <3>1. p \in Nat /\ q \in Nat /\ Len(f[n]) = p + q
      BY <2>5
    <3> HIDE DEF p, q
    <3>2. ASSUME NEW j \in 1..q PROVE p + j \in 1..Len(f[n])
      BY <3>1
    <3>3. QED
      BY <2>5, <2>6, <3>2 DEF p, q
  <2>8. Rest(n - 1) = <<b>> \o Rest(n)
    <3>1. \A i \in n..L : s[i] \in 0..255
      BY <1>1, <2>2, ElementOfSeq
    <3>2. (n - 1) + 1 = n /\ n <= L
      BY <2>2
    <3>3. SubSeq(s, n, L) = <<s[n]>> \o SubSeq(s, n + 1, L)
      BY <1>1, <2>2, <3>1, <3>2, SubSeqRecursiveFirst
    <3>4. QED
      BY <3>2, <3>3
  <2> HIDE DEF b
  <2>9. at \in 1..Len(e) /\ g[at] = StepFrom(e, g, at) /\ ~(at > Len(e))
    <3>1. Len(Escaped(b)) >= 1
      <4>1. \/ Len(Escaped(b)) = 1
            \/ Len(Escaped(b)) = 3
        BY <2>4, EscapedIs
      <4>2. QED
        BY <4>1
    <3>2. at \in 1..Len(e)
      BY <1>3, <2>5, <2>6, <3>1
    <3>3. QED
      BY <1>3, <1>4, <3>2
  <2>10. g[at] = <<b>> \o g[Len(f[n]) + 1]
    <3>1. CASE Escaped(b) = <<b>> /\ Len(Escaped(b)) = 1 /\ b # Percent
      <4>1. e[at] = b /\ at + 1 = Len(f[n]) + 1
        BY <2>5, <2>7, <3>1
      <4>2. QED
        BY <2>9, <3>1, <4>1 DEF StepFrom
    <3>2. CASE /\ Len(Escaped(b)) = 3 /\ Escaped(b)[1] = Percent
               /\ HexValue(Escaped(b)[2], Escaped(b)[3]) = b
      <4>1. /\ at + 3 = Len(f[n]) + 1 /\ at + 2 <= Len(e)
            /\ Len(f[n - 1]) + 1 = at /\ Len(f[n - 1]) + 2 = at + 1 /\ Len(f[n - 1]) + 3 = at + 2
        BY <1>3, <2>5, <2>6, <3>2
      <4>2. e[at] = Percent /\ e[at + 1] = Escaped(b)[2] /\ e[at + 2] = Escaped(b)[3]
        BY <2>7, <3>2, <4>1
      <4>3. HexValue(e[at + 1], e[at + 2]) = b
        BY <3>2, <4>2
      <4>4. QED
        BY <2>9, <4>1, <4>2, <4>3 DEF StepFrom
    <3>3. QED
      BY <2>4, <3>1, <3>2, EscapedIs
  <2>11. QED
    BY <2>2, <2>3, <2>8, <2>10
<1>7. L \in T
  <2> HIDE DEF T
  <2>1. QED
    BY <1>1, <1>5, <1>6, Induct
<1>8. g[1] = Rest(0)
  <2>1. L - L = 0 /\ f[0] = <<>> /\ Len(<<>>) + 1 = 1
    BY <1>1, <1>2, EmptySeq DEF Partial
  <2>2. QED
    BY <1>1, <1>7, <2>1
<1>9. Rest(0) = s
  BY SubSeqFull
<1>10. QED
  BY <1>3, <1>4, <1>8, <1>9 DEF e

(* A tuple is its first element, followed by the others.                   *)
LEMMA TupleJoin ==
  ASSUME NEW a, NEW b, NEW c
  PROVE  <<a>> \o <<b>> = <<a, b>> /\ <<a>> \o <<b, c>> = <<a, b, c>>
<1> DEFINE S == {a, b, c}
<1>1. /\ <<a>> \in Seq(S) /\ <<b>> \in Seq(S) /\ <<b, c>> \in Seq(S)
      /\ <<a, b>> \in Seq(S) /\ <<a, b, c>> \in Seq(S)
  OBVIOUS
<1>2. /\ Len(<<a>>) = 1 /\ Len(<<b>>) = 1 /\ Len(<<b, c>>) = 2
      /\ Len(<<a, b>>) = 2 /\ Len(<<a, b, c>>) = 3
  OBVIOUS
<1> DEFINE x == <<a>>
           y == <<b>>
           z == <<b, c>>
           xy == <<a, b>>
           xz == <<a, b, c>>
<1>3. /\ x[1] = a /\ y[1] = b /\ z[1] = b /\ z[2] = c
      /\ xy[1] = a /\ xy[2] = b /\ xz[1] = a /\ xz[2] = b /\ xz[3] = c
  OBVIOUS
<1> HIDE DEF S, x, y, z, xy, xz
<1>4. x \o y = xy
  <2>1. /\ x \o y \in Seq(S) /\ Len(x \o y) = 2
        /\ \A i \in 1..2 : (x \o y)[i] = IF i <= 1 THEN x[i] ELSE y[i - 1]
    BY <1>1, <1>2, ConcatProperties DEF x, y
  <2>2. (x \o y)[1] = a /\ (x \o y)[2] = b
    BY <1>3, <2>1
  <2>3. \A i \in 1..2 : (x \o y)[i] = xy[i]
    <3>1. SUFFICES ASSUME NEW i \in 1..2 PROVE (x \o y)[i] = xy[i]
      OBVIOUS
    <3>2. i = 1 \/ i = 2
      OBVIOUS
    <3>3. QED
      BY <1>3, <2>2, <3>2
  <2>4. xy \in Seq(S) /\ Len(xy) = 2
    BY <1>1, <1>2 DEF xy
  <2>5. QED
    BY <2>1, <2>3, <2>4, SeqEqual
<1>5. x \o z = xz
  <2>1. /\ x \o z \in Seq(S) /\ Len(x \o z) = 3
        /\ \A i \in 1..3 : (x \o z)[i] = IF i <= 1 THEN x[i] ELSE z[i - 1]
    BY <1>1, <1>2, ConcatProperties DEF x, z
  <2>2. (x \o z)[1] = a /\ (x \o z)[2] = b /\ (x \o z)[3] = c
    BY <1>3, <2>1
  <2>3. \A i \in 1..3 : (x \o z)[i] = xz[i]
    <3>1. SUFFICES ASSUME NEW i \in 1..3 PROVE (x \o z)[i] = xz[i]
      OBVIOUS
    <3>2. i = 1 \/ i = 2 \/ i = 3
      OBVIOUS
    <3>3. QED
      BY <1>3, <2>2, <3>2
  <2>4. xz \in Seq(S) /\ Len(xz) = 3
    BY <1>1, <1>2 DEF xz
  <2>5. QED
    BY <2>1, <2>3, <2>4, SeqEqual
<1>6. QED
  BY <1>4, <1>5 DEF x, y, z, xy, xz

(* "k=v", and "i=u&p=v": how cutString takes them apart, when u has no     *)
(* separator.                                                              *)
OneField(k, e, v) == <<k, e>> \o v
BothFields(i, e, u, a, p, v) == <<i, e>> \o u \o <<a, p, e>> \o v

LEMMA TwoFields ==
  ASSUME NEW S, NEW i \in S, NEW p \in S, NEW e \in S, NEW a \in S,
         i # a, e # a, i # e, p # e,
         NEW u \in Seq(S), NEW v \in Seq(S), \A k \in 1..Len(u) : u[k] # a
  PROVE  /\ BothFields(i, e, u, a, p, v) \in Seq(S)
         /\ Cut(BothFields(i, e, u, a, p, v), a) = <<OneField(i, e, u), OneField(p, e, v)>>
         /\ Cut(OneField(i, e, u), e) = <<<<i>>, u>>
         /\ Cut(OneField(p, e, v), e) = <<<<p>>, v>>
<1> DEFINE first == <<i, e>>
           second == <<a, p, e>>
           pe == <<p, e>>
           amp == <<a>>
           l == first \o u
           r == pe \o v
<1>1. /\ first \in Seq(S) /\ pe \in Seq(S) /\ amp \in Seq(S)
      /\ Len(first) = 2 /\ first[1] = i /\ first[2] = e
  OBVIOUS
<1>2. second = amp \o pe
  BY TupleJoin
<1>3. Cut(l, e) = <<<<i>>, u>>
  <2>1. <<i>> \in Seq(S) /\ \A k \in 1..Len(<<i>>) : <<i>>[k] # e
    OBVIOUS
  <2>2. Cut((<<i>> \o <<e>>) \o u, e) = <<<<i>>, u>>
    BY <2>1, CutIs
  <2>3. QED
    BY <2>2, TupleJoin
<1>4. Cut(r, e) = <<<<p>>, v>>
  <2>1. <<p>> \in Seq(S) /\ \A k \in 1..Len(<<p>>) : <<p>>[k] # e
    OBVIOUS
  <2>2. Cut((<<p>> \o <<e>>) \o v, e) = <<<<p>>, v>>
    BY <2>1, CutIs
  <2>3. QED
    BY <2>2, TupleJoin
<1>5. l \in Seq(S) /\ r \in Seq(S) /\ second \in Seq(S)
  <2> HIDE DEF first, second, pe, amp
  <2>1. QED
    BY <1>1, <1>2, ConcatProperties
<1>6. (l \o second) \o v = (l \o amp) \o r
  <2> DEFINE Join(x, y) == x \o y
  <2>1. ASSUME NEW x \in Seq(S), NEW y \in Seq(S) PROVE Join(x, y) \in Seq(S)
    BY ConcatProperties
  <2>2. ASSUME NEW x \in Seq(S), NEW y \in Seq(S), NEW z \in Seq(S)
        PROVE  Join(Join(x, y), z) = Join(x, Join(y, z))
    BY ConcatAssociative
  <2> HIDE DEF Join, l, first, second, pe, amp
  <2>3. l \in Seq(S) /\ amp \in Seq(S) /\ pe \in Seq(S)
    BY <1>1, <1>5
  <2>4. Join(Join(l, Join(amp, pe)), v) = Join(Join(l, amp), Join(pe, v))
    BY <2>1, <2>2, <2>3
  <2>5. (l \o (amp \o pe)) \o v = (l \o amp) \o (pe \o v)
    BY <2>4 DEF Join
  <2>6. QED
    BY <1>2, <2>5
<1> HIDE DEF first, second, pe, amp
<1>7. \A k \in 1..Len(l) : l[k] # a
  <2>1. Len(u) \in Nat
    BY LenProperties
  <2>2. /\ Len(l) = 2 + Len(u)
        /\ \A k \in 1..(2 + Len(u)) : l[k] = IF k <= 2 THEN first[k] ELSE u[k - 2]
    <3>1. first \in Seq(S) /\ Len(first) = 2
      BY <1>1
    <3>2. /\ Len(first \o u) = Len(first) + Len(u)
          /\ \A k \in 1..(Len(first) + Len(u)) :
               (first \o u)[k] = IF k <= Len(first) THEN first[k] ELSE u[k - Len(first)]
      BY <3>1, ConcatProperties
    <3>3. QED
      BY <3>1, <3>2
  <2> HIDE DEF l
  <2>3. SUFFICES ASSUME NEW k \in 1..(2 + Len(u)) PROVE l[k] # a
    BY <2>2
  <2>4. CASE k <= 2
    BY <1>1, <2>2, <2>4
  <2>5. CASE ~(k <= 2)
    <3>1. k - 2 \in 1..Len(u) /\ l[k] = u[k - 2]
      BY <2>1, <2>2, <2>5
    <3>2. QED
      BY <3>1
  <2>6. QED
    BY <2>4, <2>5
<1> HIDE DEF l, r
<1>8. Cut((l \o <<a>>) \o r, a) = <<l, r>>
  BY <1>5, <1>7, CutIs
<1>9. (l \o second) \o v \in Seq(S)
  BY <1>1, <1>5, ConcatProperties
<1>10. QED
  BY <1>3, <1>4, <1>6, <1>8, <1>9 DEF first, second, pe, amp, l, r, OneField, BothFields

(* The programs find in a form what the user typed: cutString finds the    *)
(* separators, as no encoded text has one, and decode_uri does the rest.   *)
LEMMA FormIsRead ==
  ASSUME NEW form \in Seq(0..255) \X Seq(0..255)
  PROVE  /\ FormText(form) \in Seq(0..255)
         /\ RowOf(FormText(form)) = <<form[1], Encode(form[2])>>
<1> DEFINE name == Encode(form[1])
           pass == Encode(form[2])
<1>1. \A b \in Safe : b \in 0..255 /\ b # Amp
  BY DEF Safe, Plain, Digits, Percent, Amp
<1>2. name \in Seq(Safe) /\ pass \in Seq(Safe) /\ DecodeUri(name) = form[1]
  BY DecodeEncode
<1> HIDE DEF name, pass
<1>3. name \in Seq(0..255) /\ pass \in Seq(0..255)
  <2>1. Seq(Safe) \subseteq Seq(0..255)
    BY <1>1, SeqMonotonic
  <2>2. QED
    BY <1>2, <2>1
<1>4. \A k \in 1..Len(name) : name[k] # Amp
  BY <1>1, <1>2, ElementOfSeq
<1> DEFINE l == OneField(105, Equal, name)
           r == OneField(112, Equal, pass)
           t == BothFields(105, Equal, name, Amp, 112, pass)
<1>5. /\ t \in Seq(0..255) /\ Cut(t, Amp) = <<l, r>>
      /\ Cut(l, Equal) = <<<<105>>, name>> /\ Cut(r, Equal) = <<<<112>>, pass>>
  <2>1. 105 \in 0..255 /\ 112 \in 0..255 /\ Amp \in 0..255 /\ Equal \in 0..255
    BY DEF Amp, Equal
  <2>2. 105 # Amp /\ Equal # Amp /\ 105 # Equal /\ 112 # Equal
    BY DEF Amp, Equal
  <2> DEFINE B == 0..255
             i == 105
             p == 112
  <2>3. i \in B /\ p \in B /\ Amp \in B /\ Equal \in B
    BY <2>1
  <2>4. i # Amp /\ Equal # Amp /\ i # Equal /\ p # Equal
    BY <2>2
  <2>5. name \in Seq(B) /\ pass \in Seq(B)
    BY <1>3
  <2> HIDE DEF B, i, p
  <2>6. /\ BothFields(i, Equal, name, Amp, p, pass) \in Seq(B)
        /\ Cut(BothFields(i, Equal, name, Amp, p, pass), Amp) =
             <<OneField(i, Equal, name), OneField(p, Equal, pass)>>
        /\ Cut(OneField(i, Equal, name), Equal) = <<<<i>>, name>>
        /\ Cut(OneField(p, Equal, pass), Equal) = <<<<p>>, pass>>
    BY <1>4, <2>3, <2>4, <2>5, TwoFields
  <2>7. QED
    BY <2>6 DEF B, i, p
<1>6. FormText(form) = t
  BY DEF FormText, BothFields, name, pass
<1> HIDE DEF l, r, t
<1>7. Values(t) = <<name, pass>>
  BY <1>5 DEF Values
<1>8. RowOf(t) = <<form[1], pass>>
  BY <1>2, <1>7 DEF RowOf
<1>9. QED
  BY <1>5, <1>6, <1>8 DEF pass

(* Whatever a program was passed, what it would store is a row.            *)
LEMMA RowType ==
  ASSUME NEW p \in Seq(0..255)
  PROVE  RowOf(p) \in Seq(0..255) \X Seq(0..255) /\ RowOf(p) # NoRow
<1>1. Cut(p, Amp)[1] \in Seq(0..255) /\ Cut(p, Amp)[2] \in Seq(0..255)
  BY CutType
<1>2. Values(p)[1] \in Seq(0..255) /\ Values(p)[2] \in Seq(0..255)
  BY <1>1, CutType DEF Values
<1>3. DecodeUri(Values(p)[1]) \in Seq(0..255)
  BY <1>2, DecodeUriType
<1>4. QED
  BY <1>2, <1>3 DEF RowOf, NoRow
=============================================================================
