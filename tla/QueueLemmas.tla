---------------------------- MODULE QueueLemmas ----------------------------
(***************************************************************************)
(* The elements of a queue after a push, and after a pop from a queue in   *)
(* which nothing occurs twice: for the queues of ThreadPool and HttpSever. *)
(***************************************************************************)
EXTENDS Integers, Sequences, SequenceTheorems, TLAPS

Elements(q) == {q[i] : i \in 1..Len(q)}
NoRepeat(q) == \A i, j \in 1..Len(q) : q[i] = q[j] => i = j

(* A push adds its element and repeats none that is new.                   *)
LEMMA ElementsAppend ==
  ASSUME NEW S, NEW q \in Seq(S), NEW s \in S
  PROVE  /\ Elements(Append(q, s)) = Elements(q) \cup {s}
         /\ NoRepeat(q) /\ s \notin Elements(q) => NoRepeat(Append(q, s))
<1> DEFINE r == Append(q, s)
<1>1. /\ Len(q) \in Nat
      /\ Len(r) = Len(q) + 1
      /\ r[Len(q) + 1] = s
      /\ \A i \in 1..Len(q) : r[i] = q[i]
  BY AppendProperties, LenProperties
<1>2. Elements(r) = Elements(q) \cup {s}
  <2> HIDE DEF r
  <2>1. ASSUME NEW e \in Elements(r) PROVE e \in Elements(q) \cup {s}
    BY <1>1 DEF Elements
  <2>2. ASSUME NEW e \in Elements(q) PROVE e \in Elements(r)
    BY <1>1 DEF Elements
  <2>3. s \in Elements(r)
    BY <1>1 DEF Elements
  <2>4. QED
    BY <2>1, <2>2, <2>3
<1>3. ASSUME NoRepeat(q), s \notin Elements(q) PROVE NoRepeat(r)
  <2> HIDE DEF r
  <2>1. QED
    BY <1>1, <1>3 DEF NoRepeat, Elements
<1>4. QED
  BY <1>2, <1>3

(* A pop takes the head away.                                              *)
LEMMA ElementsTail ==
  ASSUME NEW S, NEW q \in Seq(S), q # <<>>, NoRepeat(q)
  PROVE  /\ Head(q) \in Elements(q)
         /\ Elements(Tail(q)) = Elements(q) \ {Head(q)}
         /\ NoRepeat(Tail(q))
<1> DEFINE t == Tail(q)
<1>1. /\ Len(q) \in Nat \ {0}
      /\ Head(q) = q[1]
      /\ Len(t) = Len(q) - 1
      /\ \A i \in 1..Len(t) : t[i] = q[i + 1]
  BY HeadTailProperties, EmptySeq, LenProperties
<1> HIDE DEF t
<1>2. Head(q) \in Elements(q)
  BY <1>1 DEF Elements
<1>3. Elements(t) = Elements(q) \ {Head(q)}
  <2>1. ASSUME NEW e \in Elements(t) PROVE e \in Elements(q) \ {Head(q)}
    <3>1. PICK i \in 1..Len(t) : e = t[i]
      BY DEF Elements
    <3>2. i + 1 \in 1..Len(q) /\ e = q[i + 1] /\ 1 \in 1..Len(q) /\ i + 1 # 1
      BY <1>1, <3>1
    <3>3. QED
      BY <1>1, <3>2 DEF Elements, NoRepeat
  <2>2. ASSUME NEW e \in Elements(q), e # Head(q) PROVE e \in Elements(t)
    <3>1. PICK i \in 1..Len(q) : e = q[i]
      BY DEF Elements
    <3>2. i - 1 \in 1..Len(t) /\ t[i - 1] = q[(i - 1) + 1]
      BY <1>1, <2>2, <3>1
    <3>3. e = t[i - 1]
      BY <3>1, <3>2
    <3>4. QED
      BY <3>2, <3>3 DEF Elements
  <2>3. QED
    BY <2>1, <2>2
<1>4. NoRepeat(t)
  BY <1>1 DEF NoRepeat
<1>5. QED
  BY <1>2, <1>3, <1>4 DEF t
=============================================================================
