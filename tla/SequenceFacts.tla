--------------------------- MODULE SequenceFacts ---------------------------
(***************************************************************************)
(* Facts the proofs rest on that are about no module of their own: induction *)
(* stated over a set, the least and the greatest of a set of positions, what *)
(* joining lists and removing a position leave, that a fold over a list is   *)
(* iterated, and that a sum over a finite set does not depend on the order.  *)
(***************************************************************************)
EXTENDS SequencesExt, SequenceTheorems, FiniteSetTheorems, TLAPS

\* A set of numbers that is not empty has a least element.
LEMMA LeastElement ==
    ASSUME NEW T \in SUBSET Nat, T # {}
    PROVE  \E x \in T : \A y \in T : x <= y
<1>1. PICK x \in T : \A y \in T : <<y, x>> \notin OpToRel(<, Nat)
  BY NatLessThanWellFounded, WFMin
<1>2. \A y \in T : ~ (y < x)
  BY <1>1 DEF OpToRel
<1> QED BY <1>2

LEMMA MinFacts ==
    ASSUME NEW T \in SUBSET Nat, T # {}
    PROVE  Min(T) \in T /\ \A y \in T : Min(T) <= y
BY LeastElement DEF Min

\* Induction: a set that holds 0 and, with a number below n, the next one.
LEMMA InductionTo ==
    ASSUME NEW n \in Nat, NEW T, 0 \in T,
           \A k \in Nat : k < n /\ k \in T => k + 1 \in T
    PROVE  \A k \in 0..n : k \in T
<1> DEFINE missed == {k \in 0..n : k \notin T}
<1> SUFFICES ASSUME missed # {} PROVE FALSE
  OBVIOUS
<1>1. missed \in SUBSET Nat
  OBVIOUS
<1>2. PICK x \in missed : \A y \in missed : x <= y
  BY <1>1, LeastElement
<1>3. x \in 0..n /\ x # 0
  BY <1>2
<1>4. x - 1 \in Nat /\ x - 1 < n /\ x - 1 \in 0..n /\ (x - 1) + 1 = x
  BY <1>3
<1>5. x - 1 \in T
  BY <1>2, <1>4
<1> QED BY <1>2, <1>4, <1>5

LEMMA MaxFacts ==
    ASSUME NEW n \in Nat, NEW S \in SUBSET (1..n), S # {}
    PROVE  Max(S) \in S /\ \A y \in S : Max(S) >= y
<1> DEFINE below == {n - y : y \in S}
<1>1. below \in SUBSET Nat /\ below # {}
  OBVIOUS
<1>2. PICK x \in below : \A y \in below : x <= y
  BY <1>1, LeastElement
<1>3. PICK m \in S : x = n - m
  BY <1>2
<1>4. \A y \in S : m >= y
  BY <1>2, <1>3
<1> QED BY <1>4 DEF Max

LEMMA MaxOfInterval ==
    ASSUME NEW k \in Nat
    PROVE  /\ Max(1..(k + 1)) = k + 1
           /\ (1..(k + 1)) \ {k + 1} = 1..k
<1>1. k + 1 \in Nat /\ k + 1 \in 1..(k + 1)
  OBVIOUS
<1>2. Max(1..(k + 1)) \in 1..(k + 1) /\ Max(1..(k + 1)) >= k + 1
  BY <1>1, MaxFacts
<1> QED BY <1>2

----------------------------------------------------------------------------
(* Lists. *)

\* What is where in two lists one after the other.
LEMMA ConcatParts ==
    ASSUME NEW S, NEW s \in Seq(S), NEW t \in Seq(S)
    PROVE  /\ s \o t \in Seq(S)
           /\ Len(s) \in Nat /\ Len(t) \in Nat /\ Len(s \o t) = Len(s) + Len(t)
           /\ \A i \in 1..Len(s) : (s \o t)[i] = s[i]
           /\ \A i \in 1..Len(t) : (s \o t)[Len(s) + i] = t[i]
<1> DEFINE n == Len(s)
           l == Len(t)
<1>1. n \in Nat /\ l \in Nat
  BY LenProperties
<1>2. /\ s \o t \in Seq(S) /\ Len(s \o t) = n + l
      /\ \A i \in 1..(n + l) : (s \o t)[i] = IF i <= n THEN s[i] ELSE t[i - n]
  BY ConcatProperties
<1> HIDE DEF n, l
<1>3. \A i \in 1..n : i \in 1..(n + l) /\ i <= n
  BY <1>1
<1>4. \A i \in 1..l : n + i \in 1..(n + l) /\ ~ (n + i <= n) /\ (n + i) - n = i
  BY <1>1
<1>5. \A i \in 1..n : (s \o t)[i] = s[i]
  BY <1>2, <1>3
<1>6. \A i \in 1..l : (s \o t)[n + i] = t[i]
  BY <1>2, <1>4
<1> QED BY <1>1, <1>2, <1>5, <1>6 DEF n, l

\* A part of a list.
LEMMA PartFacts ==
    ASSUME NEW S, NEW s \in Seq(S), NEW a \in Nat, NEW n \in Nat, a + n <= Len(s)
    PROVE  /\ SubSeq(s, a + 1, a + n) \in Seq(S) /\ Len(SubSeq(s, a + 1, a + n)) = n
           /\ \A i \in 1..n : SubSeq(s, a + 1, a + n)[i] = s[a + i]
<1> DEFINE part == SubSeq(s, a + 1, a + n)
<1>1. Len(s) \in Nat /\ \A i \in 1..Len(s) : s[i] \in S
  BY LenProperties, ElementOfSeq
<1>2. a + 1 \in Int /\ a + n \in Int
  OBVIOUS
<1>3. \A i \in (a + 1)..(a + n) : s[i] \in S
  BY <1>1
<1>4. /\ part \in Seq(S)
      /\ Len(part) = IF a + 1 <= a + n THEN (a + n) - (a + 1) + 1 ELSE 0
      /\ \A i \in 1..((a + n) - (a + 1) + 1) : part[i] = s[(a + 1) + i - 1]
  BY <1>2, <1>3, SubSeqProperties
<1> HIDE DEF part
<1>5. Len(part) = n
  BY <1>4
<1>6. \A i \in 1..n : i \in 1..((a + n) - (a + 1) + 1) /\ (a + 1) + i - 1 = a + i
  OBVIOUS
<1>7. \A i \in 1..n : part[i] = s[a + i]
  BY <1>4, <1>6
<1> QED BY <1>4, <1>5, <1>7 DEF part

\* A list without one of its positions.
LEMMA RemoveAtFacts ==
    ASSUME NEW S, NEW s \in Seq(S), NEW i \in 1..Len(s)
    PROVE  /\ RemoveAt(s, i) \in Seq(S)
           /\ Len(RemoveAt(s, i)) = Len(s) - 1
           /\ \A j \in 1..(Len(s) - 1) :
                RemoveAt(s, i)[j] = IF j < i THEN s[j] ELSE s[j + 1]
<1> DEFINE front == SubSeq(s, 1, i - 1)
           back == SubSeq(s, i + 1, Len(s))
<1>1. Len(s) \in Nat /\ \A k \in 1..Len(s) : s[k] \in S
  BY LenProperties, ElementOfSeq
<1>2. /\ front \in Seq(S) /\ Len(front) = i - 1
      /\ \A k \in 1..(i - 1) : front[k] = s[k]
  BY <1>1, SubSeqProperties
<1>3. /\ back \in Seq(S) /\ Len(back) = Len(s) - i
      /\ \A k \in 1..(Len(s) - i) : back[k] = s[k + i]
  BY <1>1, SubSeqProperties
<1> HIDE DEF front, back
<1>4. /\ front \o back \in Seq(S) /\ Len(front \o back) = Len(s) - 1
      /\ \A j \in 1..(Len(s) - 1) : (front \o back)[j] =
             IF j <= i - 1 THEN front[j] ELSE back[j - (i - 1)]
  <2>1. /\ front \o back \in Seq(S) /\ Len(front \o back) = Len(front) + Len(back)
        /\ \A j \in 1..(Len(front) + Len(back)) : (front \o back)[j] =
               IF j <= Len(front) THEN front[j] ELSE back[j - Len(front)]
    BY <1>2, <1>3, ConcatProperties
  <2>2. Len(front) + Len(back) = Len(s) - 1
    BY <1>1, <1>2, <1>3
  <2> QED BY <1>2, <2>1, <2>2
<1>5. ASSUME NEW j \in 1..(Len(s) - 1)
      PROVE  (front \o back)[j] = IF j < i THEN s[j] ELSE s[j + 1]
  <2>1. CASE j < i
    BY <1>1, <1>2, <1>4, <2>1
  <2>2. CASE ~ (j < i)
    <3>1. j - (i - 1) \in 1..(Len(s) - i) /\ j - (i - 1) + i = j + 1 /\ ~ (j <= i - 1)
      BY <1>1, <2>2
    <3> QED BY <1>3, <1>4, <2>2, <3>1
  <2> QED BY <2>1, <2>2
<1>6. RemoveAt(s, i) = front \o back
  BY DEF RemoveAt, front, back
<1> QED BY <1>4, <1>5, <1>6

\* What was at another position is still there.
LEMMA RemoveAtKeepsOthers ==
    ASSUME NEW S, NEW s \in Seq(S), NEW i \in 1..Len(s), NEW k \in 1..Len(s), k # i
    PROVE  \E j \in 1..(Len(s) - 1) : RemoveAt(s, i)[j] = s[k]
<1>1. Len(s) \in Nat
  BY LenProperties
<1>2. CASE k < i
  <2>1. k \in 1..(Len(s) - 1)
    BY <1>1, <1>2
  <2> QED BY <1>2, <2>1, RemoveAtFacts
<1>3. CASE k > i
  <2>1. k - 1 \in 1..(Len(s) - 1) /\ ~ (k - 1 < i) /\ (k - 1) + 1 = k
    BY <1>1, <1>3
  <2> QED BY <2>1, RemoveAtFacts
<1> QED BY <1>1, <1>2, <1>3

\* Nothing is in it twice that was not.
LEMMA RemoveAtInjective ==
    ASSUME NEW S, NEW s \in Seq(S), NEW i \in 1..Len(s),
           \A j, k \in 1..Len(s) : s[j] = s[k] => j = k
    PROVE  \A j, k \in 1..(Len(s) - 1) : RemoveAt(s, i)[j] = RemoveAt(s, i)[k] => j = k
<1>1. Len(s) \in Nat
  BY LenProperties
<1> SUFFICES ASSUME NEW j \in 1..(Len(s) - 1), NEW k \in 1..(Len(s) - 1),
                    RemoveAt(s, i)[j] = RemoveAt(s, i)[k]
             PROVE  j = k
  OBVIOUS
<1> DEFINE at(n) == IF n < i THEN n ELSE n + 1
<1>2. at(j) \in 1..Len(s) /\ at(k) \in 1..Len(s)
  BY <1>1
<1>3. s[at(j)] = s[at(k)]
  BY RemoveAtFacts
<1>4. at(j) = at(k)
  <2> HIDE DEF at
  <2> QED BY <1>2, <1>3
<1> QED BY <1>1, <1>4

\* A beginning of a list grows by the next position.
LEMMA BeginningGrows ==
    ASSUME NEW S, NEW s \in Seq(S), NEW k \in Nat, k < Len(s)
    PROVE  /\ SubSeq(s, 1, k) \in Seq(S) /\ Len(SubSeq(s, 1, k)) = k
           /\ DOMAIN SubSeq(s, 1, k) = 1..k
           /\ \A i \in 1..k : SubSeq(s, 1, k)[i] = s[i]
           /\ Append(SubSeq(s, 1, k), s[k + 1]) = SubSeq(s, 1, k + 1)
<1>1. Len(s) \in Nat /\ \A i \in 1..Len(s) : s[i] \in S
  BY LenProperties, ElementOfSeq
<1>2. ASSUME NEW n \in Nat, n <= Len(s)
      PROVE  /\ SubSeq(s, 1, n) \in Seq(S) /\ Len(SubSeq(s, 1, n)) = n
             /\ \A i \in 1..n : SubSeq(s, 1, n)[i] = s[i]
  BY <1>1, <1>2, SubSeqProperties
<1> DEFINE a == SubSeq(s, 1, k)
           b == SubSeq(s, 1, k + 1)
<1>3. a \in Seq(S) /\ Len(a) = k /\ \A i \in 1..k : a[i] = s[i]
  BY <1>1, <1>2
<1>4. b \in Seq(S) /\ Len(b) = k + 1 /\ \A i \in 1..(k + 1) : b[i] = s[i]
  <2>1. k + 1 \in Nat /\ k + 1 <= Len(s)
    BY <1>1
  <2> QED BY <1>2, <2>1
<1>5. s[k + 1] \in S
  BY <1>1
<1> HIDE DEF a, b
<1>6. /\ Append(a, s[k + 1]) \in Seq(S) /\ Len(Append(a, s[k + 1])) = k + 1
      /\ \A i \in 1..k : Append(a, s[k + 1])[i] = a[i]
      /\ Append(a, s[k + 1])[k + 1] = s[k + 1]
  BY <1>3, <1>5, AppendProperties
<1>7. \A i \in 1..(k + 1) : Append(a, s[k + 1])[i] = b[i]
  <2>1. \A i \in 1..(k + 1) : i \in 1..k \/ i = k + 1
    OBVIOUS
  <2> QED BY <1>3, <1>4, <1>6, <2>1
<1>8. Append(a, s[k + 1]) = b
  BY <1>4, <1>6, <1>7, SeqEqual
<1> QED BY <1>3, <1>8, LenProperties DEF a, b

\* A set written as a list: each element has its position.
LEMMA SetToSeqFacts ==
    ASSUME NEW S, IsFiniteSet(S)
    PROVE  /\ SetToSeq(S) \in Seq(S) /\ Len(SetToSeq(S)) = Cardinality(S)
           /\ Cardinality(S) \in Nat
           /\ \A x \in S : \E i \in 1..Cardinality(S) : SetToSeq(S)[i] = x
<1> DEFINE n == Cardinality(S)
           list == SetToSeq(S)
<1>1. n \in Nat /\ ExistsBijection(1..n, S)
  BY FS_CardinalityType
<1>2. PICK f \in [1..n -> S] : IsInjective(f)
  BY <1>1 DEF ExistsBijection, Bijection, Injection
<1>3. list \in [1..n -> S] /\ IsInjective(list)
  BY <1>2 DEF SetToSeq
<1>4. list \in Surjection(1..n, S)
  <2>1. list \in Injection(1..n, S)
    BY <1>3 DEF Injection
  <2>2. IsFiniteSet(1..n) /\ Cardinality(1..n) = n
    BY <1>1, FS_Interval
  <2> HIDE DEF n, list
  <2> QED BY <2>1, <2>2, FS_Injection DEF n
<1>5. \A x \in S : \E i \in 1..n : list[i] = x
  BY <1>4 DEF Surjection
<1> HIDE DEF list, n
<1>6. list \in Seq(S) /\ Len(list) = n
  BY <1>1, <1>3
<1> QED BY <1>1, <1>5, <1>6 DEF list, n

----------------------------------------------------------------------------
(* Folds.  FoldLeft chooses a function on the sets of positions; what it is *)
(* to satisfy is satisfiable, so that a fold may be taken step by step.     *)

\* g is a fold over n positions from base, by the steps of next, over the values T.
FoldsBy(g, n, base, next, T) ==
    /\ g \in [SUBSET (1..n) -> T]
    /\ \A s \in SUBSET (1..n) :
         g[s] = IF s = {} THEN base ELSE next[<<Max(s), g[s \ {Max(s)}]>>]

\* The recursion of a fold over n positions has a solution.
LEMMA FoldExists ==
    ASSUME NEW n \in Nat, NEW T, NEW base \in T, NEW next \in [(1..n) \X T -> T]
    PROVE  \E g : FoldsBy(g, n, base, next, T)
<1> DEFINE Solves(m, g) ==
             /\ g \in [SUBSET (1..m) -> T]
             /\ \A s \in SUBSET (1..m) :
                  g[s] = IF s = {} THEN base ELSE next[<<Max(s), g[s \ {Max(s)}]>>]
           solved == {m \in 0..n : \E g : Solves(m, g)}
<1>1. 0 \in solved
  <2> DEFINE g == [s \in SUBSET (1..0) |-> base]
  <2>1. \A s \in SUBSET (1..0) : s = {}
    OBVIOUS
  <2>2. Solves(0, g)
    BY <2>1
  <2>3. 0 \in 0..n
    OBVIOUS
  <2> HIDE DEF g
  <2> QED BY <2>2, <2>3
<1>2. ASSUME NEW m \in Nat, m < n, m \in solved
      PROVE  m + 1 \in solved
  <2>0. m + 1 \in 1..n /\ m + 1 \in 0..n
    <3> HIDE DEF solved
    <3> QED BY <1>2
  <2>1. PICK g : Solves(m, g)
    BY <1>2
  <2> DEFINE h == [s \in SUBSET (1..(m + 1)) |->
                     IF m + 1 \in s THEN next[<<m + 1, g[s \ {m + 1}]>>] ELSE g[s]]
  <2>2. ASSUME NEW s \in SUBSET (1..(m + 1))
        PROVE  /\ h[s] \in T
               /\ h[s] = IF s = {} THEN base ELSE next[<<Max(s), h[s \ {Max(s)}]>>]
    <3>1. CASE m + 1 \in s
      <4>1. Max(s) = m + 1
        <5>1. m + 1 \in Nat /\ s # {}
          BY <3>1
        <5>2. Max(s) \in s /\ \A y \in s : Max(s) >= y
          BY <5>1, MaxFacts
        <5>3. Max(s) \in 1..(m + 1) /\ Max(s) >= m + 1
          BY <3>1, <5>2
        <5> QED BY <5>3
      <4>2. s \ {m + 1} \in SUBSET (1..m) /\ s \ {m + 1} \in SUBSET (1..(m + 1))
        OBVIOUS
      <4>3. g[s \ {m + 1}] \in T /\ h[s \ {m + 1}] = g[s \ {m + 1}]
        BY <2>1, <4>2
      <4>4. <<m + 1, g[s \ {m + 1}]>> \in (1..n) \X T
        <5> HIDE DEF h
        <5> QED BY <2>0, <4>3
      <4>5. h[s] = next[<<m + 1, g[s \ {m + 1}]>>] /\ h[s] \in T
        BY <3>1, <4>4
      <4> HIDE DEF h
      <4> QED BY <3>1, <4>1, <4>3, <4>5
    <3>2. CASE m + 1 \notin s
      <4>1. s \in SUBSET (1..m)
        BY <3>2
      <4>2. h[s] = g[s] /\ h[s] \in T
        BY <2>1, <3>2, <4>1
      <4>3. CASE s = {}
        BY <2>1, <4>1, <4>2, <4>3
      <4>4. CASE s # {}
        <5>1. s \ {Max(s)} \in SUBSET (1..m) /\ m + 1 \notin s \ {Max(s)}
              /\ s \ {Max(s)} \in SUBSET (1..(m + 1))
          BY <3>2, <4>1
        <5>2. h[s \ {Max(s)}] = g[s \ {Max(s)}]
          BY <5>1
        <5>3. g[s] = next[<<Max(s), g[s \ {Max(s)}]>>]
          BY <2>1, <4>1, <4>4
        <5> HIDE DEF h
        <5> QED BY <4>2, <4>4, <5>2, <5>3
      <4> QED BY <4>3, <4>4
    <3> QED BY <3>1, <3>2
  <2>3. h \in [SUBSET (1..(m + 1)) -> T]
    BY <2>2
  <2>4. Solves(m + 1, h)
    <3> HIDE DEF h
    <3> QED BY <2>2, <2>3
  <2> QED BY <2>0, <2>4
<1>3. n \in solved
  <2> HIDE DEF solved
  <2>1. \A k \in Nat : k < n /\ k \in solved => k + 1 \in solved
    BY <1>2
  <2> QED BY <1>1, <2>1, InductionTo
<1> QED BY <1>3 DEF FoldsBy

\* As long as the values are in T, g takes the steps of next.
StepsBy(g, n, base, next, T) ==
    /\ g[{}] = base
    /\ \A s \in SUBSET (1..n) :
         s # {} /\ g[s \ {Max(s)}] \in T => g[s] = next[<<Max(s), g[s \ {Max(s)}]>>]

\* The values on the way to g's result.
Passes(after, g, n, base, next, T) ==
    /\ after \in [0..n -> T]
    /\ after[0] = base /\ after[n] = g[1..n]
    /\ \A k \in Nat : k < n => after[k + 1] = next[<<k + 1, after[k]>>]

\* A solution passes through the positions in their order.
LEMMA FoldIsIterated ==
    ASSUME NEW n \in Nat, NEW T, NEW base \in T, NEW next \in [(1..n) \X T -> T],
           NEW g, StepsBy(g, n, base, next, T)
    PROVE  \E after : Passes(after, g, n, base, next, T)
<1>1. ASSUME NEW k \in Nat, k < n, g[1..k] \in T
      PROVE  g[1..(k + 1)] = next[<<k + 1, g[1..k]>>] /\ g[1..(k + 1)] \in T
  <2>1. 1..(k + 1) \in SUBSET (1..n) /\ 1..(k + 1) # {}
    <3>1. k + 1 <= n /\ 1 \in 1..(k + 1)
      BY <1>1
    <3>2. \A i \in 1..(k + 1) : i \in 1..n
      BY <3>1
    <3> QED BY <3>1, <3>2
  <2>2. Max(1..(k + 1)) = k + 1 /\ (1..(k + 1)) \ {k + 1} = 1..k
    BY MaxOfInterval
  <2>3. g[1..(k + 1)] = next[<<k + 1, g[1..k]>>]
    BY <1>1, <2>1, <2>2 DEF StepsBy
  <2>4. <<k + 1, g[1..k]>> \in (1..n) \X T
    <3>1. k + 1 \in 1..n
      BY <1>1
    <3> QED BY <1>1, <3>1
  <2> QED BY <2>3, <2>4
<1>2. \A k \in 0..n : g[1..k] \in T
  <2> DEFINE within == {k \in 0..n : g[1..k] \in T}
  <2>1. 0 \in within
    <3>1. g[{}] = base /\ 1..0 = {}
      BY DEF StepsBy
    <3> QED BY <3>1
  <2>2. ASSUME NEW k \in Nat, k < n, k \in within
        PROVE  k + 1 \in within
    <3>1. k + 1 \in 0..n
      BY <2>2
    <3> QED BY <1>1, <2>2, <3>1
  <2>3. \A k \in 0..n : k \in within
    <3> HIDE DEF within
    <3> QED BY <2>1, <2>2, InductionTo
  <2> QED BY <2>3
<1> DEFINE after == [k \in 0..n |-> g[1..k]]
<1>3. after \in [0..n -> T] /\ after[0] = base /\ after[n] = g[1..n]
  <2>1. g[{}] = base /\ 1..0 = {}
    BY DEF StepsBy
  <2> QED BY <1>2, <2>1
<1>4. ASSUME NEW k \in Nat, k < n
      PROVE  after[k + 1] = next[<<k + 1, after[k]>>]
  <2>1. k \in 0..n /\ k + 1 \in 0..n
    BY <1>4
  <2> QED BY <1>1, <1>2, <1>4, <2>1
<1> HIDE DEF after
<1> QED BY <1>3, <1>4 DEF Passes

----------------------------------------------------------------------------
(* Sums over a finite set, one element after the other in whichever order   *)
(* they are chosen.                                                         *)

\* Induction: what holds for a set if it holds for it less any one element.
LEMMA InductionOnSubsets ==
    ASSUME NEW S, IsFiniteSet(S), NEW Q,
           \A s \in SUBSET S : (\A x \in s : s \ {x} \in Q) => s \in Q
    PROVE  \A s \in SUBSET S : s \in Q
<1> DEFINE missed == {s \in SUBSET S : s \notin Q}
           sizes == {Cardinality(s) : s \in missed}
<1> SUFFICES ASSUME missed # {} PROVE FALSE
  OBVIOUS
<1>1. \A s \in SUBSET S : IsFiniteSet(s) /\ Cardinality(s) \in Nat
  BY FS_Subset, FS_CardinalityType
<1>2. sizes \in SUBSET Nat /\ sizes # {}
  BY <1>1
<1>3. PICK n \in sizes : \A m \in sizes : n <= m
  <2> HIDE DEF sizes
  <2> QED BY <1>2, LeastElement
<1>4. PICK s \in missed : n = Cardinality(s)
  BY <1>3
<1>5. ASSUME NEW x \in s
      PROVE  s \ {x} \in Q
  <2>1. s \ {x} \in SUBSET S /\ Cardinality(s \ {x}) = Cardinality(s) - 1
    BY <1>1, <1>4, FS_RemoveElement
  <2>2. Cardinality(s) \in Nat /\ ~ (Cardinality(s) <= Cardinality(s) - 1)
    BY <1>1, <1>4
  <2>3. Cardinality(s \ {x}) \notin sizes
    BY <1>3, <1>4, <2>1, <2>2
  <2> QED BY <2>1, <2>3
<1> QED BY <1>4, <1>5

AnyOf(s) == CHOOSE x \in s : TRUE

Plus(h, f, s) == IF s = {} THEN 0 ELSE f[AnyOf(s)] + h[s \ {AnyOf(s)}]

\* h sums f over every subset of S.
Sums(h, f, S) == \A s \in SUBSET S : h[s] = Plus(h, f, s)

LEMMA AnyOfIn ==
    ASSUME NEW s, s # {}
    PROVE  AnyOf(s) \in s
BY DEF AnyOf

LEMMA SumExists ==
    ASSUME NEW S, IsFiniteSet(S), NEW f \in [S -> Int]
    PROVE  \E h \in [SUBSET S -> Int] : Sums(h, f, S)
<1> DEFINE n == Cardinality(S)
           Upto(m, h) == /\ h \in [SUBSET S -> Int]
                         /\ \A s \in SUBSET S : Cardinality(s) <= m => h[s] = Plus(h, f, s)
           solved == {m \in 0..n : \E h : Upto(m, h)}
<1>1. n \in Nat /\ \A s \in SUBSET S : IsFiniteSet(s) /\ Cardinality(s) \in Nat /\ Cardinality(s) <= n
  BY FS_Subset, FS_CardinalityType
<1>2. 0 \in solved
  <2> DEFINE h == [s \in SUBSET S |-> 0]
  <2>1. \A s \in SUBSET S : Cardinality(s) <= 0 => h[s] = Plus(h, f, s)
    BY <1>1, FS_EmptySet DEF Plus
  <2>2. Upto(0, h)
    BY <2>1
  <2> HIDE DEF h, Upto
  <2> QED BY <1>1, <2>2
<1>3. ASSUME NEW m \in Nat, m < n, m \in solved
      PROVE  m + 1 \in solved
  <2>1. PICK h : Upto(m, h)
    BY <1>3
  <2> DEFINE k == [s \in SUBSET S |-> Plus(h, f, s)]
  <2>2. ASSUME NEW s \in SUBSET S
        PROVE  Plus(h, f, s) \in Int
    <3>1. CASE s = {}
      BY <3>1 DEF Plus
    <3>2. CASE s # {}
      <4>1. AnyOf(s) \in S /\ s \ {AnyOf(s)} \in SUBSET S
        BY <3>2, AnyOfIn
      <4>2. f[AnyOf(s)] \in Int /\ h[s \ {AnyOf(s)}] \in Int
        BY <2>1, <4>1
      <4> QED BY <3>2, <4>2 DEF Plus
    <3> QED BY <3>1, <3>2
  <2>3. ASSUME NEW s \in SUBSET S, Cardinality(s) <= m + 1
        PROVE  k[s] = Plus(k, f, s)
    <3>1. CASE s = {}
      BY <3>1 DEF Plus
    <3>2. CASE s # {}
      <4> DEFINE x == AnyOf(s)
                 t == s \ {x}
      <4>1. x \in s /\ t \in SUBSET S
        BY <3>2, AnyOfIn
      <4>2. Cardinality(t) = Cardinality(s) - 1
        BY <1>1, <4>1, FS_RemoveElement
      <4>3. Cardinality(t) <= m
        <5> HIDE DEF t
        <5> QED BY <1>1, <2>3, <4>2
      <4>4. k[t] = h[t]
        BY <2>1, <4>1, <4>3
      <4>5. k[s] = f[x] + h[t] /\ Plus(k, f, s) = f[x] + k[t]
        BY <3>2 DEF Plus
      <4> HIDE DEF k, x, t
      <4> QED BY <4>4, <4>5
    <3> QED BY <3>1, <3>2
  <2>4. k \in [SUBSET S -> Int]
    BY <2>2
  <2>5. Upto(m + 1, k)
    <3> HIDE DEF k
    <3> QED BY <2>3, <2>4
  <2>6. m + 1 \in 0..n
    <3> HIDE DEF n, solved
    <3> QED BY <1>1, <1>3
  <2> HIDE DEF k, Upto
  <2> QED BY <2>5, <2>6
<1>4. n \in solved
  <2> HIDE DEF solved, n
  <2> QED BY <1>1, <1>2, <1>3, InductionTo
<1>5. PICK h : Upto(n, h)
  BY <1>4
<1> QED BY <1>1, <1>5 DEF Sums

LEMMA SumIsInt ==
    ASSUME NEW S, IsFiniteSet(S), NEW f \in [S -> Int], NEW h, Sums(h, f, S)
    PROVE  \A s \in SUBSET S : h[s] \in Int
<1> DEFINE Q == {s \in SUBSET S : h[s] \in Int}
<1>1. ASSUME NEW s \in SUBSET S, \A x \in s : s \ {x} \in Q
      PROVE  s \in Q
  <2>1. CASE s = {}
    <3>1. h[s] = 0 /\ 0 \in Int
      BY <2>1 DEF Sums, Plus
    <3> QED BY <3>1, Zenon
  <2>2. CASE s # {}
    <3>1. AnyOf(s) \in s
      BY <2>2, AnyOfIn
    <3>2. f[AnyOf(s)] \in Int /\ h[s \ {AnyOf(s)}] \in Int
      BY <1>1, <3>1
    <3>3. h[s] = f[AnyOf(s)] + h[s \ {AnyOf(s)}]
      BY <2>2 DEF Sums, Plus
    <3> QED BY <3>2, <3>3
  <2> QED BY <2>1, <2>2
<1>2. \A s \in SUBSET S : s \in Q
  <2> HIDE DEF Q
  <2> QED BY <1>1, InductionOnSubsets
<1> QED BY <1>2

\* Any element may be taken out first.
LEMMA SumLessOne ==
    ASSUME NEW S, IsFiniteSet(S), NEW f \in [S -> Int], NEW h, Sums(h, f, S)
    PROVE  \A s \in SUBSET S : \A x \in s : h[s] = f[x] + h[s \ {x}]
<1> DEFINE Q == {s \in SUBSET S : \A x \in s : h[s] = f[x] + h[s \ {x}]}
<1>1. ASSUME NEW s \in SUBSET S, \A x \in s : s \ {x} \in Q, NEW x \in s
      PROVE  h[s] = f[x] + h[s \ {x}]
  <2> DEFINE y == AnyOf(s)
  <2>1. y \in s /\ h[s] = f[y] + h[s \ {y}]
    BY AnyOfIn DEF Sums, Plus
  <2> HIDE DEF y
  <2>2. CASE x = y
    BY <2>1, <2>2
  <2>3. CASE x # y
    <3> DEFINE r == (s \ {y}) \ {x}
    <3>1. x \in s \ {y} /\ y \in s \ {x} /\ (s \ {x}) \ {y} = r /\ r \in SUBSET S
      BY <2>1, <2>3
    <3>2. h[s \ {y}] = f[x] + h[r]
      BY <1>1, <2>1, <3>1
    <3>3. h[s \ {x}] = f[y] + h[r]
      BY <1>1, <2>1, <3>1
    <3>4. f[x] \in Int /\ f[y] \in Int /\ h[r] \in Int
      BY <2>1, <3>1, SumIsInt
    <3> HIDE DEF r
    <3> QED BY <2>1, <3>2, <3>3, <3>4
  <2> QED BY <2>2, <2>3
<1>2. \A s \in SUBSET S : (\A x \in s : s \ {x} \in Q) => s \in Q
  BY <1>1
<1>3. \A s \in SUBSET S : s \in Q
  <2> HIDE DEF Q
  <2> QED BY <1>2, InductionOnSubsets
<1> QED BY <1>3

\* Sums of the same numbers are the same.
LEMMA SumsAgree ==
    ASSUME NEW U, IsFiniteSet(U), NEW S, NEW T, U \in SUBSET S, U \in SUBSET T,
           NEW f, NEW e, \A x \in U : f[x] = e[x],
           NEW h, NEW k, Sums(h, f, S), Sums(k, e, T)
    PROVE  h[U] = k[U]
<1> DEFINE Q == {s \in SUBSET U : h[s] = k[s]}
<1>1. ASSUME NEW s \in SUBSET U, \A x \in s : s \ {x} \in Q
      PROVE  s \in Q
  <2>1. h[s] = Plus(h, f, s) /\ k[s] = Plus(k, e, s)
    BY DEF Sums
  <2>2. CASE s = {}
    BY <2>1, <2>2 DEF Plus
  <2>3. CASE s # {}
    <3>1. AnyOf(s) \in s
      BY <2>3, AnyOfIn
    <3>2. f[AnyOf(s)] = e[AnyOf(s)] /\ h[s \ {AnyOf(s)}] = k[s \ {AnyOf(s)}]
      BY <1>1, <3>1
    <3> QED BY <2>1, <2>3, <3>2 DEF Plus
  <2> QED BY <2>2, <2>3
<1>2. \A s \in SUBSET U : s \in Q
  <2> HIDE DEF Q
  <2> QED BY <1>1, InductionOnSubsets
<1> QED BY <1>2
=============================================================================
