----------------------------- MODULE DataLemmas -----------------------------
(***************************************************************************)
(* Facts about data that the proofs of several components need.  Lists     *)
(* that hold nothing twice, as struct QsApp and struct QsStream keep their *)
(* controllers and filters, and stacks of calls: what an append, the       *)
(* removal of one element and a pop leave.  Sets of naturals: that they    *)
(* have a least element, and from it induction, for sets.                  *)
(***************************************************************************)
EXTENDS Integers, Sequences, SequencesExt, Functions, FiniteSets, FiniteSetsExt,
        TLAPS, SequenceTheorems, FiniteSetTheorems

\* In a list that holds nothing twice an element has one place.
LEMMA PlaceFacts ==
  ASSUME NEW s, IsInjective(s), NEW i \in DOMAIN s
  PROVE  (CHOOSE j \in DOMAIN s : s[j] = s[i]) = i
<1> DEFINE P(j) == j \in DOMAIN s /\ s[j] = s[i]
<1>1. \A j : P(j) => j = i
  BY DEF IsInjective
<1>2. P(i)
  OBVIOUS
<1>3. P(CHOOSE j : P(j))
  BY <1>2
<1> QED
  BY <1>1, <1>3

\* Append() puts one element behind the others.
LEMMA AppendedList ==
  ASSUME NEW S, NEW s \in Seq(S), NEW x \in S
  PROVE  /\ Append(s, x) \in Seq(S)
         /\ DOMAIN Append(s, x) = 1 .. Len(s) + 1
         /\ Len(Append(s, x)) = Len(s) + 1
         /\ \A i \in DOMAIN s : Append(s, x)[i] = s[i]
         /\ Append(s, x)[Len(s) + 1] = x
         /\ Last(Append(s, x)) = x
         /\ ToSet(Append(s, x)) = ToSet(s) \cup {x}
<1>1. /\ Append(s, x) \in Seq(S) /\ Len(Append(s, x)) = Len(s) + 1
      /\ \A i \in 1 .. Len(s) : Append(s, x)[i] = s[i]
      /\ Append(s, x)[Len(s) + 1] = x
  BY AppendProperties
<1>2. Len(s) \in Nat /\ DOMAIN s = 1 .. Len(s)
      /\ DOMAIN Append(s, x) = 1 .. Len(s) + 1
  BY <1>1, LenProperties
<1>3. ToSet(Append(s, x)) = ToSet(s) \cup {x}
  BY <1>1, <1>2 DEF ToSet
<1> QED
  BY <1>1, <1>2, <1>3 DEF Last

LEMMA AppendedOnce ==
  ASSUME NEW S, NEW s \in Seq(S), NEW x \in S, IsInjective(s), x \notin ToSet(s)
  PROVE  IsInjective(Append(s, x))
<1>1. /\ DOMAIN Append(s, x) = 1 .. Len(s) + 1
      /\ \A i \in DOMAIN s : Append(s, x)[i] = s[i]
      /\ Append(s, x)[Len(s) + 1] = x
  BY AppendedList
<1>2. Len(s) \in Nat /\ DOMAIN s = 1 .. Len(s)
  BY LenProperties
<1> QED
  BY <1>1, <1>2 DEF IsInjective, ToSet

\* RemoveAt() takes one element out and closes the gap.
LEMMA RemovedAt ==
  ASSUME NEW S, NEW s \in Seq(S), NEW i \in DOMAIN s
  PROVE  /\ RemoveAt(s, i) \in Seq(S)
         /\ DOMAIN RemoveAt(s, i) = 1 .. Len(s) - 1
         /\ Len(RemoveAt(s, i)) = Len(s) - 1
         /\ \A j \in 1 .. Len(s) - 1 :
              RemoveAt(s, i)[j] = IF j < i THEN s[j] ELSE s[j + 1]
<1> DEFINE a == SubSeq(s, 1, i - 1)
           b == SubSeq(s, i + 1, Len(s))
<1>1. Len(s) \in Nat /\ DOMAIN s = 1 .. Len(s) /\ \A j \in 1 .. Len(s) : s[j] \in S
  BY LenProperties, ElementOfSeq
<1>2. /\ a \in Seq(S) /\ Len(a) = i - 1
      /\ \A j \in 1 .. i - 1 : a[j] = s[j]
  <2>1. i - 1 \in Int /\ \A j \in 1 .. i - 1 : s[j] \in S
    BY <1>1
  <2>2. /\ SubSeq(s, 1, i - 1) \in Seq(S)
        /\ Len(SubSeq(s, 1, i - 1)) = IF 1 <= i - 1 THEN (i - 1) - 1 + 1 ELSE 0
        /\ \A j \in 1 .. (i - 1) - 1 + 1 : SubSeq(s, 1, i - 1)[j] = s[1 + j - 1]
    BY <2>1, SubSeqProperties
  <2> QED
    BY <1>1, <2>2
<1>3. /\ b \in Seq(S) /\ Len(b) = Len(s) - i
      /\ \A j \in 1 .. Len(s) - i : b[j] = s[i + j]
  <2>1. i + 1 \in Int /\ Len(s) \in Int /\ \A j \in i + 1 .. Len(s) : s[j] \in S
    BY <1>1
  <2>2. /\ SubSeq(s, i + 1, Len(s)) \in Seq(S)
        /\ Len(SubSeq(s, i + 1, Len(s))) =
             IF i + 1 <= Len(s) THEN Len(s) - (i + 1) + 1 ELSE 0
        /\ \A j \in 1 .. Len(s) - (i + 1) + 1 :
             SubSeq(s, i + 1, Len(s))[j] = s[(i + 1) + j - 1]
    BY <2>1, SubSeqProperties
  <2>3. Len(s) - (i + 1) + 1 = Len(s) - i /\ Len(b) = Len(s) - i
    BY <1>1, <2>2
  <2>4. ASSUME NEW j \in 1 .. Len(s) - i PROVE b[j] = s[i + j]
    <3>1. (i + 1) + j - 1 = i + j
      BY <1>1
    <3> QED
      BY <2>2, <2>3, <3>1
  <2> QED
    BY <2>2, <2>3, <2>4
<1> HIDE DEF a, b
<1>4. /\ a \o b \in Seq(S) /\ Len(a \o b) = Len(a) + Len(b)
      /\ \A j \in 1 .. Len(a) + Len(b) :
           (a \o b)[j] = IF j <= Len(a) THEN a[j] ELSE b[j - Len(a)]
  BY <1>2, <1>3, ConcatProperties
<1>5. RemoveAt(s, i) = a \o b
  BY DEF RemoveAt, a, b
<1>6. Len(a) + Len(b) = Len(s) - 1
  BY <1>1, <1>2, <1>3
<1>7. ASSUME NEW j \in 1 .. Len(s) - 1
      PROVE  (a \o b)[j] = IF j < i THEN s[j] ELSE s[j + 1]
  <2>1. CASE j < i
    <3>1. j \in 1 .. i - 1 /\ j <= Len(a)
      BY <1>1, <1>2, <2>1
    <3> QED
      BY <1>2, <1>4, <1>6, <2>1, <3>1
  <2>2. CASE ~(j < i)
    <3>1. j - (i - 1) \in 1 .. Len(s) - i /\ i + (j - (i - 1)) = j + 1 /\ ~(j <= Len(a))
      BY <1>1, <1>2, <2>2
    <3>2. (a \o b)[j] = b[j - (i - 1)]
      BY <1>2, <1>4, <1>6, <3>1
    <3> QED
      BY <1>3, <2>2, <3>1, <3>2
  <2> QED
    BY <2>1, <2>2
<1>8. DOMAIN (a \o b) = 1 .. Len(s) - 1
  BY <1>4, <1>6, LenProperties
<1> QED
  BY <1>4, <1>5, <1>6, <1>7, <1>8

\* The others stay, each once and in their order: the place of an element
\* moves down by one if it was behind the one that goes.
LEMMA RemovedOnce ==
  ASSUME NEW S, NEW s \in Seq(S), NEW i \in DOMAIN s, IsInjective(s)
  PROVE  /\ IsInjective(RemoveAt(s, i))
         /\ ToSet(RemoveAt(s, i)) = ToSet(s) \ {s[i]}
<1> DEFINE r == RemoveAt(s, i)
<1>1. /\ DOMAIN r = 1 .. Len(s) - 1
      /\ \A j \in 1 .. Len(s) - 1 : r[j] = IF j < i THEN s[j] ELSE s[j + 1]
  BY RemovedAt
<1>2. Len(s) \in Nat /\ DOMAIN s = 1 .. Len(s)
  BY LenProperties
<1> HIDE DEF r
<1>3. IsInjective(r)
  <2> SUFFICES ASSUME NEW j \in DOMAIN r, NEW k \in DOMAIN r, r[j] = r[k]
               PROVE  j = k
    BY DEF IsInjective
  <2>1. PICK m \in DOMAIN s : r[j] = s[m] /\ m = IF j < i THEN j ELSE j + 1
    BY <1>1, <1>2
  <2>2. PICK n \in DOMAIN s : r[k] = s[n] /\ n = IF k < i THEN k ELSE k + 1
    BY <1>1, <1>2
  <2>3. m = n
    BY <2>1, <2>2 DEF IsInjective
  <2> QED
    BY <1>1, <1>2, <2>1, <2>2, <2>3
<1>4. ASSUME NEW x \in ToSet(r)
      PROVE  x \in ToSet(s) \ {s[i]}
  <2>1. PICK j \in DOMAIN r : x = r[j]
    BY <1>4 DEF ToSet
  <2>2. PICK m \in DOMAIN s : r[j] = s[m] /\ m = IF j < i THEN j ELSE j + 1
    BY <1>1, <1>2
  <2>3. m # i
    BY <1>1, <1>2, <2>2
  <2> QED
    BY <2>1, <2>2, <2>3 DEF ToSet, IsInjective
<1>5. ASSUME NEW x \in ToSet(s) \ {s[i]}
      PROVE  x \in ToSet(r)
  <2>1. PICK m \in DOMAIN s : x = s[m] /\ m # i
    BY <1>5 DEF ToSet
  <2>2. PICK j \in DOMAIN r : m = IF j < i THEN j ELSE j + 1
    <3>1. CASE m < i
      <4>1. m \in DOMAIN r
        BY <1>1, <1>2, <3>1
      <4> QED
        BY <3>1, <4>1
    <3>2. CASE ~(m < i)
      <4>1. m - 1 \in DOMAIN r /\ ~(m - 1 < i) /\ m = (m - 1) + 1
        BY <1>1, <1>2, <2>1, <3>2
      <4> QED
        BY <4>1
    <3> QED
      BY <3>1, <3>2
  <2>3. r[j] = s[m]
    BY <1>1, <2>2
  <2> QED
    BY <2>1, <2>3 DEF ToSet
<1> QED
  BY <1>3, <1>4, <1>5 DEF r

\* Two of the others keep their order.
LEMMA RemovedOrder ==
  ASSUME NEW S, NEW s \in Seq(S), NEW i \in DOMAIN s,
         NEW m \in DOMAIN s \ {i}, NEW n \in DOMAIN s \ {i}, m <= n
  PROVE  \E j, k \in DOMAIN RemoveAt(s, i) :
            j <= k /\ RemoveAt(s, i)[j] = s[m] /\ RemoveAt(s, i)[k] = s[n]
<1> DEFINE r == RemoveAt(s, i)
           down(x) == IF x < i THEN x ELSE x - 1
<1>1. /\ DOMAIN r = 1 .. Len(s) - 1
      /\ \A j \in 1 .. Len(s) - 1 : r[j] = IF j < i THEN s[j] ELSE s[j + 1]
  BY RemovedAt
<1>2. Len(s) \in Nat /\ DOMAIN s = 1 .. Len(s)
  BY LenProperties
<1> HIDE DEF r
<1>3. ASSUME NEW x \in DOMAIN s \ {i}
      PROVE  down(x) \in DOMAIN r /\ r[down(x)] = s[x]
  BY <1>1, <1>2
<1>4. down(m) <= down(n)
  BY <1>2
<1> QED
  BY <1>3, <1>4 DEF r

\* Front() takes the last element off.
LEMMA PoppedList ==
  ASSUME NEW S, NEW s \in Seq(S), s # <<>>
  PROVE  /\ Front(s) \in Seq(S)
         /\ Len(s) \in Nat \ {0} /\ DOMAIN s = 1 .. Len(s)
         /\ Last(s) = s[Len(s)] /\ Last(s) \in S
         /\ DOMAIN Front(s) = 1 .. Len(s) - 1
         /\ Len(Front(s)) = Len(s) - 1
         /\ \A i \in 1 .. Len(s) - 1 : Front(s)[i] = s[i]
         /\ Front(s) = <<>> <=> Len(s) = 1
<1>1. Len(s) \in Nat \ {0} /\ DOMAIN s = 1 .. Len(s) /\ \A j \in 1 .. Len(s) : s[j] \in S
  BY LenProperties, ElementOfSeq, EmptySeq
<1>2. Len(s) - 1 \in Int /\ \A j \in 1 .. Len(s) - 1 : s[j] \in S
  BY <1>1
<1>3. /\ SubSeq(s, 1, Len(s) - 1) \in Seq(S)
      /\ Len(SubSeq(s, 1, Len(s) - 1)) =
           IF 1 <= Len(s) - 1 THEN (Len(s) - 1) - 1 + 1 ELSE 0
      /\ \A j \in 1 .. (Len(s) - 1) - 1 + 1 : SubSeq(s, 1, Len(s) - 1)[j] = s[1 + j - 1]
  BY <1>2, SubSeqProperties
<1>4. /\ Front(s) \in Seq(S) /\ Len(Front(s)) = Len(s) - 1
      /\ \A i \in 1 .. Len(s) - 1 : Front(s)[i] = s[i]
  BY <1>1, <1>3 DEF Front
<1>5. DOMAIN Front(s) = 1 .. Len(s) - 1
  BY <1>4, LenProperties
<1>6. Front(s) = <<>> <=> Len(s) = 1
  BY <1>1, <1>4, EmptySeq
<1> QED
  BY <1>1, <1>4, <1>5, <1>6 DEF Last

-----------------------------------------------------------------------------
\* A set of naturals has a least element: the intervals that end in it are
\* finite, and so one of them has no other below it.
LEMMA LeastNatural ==
  ASSUME NEW S \in SUBSET Nat, S # {}
  PROVE  \E m \in S : \A n \in S : m <= n
<1> DEFINE Upto(n) == 0 .. n
           T == {Upto(n) : n \in S}
           R == StrictSubsetOrdering(Nat)
<1>1. IsWellFoundedOn(R, FiniteSubsetsOf(Nat))
  BY FS_StrictSubsetOrderingWellFounded
<1>2. T \subseteq FiniteSubsetsOf(Nat)
  <2>1. \A n \in S : Upto(n) \in SUBSET Nat /\ IsFiniteSet(Upto(n))
    BY FS_Interval
  <2> HIDE DEF Upto
  <2> QED
    BY <2>1 DEF FiniteSubsetsOf
<1>3. T # {}
  OBVIOUS
<1>4. PICK x \in T : \A y \in T : ~(<<y, x>> \in R)
  <2> HIDE DEF T, R
  <2> QED
    BY <1>1, <1>2, <1>3, WFMin
<1>5. PICK m \in S : x = Upto(m)
  OBVIOUS
<1>6. ASSUME NEW n \in S
      PROVE  m <= n
  <2> SUFFICES ASSUME n < m PROVE FALSE
    OBVIOUS
  <2>1. Upto(n) \in SUBSET Nat /\ Upto(m) \in SUBSET Nat
    OBVIOUS
  <2>2. Upto(n) \subseteq Upto(m) /\ Upto(n) # Upto(m)
    <3>1. m \in Upto(m) /\ m \notin Upto(n)
      OBVIOUS
    <3> QED
      BY <3>1
  <2>3. <<Upto(n), Upto(m)>> \in R
    <3> HIDE DEF Upto
    <3> QED
      BY <2>1, <2>2 DEF StrictSubsetOrdering
  <2> QED
    BY <1>4, <1>5, <2>3
<1> QED
  BY <1>6

\* Min() of a set of naturals is its least element.
LEMMA MinFacts ==
  ASSUME NEW S \in SUBSET Nat, S # {}
  PROVE  Min(S) \in S /\ \A n \in S : Min(S) <= n
<1>1. \E m \in S : \A n \in S : m <= n
  BY LeastNatural
<1> QED
  BY <1>1 DEF Min

\* Induction over the naturals, for a set.
LEMMA SetInduction ==
  ASSUME NEW S, 0 \in S, \A n \in Nat : n \in S => n + 1 \in S
  PROVE  Nat \subseteq S
<1> SUFFICES ASSUME Nat \ S # {} PROVE FALSE
  OBVIOUS
<1>1. PICK m \in Nat \ S : \A n \in Nat \ S : m <= n
  BY LeastNatural
<1>2. m - 1 \in Nat /\ m - 1 \in S /\ m = (m - 1) + 1
  <2>1. m # 0
    BY <1>1
  <2>2. m - 1 \in Nat /\ ~(m <= m - 1)
    BY <2>1
  <2> QED
    BY <1>1, <2>2
<1> QED
  BY <1>1, <1>2

LEMMA UptoInduction ==
  ASSUME NEW S, NEW N \in Nat, 0 \in S, \A n \in 0 .. N - 1 : n \in S => n + 1 \in S
  PROVE  0 .. N \subseteq S
<1> DEFINE T == S \cup {n \in Nat : n > N}
<1>1. \A n \in Nat : n \in T => n + 1 \in T
  OBVIOUS
<1>2. Nat \subseteq T
  <2> HIDE DEF T
  <2>1. 0 \in T
    BY DEF T
  <2> QED
    BY <1>1, <2>1, SetInduction
<1> QED
  BY <1>2

\* Max() of a set of naturals with a bound is its greatest element.
LEMMA MaxFacts ==
  ASSUME NEW S \in SUBSET Nat, S # {}, NEW bound \in Nat, \A n \in S : n <= bound
  PROVE  Max(S) \in S /\ \A n \in S : n <= Max(S)
<1> DEFINE U == {m \in Nat : \A n \in S : n <= m}
<1>1. PICK u \in U : \A m \in U : u <= m
  <2>1. bound \in U
    OBVIOUS
  <2> HIDE DEF U
  <2>2. U \in SUBSET Nat
    BY DEF U
  <2> QED
    BY <2>1, <2>2, LeastNatural
<1>2. u \in S
  <2> SUFFICES ASSUME u \notin S PROVE FALSE
    OBVIOUS
  <2>1. \A n \in S : n < u
    OBVIOUS
  <2>2. u - 1 \in Nat
    <3>1. PICK n \in S : TRUE
      OBVIOUS
    <3>2. n \in Nat /\ n < u /\ u \in Nat
      BY <2>1
    <3> QED
      BY <3>2
  <2>3. u - 1 \in U
    BY <2>1, <2>2
  <2> QED
    BY <1>1, <2>2, <2>3
<1> QED
  BY <1>2 DEF Max

\* What is defined from each natural to the next up to N exists.
LEMMA UptoRecursion ==
  ASSUME NEW V, NEW a \in V, NEW N \in Nat, NEW step \in [1 .. N -> [V -> V]]
  PROVE  \E g \in [0 .. N -> V] : /\ g[0] = a
                                  /\ \A i \in 1 .. N : g[i] = step[i][g[i - 1]]
<1> DEFINE Upto(n) == \E g \in [0 .. n -> V] : /\ g[0] = a
                                               /\ \A i \in 1 .. n : g[i] = step[i][g[i - 1]]
           S == {n \in 0 .. N : Upto(n)}
<1>1. Upto(0)
  <2> DEFINE g == [i \in 0 .. 0 |-> a]
  <2>1. g \in [0 .. 0 -> V] /\ g[0] = a /\ 1 .. 0 = {}
    OBVIOUS
  <2> HIDE DEF g
  <2> QED
    BY <2>1
<1>2. ASSUME NEW n \in 0 .. N - 1, Upto(n)
      PROVE  Upto(n + 1)
  <2>1. PICK g \in [0 .. n -> V] : g[0] = a /\ \A i \in 1 .. n : g[i] = step[i][g[i - 1]]
    BY <1>2
  <2> DEFINE h == [i \in 0 .. n + 1 |-> IF i = n + 1 THEN step[n + 1][g[n]] ELSE g[i]]
  <2>2. step[n + 1][g[n]] \in V
    <3>1. n + 1 \in 1 .. N /\ n \in 0 .. n
      OBVIOUS
    <3> QED
      BY <3>1
  <2>3. \A i \in 0 .. n + 1 : i # n + 1 => i \in 0 .. n
    OBVIOUS
  <2>4. h \in [0 .. n + 1 -> V]
    BY <2>2, <2>3
  <2>5. h[0] = a
    BY <2>1
  <2>6. ASSUME NEW i \in 1 .. n + 1 PROVE h[i] = step[i][h[i - 1]]
    <3>1. CASE i = n + 1
      BY <3>1
    <3>2. CASE i # n + 1
      <4>1. i \in 1 .. n /\ i - 1 \in 0 .. n /\ i - 1 # n + 1 /\ i \in 0 .. n + 1 /\ i - 1 \in 0 .. n + 1
        BY <3>2
      <4> QED
        BY <2>1, <3>2, <4>1
    <3> QED
      BY <3>1, <3>2
  <2> HIDE DEF h
  <2> QED
    BY <2>4, <2>5, <2>6
<1> HIDE DEF Upto
<1>3. 0 .. N \subseteq S
  <2>1. 0 \in S
    BY <1>1
  <2>2. \A n \in 0 .. N - 1 : n \in S => n + 1 \in S
    BY <1>2
  <2> HIDE DEF S
  <2> QED
    BY <2>1, <2>2, UptoInduction
<1>4. Upto(N)
  BY <1>3
<1> QED
  BY <1>4 DEF Upto

\* g starts with a and goes on by step, and is in V up to N.
Stepwise(g, V, a, N, step) ==
  /\ g \in [0 .. N -> V]
  /\ g[0] = a
  /\ \A i \in 1 .. N : g[i] = step[i][g[i - 1]]

LEMMA StepwiseExists ==
  \A V, a, N, step :
    a \in V /\ N \in Nat /\ step \in [1 .. N -> [V -> V]] => \E g : Stepwise(g, V, a, N, step)
<1> SUFFICES ASSUME NEW V, NEW a \in V, NEW N \in Nat, NEW step \in [1 .. N -> [V -> V]]
             PROVE  \E g : Stepwise(g, V, a, N, step)
  OBVIOUS
<1>1. PICK g \in [0 .. N -> V] : g[0] = a /\ \A i \in 1 .. N : g[i] = step[i][g[i - 1]]
  BY UptoRecursion
<1> QED
  BY <1>1 DEF Stepwise

\* A function takes no more values than it has arguments, and as many only if
\* it takes each once.
LEMMA ImageSize ==
  ASSUME NEW S, IsFiniteSet(S), NEW T, NEW f \in [S -> T]
  PROVE  /\ IsFiniteSet(Range(f)) /\ Cardinality(Range(f)) <= Cardinality(S)
         /\ Cardinality(Range(f)) = Cardinality(S) <=> IsInjective(f)
<1>1. f \in Surjection(S, Range(f))
  BY DEF Surjection, Range
<1>2. f \in Injection(S, Range(f)) <=> IsInjective(f)
  BY DEF Injection, Range
<1> QED
  BY <1>1, <1>2, FS_Surjection

\* R is a strict total order of S.
Orders(R, S) ==
  /\ \A x \in S : <<x, x>> \notin R
  /\ \A x, y, z \in S : <<x, y>> \in R /\ <<y, z>> \in R => <<x, z>> \in R
  /\ \A x, y \in S : x = y \/ <<x, y>> \in R \/ <<y, x>> \in R

\* The members of a finite set can be listed in any order of them.
LEMMA OrderedList ==
  ASSUME NEW S, IsFiniteSet(S), NEW R, Orders(R, S)
  PROVE  \E q \in [1 .. Cardinality(S) -> S] :
            \A i, j \in DOMAIN q : i < j => <<q[i], q[j]>> \in R
<1> USE DEF Orders
<1> DEFINE n == Cardinality(S)
           Below(x) == {y \in S : y = x \/ <<y, x>> \in R}
           rank == [x \in S |-> Cardinality(Below(x))]
<1>1. n \in Nat
  BY FS_CardinalityType
<1>2. \A x \in S : IsFiniteSet(Below(x)) /\ Cardinality(Below(x)) \in 1 .. n
  <2> SUFFICES ASSUME NEW x \in S PROVE IsFiniteSet(Below(x)) /\ Cardinality(Below(x)) \in 1 .. n
    OBVIOUS
  <2>1. Below(x) \in SUBSET S /\ x \in Below(x)
    OBVIOUS
  <2> HIDE DEF Below
  <2>2. IsFiniteSet(Below(x)) /\ Cardinality(Below(x)) <= Cardinality(S)
    BY <2>1, FS_Subset
  <2>3. Cardinality(Below(x)) \in Nat /\ Cardinality(Below(x)) # 0
    BY <2>1, <2>2, FS_CardinalityType, FS_EmptySet
  <2> QED
    BY <1>1, <2>2, <2>3
<1>3. ASSUME NEW x \in S, NEW y \in S, <<x, y>> \in R
      PROVE  Cardinality(Below(x)) < Cardinality(Below(y))
  <2>1. Below(x) \in SUBSET Below(y) /\ y \in Below(y) /\ y \notin Below(x)
    <3>1. x # y /\ <<y, x>> \notin R
      BY <1>3
    <3> QED
      BY <1>3, <3>1
  <2>2. IsFiniteSet(Below(y)) /\ IsFiniteSet(Below(x))
        /\ Cardinality(Below(x)) \in Nat /\ Cardinality(Below(y)) \in Nat
    BY <1>2
  <2> HIDE DEF Below
  <2>3. Cardinality(Below(x)) <= Cardinality(Below(y))
    BY <2>1, <2>2, FS_Subset
  <2>4. Cardinality(Below(y)) # Cardinality(Below(x))
    BY <2>1, <2>2, FS_Subset
  <2> QED
    BY <2>2, <2>3, <2>4
<1>4. rank \in [S -> 1 .. n]
  BY <1>2
<1>5. \A x, y \in S : <<x, y>> \in R => rank[x] < rank[y]
  BY <1>3
<1> HIDE DEF rank
<1>6. rank \in Surjection(S, 1 .. n)
  <2>1. IsInjective(rank)
    <3> SUFFICES ASSUME NEW x \in S, NEW y \in S, rank[x] = rank[y] PROVE x = y
      BY <1>4 DEF IsInjective
    <3>1. rank[x] \in Nat /\ rank[y] \in Nat
      BY <1>4
    <3>2. ~(rank[x] < rank[y]) /\ ~(rank[y] < rank[x])
      BY <3>1
    <3>3. <<x, y>> \notin R /\ <<y, x>> \notin R
      BY <1>5, <3>2
    <3>4. x = y \/ <<x, y>> \in R \/ <<y, x>> \in R
      OBVIOUS
    <3> QED
      BY <3>3, <3>4
  <2>2. IsFiniteSet(1 .. n) /\ Cardinality(1 .. n) = n
    BY <1>1, FS_Interval
  <2>3. rank \in Injection(S, 1 .. n)
    BY <1>4, <2>1 DEF Injection
  <2> QED
    BY <2>2, <2>3, FS_Injection
<1> DEFINE q == [k \in 1 .. n |-> CHOOSE x \in S : rank[x] = k]
<1>7. \A k \in 1 .. n : q[k] \in S /\ rank[q[k]] = k
  BY <1>6 DEF Surjection
<1>8. q \in [1 .. n -> S]
  BY <1>7
<1> HIDE DEF q
<1>9. ASSUME NEW i \in 1 .. n, NEW j \in 1 .. n, i < j
      PROVE  <<q[i], q[j]>> \in R
  <2>1. i \in Nat /\ j \in Nat
    BY <1>1
  <2>2. q[i] \in S /\ q[j] \in S /\ rank[q[i]] = i /\ rank[q[j]] = j
    BY <1>7
  <2>3. q[i] # q[j]
    BY <1>9, <2>1, <2>2
  <2>4. <<q[j], q[i]>> \notin R
    BY <1>5, <1>9, <2>1, <2>2
  <2> QED
    BY <2>2, <2>3, <2>4
<1> QED
  BY <1>8, <1>9

\* The members of a finite set of naturals can be listed in their order.
LEMMA IncreasingList ==
  ASSUME NEW S \in SUBSET Nat, IsFiniteSet(S)
  PROVE  \E q \in [1 .. Cardinality(S) -> S] : \A i, j \in DOMAIN q : i < j => q[i] < q[j]
<1> DEFINE R == {p \in Nat \X Nat : p[1] < p[2]}
<1>1. \A x, y \in Nat : <<x, y>> \in R <=> x < y
  OBVIOUS
<1> HIDE DEF R
<1>2. Orders(R, S)
  <2>1. \A x \in S : x \in Nat
    OBVIOUS
  <2> QED
    BY <1>1, <2>1 DEF Orders
<1>3. PICK q \in [1 .. Cardinality(S) -> S] : \A i, j \in DOMAIN q : i < j => <<q[i], q[j]>> \in R
  BY <1>2, OrderedList
<1>4. \A i, j \in DOMAIN q : i < j => q[i] < q[j]
  <2>1. \A i \in DOMAIN q : q[i] \in Nat
    OBVIOUS
  <2> QED
    BY <1>1, <1>3, <2>1
<1> QED
  BY <1>4

-----------------------------------------------------------------------------
\* Two lists, one behind the other.
LEMMA JoinedLists ==
  ASSUME NEW S, NEW a \in Seq(S), NEW b \in Seq(S)
  PROVE  /\ a \o b \in Seq(S) /\ Len(a \o b) = Len(a) + Len(b)
         /\ DOMAIN (a \o b) = 1 .. Len(a) + Len(b)
         /\ \A i \in 1 .. Len(a) : (a \o b)[i] = a[i]
         /\ \A i \in 1 .. Len(b) : (a \o b)[Len(a) + i] = b[i]
         /\ \A i \in 1 .. Len(a) + Len(b) :
              i \notin 1 .. Len(a) => i - Len(a) \in 1 .. Len(b) /\ (a \o b)[i] = b[i - Len(a)]
         /\ Range(a \o b) = Range(a) \cup Range(b)
<1> DEFINE r == a \o b
           m == Len(a)
           n == Len(b)
<1>1. m \in Nat /\ n \in Nat /\ DOMAIN a = 1 .. m /\ DOMAIN b = 1 .. n
  BY LenProperties
<1>2. /\ r \in Seq(S) /\ Len(r) = m + n
      /\ \A i \in 1 .. m + n : r[i] = IF i <= m THEN a[i] ELSE b[i - m]
  BY ConcatProperties
<1>3. DOMAIN r = 1 .. m + n
  <2> HIDE DEF r, m, n
  <2> QED
    BY <1>2, LenProperties
<1> HIDE DEF r, m, n
<1>4. ASSUME NEW i \in 1 .. m PROVE i \in 1 .. m + n /\ r[i] = a[i]
  BY <1>1, <1>2
<1>5. ASSUME NEW i \in 1 .. n PROVE m + i \in 1 .. m + n /\ r[m + i] = b[i]
  <2>1. PICK j \in 1 .. m + n : j = m + i /\ ~(j <= m) /\ j - m = i
    BY <1>1
  <2>2. r[j] = b[j - m]
    BY <1>2, <2>1
  <2> QED
    BY <2>1, <2>2
<1>6. ASSUME NEW i \in 1 .. m + n, i \notin 1 .. m
      PROVE  i - m \in 1 .. n /\ r[i] = b[i - m]
  <2>1. i - m \in 1 .. n /\ ~(i <= m)
    BY <1>1, <1>6
  <2> QED
    BY <1>2, <2>1
<1>7. Range(r) = Range(a) \cup Range(b)
  <2>1. ASSUME NEW i \in 1 .. m + n PROVE r[i] \in Range(a) \cup Range(b)
    BY <1>1, <1>4, <1>6 DEF Range
  <2>2. ASSUME NEW i \in 1 .. m PROVE a[i] \in Range(r)
    BY <1>3, <1>4 DEF Range
  <2>3. ASSUME NEW i \in 1 .. n PROVE b[i] \in Range(r)
    BY <1>3, <1>5 DEF Range
  <2>4. Range(r) \subseteq Range(a) \cup Range(b)
    BY <1>3, <2>1 DEF Range
  <2>5. Range(a) \subseteq Range(r) /\ Range(b) \subseteq Range(r)
    BY <1>1, <2>2, <2>3 DEF Range
  <2> QED
    BY <2>4, <2>5
<1> QED
  BY <1>2, <1>3, <1>4, <1>5, <1>6, <1>7 DEF r, m, n

\* The first h elements of a list.
FirstOnes(r, h) == {r[j] : j \in 1 .. h}

\* r is the first n parts of ss, one behind the other.
Flat(r, S, ss, n) ==
  /\ r \in Seq(S)
  /\ Range(r) = UNION {Range(ss[k]) : k \in 1 .. n}
  /\ \A i \in DOMAIN r : \E m \in 1 .. n :
       r[i] \in Range(ss[m]) /\ \A k \in 1 .. m - 1 : Range(ss[k]) \subseteq FirstOnes(r, i)
  /\ /\ \A k \in 1 .. n : IsInjective(ss[k])
     /\ \A k, m \in 1 .. n : k # m => Range(ss[k]) \cap Range(ss[m]) = {}
     => IsInjective(r)

LEMMA FlatMore ==
  ASSUME NEW S, NEW ss \in Seq(Seq(S)), NEW n \in Nat, n + 1 \in DOMAIN ss,
         NEW r, Flat(r, S, ss, n)
  PROVE  Flat(r \o ss[n + 1], S, ss, n + 1)
<1> DEFINE b == ss[n + 1]
           q == r \o b
           x == Len(r)
           y == Len(b)
<1>1. r \in Seq(S) /\ b \in Seq(S)
  BY ElementOfSeq, LenProperties DEF Flat
<1>2. x \in Nat /\ y \in Nat /\ DOMAIN r = 1 .. x /\ DOMAIN b = 1 .. y
  BY <1>1, LenProperties
<1>3. /\ q \in Seq(S) /\ Len(q) = x + y /\ DOMAIN q = 1 .. x + y
      /\ \A i \in 1 .. x : q[i] = r[i]
      /\ \A i \in 1 .. y : q[x + i] = b[i]
      /\ \A i \in 1 .. x + y : i \notin 1 .. x => i - x \in 1 .. y /\ q[i] = b[i - x]
      /\ Range(q) = Range(r) \cup Range(b)
  BY <1>1, JoinedLists
<1>4. 1 .. n + 1 = (1 .. n) \cup {n + 1}
  OBVIOUS
<1>5. Range(r) = UNION {Range(ss[k]) : k \in 1 .. n}
  BY DEF Flat
<1>6. Range(q) = UNION {Range(ss[k]) : k \in 1 .. n + 1}
  BY <1>3, <1>4, <1>5
<1> HIDE DEF q, x, y
<1>7. ASSUME NEW i \in DOMAIN q
      PROVE  \E m \in 1 .. n + 1 :
               q[i] \in Range(ss[m]) /\ \A k \in 1 .. m - 1 : Range(ss[k]) \subseteq FirstOnes(q, i)
  <2>1. CASE i \in 1 .. x
    <3>1. PICK m \in 1 .. n :
            r[i] \in Range(ss[m]) /\ \A k \in 1 .. m - 1 : Range(ss[k]) \subseteq FirstOnes(r, i)
      BY <1>2, <2>1 DEF Flat
    <3>2. FirstOnes(r, i) = FirstOnes(q, i)
      <4>1. \A j \in 1 .. i : j \in 1 .. x
        BY <1>2, <2>1
      <4>2. \A j \in 1 .. i : q[j] = r[j]
        BY <1>3, <4>1
      <4> QED
        BY <4>2 DEF FirstOnes
    <3>3. m \in 1 .. n + 1 /\ q[i] = r[i]
      BY <1>3, <1>4, <2>1
    <3> QED
      BY <3>1, <3>2, <3>3
  <2>2. CASE i \notin 1 .. x
    <3>1. i - x \in 1 .. y /\ q[i] = b[i - x]
      BY <1>3, <2>2
    <3>2. q[i] \in Range(ss[n + 1])
      BY <1>2, <3>1 DEF Range
    <3>3. ASSUME NEW k \in 1 .. (n + 1) - 1 PROVE Range(ss[k]) \subseteq FirstOnes(q, i)
      <4>1. k \in 1 .. n
        OBVIOUS
      <4>2. Range(ss[k]) \subseteq Range(r)
        BY <1>5, <4>1
      <4>3. \A j \in 1 .. x : j \in 1 .. i /\ q[j] = r[j]
        BY <1>2, <1>3, <2>2
      <4>4. Range(r) \subseteq FirstOnes(q, i)
        BY <1>2, <4>3 DEF Range, FirstOnes
      <4> QED
        BY <4>2, <4>4
    <3> QED
      BY <1>4, <3>2, <3>3
  <2> QED
    BY <2>1, <2>2
<1>8. ASSUME \A k \in 1 .. n + 1 : IsInjective(ss[k]),
             \A k, m \in 1 .. n + 1 : k # m => Range(ss[k]) \cap Range(ss[m]) = {}
      PROVE  IsInjective(q)
  <2>1. IsInjective(r) /\ IsInjective(b)
    BY <1>4, <1>8 DEF Flat
  <2>2. Range(r) \cap Range(b) = {}
    <3>1. \A k \in 1 .. n : k # n + 1
      OBVIOUS
    <3>2. \A k \in 1 .. n : Range(ss[k]) \cap Range(ss[n + 1]) = {}
      BY <1>4, <1>8, <3>1
    <3> HIDE DEF b
    <3>3. Range(r) \cap Range(ss[n + 1]) = {}
      BY <1>5, <3>2
    <3> QED
      BY <3>3 DEF b
  <2> SUFFICES ASSUME NEW i \in DOMAIN q, NEW j \in DOMAIN q, q[i] = q[j] PROVE i = j
    BY DEF IsInjective
  <2>3. ASSUME NEW h \in 1 .. x PROVE q[h] \in Range(r)
    BY <1>2, <1>3 DEF Range
  <2>4. ASSUME NEW h \in DOMAIN q, h \notin 1 .. x PROVE q[h] \in Range(b) /\ h - x \in 1 .. y /\ q[h] = b[h - x]
    BY <1>2, <1>3, <2>4 DEF Range
  <2>5. CASE i \in 1 .. x /\ j \in 1 .. x
    BY <1>2, <1>3, <2>1, <2>5 DEF IsInjective
  <2>6. CASE i \notin 1 .. x /\ j \notin 1 .. x
    <3>1. i - x = j - x
      BY <1>2, <2>1, <2>4, <2>6 DEF IsInjective
    <3>2. i \in Int /\ j \in Int
      BY <1>2, <1>3
    <3> QED
      BY <1>2, <3>1, <3>2
  <2> QED
    BY <2>2, <2>3, <2>4, <2>5, <2>6
<1> QED
  BY <1>3, <1>6, <1>7, <1>8 DEF Flat, q

\* FlattenSeq() puts all parts one behind the other.
LEMMA FlattenFacts ==
  ASSUME NEW S, NEW ss \in Seq(Seq(S))
  PROVE  Flat(FlattenSeq(ss), S, ss, Len(ss))
<1> DEFINE N == Len(ss)
           Is(k) == k = [i \in 1 .. Len(ss) |-> IF i = 1 THEN ss[i] ELSE k[i - 1] \o ss[i]]
           flatten == CHOOSE k : Is(k)
           step == [i \in 1 .. N |-> [r \in Seq(S) |-> r \o ss[i]]]
<1>1. N \in Nat /\ DOMAIN ss = 1 .. N /\ \A i \in 1 .. N : ss[i] \in Seq(S)
  BY LenProperties, ElementOfSeq
<1>2. Flat(<< >>, S, ss, 0)
  <2>1. << >> \in Seq(S) /\ DOMAIN << >> = {} /\ Range(<< >>) = {}
    BY EmptySeq DEF Range
  <2>2. 1 .. 0 = {}
    OBVIOUS
  <2> QED
    BY <2>1, <2>2 DEF Flat, IsInjective
<1>3. CASE N = 0
  <2>1. FlattenSeq(ss) = ss
    BY <1>3 DEF FlattenSeq
  <2>2. ss = << >>
    BY <1>3, EmptySeq
  <2> QED
    BY <1>2, <1>3, <2>1, <2>2
<1>4. CASE N # 0
  <2>1. FlattenSeq(ss) = flatten[N]
    BY <1>4 DEF FlattenSeq
  <2>2. step \in [1 .. N -> [Seq(S) -> Seq(S)]]
    <3>1. \A i \in 1 .. N : \A r \in Seq(S) : r \o ss[i] \in Seq(S)
      BY <1>1, ConcatProperties
    <3> HIDE DEF N
    <3> QED
      BY <3>1
  <2>3. PICK g : Stepwise(g, Seq(S), << >>, N, step)
    <3>1. << >> \in Seq(S)
      BY EmptySeq
    <3> HIDE DEF N, step
    <3> QED
      BY <1>1, <2>2, <3>1, StepwiseExists
  <2>4. /\ g \in [0 .. N -> Seq(S)] /\ g[0] = << >>
        /\ \A i \in 1 .. N : g[i] = g[i - 1] \o ss[i]
    <3>1. \A i \in 1 .. N : i - 1 \in 0 .. N
      BY <1>1
    <3>2. /\ g \in [0 .. N -> Seq(S)] /\ g[0] = << >>
          /\ \A i \in 1 .. N : g[i] = step[i][g[i - 1]]
      BY <2>3 DEF Stepwise
    <3> HIDE DEF N
    <3> QED
      BY <3>1, <3>2
  <2> HIDE DEF N, step
  <2>5. Is([i \in 1 .. N |-> g[i]])
    <3> DEFINE k == [i \in 1 .. N |-> g[i]]
    <3>1. ASSUME NEW i \in 1 .. N PROVE k[i] = IF i = 1 THEN ss[i] ELSE k[i - 1] \o ss[i]
      <4>1. CASE i = 1
        <5>1. 1 - 1 = 0
          OBVIOUS
        <5>2. k[i] = << >> \o ss[i]
          BY <2>4, <4>1, <5>1
        <5> QED
          BY <1>1, <4>1, <5>2, ConcatEmptySeq
      <4>2. CASE i # 1
        <5>1. i - 1 \in 1 .. N
          BY <1>1, <4>2
        <5> QED
          BY <2>4, <4>2, <5>1
      <4> QED
        BY <4>1, <4>2
    <3>2. k = [i \in 1 .. N |-> k[i]]
      OBVIOUS
    <3>3. k = [i \in 1 .. N |-> IF i = 1 THEN ss[i] ELSE k[i - 1] \o ss[i]]
      <4> HIDE DEF k
      <4> QED
        BY <3>1, <3>2
    <3> HIDE DEF k
    <3> QED
      BY <3>3 DEF N, k
  <2>6. Is(flatten)
    <3> HIDE DEF Is
    <3> QED
      BY <2>5
  <2>7. \A i \in 1 .. N : flatten[i] = IF i = 1 THEN ss[i] ELSE flatten[i - 1] \o ss[i]
    <3> HIDE DEF flatten
    <3> QED
      BY <2>6 DEF Is, N
  <2> HIDE DEF flatten
  <2> DEFINE T == {n \in 0 .. N : n = 0 \/ Flat(flatten[n], S, ss, n)}
  <2>8. 0 \in T
    BY <1>1
  <2>9. ASSUME NEW n \in 0 .. N - 1, n \in T PROVE n + 1 \in T
    <3>1. n + 1 \in 1 .. N /\ n \in Nat /\ n + 1 \in 0 .. N
      BY <1>1
    <3>2. CASE n = 0
      <4>1. Flat(<< >> \o ss[n + 1], S, ss, n + 1)
        BY <1>1, <1>2, <3>1, <3>2, FlatMore
      <4>2. << >> \o ss[n + 1] = ss[n + 1] /\ n + 1 = 1
        BY <1>1, <3>1, <3>2, ConcatEmptySeq
      <4>3. flatten[n + 1] = << >> \o ss[n + 1]
        BY <2>7, <3>1, <4>2
      <4> QED
        BY <3>1, <4>1, <4>3
    <3>3. CASE n # 0
      <4>1. flatten[n + 1] = flatten[n] \o ss[n + 1]
        <5>1. n + 1 # 1 /\ (n + 1) - 1 = n
          BY <3>3
        <5> QED
          BY <2>7, <3>1, <5>1
      <4>2. Flat(flatten[n], S, ss, n)
        BY <2>9, <3>3
      <4> QED
        BY <1>1, <3>1, <4>1, <4>2, FlatMore
    <3> QED
      BY <3>2, <3>3
  <2>10. 0 .. N \subseteq T
    <3> HIDE DEF T
    <3> QED
      BY <1>1, <2>8, <2>9, UptoInduction
  <2>11. N \in 0 .. N
    BY <1>1
  <2> QED
    BY <1>4, <2>1, <2>10, <2>11 DEF N
<1> QED
  BY <1>3, <1>4
=============================================================================
