-------------------------- MODULE RingBufferProofs --------------------------
(***************************************************************************)
(* The pointers and the memory of the ring buffers are right for every     *)
(* graph, with pass-through outputs too, every promise and every page size. *)
(***************************************************************************)
EXTENDS RingBuffer, DataLemmas

-----------------------------------------------------------------------------
(***************************************************************************)
(* Lengths, in the steps of Dataflow.                                      *)
(***************************************************************************)

\* A backlog exceeds its level by less than a write, and is under it as long
\* as the writer writes.
DataInv ==
  /\ readLength \in [Readers -> Nat]
  /\ given \in [Readers -> Nat]
  /\ inCall \subseteq Filters
  /\ \A r \in Readers :
       /\ given[r] <= readLength[r]
       /\ readLength[r] < maxLength[output[r]] + maxWrite[output[r]]
       /\ writer[output[r]] \in inCall => readLength[r] < maxLength[output[r]]

\* What the assumptions say of one reader.
LEMMA ReaderFacts ==
  ASSUME NEW r \in Readers
  PROVE  /\ output[r] \in Outputs
         /\ maxLength[output[r]] \in Nat \ {0} /\ maxWrite[output[r]] \in Nat \ {0}
         /\ maxWrite[output[r]] <= maxLength[output[r]]
         /\ reader[r] # writer[output[r]]
BY GraphAssumption, PromiseAssumption

\* What a call writes and reads at one reader.
LEMMA CallBounds ==
  ASSUME NEW f \in Filters, NEW c \in Calls(f, given), DataInv, NEW r \in Readers
  PROVE  /\ r \in Feeds(f) => /\ c.wrote[output[r]] \in Nat
                              /\ c.wrote[output[r]] <= maxWrite[output[r]]
         /\ r \in Inputs(f) => /\ c.advance[r] \in Nat /\ c.advance[r] <= given[r]
         /\ ~(r \in Feeds(f) /\ r \in Inputs(f))
<1>1. /\ c.advance \in [Inputs(f) -> UNION {0..given[q] : q \in Inputs(f)}]
      /\ c.wrote \in [OutputsOf(f) -> UNION {0..maxWrite[o] : o \in OutputsOf(f)}]
      /\ \A q \in Inputs(f) : c.advance[q] <= given[q]
      /\ \A o \in OutputsOf(f) : c.wrote[o] <= maxWrite[o]
  BY DEF Calls
<1>2. r \in Feeds(f) => output[r] \in OutputsOf(f)
  BY ReaderFacts DEF Feeds, OutputsOf
<1>3. ASSUME NEW o \in OutputsOf(f)
      PROVE  c.wrote[o] \in Nat
  <2>1. PICK p \in OutputsOf(f) : c.wrote[o] \in 0..maxWrite[p]
    BY <1>1
  <2> QED
    BY <2>1, PromiseAssumption DEF OutputsOf
<1>4. ASSUME NEW q \in Inputs(f)
      PROVE  c.advance[q] \in Nat
  <2>1. PICK p \in Inputs(f) : c.advance[q] \in 0..given[p]
    BY <1>1
  <2> QED
    BY <2>1 DEF Inputs, DataInv
<1>5. ~(r \in Feeds(f) /\ r \in Inputs(f))
  BY ReaderFacts DEF Feeds, Inputs
<1> QED
  BY <1>1, <1>2, <1>3, <1>4, <1>5

\* The length at one reader after a call.
LEMMA LengthAfter ==
  ASSUME NEW f \in Filters, NEW c \in Calls(f, given), Return(f, c), DataInv,
         NEW r \in Readers
  PROVE  /\ r \in Feeds(f) => readLength'[r] = readLength[r] + c.wrote[output[r]]
         /\ r \in Inputs(f) => readLength'[r] = readLength[r] - c.advance[r]
         /\ r \notin Feeds(f) \cup Inputs(f) => readLength'[r] = readLength[r]
<1>1. readLength'[r] = readLength[r] + (IF r \in Feeds(f) THEN c.wrote[output[r]] ELSE 0)
                                     - (IF r \in Inputs(f) THEN c.advance[r] ELSE 0)
  BY DEF Return, LengthsAfter
<1>2. readLength[r] \in Nat
  BY DEF DataInv
<1> QED
  BY <1>1, <1>2, CallBounds

LEMMA DataInit == Init => DataInv
BY ReaderFacts DEF Init, DataInv

LEMMA BeginStep ==
  ASSUME DataInv, NEW f \in Filters, Begin(f)
  PROVE  DataInv'
<1>1. /\ inCall' = inCall \cup {f} /\ readLength' = readLength
      /\ given' = [r \in Readers |-> IF r \in Inputs(f) THEN readLength[r] ELSE given[r]]
      /\ OutputsHungry(f, readLength)
  BY DEF Begin, MayBeCalled
<1>2. given' \in [Readers -> Nat]
  BY <1>1 DEF DataInv
<1>3. \A r \in Readers : writer[output[r]] = f => readLength[r] < maxLength[output[r]]
  BY <1>1 DEF OutputsHungry, Feeds
<1>4. \A r \in Readers : given'[r] <= readLength[r]
  BY <1>1 DEF DataInv
<1> QED
  BY <1>1, <1>2, <1>3, <1>4 DEF DataInv

LEMMA EndStep ==
  ASSUME DataInv, NEW f \in inCall, NEW c \in Calls(f, given), Return(f, c)
  PROVE  DataInv'
<1>0. f \in Filters
  BY DEF DataInv
<1>1. \A r \in Readers : readLength[r] \in Nat /\ given[r] \in Nat /\ given[r] <= readLength[r]
  BY DEF DataInv
<1>2. readLength' \in [Readers -> Nat]
  <2>1. ASSUME NEW r \in Readers
        PROVE  readLength'[r] \in Nat
    BY <1>0, <1>1, CallBounds, LengthAfter
  <2>2. readLength' = [r \in Readers |-> readLength'[r]]
    BY DEF Return, LengthsAfter
  <2> QED
    BY <2>1, <2>2
<1>3. \/ /\ inCall' = inCall \ {f}
         /\ given' = [r \in Readers |-> IF r \in Inputs(f) THEN 0 ELSE given[r]]
      \/ /\ inCall' = inCall /\ OutputsHungry(f, readLength')
         /\ given' = [r \in Readers |-> IF r \in Inputs(f) THEN readLength'[r] ELSE given[r]]
  BY DEF Return, MayBeCalled
<1>4. given' \in [Readers -> Nat]
  BY <1>2, <1>3 DEF DataInv
<1>5. ASSUME NEW r \in Readers
      PROVE  /\ given'[r] <= readLength'[r]
             /\ readLength'[r] < maxLength[output[r]] + maxWrite[output[r]]
             /\ writer[output[r]] \in inCall' => readLength'[r] < maxLength[output[r]]
  <2>1. /\ given[r] <= readLength[r]
        /\ readLength[r] < maxLength[output[r]] + maxWrite[output[r]]
        /\ writer[output[r]] \in inCall => readLength[r] < maxLength[output[r]]
    BY DEF DataInv
  <2>2. /\ maxLength[output[r]] \in Nat /\ maxWrite[output[r]] \in Nat
        /\ readLength[r] \in Nat /\ readLength'[r] \in Nat /\ given[r] \in Nat
    BY <1>1, <1>2, ReaderFacts
  <2>3. CASE r \in Feeds(f)
    <3>1. /\ writer[output[r]] = f /\ r \notin Inputs(f)
          /\ c.wrote[output[r]] \in Nat /\ c.wrote[output[r]] <= maxWrite[output[r]]
          /\ readLength'[r] = readLength[r] + c.wrote[output[r]]
      BY <1>0, <2>3, CallBounds, LengthAfter DEF Feeds
    <3>2. given'[r] = given[r]
      BY <1>3, <3>1
    <3>3. f \in inCall' => readLength'[r] < maxLength[output[r]]
      BY <1>3, <2>3 DEF OutputsHungry
    <3> QED
      BY <2>1, <2>2, <3>1, <3>2, <3>3
  <2>4. CASE r \in Inputs(f)
    <3>1. /\ c.advance[r] \in Nat /\ readLength'[r] = readLength[r] - c.advance[r]
      BY <1>0, <2>4, CallBounds, LengthAfter
    <3>2. given'[r] \in {0, readLength'[r]}
      BY <1>3, <2>4
    <3> QED
      BY <1>3, <2>1, <2>2, <3>1, <3>2
  <2>5. CASE r \notin Feeds(f) \cup Inputs(f)
    <3>1. readLength'[r] = readLength[r] /\ given'[r] = given[r]
      BY <1>0, <1>3, <2>5, LengthAfter
    <3> QED
      BY <1>3, <2>1, <3>1
  <2> QED
    BY <2>3, <2>4, <2>5
<1>6. inCall' \subseteq Filters
  BY <1>3 DEF DataInv
<1> QED
  BY <1>2, <1>4, <1>5, <1>6 DEF DataInv

-----------------------------------------------------------------------------
(***************************************************************************)
(* The outputs that use one buffer.                                        *)
(***************************************************************************)

\* A pass-through output is below the output whose buffer it passes on, and
\* nothing else is that is not below the pass-through output.
LEMMA BelowStep ==
  ASSUME NEW q \in Through
  PROVE  /\ prev[q] \in Outputs /\ q \in Outputs
         /\ Below(prev[q]) = {prev[q]} \cup Below(q)
<1> DEFINE p == prev[q]
<1>1. p \in Outputs /\ q \in Outputs
  BY BufferAssumption DEF Through
<1>2. p \in Below(p) /\ q \in Below(p)
  BY <1>1 DEF Below, ClosedBelow
<1>3. Below(q) \subseteq Below(p)
  <2> SUFFICES ASSUME NEW x \in Below(q), NEW S \in SUBSET Outputs, p \in S, ClosedBelow(S)
               PROVE  x \in S
    BY DEF Below
  <2>1. q \in S
    BY DEF ClosedBelow
  <2> QED
    BY <2>1 DEF Below
<1>4. ASSUME NEW x \in Below(p) PROVE x \in {p} \cup Below(q)
  <2> DEFINE S == {p} \cup Below(q)
  <2>1. S \in SUBSET Outputs /\ p \in S
    BY <1>1 DEF Below
  <2>2. ClosedBelow(S)
    <3> SUFFICES ASSUME NEW y \in Through, prev[y] \in S PROVE y \in S
      BY DEF ClosedBelow
    <3>1. CASE prev[y] = p
      <4>1. y = q
        BY <3>1, BufferAssumption
      <4> QED
        BY <1>1, <4>1 DEF Below
    <3>2. CASE prev[y] \in Below(q)
      <4>1. y \in Outputs
        BY DEF Through
      <4> QED
        BY <3>2, <4>1 DEF Below, ClosedBelow
    <3> QED
      BY <3>1, <3>2
  <2> HIDE DEF S
  <2>3. x \in S
    BY <1>4, <2>1, <2>2 DEF Below
  <2> QED
    BY <2>3 DEF S
<1> QED
  BY <1>1, <1>2, <1>3, <1>4

\* What is below o has every property of o that goes from an output to the
\* one that passes its buffer on.
LEMMA BelowInduction ==
  ASSUME NEW o \in Outputs, NEW S \in SUBSET Outputs, o \in S,
         \A q \in Through : prev[q] \in S /\ prev[q] \in Below(o) => q \in S
  PROVE  Below(o) \subseteq S
<1> DEFINE T == S \cap Below(o)
<1>1. T \in SUBSET Outputs /\ o \in T
  BY DEF Below
<1>2. ClosedBelow(T)
  <2> SUFFICES ASSUME NEW q \in Through, prev[q] \in T PROVE q \in T
    BY DEF ClosedBelow
  <2>1. q \in S
    OBVIOUS
  <2>2. q \in Below(o)
    BY <2>1 DEF Below, ClosedBelow
  <2> QED
    BY <2>1, <2>2
<1> HIDE DEF T
<1>3. Below(o) \subseteq T
  BY <1>1, <1>2 DEF Below
<1> QED
  BY <1>3 DEF T

\* No output is below one that passes its buffer on.
LEMMA NoneTwice ==
  ASSUME NEW q \in Through
  PROVE  prev[q] \notin Below(q)
<1> DEFINE S == {x \in Outputs : \A y \in Through : prev[y] = x => x \notin Below(y)}
<1>1. PICK w \in Outputs \ Through : prev[q] \in Below(w)
  BY BelowStep, OwnerAssumption
<1>2. w \in S
  <2> SUFFICES ASSUME NEW y \in Through, prev[y] = w, w \in Below(y) PROVE FALSE
    OBVIOUS
  <2>1. Through \in SUBSET Outputs /\ y \in Through /\ ClosedBelow(Through)
    BY DEF Through, ClosedBelow
  <2>2. w \in Through
    BY <2>1 DEF Below
  <2> QED
    BY <2>2
<1>3. ASSUME NEW y \in Through, prev[y] \in S PROVE y \in S
  <2> SUFFICES ASSUME NEW z \in Through, prev[z] = y, y \in Below(z) PROVE FALSE
    BY DEF Through
  <2>1. prev[y] \notin Below(y)
    BY <1>3
  <2> HIDE DEF S
  <2>2. Below(y) = {y} \cup Below(z)
    BY BelowStep
  <2>3. y # z
    BY <2>1, <2>2, BelowStep
  <2>4. prev[y] \in Below(z)
    <3> DEFINE T == Below(z) \ {y}
    <3>1. T \in SUBSET Outputs /\ z \in T
      BY <2>3, BelowStep DEF Below
    <3>2. prev[y] \notin T
      BY <2>1, <2>2
    <3>3. ClosedBelow(T)
      <4> SUFFICES ASSUME NEW u \in Through, prev[u] \in T PROVE u \in T
        BY DEF ClosedBelow
      <4>1. u # y
        BY <3>2
      <4>2. u \in Below(z)
        BY DEF Below, ClosedBelow, Through
      <4> QED
        BY <4>1, <4>2
    <3> HIDE DEF T
    <3>4. Below(z) \subseteq T
      BY <3>1, <3>3 DEF Below
    <3> QED
      BY <3>4 DEF T
  <2> QED
    BY <2>1, <2>2, <2>4
<1>4. Below(w) \subseteq S
  <2>1. S \in SUBSET Outputs
    OBVIOUS
  <2> HIDE DEF S
  <2> QED
    BY <1>2, <1>3, <2>1, BelowInduction
<1>5. prev[q] \in S
  BY <1>1, <1>4
<1> QED
  BY <1>5

\* The owner of a buffer is no pass-through output, and what is below an
\* output is below its owner.
LEMMA OwnerFacts ==
  ASSUME NEW o \in Outputs
  PROVE  /\ Owner(o) \in Outputs \ Through /\ o \in Below(Owner(o))
         /\ Below(Owner(o)) \in SUBSET Outputs /\ Below(o) \subseteq Below(Owner(o))
<1>1. \E p \in Outputs \ Through : o \in Below(p)
  BY OwnerAssumption
<1>2. Owner(o) \in Outputs \ Through /\ o \in Below(Owner(o))
  BY <1>1 DEF Owner
<1> QED
  BY <1>2 DEF Below

\* An output and the one whose buffer it passes on have the same owner.
LEMMA SameBelow ==
  ASSUME NEW o \in Through, NEW p \in Outputs \ Through
  PROVE  prev[o] \in Outputs /\ (o \in Below(p) <=> prev[o] \in Below(p))
<1>1. prev[o] \in Outputs /\ o \in Outputs /\ o # p
  BY BufferAssumption DEF Through
<1>2. ASSUME prev[o] \in Below(p)
      PROVE  o \in Below(p)
  BY <1>1, <1>2 DEF Below, ClosedBelow
<1>3. ASSUME o \in Below(p), prev[o] \notin Below(p)
      PROVE  FALSE
  <2> DEFINE S == Below(p) \ {o}
  <2>1. S \in SUBSET Outputs /\ p \in S
    BY <1>1 DEF Below
  <2>2. ClosedBelow(S)
    <3> SUFFICES ASSUME NEW q \in Through, prev[q] \in S
                 PROVE  q \in S
      BY DEF ClosedBelow
    <3>1. q # o
      BY <1>3
    <3>2. q \in Below(p)
      BY DEF Below, ClosedBelow, Through
    <3> QED
      BY <3>1, <3>2
  <2> HIDE DEF S
  <2>3. o \in S
    BY <1>3, <2>1, <2>2 DEF Below
  <2> QED
    BY <2>3 DEF S
<1> QED
  BY <1>1, <1>2, <1>3

LEMMA SameRing ==
  ASSUME NEW o \in Through
  PROVE  prev[o] \in Outputs /\ MapLength(o) = MapLength(prev[o])
<1>1. \A p \in Outputs \ Through : o \in Below(p) <=> prev[o] \in Below(p)
  BY SameBelow
<1>2. Owner(o) = Owner(prev[o])
  BY <1>1 DEF Owner
<1>3. MapLength(o) = MapLength(prev[o])
  BY <1>2, Zenon DEF MapLength
<1> QED
  BY <1>3, BufferAssumption DEF Through

-----------------------------------------------------------------------------
(***************************************************************************)
(* The length of the mapping.                                              *)
(***************************************************************************)

\* A unit of room for each byte of two operations on each output of S.
Units(S) == {u \in S \X Nat : u[2] \in 1 .. 2 * maxLength[u[1]]}
Weight(S) == Cardinality(Units(S))

\* Units of one output, counted by their index.
LEMMA WeightOne ==
  ASSUME NEW p \in Outputs
  PROVE  IsFiniteSet(Units({p})) /\ Weight({p}) = 2 * maxLength[p]
<1> DEFINE n == 2 * maxLength[p]
           f == [i \in 1 .. n |-> <<p, i>>]
<1>1. n \in Nat
  BY PromiseAssumption
<1>2. Range(f) = Units({p})
  <2>1. Range(f) = {<<p, i>> : i \in 1 .. n}
    BY DEF Range
  <2>2. Units({p}) = {u \in {p} \X Nat : u[2] \in 1 .. n}
    BY DEF Units
  <2> HIDE DEF n, f
  <2>3. ASSUME NEW u \in Units({p}) PROVE u \in Range(f)
    <3>1. u[2] \in 1 .. n /\ u = <<p, u[2]>>
      BY <2>2
    <3> QED
      BY <2>1, <3>1
  <2>4. ASSUME NEW u \in Range(f) PROVE u \in Units({p})
    <3>1. PICK i \in 1 .. n : u = <<p, i>>
      BY <2>1
    <3>2. u \in {p} \X Nat /\ u[2] = i
      BY <1>1, <3>1
    <3> QED
      BY <2>2, <3>2
  <2> QED
    BY <2>3, <2>4
<1>3. IsInjective(f)
  BY DEF IsInjective
<1>4. f \in [1 .. n -> Range(f)]
  BY DEF Range
<1> HIDE DEF n, f
<1>5. 1 \in Int /\ n \in Int
  BY <1>1
<1>6. IsFiniteSet(1 .. n) /\ Cardinality(1 .. n) = IF 1 > n THEN 0 ELSE n - 1 + 1
  BY <1>5, FS_Interval
<1>7. IsFiniteSet(Range(f)) /\ Cardinality(Range(f)) = Cardinality(1 .. n)
  BY <1>3, <1>4, <1>6, ImageSize
<1> QED
  BY <1>1, <1>2, <1>6, <1>7 DEF Weight, n

LEMMA UnitsFinite ==
  ASSUME NEW S \in SUBSET Outputs
  PROVE  IsFiniteSet(Units(S)) /\ Weight(S) \in Nat
<1> DEFINE f == [p \in S |-> Units({p})]
<1>1. IsFiniteSet(S)
  BY GraphAssumption, FS_Subset
<1>2. f \in [S -> Range(f)]
  BY DEF Range
<1>3. \A T \in Range(f) : IsFiniteSet(T)
  BY WeightOne DEF Range
<1>4. Units(S) \in SUBSET UNION Range(f)
  <2> SUFFICES ASSUME NEW u \in Units(S) PROVE u \in UNION Range(f)
    OBVIOUS
  <2>1. u[1] \in S /\ u \in Units({u[1]})
    BY DEF Units
  <2>2. f[u[1]] \in Range(f) /\ u \in f[u[1]]
    BY <2>1 DEF Range
  <2> HIDE DEF f
  <2> QED
    BY <2>2
<1> HIDE DEF f
<1>5. IsFiniteSet(Range(f))
  BY <1>1, <1>2, ImageSize
<1>6. IsFiniteSet(UNION Range(f))
  BY <1>3, <1>5, FS_UNION
<1>7. IsFiniteSet(Units(S))
  BY <1>4, <1>6, FS_Subset
<1> QED
  BY <1>7, FS_CardinalityType DEF Weight

LEMMA WeightEmpty == Weight({}) = 0
<1>1. Units({}) = {}
  BY DEF Units
<1> QED
  BY <1>1, FS_EmptySet DEF Weight

\* One more output adds its own room.
LEMMA WeightMore ==
  ASSUME NEW S \in SUBSET Outputs, NEW p \in Outputs \ S
  PROVE  Weight(S \cup {p}) = Weight(S) + 2 * maxLength[p]
<1> DEFINE A == Units(S)
           B == Units({p})
<1>1. IsFiniteSet(A) /\ IsFiniteSet(B) /\ Weight(S) \in Nat /\ Weight({p}) \in Nat
  <2>1. {p} \in SUBSET Outputs
    OBVIOUS
  <2> QED
    BY <2>1, UnitsFinite
<1>2. Units(S \cup {p}) = A \cup B
  BY DEF Units
<1>3. A \cap B = {}
  BY DEF Units
<1>4. Weight(S) = Cardinality(A) /\ Weight({p}) = Cardinality(B)
      /\ Weight(S \cup {p}) = Cardinality(A \cup B)
  BY <1>2 DEF Weight
<1> HIDE DEF A, B
<1>5. Cardinality(A \cup B) = Cardinality(A) + Cardinality(B) - Cardinality({})
  BY <1>1, <1>3, FS_Union
<1>6. Cardinality({}) = 0
  BY FS_EmptySet
<1>7. Weight({p}) = 2 * maxLength[p] /\ maxLength[p] \in Nat
  BY WeightOne, PromiseAssumption
<1> QED
  BY <1>1, <1>4, <1>5, <1>6, <1>7

LEMMA WeightLess ==
  ASSUME NEW T \in SUBSET Outputs, NEW S \in SUBSET T
  PROVE  Weight(S) <= Weight(T)
<1>1. Units(S) \in SUBSET Units(T)
  BY DEF Units
<1>2. IsFiniteSet(Units(T))
  BY UnitsFinite
<1>3. Cardinality(Units(S)) <= Cardinality(Units(T))
  BY <1>1, <1>2, FS_Subset
<1> QED
  BY <1>3 DEF Weight

\* The sum GetMappingLengths() makes is the number of units: each set is summed
\* from the rest of it, down to the empty set.
LEMMA SumMeaning ==
  ASSUME NEW S \in SUBSET Outputs
  PROVE  MapThenSumSet(LAMBDA p : 2 * LevelLength(p), S) = Weight(S)
<1> DEFINE Sums(g) == [s \in SUBSET S |->
              IF s = {} THEN 0
              ELSE LET x == CHOOSE x \in s : TRUE IN 2 * LevelLength(x) + g[s \ {x}]]
           sum == CHOOSE g : g = Sums(g)
           weights == [s \in SUBSET S |-> Weight(s)]
<1>1. MapThenSumSet(LAMBDA p : 2 * LevelLength(p), S) = sum[S]
  BY DEF MapThenSumSet, MapThenFoldSet
<1>2. ASSUME NEW s \in SUBSET S, s # {}
      PROVE  LET x == CHOOSE x \in s : TRUE
             IN  /\ x \in s /\ s \ {x} \in SUBSET S
                 /\ Weight(s) = 2 * LevelLength(x) + Weight(s \ {x})
                 /\ IsFiniteSet(s) /\ Cardinality(s) \in Nat
                 /\ Cardinality(s \ {x}) \in Nat /\ Cardinality(s \ {x}) < Cardinality(s)
  <2> DEFINE x == CHOOSE x \in s : TRUE
  <2>1. x \in s
    BY <1>2
  <2> HIDE DEF x
  <2>2. x \in Outputs \ (s \ {x}) /\ s \ {x} \in SUBSET Outputs /\ (s \ {x}) \cup {x} = s
    BY <2>1
  <2>3. Weight(s) = Weight(s \ {x}) + 2 * maxLength[x]
    BY <2>2, WeightMore
  <2>4. LevelLength(x) = maxLength[x] /\ maxLength[x] \in Nat /\ Weight(s \ {x}) \in Nat
    BY <2>2, LevelAssumption, PromiseAssumption, UnitsFinite
  <2>5. IsFiniteSet(s)
    BY GraphAssumption, FS_Subset
  <2>6. /\ Cardinality(s) \in Nat /\ Cardinality(s \ {x}) = Cardinality(s) - 1
        /\ Cardinality(s \ {x}) \in Nat
    BY <2>1, <2>5, FS_RemoveElement, FS_CardinalityType
  <2>7. Weight(s) = 2 * LevelLength(x) + Weight(s \ {x})
    BY <2>3, <2>4
  <2> QED
    BY <2>1, <2>5, <2>6, <2>7 DEF x
<1>3. weights = Sums(weights)
  <2>1. ASSUME NEW s \in SUBSET S
        PROVE  weights[s] = IF s = {} THEN 0
                            ELSE LET x == CHOOSE x \in s : TRUE
                                 IN 2 * LevelLength(x) + weights[s \ {x}]
    <3>1. CASE s = {}
      BY <3>1, WeightEmpty
    <3>2. CASE s # {}
      BY <1>2, <3>2
    <3> QED
      BY <3>1, <3>2
  <2> QED
    BY <2>1
<1>4. sum = Sums(sum)
  <2> HIDE DEF Sums, weights
  <2> QED
    BY <1>3
<1> HIDE DEF sum
<1> DEFINE Wrong == {s \in SUBSET S : sum[s] # Weight(s)}
           Sizes == {Cardinality(s) : s \in Wrong}
<1>5. Wrong = {}
  <2> SUFFICES ASSUME Wrong # {} PROVE FALSE
    OBVIOUS
  <2>1. \A s \in SUBSET S : Cardinality(s) \in Nat
    BY GraphAssumption, FS_Subset, FS_CardinalityType
  <2>2. Sizes \in SUBSET Nat /\ Sizes # {}
    BY <2>1
  <2>3. PICK m \in Sizes : \A n \in Sizes : m <= n
    <3> HIDE DEF Sizes
    <3> QED
      BY <2>2, LeastNatural
  <2>4. PICK s \in Wrong : m = Cardinality(s)
    BY <2>3
  <2>5. s \in SUBSET S /\ sum[s] # Weight(s)
    BY <2>4
  <2>6. s # {}
    <3> SUFFICES ASSUME s = {} PROVE FALSE
      OBVIOUS
    <3>1. sum[{}] = 0
      BY <1>4
    <3> HIDE DEF Wrong
    <3> QED
      BY <2>5, <3>1, WeightEmpty
  <2> DEFINE x == CHOOSE x \in s : TRUE
  <2>7. /\ x \in s /\ s \ {x} \in SUBSET S
        /\ Weight(s) = 2 * LevelLength(x) + Weight(s \ {x})
        /\ Cardinality(s \ {x}) \in Nat /\ Cardinality(s) \in Nat
        /\ Cardinality(s \ {x}) < Cardinality(s)
    <3> HIDE DEF Wrong
    <3> QED
      BY <1>2, <2>5, <2>6
  <2>8. sum[s] = 2 * LevelLength(x) + sum[s \ {x}]
    <3> HIDE DEF Wrong
    <3> QED
      BY <1>4, <2>5, <2>6
  <2> HIDE DEF x
  <2>9. s \ {x} \notin Wrong
    <3> HIDE DEF Wrong
    <3>1. ASSUME s \ {x} \in Wrong PROVE m <= Cardinality(s \ {x})
      BY <2>3, <3>1
    <3> QED
      BY <2>4, <2>7, <3>1
  <2>10. sum[s \ {x}] = Weight(s \ {x})
    BY <2>7, <2>9
  <2> HIDE DEF Wrong
  <2> QED
    BY <2>5, <2>7, <2>8, <2>10
<1>6. sum[S] = Weight(S)
  BY <1>5
<1> QED
  BY <1>1, <1>6, Zenon

\* A whole number of pages that is no less than what was asked for.
LEMMA BumpedUp ==
  ASSUME NEW len \in Nat
  PROVE  Bumped(len) \in Nat /\ len <= Bumped(len)
<1> DEFINE pages == (len + PageSize - 1) \div PageSize
<1>1. PageSize \in Nat \ {0}
  BY BufferAssumption
<1>2. pages \in Nat /\ len <= pages * PageSize
  BY <1>1
<1> HIDE DEF pages
<1>3. /\ Max({1, pages}) \in Nat
      /\ Max({1, pages}) >= pages
  <2>1. \E x \in {1, pages} : \A y \in {1, pages} : x >= y
    BY <1>2
  <2>2. /\ Max({1, pages}) \in {1, pages}
        /\ \A y \in {1, pages} : Max({1, pages}) >= y
    BY <2>1 DEF Max
  <2> QED
    BY <1>2, <2>2
<1>4. Max({1, pages}) * PageSize >= pages * PageSize
  BY <1>1, <1>2, <1>3
<1>5. Bumped(len) = Max({1, pages}) * PageSize
  BY DEF Bumped, pages
<1>6. Max({1, pages}) * PageSize \in Nat
  BY <1>1, <1>3
<1> QED
  BY <1>1, <1>2, <1>4, <1>5, <1>6

\* The mapping has room for two operations on each output that uses it.
LEMMA MapLengthFacts ==
  ASSUME NEW o \in Outputs
  PROVE  /\ MapLength(o) \in Nat
         /\ \A S \in SUBSET Below(Owner(o)) : Weight(S) \in Nat /\ Weight(S) <= MapLength(o)
<1> DEFINE B == Below(Owner(o))
<1>1. B \in SUBSET Outputs
  BY OwnerFacts
<1>2. MapLength(o) = Bumped(Weight(B))
  <2>1. MapThenSumSet(LAMBDA p : 2 * LevelLength(p), B) = Weight(B)
    BY <1>1, SumMeaning
  <2> QED
    BY <2>1, Zenon DEF MapLength
<1> HIDE DEF B
<1>3. Weight(B) \in Nat
  BY <1>1, UnitsFinite
<1>4. MapLength(o) \in Nat /\ Weight(B) <= MapLength(o)
  BY <1>2, <1>3, BumpedUp
<1>5. ASSUME NEW S \in SUBSET B PROVE Weight(S) \in Nat /\ Weight(S) <= MapLength(o)
  <2>1. Weight(S) \in Nat
    BY <1>1, UnitsFinite
  <2>2. Weight(S) <= Weight(B)
    BY <1>1, WeightLess
  <2> QED
    BY <1>3, <1>4, <2>1, <2>2
<1> QED
  BY <1>4, <1>5 DEF B

LEMMA Room ==
  ASSUME NEW o \in Outputs
  PROVE  MapLength(o) \in Nat /\ 2 * maxLength[o] <= MapLength(o)
<1>1. {o} \in SUBSET Below(Owner(o))
  BY OwnerFacts
<1> QED
  BY <1>1, MapLengthFacts, WeightOne

-----------------------------------------------------------------------------
(***************************************************************************)
(* Pointers.                                                               *)
(***************************************************************************)

\* Dividing what is less than two lengths.
LEMMA ModOnce ==
  ASSUME NEW m \in Nat \ {0}, NEW x \in Nat, x < m + m
  PROVE  x % m = IF x < m THEN x ELSE x - m
<1>1. CASE x < m
  BY <1>1
<1>2. CASE x >= m
  BY <1>2
<1> QED
  BY <1>1, <1>2

\* A reader's length ends at the write pointer, or one turn beyond it.
InTurn(r) ==
  \/ readPtr[r] + readLength[r] = writePtr[output[r]]
  \/ readPtr[r] + readLength[r] = writePtr[output[r]] + MapLength(output[r])

\* The inductive invariant.
RingInv ==
  /\ DataInv
  /\ writePtr \in [Outputs -> Nat] /\ readPtr \in [Readers -> Nat]
  /\ PointersMapped
  /\ \A r \in Readers : InTurn(r)
  /\ \A o \in Through : writePtr[o] = readPtr[via[o]]

LEMMA RingStart == RingInit => RingInv
<1> SUFFICES ASSUME RingInit PROVE RingInv
  OBVIOUS
<1>1. DataInv
  BY DataInit DEF RingInit
<1>2. \A o \in Outputs : MapLength(o) \in Nat \ {0}
  BY PromiseAssumption, Room
<1>3. \A r \in Readers : output[r] \in Outputs
  BY ReaderFacts
<1>4. writePtr = [o \in Outputs |-> 0] /\ readPtr = [r \in Readers |-> 0]
      /\ readLength = [r \in Readers |-> 0]
  BY DEF RingInit, Init
<1>5. \A o \in Through : o \in Outputs /\ via[o] \in Readers
  BY BufferAssumption DEF Through, Inputs
<1>6. PointersMapped
  BY <1>2, <1>3, <1>4 DEF PointersMapped
<1>7. \A r \in Readers : InTurn(r)
  BY <1>3, <1>4 DEF InTurn
<1> QED
  BY <1>1, <1>4, <1>5, <1>6, <1>7 DEF RingInv

LEMMA RingBeginStep ==
  ASSUME RingInv, NEW f \in Filters, RingBegin(f)
  PROVE  RingInv'
<1>1. UNCHANGED <<readLength, writePtr, readPtr>> /\ Begin(f)
  BY DEF RingBegin, Begin
<1>2. DataInv'
  BY <1>1, BeginStep DEF RingInv
<1> QED
  BY <1>1, <1>2 DEF RingInv, PointersMapped, InTurn

\* A pointer that moves by no more than one length is where it should be
\* after one wrap.
LEMMA OneWrap ==
  ASSUME NEW o, NEW ptr \in Nat, NEW len \in Nat, MapLength(o) \in Nat \ {0},
         ptr < MapLength(o), len <= MapLength(o)
  PROVE  /\ Advanced(ptr, len, o) \in 0..(MapLength(o) - 1)
         /\ \/ Advanced(ptr, len, o) = ptr + len
            \/ /\ Advanced(ptr, len, o) = ptr + len - MapLength(o)
               /\ ptr + len >= MapLength(o)
BY DEF Advanced

LEMMA RingEndStep ==
  ASSUME RingInv, NEW f \in Filters, RingEnd(f)
  PROVE  RingInv'
<1>1. PICK c \in Calls(f, given) :
        /\ InPlace(f, c)
        /\ Return(f, c)
        /\ writePtr' = [o \in Outputs |->
             IF writer[o] = f THEN Advanced(writePtr[o], c.wrote[o], o) ELSE writePtr[o]]
        /\ readPtr' = [r \in Readers |->
             IF reader[r] = f THEN Advanced(readPtr[r], c.advance[r], output[r])
             ELSE readPtr[r]]
  BY DEF RingEnd
<1>2. f \in inCall /\ DataInv
  BY DEF RingEnd, RingInv
<1>3. DataInv'
  BY <1>1, <1>2, EndStep
<1>4. ASSUME NEW o \in Outputs
      PROVE  /\ MapLength(o) \in Nat \ {0}
             /\ writePtr[o] \in Nat /\ writePtr[o] < MapLength(o)
             /\ 2 * maxLength[o] <= MapLength(o)
             /\ maxLength[o] \in Nat /\ maxWrite[o] \in Nat /\ maxWrite[o] <= maxLength[o]
  <2>1. MapLength(o) \in Nat /\ 2 * maxLength[o] <= MapLength(o)
    BY Room
  <2>2. maxLength[o] \in Nat \ {0} /\ maxWrite[o] \in Nat /\ maxWrite[o] <= maxLength[o]
    BY PromiseAssumption
  <2>3. writePtr[o] \in 0..(MapLength(o) - 1)
    BY DEF RingInv, PointersMapped
  <2> QED
    BY <2>1, <2>2, <2>3
<1>5. ASSUME NEW r \in Readers
      PROVE  /\ output[r] \in Outputs
             /\ readPtr[r] \in Nat /\ readPtr[r] < MapLength(output[r])
             /\ readLength[r] \in Nat /\ readLength[r] < MapLength(output[r])
             /\ readLength'[r] \in Nat /\ readLength'[r] < MapLength(output[r])
             /\ given[r] <= readLength[r] /\ given[r] \in Nat
  <2>1. output[r] \in Outputs
    BY ReaderFacts
  <2>2. readPtr[r] \in 0..(MapLength(output[r]) - 1)
    BY DEF RingInv, PointersMapped
  <2>3. /\ readLength[r] \in Nat /\ readLength[r] < maxLength[output[r]] + maxWrite[output[r]]
        /\ given[r] <= readLength[r] /\ given[r] \in Nat
    BY <1>2 DEF DataInv
  <2>4. /\ readLength'[r] \in Nat
        /\ readLength'[r] < maxLength[output[r]] + maxWrite[output[r]]
    BY <1>3 DEF DataInv
  <2> QED
    BY <1>4, <2>1, <2>2, <2>3, <2>4
<1>6. ASSUME NEW o \in OutputsOf(f)
      PROVE  c.wrote[o] \in Nat /\ c.wrote[o] <= MapLength(o)
  <2>1. PICK r \in Readers : output[r] = o
    BY GraphAssumption DEF OutputsOf
  <2>2. r \in Feeds(f) /\ o \in Outputs
    BY <2>1 DEF Feeds, OutputsOf
  <2>3. c.wrote[o] \in Nat /\ c.wrote[o] <= maxWrite[o]
    BY <1>2, <2>1, <2>2, CallBounds
  <2> QED
    BY <1>4, <2>2, <2>3
<1>7. ASSUME NEW r \in Inputs(f)
      PROVE  /\ r \in Readers /\ c.advance[r] \in Nat /\ c.advance[r] <= readLength[r]
             /\ c.advance[r] <= MapLength(output[r])
  <2>1. r \in Readers
    BY DEF Inputs
  <2>2. c.advance[r] \in Nat /\ c.advance[r] <= given[r]
    BY <1>2, <2>1, CallBounds
  <2> QED
    BY <1>4, <1>5, <2>1, <2>2
<1>8. ASSUME NEW o \in Outputs
      PROVE  writePtr'[o] \in 0..(MapLength(o) - 1)
  <2>1. CASE writer[o] = f
    <3>1. o \in OutputsOf(f) /\ writePtr'[o] = Advanced(writePtr[o], c.wrote[o], o)
      BY <1>1, <2>1 DEF OutputsOf
    <3> QED
      BY <1>4, <1>6, <3>1, OneWrap
  <2>2. CASE writer[o] # f
    BY <1>1, <1>4, <2>2
  <2> QED
    BY <2>1, <2>2
<1>9. ASSUME NEW r \in Readers
      PROVE  readPtr'[r] \in 0..(MapLength(output[r]) - 1)
  <2>1. CASE reader[r] = f
    <3>1. r \in Inputs(f) /\ readPtr'[r] = Advanced(readPtr[r], c.advance[r], output[r])
      BY <1>1, <2>1 DEF Inputs
    <3> QED
      BY <1>4, <1>5, <1>7, <3>1, OneWrap
  <2>2. CASE reader[r] # f
    BY <1>1, <1>4, <1>5, <2>2
  <2> QED
    BY <2>1, <2>2
<1>10. PointersMapped'
  BY <1>8, <1>9 DEF PointersMapped
<1>11. writePtr' \in [Outputs -> Nat] /\ readPtr' \in [Readers -> Nat]
  <2>1. \A o \in Outputs : writePtr'[o] \in Nat
    BY <1>4, <1>8
  <2>2. \A r \in Readers : readPtr'[r] \in Nat
    BY <1>4, <1>5, <1>9
  <2>3. /\ writePtr' = [o \in Outputs |-> writePtr'[o]]
        /\ readPtr' = [r \in Readers |-> readPtr'[r]]
    BY <1>1
  <2> QED
    BY <2>1, <2>2, <2>3
<1>12. ASSUME NEW r \in Readers
       PROVE  InTurn(r)'
  <2> DEFINE m  == MapLength(output[r])
             wp == writePtr[output[r]]
  <2>1. /\ m \in Nat \ {0} /\ wp \in Nat /\ wp < m
        /\ readPtr[r] \in Nat /\ readPtr[r] < m
        /\ readLength[r] \in Nat /\ readLength'[r] \in Nat /\ readLength'[r] < m
        /\ output[r] \in Outputs
    BY <1>4, <1>5
  <2>2. readPtr[r] + readLength[r] \in {wp, wp + m}
    BY DEF RingInv, InTurn
  <2>3. (readPtr'[r] + readLength'[r] \in {writePtr'[output[r]], writePtr'[output[r]] + m})
        => InTurn(r)'
    BY DEF InTurn
  <2>4. CASE r \in Feeds(f)
    <3>1. output[r] \in OutputsOf(f) /\ reader[r] # f
      BY <2>1, <2>4, ReaderFacts DEF Feeds, OutputsOf
    <3>2. /\ readLength'[r] = readLength[r] + c.wrote[output[r]]
          /\ readPtr'[r] = readPtr[r]
          /\ writePtr'[output[r]] = Advanced(wp, c.wrote[output[r]], output[r])
      BY <1>1, <1>2, <2>1, <2>4, <3>1, LengthAfter DEF OutputsOf
    <3>3. /\ c.wrote[output[r]] \in Nat
          /\ \/ writePtr'[output[r]] = wp + c.wrote[output[r]]
             \/ /\ writePtr'[output[r]] = wp + c.wrote[output[r]] - m
                /\ wp + c.wrote[output[r]] >= m
      BY <1>6, <2>1, <3>1, <3>2, OneWrap
    <3> HIDE DEF m, wp
    <3>4. readPtr'[r] + readLength'[r] \in {writePtr'[output[r]], writePtr'[output[r]] + m}
      <4>1. readPtr'[r] + readLength'[r] = readPtr[r] + readLength[r] + c.wrote[output[r]]
        BY <2>1, <3>2, <3>3
      <4>2. readPtr'[r] + readLength'[r] < m + m
        BY <2>1, <3>2
      <4>3. CASE readPtr[r] + readLength[r] = wp
        BY <2>1, <3>3, <4>1, <4>3
      <4>4. CASE readPtr[r] + readLength[r] = wp + m
        BY <2>1, <3>3, <4>1, <4>2, <4>4
      <4> QED
        BY <2>2, <4>3, <4>4
    <3> QED
      BY <2>3, <3>4
  <2>5. CASE r \in Inputs(f)
    <3>1. writer[output[r]] # f /\ reader[r] = f
      BY <2>5, ReaderFacts DEF Inputs
    <3>2. /\ readLength'[r] = readLength[r] - c.advance[r]
          /\ readPtr'[r] = Advanced(readPtr[r], c.advance[r], output[r])
          /\ writePtr'[output[r]] = wp
      BY <1>1, <1>2, <2>1, <2>5, <3>1, LengthAfter
    <3>3. /\ c.advance[r] \in Nat /\ c.advance[r] <= readLength[r]
          /\ \/ readPtr'[r] = readPtr[r] + c.advance[r]
             \/ /\ readPtr'[r] = readPtr[r] + c.advance[r] - m
                /\ readPtr[r] + c.advance[r] >= m
      BY <1>7, <2>1, <2>5, <3>2, OneWrap
    <3> HIDE DEF m, wp
    <3>4. readPtr'[r] + readLength'[r] \in {writePtr'[output[r]], writePtr'[output[r]] + m}
      <4>1. readPtr[r] + c.advance[r] <= readPtr[r] + readLength[r]
        BY <2>1, <3>3
      <4>2. CASE readPtr[r] + readLength[r] = wp
        BY <2>1, <3>2, <3>3, <4>1, <4>2
      <4>3. CASE readPtr[r] + readLength[r] = wp + m
        BY <2>1, <3>2, <3>3, <4>1, <4>3
      <4> QED
        BY <2>2, <4>2, <4>3
    <3> QED
      BY <2>3, <3>4
  <2>6. CASE r \notin Feeds(f) \cup Inputs(f)
    <3>1. writer[output[r]] # f /\ reader[r] # f
      BY <2>6 DEF Feeds, Inputs
    <3>2. readLength'[r] = readLength[r] /\ readPtr'[r] = readPtr[r] /\ writePtr'[output[r]] = wp
      BY <1>1, <1>2, <2>1, <2>6, <3>1, LengthAfter
    <3> QED
      BY <2>2, <2>3, <3>2
  <2> QED
    BY <2>4, <2>5, <2>6
<1>13. ASSUME NEW o \in Through
       PROVE  writePtr'[o] = readPtr'[via[o]]
  <2>1. /\ o \in Outputs /\ via[o] \in Readers /\ reader[via[o]] = writer[o]
        /\ output[via[o]] = prev[o]
    BY BufferAssumption DEF Through, Inputs
  <2>2. writePtr[o] = readPtr[via[o]]
    BY DEF RingInv
  <2>3. CASE writer[o] = f
    <3>1. c.wrote[o] = c.advance[via[o]]
      BY <1>1, <2>1, <2>3 DEF InPlace, OutputsOf
    <3>2. /\ writePtr'[o] = Advanced(writePtr[o], c.wrote[o], o)
          /\ readPtr'[via[o]] = Advanced(readPtr[via[o]], c.advance[via[o]], prev[o])
      BY <1>1, <2>1, <2>3
    <3> QED
      BY <2>2, <3>1, <3>2, SameRing DEF Advanced
  <2>4. CASE writer[o] # f
    BY <1>1, <2>1, <2>2, <2>4
  <2> QED
    BY <2>3, <2>4
<1> QED
  BY <1>3, <1>10, <1>11, <1>12, <1>13 DEF RingInv

-----------------------------------------------------------------------------
(***************************************************************************)
(* The theorems.                                                           *)
(***************************************************************************)

\* The steps on pointers are steps of Dataflow, so what is proved of the
\* scheduler's lengths holds of the buffers' too.
THEOREM RingFlows == RingSpec => Spec
<1>1. RingInit => Init
  BY DEF RingInit
<1>2. [RingNext]_ringVars => [Next]_vars
  <2>1. ASSUME NEW f \in Filters, RingBegin(f)
        PROVE  Next
    BY <2>1 DEF RingBegin, Next
  <2>2. ASSUME NEW f \in Filters, RingEnd(f)
        PROVE  Next
    BY <2>2 DEF RingEnd, Next, End
  <2> QED
    BY <2>1, <2>2 DEF RingNext, ringVars
<1> QED
  BY <1>1, <1>2, PTL DEF RingSpec, Spec

LEMMA RingInductive == RingSpec => []RingInv
<1>1. RingInit => RingInv
  BY RingStart
<1>2. RingInv /\ [RingNext]_ringVars => RingInv'
  <2>1. ASSUME RingInv, UNCHANGED ringVars
        PROVE  RingInv'
    BY <2>1 DEF ringVars, vars, RingInv, DataInv, PointersMapped, InTurn
  <2> QED
    BY <2>1, RingBeginStep, RingEndStep DEF RingNext
<1> QED
  BY <1>1, <1>2, PTL DEF RingSpec

\* No pointer leaves the bulk mapping, however often it wraps.
THEOREM PointersStay == RingSpec => []PointersMapped
<1>1. RingInv => PointersMapped
  BY DEF RingInv
<1> QED
  BY <1>1, RingInductive, PTL

LEMMA TurnsReach ==
  ASSUME RingInv
  PROVE  LengthsReachWriter
<1>1. ASSUME NEW r \in Readers
      PROVE  (readPtr[r] + readLength[r]) % MapLength(output[r]) = writePtr[output[r]]
  <2>1. output[r] \in Outputs /\ maxLength[output[r]] \in Nat \ {0}
    BY ReaderFacts
  <2>2. MapLength(output[r]) \in Nat \ {0}
    BY <2>1, Room
  <2>3. writePtr[output[r]] \in 0..(MapLength(output[r]) - 1)
    BY <2>1 DEF RingInv, PointersMapped
  <2>4. InTurn(r)
    BY DEF RingInv
  <2> DEFINE m == MapLength(output[r])
             x == readPtr[r] + readLength[r]
             w == writePtr[output[r]]
  <2>5. m \in Nat \ {0} /\ w \in Nat /\ w < m /\ (x = w \/ x = w + m)
    BY <2>2, <2>3, <2>4 DEF InTurn
  <2> HIDE DEF m, x, w
  <2>6. x \in Nat /\ x < m + m
    BY <2>5
  <2>7. x % m = IF x < m THEN x ELSE x - m
    BY <2>5, <2>6, ModOnce
  <2>8. x % m = w
    BY <2>5, <2>7
  <2> QED
    BY <2>8 DEF m, x, w
<1> QED
  BY <1>1 DEF RingInv, LengthsReachWriter

\* A reader's length always ends where the writer is, and a pass-through
\* filter writes where it reads.
THEOREM LengthsReach == RingSpec => []LengthsReachWriter
<1>1. RingInv => LengthsReachWriter
  BY TurnsReach
<1> QED
  BY <1>1, RingInductive, PTL

-----------------------------------------------------------------------------
(***************************************************************************)
(* The bytes that are written are none of those that are not read yet.     *)
(***************************************************************************)

\* The pointer of p is d bytes behind that of o, all of which have room in
\* the mapping together with one more operation on o.
Behind(p, d, o) ==
  /\ writePtr[p] + d \in {writePtr[o], writePtr[o] + MapLength(o)}
  /\ \/ p = o /\ d = 0
     \/ d + maxLength[o] < Weight(Below(o) \ Below(p))

\* Below an output whose filter writes, each pass-through output adds what the
\* filter it belongs to has not read yet.
LEMMA BehindStep ==
  ASSUME RingInv, NEW o \in Outputs, writer[o] \in inCall,
         NEW q \in Through, prev[q] \in Below(o), MapLength(prev[q]) = MapLength(o),
         NEW d \in Nat, Behind(prev[q], d, o)
  PROVE  /\ readLength[via[q]] \in Nat
         /\ Behind(q, d + readLength[via[q]], o)
<1> DEFINE p == prev[q]
           v == via[q]
           l == readLength[v]
           m == MapLength(o)
           w == writePtr[o]
           W == Weight(Below(o) \ Below(p))
<1>1. /\ q \in Outputs /\ p \in Outputs /\ v \in Readers /\ output[v] = p
      /\ writePtr[q] = readPtr[v]
  BY BelowStep, BufferAssumption DEF RingInv, Inputs, Through
<1>2. /\ l \in Nat /\ l < maxLength[p] + maxWrite[p]
      /\ writer[p] \in inCall => l < maxLength[p]
  BY <1>1 DEF RingInv, DataInv
<1>3. /\ maxLength[p] \in Nat /\ maxWrite[p] \in Nat /\ maxWrite[p] <= maxLength[p]
      /\ maxLength[o] \in Nat
  BY <1>1, PromiseAssumption
<1>4. readPtr[v] + l = writePtr[p] \/ readPtr[v] + l = writePtr[p] + m
  BY <1>1 DEF RingInv, InTurn
<1>5. m \in Nat /\ w \in Nat
  BY MapLengthFacts DEF RingInv
<1>6. readPtr[v] \in Nat /\ readPtr[v] < m /\ writePtr[p] \in Nat
  <2>1. readPtr[v] \in 0 .. (m - 1)
    BY <1>1 DEF RingInv, PointersMapped
  <2>2. writePtr[p] \in Nat
    BY <1>1 DEF RingInv
  <2> QED
    BY <1>5, <2>1, <2>2
<1>7. Weight(Below(o) \ Below(q)) = W + 2 * maxLength[p]
  <2> DEFINE T == Below(o) \ Below(p)
  <2>1. Below(p) = {p} \cup Below(q) /\ p \notin Below(q)
    BY BelowStep, NoneTwice
  <2>2. p \in Outputs \ T /\ T \in SUBSET Outputs /\ Below(o) \ Below(q) = T \cup {p}
    BY <1>1, <2>1 DEF Below
  <2> HIDE DEF T, p
  <2>3. Weight(T \cup {p}) = Weight(T) + 2 * maxLength[p]
    BY <2>2, WeightMore
  <2> QED
    BY <2>2, <2>3 DEF T
<1>8. W \in Nat /\ Weight(Below(o) \ Below(q)) <= m
  <2>1. Below(o) \ Below(p) \in SUBSET Below(Owner(o)) /\ Below(o) \ Below(q) \in SUBSET Below(Owner(o))
    BY OwnerFacts
  <2> QED
    BY <2>1, MapLengthFacts
<1>9. /\ writePtr[p] + d = w \/ writePtr[p] + d = w + m
      /\ (p = o /\ d = 0) \/ d + maxLength[o] < W
  BY DEF Behind
<1>10. d + l + maxLength[o] < W + 2 * maxLength[p]
  <2>1. CASE p = o /\ d = 0
    <3>1. l < maxLength[o]
      BY <1>2, <2>1
    <3> HIDE DEF l, W, p
    <3> QED
      BY <1>2, <1>3, <1>8, <2>1, <3>1
  <2>2. CASE d + maxLength[o] < W
    <3> HIDE DEF l, W, p
    <3> QED
      BY <1>2, <1>3, <1>8, <2>2
  <2> QED
    BY <1>9, <2>1, <2>2
<1>11. d + l < m
  <2> HIDE DEF l, W, p, m
  <2> QED
    BY <1>2, <1>3, <1>5, <1>7, <1>8, <1>10
<1>12. readPtr[v] + (d + l) = w \/ readPtr[v] + (d + l) = w + m
  <2> HIDE DEF l, W, p, m, w, v
  <2> QED
    BY <1>2, <1>4, <1>5, <1>6, <1>9, <1>11
<1>13. d + l + maxLength[o] < Weight(Below(o) \ Below(q))
  BY <1>7, <1>10
<1> HIDE DEF l, W, p, m, w
<1> QED
  BY <1>1, <1>2, <1>12, <1>13 DEF Behind, l, m, w

\* Every output below one whose filter writes is some way behind it.
LEMMA BehindFacts ==
  ASSUME RingInv, NEW o \in Outputs, writer[o] \in inCall, NEW p \in Below(o)
  PROVE  p \in Outputs /\ MapLength(p) = MapLength(o) /\ \E d \in Nat : Behind(p, d, o)
<1> DEFINE S == {x \in Outputs : MapLength(x) = MapLength(o) /\ \E d \in Nat : Behind(x, d, o)}
<1>1. o \in S
  <2>1. writePtr[o] \in Nat
    BY DEF RingInv
  <2>2. Behind(o, 0, o)
    BY <2>1 DEF Behind
  <2> QED
    BY <2>2
<1>2. ASSUME NEW q \in Through, prev[q] \in S, prev[q] \in Below(o) PROVE q \in S
  <2>1. PICK d \in Nat : Behind(prev[q], d, o)
    BY <1>2
  <2>2. MapLength(prev[q]) = MapLength(o) /\ MapLength(q) = MapLength(o)
    BY <1>2, SameRing
  <2>3. /\ readLength[via[q]] \in Nat
        /\ Behind(q, d + readLength[via[q]], o)
    BY <1>2, <2>1, <2>2, BehindStep
  <2>4. d + readLength[via[q]] \in Nat /\ q \in Outputs
    BY <2>3 DEF Through
  <2> QED
    BY <2>2, <2>3, <2>4
<1>3. S \in SUBSET Outputs
  OBVIOUS
<1>4. Below(o) \subseteq S
  <2> HIDE DEF S
  <2> QED
    BY <1>1, <1>2, <1>3, BelowInduction
<1> QED
  BY <1>4

\* Of two runs in a ring of length m, of which the one at x ends at most e
\* bytes from x and the one at w begins there, and which do not fill the
\* ring together, no byte is in both.
LEMMA RunsApart ==
  ASSUME NEW m \in Nat \ {0}, NEW w \in Nat, w < m, NEW x \in Nat, x < m,
         NEW e \in Nat, x + e = w \/ x + e = w + m,
         NEW k \in Nat, e + k <= m, NEW i \in Nat, i < k, NEW j \in Nat, j < e
  PROVE  (w + i) % m # (x + j) % m
<1> DEFINE a == w + i
           b == x + j
<1>1. a \in Nat /\ a < m + m /\ b \in Nat /\ b < m + m
  OBVIOUS
<1>2. a = w + i /\ b = x + j
  OBVIOUS
<1> HIDE DEF a, b
<1>3. a % m = IF a < m THEN a ELSE a - m
  BY <1>1, ModOnce
<1>4. b % m = IF b < m THEN b ELSE b - m
  BY <1>1, ModOnce
<1>5. (IF a < m THEN a ELSE a - m) # (IF b < m THEN b ELSE b - m)
  BY <1>1, <1>2
<1>6. a % m # b % m
  BY <1>3, <1>4, <1>5
<1> QED
  BY <1>6 DEF a, b

LEMMA WritableFacts ==
  ASSUME RingInv, NEW o \in Outputs
  PROVE  \A y \in Writable(o) : \E i \in Nat : i < maxWrite[o] /\ y = (writePtr[o] + i) % MapLength(o)
<1> DEFINE k == IF o \in Through THEN Min({maxWrite[o], given[via[o]]}) ELSE maxWrite[o]
<1>1. maxWrite[o] \in Nat
  BY PromiseAssumption
<1>2. k \in Nat /\ k <= maxWrite[o]
  <2>1. CASE o \in Through
    <3>1. via[o] \in Readers
      BY <2>1, BufferAssumption DEF Inputs
    <3>2. given[via[o]] \in Nat
      BY <3>1 DEF RingInv, DataInv
    <3> DEFINE S == {maxWrite[o], given[via[o]]}
    <3>3. S \in SUBSET Nat /\ S # {} /\ maxWrite[o] \in S
      BY <1>1, <3>2
    <3> HIDE DEF S
    <3>4. Min(S) \in S /\ Min(S) <= maxWrite[o]
      BY <3>3, MinFacts
    <3> QED
      BY <2>1, <3>3, <3>4 DEF S
  <2>2. CASE o \notin Through
    BY <1>1, <2>2
  <2> QED
    BY <2>1, <2>2
<1>3. Writable(o) = {(writePtr[o] + i) % MapLength(o) : i \in 0 .. (k - 1)}
  BY DEF Writable, Bytes
<1> HIDE DEF k
<1> SUFFICES ASSUME NEW i \in 0 .. (k - 1)
             PROVE  \E n \in Nat : n < maxWrite[o] /\ (writePtr[o] + i) % MapLength(o)
                                                        = (writePtr[o] + n) % MapLength(o)
  BY <1>3
<1>4. i \in Nat /\ i < maxWrite[o]
  BY <1>1, <1>2
<1> QED
  BY <1>4

LEMMA WritesApart ==
  ASSUME RingInv, NEW o \in Outputs, writer[o] \in inCall, NEW p \in Below(o),
         NEW r \in ReadersOf(p)
  PROVE  Writable(o) \cap Unread(r) = {}
<1>1. p \in Outputs /\ MapLength(p) = MapLength(o)
  BY BehindFacts
<1>2. PICK d \in Nat : Behind(p, d, o)
  BY BehindFacts
<1>3. r \in Readers /\ output[r] = p
  BY DEF ReadersOf
<1> DEFINE m == MapLength(o)
           w == writePtr[o]
           x == readPtr[r]
           l == readLength[r]
           k == maxWrite[o]
           e == d + l
<1>4. m \in Nat /\ w \in Nat /\ w < m
  <2>1. m \in Nat /\ w \in 0 .. (m - 1)
    BY MapLengthFacts DEF RingInv, PointersMapped
  <2> QED
    BY <2>1
<1>5. x \in Nat /\ x < m /\ writePtr[p] \in Nat
  <2>1. x \in 0 .. (m - 1) /\ writePtr[p] \in Nat
    BY <1>1, <1>3 DEF RingInv, PointersMapped
  <2> QED
    BY <1>4, <2>1
<1>6. /\ l \in Nat /\ l < maxLength[p] + maxWrite[p]
      /\ writer[p] \in inCall => l < maxLength[p]
      /\ x + l = writePtr[p] \/ x + l = writePtr[p] + m
  BY <1>1, <1>3 DEF RingInv, DataInv, InTurn
<1>7. /\ maxLength[p] \in Nat /\ maxWrite[p] \in Nat /\ maxWrite[p] <= maxLength[p]
      /\ maxLength[o] \in Nat /\ k \in Nat \ {0} /\ k <= maxLength[o]
  BY <1>1, PromiseAssumption
<1>8. /\ writePtr[p] + d = w \/ writePtr[p] + d = w + m
      /\ (p = o /\ d = 0) \/ d + maxLength[o] < Weight(Below(o) \ Below(p))
  BY <1>2 DEF Behind
<1>9. e \in Nat /\ e + k <= m
  <2>1. CASE p = o /\ d = 0
    <3>1. l < maxLength[o] /\ 2 * maxLength[o] <= m
      BY <1>6, <2>1, Room
    <3> HIDE DEF l, m, k
    <3> QED
      BY <1>4, <1>6, <1>7, <2>1, <3>1
  <2>2. CASE d + maxLength[o] < Weight(Below(o) \ Below(p))
    <3> DEFINE T == Below(o) \ Below(p)
    <3>1. p \in Outputs \ T /\ T \in SUBSET Outputs /\ T \cup {p} \in SUBSET Below(Owner(o))
          /\ T \in SUBSET Below(Owner(o))
      BY <1>1, OwnerFacts DEF Below
    <3>2. d + maxLength[o] < Weight(T)
      BY <2>2
    <3> HIDE DEF T
    <3>3. Weight(T \cup {p}) = Weight(T) + 2 * maxLength[p]
      BY <3>1, WeightMore
    <3>4. Weight(T \cup {p}) <= m /\ Weight(T) \in Nat
      BY <3>1, MapLengthFacts
    <3> HIDE DEF l, m, k
    <3> QED
      BY <1>4, <1>6, <1>7, <3>2, <3>3, <3>4
  <2> QED
    BY <1>8, <2>1, <2>2
<1>10. x + e = w \/ x + e = w + m
  <2>1. e = d + l
    OBVIOUS
  <2> HIDE DEF l, m, k, w, x, e
  <2> QED
    BY <1>4, <1>5, <1>6, <1>7, <1>8, <1>9, <2>1
<1>11. l <= e
  <2> HIDE DEF l
  <2> QED
    BY <1>6
<1> SUFFICES ASSUME NEW y \in Writable(o), y \in Unread(r) PROVE FALSE
  OBVIOUS
<1>12. PICK i \in Nat : i < k /\ y = (w + i) % m
  BY WritableFacts
<1>13. PICK j \in 0 .. (l - 1) : y = (x + j) % m
  BY <1>1, <1>3 DEF Unread, Bytes
<1> HIDE DEF l, m, k, w, x, e
<1>14. j \in Nat /\ j < e /\ m \in Nat \ {0}
  BY <1>4, <1>6, <1>7, <1>9, <1>11
<1>15. (w + i) % m # (x + j) % m
  BY <1>4, <1>5, <1>7, <1>9, <1>10, <1>12, <1>14, RunsApart
<1> QED
  BY <1>12, <1>13, <1>15

\* No filter writes over bytes that a reader of its output, or of an output
\* that passes its buffer on, has not read, for every number of readers and
\* however far each lags.
THEOREM NothingOverwritten == RingSpec => []NoOverwrite
<1>1. RingInv => NoOverwrite
  BY WritesApart DEF NoOverwrite
<1> QED
  BY <1>1, RingInductive, PTL
=============================================================================
