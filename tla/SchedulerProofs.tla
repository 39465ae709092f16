-------------------------- MODULE SchedulerProofs --------------------------
(***************************************************************************)
(* What holds of Scheduler.tla for every stream graph and every number of  *)
(* workers.  ThreadInv of SchedulerInvariants.tla is inductive, with one   *)
(* lemma for each action; on top of it no callable filter is forgotten     *)
(* (WorkInv); and the scheduler implements Dataflow.tla.  Last, the same   *)
(* in every flow of the life of a stream, StreamLife.tla.                  *)
(***************************************************************************)
EXTENDS StreamLife, TLAPS, FiniteSetTheorems, SequenceTheorems

-----------------------------------------------------------------------------
(***************************************************************************)
(* The operators the scheduler is built from: the sequences RunInput()     *)
(* appends to the job queue, what a call of input() may do to the lengths, *)
(* and the sets of worker slots that the counters count.                   *)
(***************************************************************************)

\* x is in the sequence s, and s repeats nothing.
Holds(s, x) == \E i \in DOMAIN s : s[i] = x
OnceEach(s) == \A i, j \in DOMAIN s : s[i] = s[j] => i = j

-----------------------------------------------------------------------------
(***************************************************************************)
(* Sequences.                                                              *)
(***************************************************************************)

\* A listing of S in the order of L is a sequence that has each element of S
\* once (FilterUnusedToStreamQ() called once for each filter of S).
LEMMA ListingOnceEach ==
  ASSUME NEW S, IsFiniteSet(S), NEW X, NEW L \in Seq(X), OnceEach(L),
         NEW q \in Listings(S, L)
  PROVE  /\ q \in Seq(S)
         /\ OnceEach(q)
         /\ \A x : Holds(q, x) <=> x \in S
<1>1. Cardinality(S) \in Nat
  BY FS_CardinalityType
<1>2. q \in [1..Cardinality(S) -> S] /\ ListedInOrder(q, S, L)
  BY DEF Listings
<1>3. q \in Seq(S)
  BY <1>1, <1>2
<1>4. DOMAIN q = 1..Cardinality(S)
  BY <1>2
<1>5. ASSUME NEW i \in DOMAIN q, NEW j \in DOMAIN q, i < j
      PROVE  q[i] # q[j]
  <2>1. PICK a, b \in DOMAIN L : a < b /\ L[a] = q[i] /\ L[b] = q[j]
    BY <1>2, <1>5 DEF ListedInOrder
  <2>2. a \in Int /\ b \in Int
    BY LenProperties
  <2>3. L[a] # L[b]
    BY <2>1, <2>2 DEF OnceEach
  <2> QED
    BY <2>1, <2>3
<1>6. OnceEach(q)
  <2>1. DOMAIN q \subseteq Int
    BY <1>1, <1>4
  <2>2. ASSUME NEW i \in DOMAIN q, NEW j \in DOMAIN q, q[i] = q[j], i # j
        PROVE  FALSE
    <3>1. i < j \/ j < i
      BY <2>1, <2>2
    <3> QED
      BY <3>1, <2>2, <1>5
  <2> QED
    BY <2>2 DEF OnceEach
<1>7. \A x : Holds(q, x) <=> x \in S
  BY <1>2 DEF Holds, ListedInOrder
<1> QED
  BY <1>3, <1>6, <1>7

\* Listing from the last to the first loses and repeats nothing.
LEMMA LastFirstOnceEach ==
  ASSUME NEW S, NEW q \in Seq(S), OnceEach(q)
  PROVE  LastFirst(q) \in Seq(S) /\ OnceEach(LastFirst(q))
<1>1. Len(q) \in Nat /\ DOMAIN q = 1..Len(q) /\ \A i \in 1..Len(q) : q[i] \in S
  BY LenProperties, ElementOfSeq
<1>2. \A i \in 1..Len(q) : Len(q) + 1 - i \in 1..Len(q)
  BY <1>1
<1>3. LastFirst(q) \in [1..Len(q) -> S]
  BY <1>1, <1>2 DEF LastFirst
<1>4. LastFirst(q) \in Seq(S)
  BY <1>1, <1>3, SeqDef
<1>5. OnceEach(LastFirst(q))
  BY <1>1, <1>2 DEF OnceEach, LastFirst
<1> QED
  BY <1>4, <1>5

\* Appending b to a, when they have nothing in common.
LEMMA AppendOnceEach ==
  ASSUME NEW F, NEW a \in Seq(F), NEW b \in Seq(F),
         OnceEach(a), OnceEach(b), \A x : ~(Holds(a, x) /\ Holds(b, x))
  PROVE  /\ a \o b \in Seq(F)
         /\ OnceEach(a \o b)
         /\ \A x : Holds(a \o b, x) <=> Holds(a, x) \/ Holds(b, x)
<1> DEFINE n == Len(a)  m == Len(b)
<1>1. /\ a \o b \in Seq(F)
      /\ n \in Nat /\ m \in Nat
      /\ DOMAIN a = 1..n /\ DOMAIN b = 1..m
      /\ DOMAIN (a \o b) = 1..(n + m)
  BY ConcatProperties, LenProperties
<1>2. \A i \in 1..(n + m) : (a \o b)[i] = IF i <= n THEN a[i] ELSE b[i - n]
  BY ConcatProperties
<1>3. ASSUME NEW i \in DOMAIN (a \o b), NEW j \in DOMAIN (a \o b), (a \o b)[i] = (a \o b)[j]
      PROVE  i = j
  <2>1. CASE i <= n /\ j <= n
    <3>1. i \in DOMAIN a /\ j \in DOMAIN a /\ a[i] = a[j]
      BY <1>1, <1>2, <1>3, <2>1
    <3> QED
      BY <3>1 DEF OnceEach
  <2>2. CASE i > n /\ j > n
    <3>1. i - n \in DOMAIN b /\ j - n \in DOMAIN b /\ b[i - n] = b[j - n]
      BY <1>1, <1>2, <1>3, <2>2
    <3>2. i - n = j - n
      BY <3>1 DEF OnceEach
    <3> QED
      BY <3>2, <1>1
  <2>3. CASE i <= n /\ j > n
    <3>1. i \in DOMAIN a /\ j - n \in DOMAIN b /\ a[i] = b[j - n]
      BY <1>1, <1>2, <1>3, <2>3
    <3> QED
      BY <3>1 DEF Holds
  <2>4. CASE i > n /\ j <= n
    <3>1. j \in DOMAIN a /\ i - n \in DOMAIN b /\ a[j] = b[i - n]
      BY <1>1, <1>2, <1>3, <2>4
    <3> QED
      BY <3>1 DEF Holds
  <2> QED
    BY <1>1, <2>1, <2>2, <2>3, <2>4
<1>4. ASSUME NEW x PROVE Holds(a \o b, x) <=> Holds(a, x) \/ Holds(b, x)
  <2>1. ASSUME Holds(a \o b, x) PROVE Holds(a, x) \/ Holds(b, x)
    <3>1. PICK i \in 1..(n + m) : (a \o b)[i] = x
      BY <1>1, <2>1 DEF Holds
    <3>2. CASE i <= n
      BY <1>1, <1>2, <3>1, <3>2 DEF Holds
    <3>3. CASE i > n
      <4>1. i - n \in DOMAIN b /\ b[i - n] = x
        BY <1>1, <1>2, <3>1, <3>3
      <4> QED
        BY <4>1 DEF Holds
    <3> QED
      BY <1>1, <3>2, <3>3
  <2>2. ASSUME Holds(a, x) PROVE Holds(a \o b, x)
    <3>1. PICK i \in 1..n : a[i] = x
      BY <1>1, <2>2 DEF Holds
    <3>2. i \in DOMAIN (a \o b) /\ (a \o b)[i] = x
      BY <1>1, <1>2, <3>1
    <3> QED
      BY <3>2 DEF Holds
  <2>3. ASSUME Holds(b, x) PROVE Holds(a \o b, x)
    <3>1. PICK i \in 1..m : b[i] = x
      BY <1>1, <2>3 DEF Holds
    <3>2. i + n \in DOMAIN (a \o b) /\ (a \o b)[i + n] = x
      BY <1>1, <1>2, <3>1
    <3> QED
      BY <3>2 DEF Holds
  <2> QED
    BY <2>1, <2>2, <2>3
<1> QED
  BY <1>1, <1>3, <1>4 DEF OnceEach

\* Taking the head off a queue that repeats nothing.
LEMMA TailOnceEach ==
  ASSUME NEW F, NEW q \in Seq(F), q # <<>>, OnceEach(q)
  PROVE  /\ Head(q) \in F /\ Tail(q) \in Seq(F)
         /\ OnceEach(Tail(q))
         /\ Holds(q, Head(q))
         /\ \A x : Holds(Tail(q), x) <=> Holds(q, x) /\ x # Head(q)
<1> DEFINE n == Len(q)
<1>1. /\ n \in Nat \ {0}
      /\ DOMAIN q = 1..n
      /\ Head(q) = q[1] /\ Head(q) \in F
      /\ Tail(q) \in Seq(F)
      /\ DOMAIN Tail(q) = 1..(n - 1)
  BY EmptySeq, LenProperties, HeadTailProperties
<1>2. \A i \in 1..(n - 1) : Tail(q)[i] = q[i + 1]
  BY <1>1, HeadTailProperties
<1>3. OnceEach(Tail(q))
  <2>1. ASSUME NEW i \in 1..(n - 1), NEW j \in 1..(n - 1), Tail(q)[i] = Tail(q)[j]
        PROVE  i = j
    <3>1. i + 1 \in DOMAIN q /\ j + 1 \in DOMAIN q /\ q[i + 1] = q[j + 1]
      BY <1>1, <1>2, <2>1
    <3>2. i + 1 = j + 1
      BY <3>1 DEF OnceEach
    <3> QED
      BY <3>2, <1>1
  <2> QED
    BY <2>1, <1>1 DEF OnceEach
<1>4. ASSUME NEW x PROVE Holds(Tail(q), x) <=> Holds(q, x) /\ x # Head(q)
  <2>1. ASSUME Holds(Tail(q), x) PROVE Holds(q, x) /\ x # Head(q)
    <3>1. PICK i \in 1..(n - 1) : Tail(q)[i] = x
      BY <1>1, <2>1 DEF Holds
    <3>2. i + 1 \in DOMAIN q /\ q[i + 1] = x /\ i + 1 # 1
      BY <1>1, <1>2, <3>1
    <3>3. x # q[1]
      BY <3>2, <1>1 DEF OnceEach
    <3> QED
      BY <3>2, <3>3, <1>1 DEF Holds
  <2>2. ASSUME Holds(q, x), x # Head(q) PROVE Holds(Tail(q), x)
    <3>1. PICK i \in 1..n : q[i] = x
      BY <1>1, <2>2 DEF Holds
    <3>2. i # 1
      BY <3>1, <2>2, <1>1
    <3>3. i - 1 \in DOMAIN Tail(q) /\ Tail(q)[i - 1] = x
      BY <1>1, <1>2, <3>1, <3>2
    <3> QED
      BY <3>3 DEF Holds
  <2> QED
    BY <2>1, <2>2
<1>5. Holds(q, Head(q))
  BY <1>1 DEF Holds
<1> QED
  BY <1>1, <1>3, <1>4, <1>5

-----------------------------------------------------------------------------
(***************************************************************************)
(* What one call of input() does to the lengths.                           *)
(***************************************************************************)

\* A call consumes at most what it was given and writes at most its promise.
LEMMA CallFacts ==
  ASSUME NEW f \in Filters, NEW lens \in [Readers -> Nat], NEW c \in Calls(f, lens)
  PROVE  /\ \A r \in Inputs(f) : c.advance[r] \in Nat /\ c.advance[r] <= lens[r]
         /\ \A r \in Inputs(f) : lens[r] >= maxRead[r] => c.advance[r] > 0
         /\ \A o \in OutputsOf(f) : c.wrote[o] \in Nat /\ c.wrote[o] <= maxWrite[o]
         /\ c.done \in BOOLEAN
<1>1. c.advance \in [Inputs(f) -> UNION {0..lens[r] : r \in Inputs(f)}]
  BY DEF Calls
<1>2. ASSUME NEW r \in Inputs(f) PROVE c.advance[r] \in Nat
  <2>1. c.advance[r] \in UNION {0..lens[s] : s \in Inputs(f)}
    BY <1>1
  <2>2. PICK s \in Inputs(f) : c.advance[r] \in 0..lens[s]
    BY <2>1
  <2>3. lens[s] \in Nat
    BY DEF Inputs
  <2> QED
    BY <2>2, <2>3
<1>3. c.wrote \in [OutputsOf(f) -> UNION {0..maxWrite[o] : o \in OutputsOf(f)}]
  BY DEF Calls
<1>4. ASSUME NEW o \in OutputsOf(f) PROVE c.wrote[o] \in Nat
  <2>1. c.wrote[o] \in UNION {0..maxWrite[p] : p \in OutputsOf(f)}
    BY <1>3
  <2>2. PICK p \in OutputsOf(f) : c.wrote[o] \in 0..maxWrite[p]
    BY <2>1
  <2>3. maxWrite[p] \in Nat
    BY PromiseAssumption DEF OutputsOf
  <2> QED
    BY <2>2, <2>3
<1> QED
  BY <1>2, <1>4 DEF Calls

\* A reader is an input of one filter and fed by another, so a call only
\* lowers the lengths its filter reads and only raises those it feeds.
LEMMA LengthFacts ==
  ASSUME NEW f \in Filters, NEW lens \in [Readers -> Nat], NEW c \in Calls(f, lens),
         NEW lengths \in [Readers -> Nat],
         \A r \in Inputs(f) : lens[r] <= lengths[r]
  PROVE  LET after == LengthsAfter(f, c, lengths) IN
         /\ after \in [Readers -> Nat]
         /\ \A r \in Inputs(f) :
              /\ r \notin Feeds(f)
              /\ after[r] <= lengths[r]
              /\ after[r] = lengths[r] - c.advance[r]
         /\ \A r \in Feeds(f) :
              /\ lengths[r] <= after[r]
              /\ after[r] <= lengths[r] + maxWrite[output[r]]
              /\ after[r] = lengths[r] + c.wrote[output[r]]
         /\ \A r \in Readers : r \notin Inputs(f) \cup Feeds(f) => after[r] = lengths[r]
<1> DEFINE after == LengthsAfter(f, c, lengths)
<1>1. /\ Inputs(f) \subseteq Readers /\ Feeds(f) \subseteq Readers
      /\ Inputs(f) \cap Feeds(f) = {}
      /\ \A r \in Feeds(f) : output[r] \in OutputsOf(f)
  BY GraphAssumption DEF Inputs, Feeds, OutputsOf
<1>2. \A o \in OutputsOf(f) : maxWrite[o] \in Nat
  BY PromiseAssumption DEF OutputsOf
<1>3. ASSUME NEW r \in Inputs(f)
      PROVE  after[r] \in Nat /\ after[r] <= lengths[r] /\ after[r] = lengths[r] - c.advance[r]
  BY <1>1, <1>3, CallFacts DEF LengthsAfter
<1>4. ASSUME NEW r \in Feeds(f)
      PROVE  /\ after[r] \in Nat
             /\ lengths[r] <= after[r] /\ after[r] <= lengths[r] + maxWrite[output[r]]
             /\ after[r] = lengths[r] + c.wrote[output[r]]
  <2>1. /\ c.wrote[output[r]] \in Nat /\ c.wrote[output[r]] <= maxWrite[output[r]]
        /\ maxWrite[output[r]] \in Nat /\ lengths[r] \in Nat
    BY <1>1, <1>2, CallFacts
  <2>2. after[r] = lengths[r] + c.wrote[output[r]]
    BY <1>1, <2>1 DEF LengthsAfter
  <2> QED
    BY <2>1, <2>2
<1>5. ASSUME NEW r \in Readers, r \notin Inputs(f) \cup Feeds(f)
      PROVE  after[r] = lengths[r]
  BY <1>5 DEF LengthsAfter
<1>6. after \in [Readers -> Nat]
  <2>1. \A r \in Readers : after[r] \in Nat
    BY <1>3, <1>4, <1>5
  <2>2. after = [r \in Readers |-> after[r]]
    BY DEF LengthsAfter
  <2> QED
    BY <2>1, <2>2
<1> QED
  BY <1>1, <1>3, <1>4, <1>5, <1>6

\* The readers of the filters other than f: a call of f never takes from
\* what they have to read, nor adds to what their own readers have.
LEMMA OthersUnharmed ==
  ASSUME NEW f \in Filters, NEW lens \in [Readers -> Nat], NEW c \in Calls(f, lens),
         NEW lengths \in [Readers -> Nat],
         \A r \in Inputs(f) : lens[r] <= lengths[r],
         NEW g \in Filters, g # f
  PROVE  LET after == LengthsAfter(f, c, lengths) IN
         /\ \A r \in Inputs(g) : lengths[r] <= after[r]
         /\ \A r \in Feeds(g) : after[r] <= lengths[r]
         /\ OutputsHungry(g, lengths) => OutputsHungry(g, after)
         /\ InputsFeeding(g, lengths) => InputsFeeding(g, after)
<1> DEFINE after == LengthsAfter(f, c, lengths)
<1>1. ASSUME NEW r \in Inputs(g) PROVE r \in Readers /\ r \notin Inputs(f)
  BY DEF Inputs
<1>2. ASSUME NEW r \in Feeds(g) PROVE r \in Readers /\ r \notin Feeds(f)
  BY DEF Feeds
<1>3. after \in [Readers -> Nat]
  BY LengthFacts
<1>4. ASSUME NEW r \in Inputs(g) PROVE lengths[r] <= after[r]
  BY <1>1, <1>3, LengthFacts
<1>5. ASSUME NEW r \in Feeds(g) PROVE after[r] <= lengths[r]
  BY <1>2, <1>3, LengthFacts
<1>6. OutputsHungry(g, lengths) => OutputsHungry(g, after)
  <2>1. \A r \in Readers : maxLength[output[r]] \in Nat
    BY GraphAssumption, PromiseAssumption
  <2> QED
    BY <1>2, <1>3, <1>5, <2>1 DEF OutputsHungry
<1>7. InputsFeeding(g, lengths) => InputsFeeding(g, after)
  <2>1. \A r \in Readers : threshold[r] \in Nat
    BY PromiseAssumption
  <2> QED
    BY <1>1, <1>3, <1>4, <2>1 DEF InputsFeeding
<1> QED
  BY <1>4, <1>5, <1>6, <1>7

-----------------------------------------------------------------------------
(***************************************************************************)
(* Worker slots.                                                           *)
(***************************************************************************)

\* Sets of workers are finite, of at most maxThreads.
LEMMA WorkersFinite ==
  ASSUME NEW A \in SUBSET Threads
  PROVE  IsFiniteSet(A) /\ Cardinality(A) \in 0..maxThreads
<1>1. IsFiniteSet(Threads) /\ Cardinality(Threads) = maxThreads
  BY FS_Interval, ThreadAssumption DEF Threads
<1> QED
  BY <1>1, FS_Subset, FS_CardinalityType, ThreadAssumption

\* Two sets of workers with the same count, one inside the other, are equal.
LEMMA SameCount ==
  ASSUME NEW A \in SUBSET Threads, NEW B \in SUBSET A, Cardinality(A) = Cardinality(B)
  PROVE  A = B
  BY WorkersFinite, FS_Subset

\* LaunchWorkerThread() n times launches n workers.
LEMMA SlotsCount ==
  ASSUME NEW k \in Nat, NEW n \in Nat, k + n <= maxThreads
  PROVE  LET S == {t \in Threads : t > k /\ t <= k + n} IN
         IsFiniteSet(S) /\ Cardinality(S) = n
<1>1. {t \in Threads : t > k /\ t <= k + n} = (k + 1)..(k + n)
  BY ThreadAssumption DEF Threads
<1>2. k + 1 \in Int /\ k + n \in Int
  OBVIOUS
<1>3. /\ IsFiniteSet((k + 1)..(k + n))
      /\ Cardinality((k + 1)..(k + n)) =
           IF k + 1 > k + n THEN 0 ELSE (k + n) - (k + 1) + 1
  BY <1>2, FS_Interval
<1>4. Cardinality((k + 1)..(k + n)) = n
  BY <1>3
<1> QED
  BY <1>1, <1>3, <1>4

\* The places of a worker that is counted as idle, and of one that is not.
LEMMA PlaceSets ==
  /\ In(Waiting) \subseteq Live /\ Counted \subseteq Live /\ Live \subseteq Threads
  BY DEF In, Waiting, Live, Counted

\* The exact counters are counters of at most maxThreads workers.
LEMMA CountersTyped ==
  /\ CountersExact => numThreads \in 0..maxThreads /\ numWorkerThreads \in 0..maxThreads
                     /\ numIdleThreads \in 0..maxThreads
  /\ CountersExact' => numThreads' \in 0..maxThreads /\ numWorkerThreads' \in 0..maxThreads
                      /\ numIdleThreads' \in 0..maxThreads
<1>1. Live \subseteq Threads /\ Counted \subseteq Threads /\ In(Waiting) \subseteq Threads
  BY DEF Live, Counted, In
<1>2. Live' \subseteq Threads /\ Counted' \subseteq Threads /\ In(Waiting)' \subseteq Threads
  BY DEF Live, Counted, In
<1> QED
  BY <1>1, <1>2, WorkersFinite DEF CountersExact

\* If the idle workers and t make up the count of workers, they are all there is.
LEMMA AllOthersWait ==
  ASSUME CountersExact, NEW t \in Live, t \notin In(Waiting)
  PROVE  OthersIdle(numIdleThreads, numThreads) <=> In(Waiting) = Live \ {t}
<1> DEFINE rest == Live \ {t}
<1>1. IsFiniteSet(Live) /\ Live \in SUBSET Threads /\ rest \in SUBSET Threads
  BY WorkersFinite, PlaceSets
<1>2. Cardinality(rest) = Cardinality(Live) - 1
  BY <1>1, FS_RemoveElement
<1>3. In(Waiting) \in SUBSET rest
  BY PlaceSets
<1> HIDE DEF rest
<1>4. Cardinality(In(Waiting)) = Cardinality(rest) <=> In(Waiting) = rest
  <2>1. ASSUME Cardinality(In(Waiting)) = Cardinality(rest) PROVE In(Waiting) = rest
    BY <1>1, <1>3, <2>1, SameCount
  <2> QED
    BY <2>1
<1>5. Cardinality(Live) \in Nat
  BY <1>1, FS_CardinalityType
<1>6. numIdleThreads = Cardinality(In(Waiting)) /\ numThreads = Cardinality(Live)
  BY DEF CountersExact
<1>7. OthersIdle(numIdleThreads, numThreads) <=> In(Waiting) = rest
  BY <1>2, <1>4, <1>5, <1>6 DEF OthersIdle
<1> QED
  BY <1>7 DEF rest

-----------------------------------------------------------------------------
(***************************************************************************)
(* One lemma per action.                                                   *)
(***************************************************************************)

LEMMA InitStep == Init => ThreadInv
<1> SUFFICES ASSUME Init PROVE ThreadInv
  OBVIOUS
<1>1. TypeOK
  <2>1. queue \in Seq(Filters) /\ 0 \in 0..maxThreads
    BY ThreadAssumption DEF Init
  <2>2. readLength \in [Readers -> Nat] /\ inputLens \in [Readers -> Nat]
    BY DEF Init
  <2>3. pc \in [Threads -> Places] /\ job \in [Threads -> Filters \cup {NoJob}]
    BY DEF Init, Places
  <2> QED
    BY <2>1, <2>2, <2>3 DEF Init, TypeOK, MasterPlaces
<1>2. In({"none", "dead"}) = Threads /\ In(Waiting) = {} /\ Live = {} /\ Counted = {}
  BY DEF Init, In, Waiting, Live, Counted
<1>3. CountersExact
  BY <1>2, FS_EmptySet DEF Init, CountersExact
<1>4. MutexHeld /\ JobHeld /\ LensBounded /\ NotStarted
  BY ThreadAssumption DEF Init, MutexHeld, JobHeld, LensBounded, NotStarted, Holding, In, Free, Threads
<1>5. OneJobEach /\ ReadyWhenCalled
  BY ThreadAssumption DEF Init, OneJobEach, ReadyWhenCalled, Queued, Working, In
<1>6. BoundedBacklog
  BY GraphAssumption, PromiseAssumption DEF Init, BoundedBacklog
<1>7. LeavesOnlyWhenIdle /\ WorkHasWorker /\ NoLostWakeup /\ StartedOnce /\ MasterKnows
  BY <1>2 DEF Init, LeavesOnlyWhenIdle, WorkHasWorker, NoLostWakeup, StartedOnce, MasterKnows, In
<1>8. SlotsInOrder /\ JoinsSlots
  BY ThreadAssumption DEF Init, SlotsInOrder, JoinsSlots, Threads
<1> QED
  BY <1>1, <1>3, <1>4, <1>5, <1>6, <1>7, <1>8 DEF ThreadInv, JobInv

\* RunningWorkerThread() takes the mutex for the first time.
LEMMA StartStep ==
  ASSUME ThreadInv, NEW t \in Threads, Start(t)
  PROVE  ThreadInv'
<1> USE DEF ThreadInv, JobInv
<1>1. In({"exit", "dead"}) = {} /\ master # "ready"
  BY DEF LeavesOnlyWhenIdle, NotStarted, Start, In
<1>2. /\ Live' = Live /\ In(Waiting)' = In(Waiting)
      /\ Counted' = Counted \cup {t} /\ t \notin Counted
  BY DEF Start, Live, Counted, In, Waiting, TypeOK
<1>3. CountersExact'
  BY <1>2, WorkersFinite, PlaceSets, FS_AddElement DEF CountersExact, Start
<1>4. TypeOK'
  <2>1. numWorkerThreads' \in 0..maxThreads
    BY <1>3, CountersTyped
  <2> QED
    BY <2>1 DEF TypeOK, Start, dataVars, jobVars, Places
<1>5. MutexHeld' /\ JobHeld' /\ LensBounded' /\ NotStarted' /\ BoundedBacklog'
  BY <1>1 DEF TypeOK, Start, MutexHeld, JobHeld, LensBounded, NotStarted, BoundedBacklog,
         dataVars, jobVars, Holding, In, Free, Threads
<1>6. OneJobEach' /\ ReadyWhenCalled'
  BY DEF Start, OneJobEach, ReadyWhenCalled, Queued, Working, TypeOK, In, dataVars, jobVars
<1>7. SlotsInOrder' /\ LeavesOnlyWhenIdle' /\ WorkHasWorker' /\ NoLostWakeup'
  BY <1>1 DEF Start, TypeOK, SlotsInOrder, LeavesOnlyWhenIdle, WorkHasWorker, NoLostWakeup, In, Free,
         Threads, jobVars
<1>8. StartedOnce' /\ MasterKnows' /\ JoinsSlots'
  BY <1>2 DEF Start, TypeOK, StartedOnce, MasterKnows, JoinsSlots, In
<1> QED
  BY <1>3, <1>4, <1>5, <1>6, <1>7, <1>8

\* GetWork() hands the head of the queue to a worker, which unlocks.
LEMMA TakeJobStep ==
  ASSUME ThreadInv, NEW t \in Threads, TakeJob(t)
  PROVE  ThreadInv'
<1> USE DEF ThreadInv, JobInv
<1> DEFINE f == Head(queue)
<1>1. /\ queue \in Seq(Filters) /\ queue # <<>> /\ OnceEach(queue)
      /\ pc[t] = "getwork" /\ job[t] = NoJob /\ mutex = t
  BY DEF TakeJob, TypeOK, OneJobEach, OnceEach, JobHeld, MutexHeld, Holding
<1>2. /\ f \in Filters /\ queue' \in Seq(Filters) /\ OnceEach(queue') /\ Holds(queue, f)
      /\ \A x : Holds(queue', x) <=> Holds(queue, x) /\ x # f
  BY <1>1, TailOnceEach DEF TakeJob
<1>3. \A u \in Threads : job'[u] = IF u = t THEN f ELSE job[u]
  BY DEF TakeJob, TypeOK
<1>4. \A u \in Threads : pc'[u] = IF u = t THEN "input" ELSE pc[u]
  BY DEF TakeJob, TypeOK
<1>5. f \notin unused /\ \A u \in Threads : job[u] # f
  BY <1>2 DEF OneJobEach, Holds, Queued, Working
<1>6. In({"exit", "dead"}) = {} /\ master # "ready"
  BY <1>1 DEF LeavesOnlyWhenIdle, NotStarted, In
<1>7. Live' = Live /\ In(Waiting)' = In(Waiting) /\ Counted' = Counted
  BY <1>1, <1>4 DEF Live, Counted, In, Waiting
<1>8. CountersExact'
  BY <1>7 DEF CountersExact, TakeJob, countVars
<1>9. TypeOK'
  <2>1. inputLens' \in [Readers -> Nat]
    BY DEF TakeJob, TypeOK
  <2>2. pc' \in [Threads -> Places] /\ job' \in [Threads -> Filters \cup {NoJob}]
    BY <1>2 DEF TakeJob, TypeOK, Places
  <2> QED
    BY <1>2, <2>1, <2>2 DEF TypeOK, TakeJob, countVars
<1>10. MutexHeld' /\ JobHeld'
  BY <1>1, <1>2, <1>3, <1>4, ThreadAssumption DEF MutexHeld, JobHeld, Holding, TakeJob, Free, Threads
<1>11. OneJobEach'
  <2>1. \A g : Queued(g)' <=> Queued(g) /\ g # f
    BY <1>2 DEF Queued, Holds
  <2>2. \A g \in Filters : Working(g)' <=> Working(g) \/ g = f
    BY <1>1, <1>3, <1>5, ThreadAssumption DEF Working
  <2>3. \A i \in DOMAIN queue' : queue'[i] # f /\ queue'[i] \in Filters /\ Queued(queue'[i])
    BY <1>2, LenProperties DEF Queued, Holds
  <2>4. \A i \in DOMAIN queue' : \A u \in Threads : job'[u] # queue'[i]
    BY <1>3, <2>3 DEF OneJobEach, Queued, Working
  <2>5. \A i, j \in DOMAIN queue' : queue'[i] = queue'[j] => i = j
    BY <1>2 DEF OnceEach
  <2>6. \A u, v \in Threads : job'[u] = job'[v] /\ job'[u] # NoJob => u = v
    BY <1>3, <1>5 DEF OneJobEach
  <2>7. \A g \in Filters : g \in unused' \/ Queued(g)' \/ Working(g)'
    BY <2>1, <2>2 DEF OneJobEach, TakeJob
  <2>8. \A g \in unused' : ~Queued(g)' /\ ~Working(g)'
    BY <1>5, <2>1, <2>2 DEF OneJobEach, TakeJob, TypeOK
  <2> QED
    BY <2>4, <2>5, <2>6, <2>7, <2>8 DEF OneJobEach, Working
<1>12. ReadyWhenCalled'
  <2>1. \A g : Queued(g)' => Queued(g)
    BY <1>2 DEF Queued, Holds
  <2>2. \A g \in Filters : (\E u \in In({"input"})' : job'[u] = g)
                             => Queued(g) \/ \E u \in In({"input"}) : job[u] = g
    BY <1>2, <1>3, <1>4 DEF In, Queued, Holds
  <2> QED
    BY <2>1, <2>2 DEF ReadyWhenCalled, TakeJob
<1>13. LensBounded'
  <2>1. ASSUME NEW u \in Threads, pc'[u] = "input", NEW r \in Inputs(job'[u])
        PROVE  inputLens'[r] <= readLength'[r]
    <3>1. r \in Readers /\ reader[r] = job'[u]
      BY DEF Inputs
    <3>2. CASE u = t
      BY <1>3, <3>1, <3>2 DEF TakeJob, Inputs, TypeOK
    <3>3. CASE u # t
      <4>1. u \in In({"input"}) /\ job'[u] = job[u] /\ job[u] # f
        BY <1>3, <1>4, <1>5, <2>1, <3>3 DEF In
      <4>2. inputLens'[r] = inputLens[r]
        BY <3>1, <4>1 DEF TakeJob, Inputs
      <4> QED
        BY <2>1, <4>1, <4>2 DEF LensBounded, TakeJob
    <3> QED
      BY <3>2, <3>3
  <2> QED
    BY <2>1 DEF LensBounded, In
<1>14. BoundedBacklog' /\ NotStarted' /\ JoinsSlots' /\ MasterKnows' /\ StartedOnce'
  BY <1>6, <1>7, <1>4 DEF TakeJob, BoundedBacklog, NotStarted, JoinsSlots, MasterKnows, StartedOnce, In
<1>15. SlotsInOrder' /\ LeavesOnlyWhenIdle' /\ WorkHasWorker' /\ NoLostWakeup'
  BY <1>1, <1>4, <1>6 DEF TakeJob, SlotsInOrder, LeavesOnlyWhenIdle, WorkHasWorker, NoLostWakeup, In, countVars
<1> QED
  BY <1>8, <1>9, <1>10, <1>11, <1>12, <1>13, <1>14, <1>15

\* GetWork() finds nothing to do and everybody else idle.
LEMMA GiveUpStep ==
  ASSUME ThreadInv, NEW t \in Threads, GiveUp(t)
  PROVE  ThreadInv'
<1> USE DEF ThreadInv, JobInv
<1>1. pc[t] = "getwork" /\ queue = <<>> /\ t \in Live /\ t \notin In(Waiting) /\ mutex = t
  BY DEF GiveUp, Live, In, Waiting, MutexHeld, Holding
<1>2. \A u \in Threads : pc'[u] = IF u = t THEN "exit" ELSE pc[u]
  BY DEF GiveUp, TypeOK
<1>3. In(Waiting) = Live \ {t}
  BY <1>1, AllOthersWait DEF GiveUp
<1>4. Live' = Live /\ In(Waiting)' = In(Waiting) /\ Counted' = Counted
  BY <1>1, <1>2 DEF Live, Counted, In, Waiting
<1>5. In({"exit", "dead"}) = {} /\ master # "ready"
  BY <1>1 DEF LeavesOnlyWhenIdle, NotStarted, In
<1>6. TypeOK' /\ CountersExact'
  BY <1>4 DEF TypeOK, CountersExact, GiveUp, Places, dataVars, jobVars, countVars
<1>7. MutexHeld' /\ JobHeld' /\ LensBounded' /\ NotStarted' /\ BoundedBacklog'
  BY <1>1, <1>2, <1>5 DEF GiveUp, MutexHeld, JobHeld, LensBounded, NotStarted, BoundedBacklog,
         dataVars, jobVars, Holding, In
<1>8. OneJobEach' /\ ReadyWhenCalled'
  BY <1>1, <1>2 DEF GiveUp, OneJobEach, ReadyWhenCalled, Queued, Working, In, dataVars, jobVars
<1>9. LeavesOnlyWhenIdle'
  BY <1>1, <1>2, <1>3 DEF LeavesOnlyWhenIdle, GiveUp, jobVars, In, Live, Waiting
<1>10. SlotsInOrder' /\ WorkHasWorker' /\ NoLostWakeup'
  BY <1>1, <1>2, <1>5 DEF GiveUp, SlotsInOrder, WorkHasWorker, NoLostWakeup, In, Free, Threads,
         jobVars, countVars
<1>11. StartedOnce' /\ MasterKnows' /\ JoinsSlots'
  BY <1>2, <1>4, <1>1 DEF GiveUp, StartedOnce, MasterKnows, JoinsSlots, In
<1> QED
  BY <1>6, <1>7, <1>8, <1>9, <1>10, <1>11

\* GetWork() waits: somebody else is still awake.
LEMMA WaitStep ==
  ASSUME ThreadInv, NEW t \in Threads, Wait(t)
  PROVE  ThreadInv'
<1> USE DEF ThreadInv, JobInv
<1>1. pc[t] = "getwork" /\ queue = <<>> /\ t \in Live /\ t \notin In(Waiting) /\ mutex = t
  BY DEF Wait, Live, In, Waiting, MutexHeld, Holding
<1>2. \A u \in Threads : pc'[u] = IF u = t THEN "idle" ELSE pc[u]
  BY DEF Wait, TypeOK
<1>3. In(Waiting) # Live \ {t}
  BY <1>1, AllOthersWait DEF Wait
<1>4. Live' = Live /\ In(Waiting)' = In(Waiting) \cup {t} /\ Counted' = Counted
  BY <1>1, <1>2 DEF Live, Counted, In, Waiting
<1>5. In({"exit", "dead"}) = {} /\ master # "ready"
  BY <1>1 DEF LeavesOnlyWhenIdle, NotStarted, In
<1>6. CountersExact'
  BY <1>1, <1>4, WorkersFinite, PlaceSets, FS_AddElement DEF CountersExact, Wait
<1>7. TypeOK'
  BY <1>6, CountersTyped DEF TypeOK, Wait, Places, dataVars, jobVars
<1>8. MutexHeld' /\ JobHeld' /\ LensBounded' /\ NotStarted' /\ BoundedBacklog'
  BY <1>1, <1>2, <1>5 DEF Wait, MutexHeld, JobHeld, LensBounded, NotStarted, BoundedBacklog,
         dataVars, jobVars, Holding, In, Free, Threads
<1>9. OneJobEach' /\ ReadyWhenCalled'
  BY <1>1, <1>2 DEF Wait, OneJobEach, ReadyWhenCalled, Queued, Working, In, dataVars, jobVars
<1>10. NoLostWakeup'
  <2>1. PICK u \in Live \ {t} : u \notin In(Waiting)
    BY <1>1, <1>3, PlaceSets
  <2>2. u \in Threads /\ pc[u] \in {"launched", "input"}
    BY <1>1, <1>5, <2>1 DEF Live, In, Waiting, Places, TypeOK, MutexHeld, Holding
  <2> QED
    BY <1>2, <2>1, <2>2 DEF NoLostWakeup, In
<1>11. SlotsInOrder' /\ WorkHasWorker' /\ LeavesOnlyWhenIdle'
  BY <1>1, <1>2, <1>5 DEF Wait, SlotsInOrder, WorkHasWorker, LeavesOnlyWhenIdle, In, jobVars
<1>12. StartedOnce' /\ MasterKnows' /\ JoinsSlots'
  BY <1>1, <1>2, <1>4 DEF Wait, StartedOnce, MasterKnows, JoinsSlots, In
<1> QED
  BY <1>6, <1>7, <1>8, <1>9, <1>10, <1>11, <1>12

\* pthread_cond_wait() returns although nobody signalled.
LEMMA SpuriousWakeupStep ==
  ASSUME ThreadInv, NEW t \in Threads, SpuriousWakeup(t)
  PROVE  ThreadInv'
<1> USE DEF ThreadInv, JobInv
<1>1. pc[t] = "idle" /\ \A u \in Threads : pc'[u] = IF u = t THEN "woken" ELSE pc[u]
  BY DEF SpuriousWakeup, TypeOK
<1>2. master # "ready"
  BY <1>1 DEF NotStarted
<1>3. Live' = Live /\ In(Waiting)' = In(Waiting) /\ Counted' = Counted
  BY <1>1 DEF Live, Counted, In, Waiting
<1>4. TypeOK' /\ CountersExact'
  BY <1>3 DEF TypeOK, CountersExact, SpuriousWakeup, Places, dataVars, jobVars, countVars
<1>5. MutexHeld' /\ JobHeld' /\ LensBounded' /\ NotStarted' /\ BoundedBacklog'
  BY <1>1, <1>2 DEF SpuriousWakeup, MutexHeld, JobHeld, LensBounded, NotStarted, BoundedBacklog,
         dataVars, jobVars, Holding, In
<1>6. OneJobEach' /\ ReadyWhenCalled'
  BY <1>1 DEF SpuriousWakeup, OneJobEach, ReadyWhenCalled, Queued, Working, In, dataVars, jobVars
<1>7. SlotsInOrder' /\ LeavesOnlyWhenIdle' /\ WorkHasWorker' /\ NoLostWakeup'
  BY <1>1 DEF SpuriousWakeup, SlotsInOrder, LeavesOnlyWhenIdle, WorkHasWorker, NoLostWakeup, In,
         jobVars, countVars
<1>8. StartedOnce' /\ MasterKnows' /\ JoinsSlots'
  BY <1>1, <1>3 DEF SpuriousWakeup, StartedOnce, MasterKnows, JoinsSlots, In
<1> QED
  BY <1>4, <1>5, <1>6, <1>7, <1>8

\* A woken worker leaves if all the others wait, else it looks for work.
LEMMA WakeStep ==
  ASSUME ThreadInv, NEW t \in Threads, Wake(t)
  PROVE  ThreadInv'
<1> USE DEF ThreadInv, JobInv
<1> DEFINE alone == OthersIdle(numIdleThreads', numThreads)
<1>1. /\ pc[t] = "woken" /\ mutex = Free /\ t \in Live /\ t \in In(Waiting)
      /\ \A u \in Threads : pc[u] \notin Holding
  BY DEF Wake, Live, In, Waiting, MutexHeld, Free, Threads
<1>2. \A u \in Threads : pc'[u] = IF u = t THEN (IF alone THEN "exit" ELSE "getwork") ELSE pc[u]
  BY DEF Wake, TypeOK
<1>3. master # "ready"
  BY <1>1 DEF NotStarted
<1>4. Live' = Live /\ In(Waiting)' = In(Waiting) \ {t} /\ Counted' = Counted
  BY <1>1, <1>2 DEF Live, Counted, In, Waiting
<1>5. numIdleThreads' = numIdleThreads - 1 /\ numThreads' = numThreads
  BY DEF Wake
<1>6. CountersExact'
  BY <1>1, <1>4, <1>5, WorkersFinite, PlaceSets, FS_RemoveElement DEF CountersExact, Wake
<1>7. TypeOK'
  BY <1>6, CountersTyped DEF TypeOK, Wake, Places, dataVars, jobVars
<1>8. alone <=> In(Waiting) = Live
  <2>1. numThreads \in Nat /\ numIdleThreads \in Nat
    BY DEF TypeOK
  <2>2. alone <=> numIdleThreads = numThreads
    BY <1>5, <2>1 DEF OthersIdle
  <2>3. In(Waiting) \in SUBSET Live /\ Live \in SUBSET Threads
    BY PlaceSets
  <2>4. Cardinality(In(Waiting)) = Cardinality(Live) <=> In(Waiting) = Live
    BY <2>3, SameCount
  <2> QED
    BY <2>2, <2>4 DEF CountersExact
<1>9. MutexHeld' /\ JobHeld' /\ LensBounded' /\ NotStarted' /\ BoundedBacklog'
  BY <1>1, <1>2, <1>3 DEF Wake, MutexHeld, JobHeld, LensBounded, NotStarted, BoundedBacklog,
         dataVars, jobVars, Holding, In, Free, Threads
<1>10. OneJobEach' /\ ReadyWhenCalled'
  BY <1>1, <1>2 DEF Wake, OneJobEach, ReadyWhenCalled, Queued, Working, In, dataVars, jobVars
<1>11. ASSUME alone
       PROVE  LeavesOnlyWhenIdle' /\ WorkHasWorker' /\ NoLostWakeup' /\ SlotsInOrder'
  <2>1. In({"launched", "getwork", "input", "done"}) = {}
    BY <1>8, <1>11 DEF In, Live, Waiting
  <2>2. queue = <<>>
    BY <2>1 DEF WorkHasWorker
  <2>3. LeavesOnlyWhenIdle' /\ WorkHasWorker' /\ NoLostWakeup' /\ SlotsInOrder'
    BY <1>1, <1>2, <1>11, <2>1, <2>2 DEF Wake, LeavesOnlyWhenIdle, WorkHasWorker, NoLostWakeup,
       SlotsInOrder, In, Free, Threads, jobVars
  <2> QED
    BY <2>3
<1>12. ASSUME ~alone
       PROVE  LeavesOnlyWhenIdle' /\ WorkHasWorker' /\ NoLostWakeup' /\ SlotsInOrder'
  <2>1. PICK u \in Live : u \notin In(Waiting)
    BY <1>8, <1>12, PlaceSets
  <2>2. u \in Threads /\ pc[u] \in {"launched", "input"}
    BY <1>1, <2>1 DEF Live, In, Waiting, Places, TypeOK, Holding
  <2>3. In({"exit", "dead"}) = {}
    BY <2>2 DEF LeavesOnlyWhenIdle, In
  <2>4. LeavesOnlyWhenIdle' /\ WorkHasWorker' /\ NoLostWakeup' /\ SlotsInOrder'
    BY <1>1, <1>2, <1>12, <2>2, <2>3 DEF Wake, LeavesOnlyWhenIdle, WorkHasWorker, NoLostWakeup,
       SlotsInOrder, In, Free, Threads, jobVars
  <2> QED
    BY <2>4
<1>13. LeavesOnlyWhenIdle' /\ WorkHasWorker' /\ NoLostWakeup' /\ SlotsInOrder'
  BY <1>11, <1>12
<1>14. StartedOnce' /\ MasterKnows' /\ JoinsSlots'
  BY <1>1, <1>2, <1>4 DEF Wake, StartedOnce, MasterKnows, JoinsSlots, In
<1> QED
  BY <1>6, <1>7, <1>9, <1>10, <1>13, <1>14

\* A finished job goes back to its filter's unused stack.
LEMMA PutBackStep ==
  ASSUME ThreadInv, NEW t \in Threads, PutBack(t)
  PROVE  ThreadInv'
<1> USE DEF ThreadInv, JobInv
<1> DEFINE f == job[t]
<1>1. /\ pc[t] = "done" /\ mutex = t /\ f \in Filters /\ f # NoJob
      /\ \A u \in Threads : u # t => job[u] # f
  BY DEF PutBack, TypeOK, MutexHeld, JobHeld, Holding, OneJobEach
<1>2. \A u \in Threads : pc'[u] = IF u = t THEN "getwork" ELSE pc[u]
  BY DEF PutBack, TypeOK
<1>3. \A u \in Threads : job'[u] = IF u = t THEN NoJob ELSE job[u]
  BY DEF PutBack, TypeOK
<1>4. master # "ready" /\ In({"exit", "dead"}) = {}
  BY <1>1 DEF NotStarted, LeavesOnlyWhenIdle, In
<1>5. Live' = Live /\ In(Waiting)' = In(Waiting) /\ Counted' = Counted
  BY <1>1, <1>2 DEF Live, Counted, In, Waiting
<1>6. TypeOK' /\ CountersExact'
  <2>1. pc' \in [Threads -> Places] /\ job' \in [Threads -> Filters \cup {NoJob}]
    BY DEF PutBack, TypeOK, Places
  <2> QED
    BY <1>1, <1>5, <2>1 DEF TypeOK, CountersExact, PutBack, dataVars, countVars
<1>7. MutexHeld' /\ JobHeld' /\ NotStarted' /\ BoundedBacklog'
  BY <1>1, <1>2, <1>3, <1>4 DEF PutBack, MutexHeld, JobHeld, NotStarted, BoundedBacklog,
         dataVars, Holding
<1>8. OneJobEach'
  <2>1. \A g : Queued(g)' <=> Queued(g)
    BY DEF PutBack, Queued
  <2>2. \A g \in Filters : Working(g)' <=> Working(g) /\ g # f
    BY <1>1, <1>3, ThreadAssumption DEF Working
  <2>3. ~Queued(f)
    BY <1>1 DEF OneJobEach, Queued, Working
  <2>4. \A g \in Filters : g \in unused' \/ Queued(g)' \/ Working(g)'
    BY <2>1, <2>2 DEF OneJobEach, PutBack
  <2>5. \A g \in unused' : ~Queued(g)' /\ ~Working(g)'
    BY <1>1, <2>1, <2>2, <2>3 DEF OneJobEach, PutBack, TypeOK
  <2>6. \A i \in DOMAIN queue : \A u \in Threads : job'[u] # queue[i]
    <3>1. \A i \in DOMAIN queue : queue[i] \in Filters
      BY LenProperties DEF TypeOK
    <3> QED
      BY <1>3, <3>1, ThreadAssumption DEF OneJobEach, Working
  <2>7. \A u, v \in Threads : job'[u] = job'[v] /\ job'[u] # NoJob => u = v
    BY <1>3 DEF OneJobEach
  <2> QED
    BY <2>4, <2>5, <2>6, <2>7 DEF OneJobEach, PutBack, Working
<1>9. ReadyWhenCalled' /\ LensBounded'
  BY <1>1, <1>2, <1>3 DEF PutBack, ReadyWhenCalled, LensBounded, Queued, In, dataVars
<1>10. SlotsInOrder' /\ LeavesOnlyWhenIdle' /\ WorkHasWorker' /\ NoLostWakeup'
  BY <1>1, <1>2, <1>4 DEF PutBack, SlotsInOrder, LeavesOnlyWhenIdle, WorkHasWorker, NoLostWakeup, In,
         Free, Threads, countVars
<1>11. StartedOnce' /\ MasterKnows' /\ JoinsSlots'
  BY <1>1, <1>2, <1>5 DEF PutBack, StartedOnce, MasterKnows, JoinsSlots, In
<1> QED
  BY <1>6, <1>7, <1>8, <1>9, <1>10, <1>11

\* A worker leaves; it wakes the idle ones, or the master if it is the last.
LEMMA ExitStep ==
  ASSUME ThreadInv, NEW t \in Threads, Exit(t)
  PROVE  ThreadInv'
<1> USE DEF ThreadInv, JobInv
<1>1. /\ pc[t] = "exit" /\ mutex = t /\ t \in Live /\ t \in Counted /\ t \notin In(Waiting)
      /\ job[t] = NoJob /\ master # "ready"
      /\ \A u \in Threads : u # t => pc[u] \notin Holding
  BY DEF Exit, Live, Counted, In, Waiting, MutexHeld, JobHeld, Holding, NotStarted
<1>2. \A u \in Threads : pc'[u] = IF u = t THEN "dead"
                                  ELSE IF u \in LeavingWakes THEN "woken" ELSE pc[u]
  BY DEF Exit
<1>3. LeavingWakes \subseteq In({"idle"}) /\ \A u \in LeavingWakes : pc[u] = "idle"
  BY DEF LeavingWakes, In
<1>4. queue = <<>> /\ In({"launched", "getwork", "input", "done"}) = {}
  BY <1>1 DEF LeavesOnlyWhenIdle, In
<1>5. Live' = Live \ {t} /\ In(Waiting)' = In(Waiting) /\ Counted' = Counted \ {t}
  BY <1>1, <1>2, <1>3 DEF Live, Counted, In, Waiting
<1>6. CountersExact'
  BY <1>1, <1>5, WorkersFinite, PlaceSets, FS_RemoveElement DEF CountersExact, Exit
<1>7. TypeOK'
  <2>1. pc' \in [Threads -> Places]
    BY DEF Exit, TypeOK, Places
  <2> QED
    BY <1>6, <2>1, CountersTyped DEF TypeOK, Exit, dataVars, jobVars, MasterPlaces
<1>8. MutexHeld' /\ JobHeld' /\ LensBounded' /\ NotStarted' /\ BoundedBacklog'
  BY <1>1, <1>2, <1>3 DEF Exit, MutexHeld, JobHeld, LensBounded, NotStarted, BoundedBacklog,
         dataVars, jobVars, Holding, In, Free, Threads
<1>9. OneJobEach' /\ ReadyWhenCalled'
  BY <1>1, <1>2, <1>3 DEF Exit, OneJobEach, ReadyWhenCalled, Queued, Working, In, dataVars, jobVars
<1>10. SlotsInOrder' /\ LeavesOnlyWhenIdle' /\ WorkHasWorker'
  BY <1>1, <1>2, <1>3, <1>4 DEF Exit, SlotsInOrder, LeavesOnlyWhenIdle, WorkHasWorker, In, jobVars
<1>11. In(Waiting) = Live'
  BY <1>1, <1>4, <1>5 DEF Live, In, Waiting, Holding, TypeOK, Places
<1>12. NoLostWakeup'
  <2>1. ASSUME NEW u \in Live' PROVE pc'[u] = "woken"
    <3>1. Live' # {} /\ IsFiniteSet(Live') /\ Live' \subseteq Threads
      BY <1>5, <2>1, WorkersFinite, PlaceSets
    <3>2. numThreads' = Cardinality(Live') /\ numThreads' # 0
      BY <1>6, <3>1, FS_EmptySet DEF CountersExact
    <3>3. numIdleThreads = numThreads'
      BY <1>11, <3>2 DEF CountersExact
    <3>4. LeavingWakes = In({"idle"})
      BY <3>2, <3>3 DEF LeavingWakes
    <3>5. u \in Threads /\ u # t /\ pc[u] \in Waiting
      BY <1>1, <1>5, <1>11, <2>1, <3>1 DEF In
    <3> QED
      BY <1>2, <3>4, <3>5 DEF In, Waiting
  <2> QED
    BY <2>1 DEF NoLostWakeup, In, Live
<1>13. MasterKnows'
  <2>1. master' = "woken" /\ master # "woken" => numThreads' = 0
    BY DEF Exit
  <2>2. numThreads' = 0 => Live' = {}
    BY <1>5, <1>6, WorkersFinite, PlaceSets, FS_EmptySet DEF CountersExact
  <2>3. master' # master => master' = "woken"
    BY DEF Exit
  <2> QED
    BY <1>1, <2>1, <2>2, <2>3 DEF MasterKnows
<1>14. StartedOnce' /\ JoinsSlots'
  BY <1>1, <1>2 DEF Exit, StartedOnce, JoinsSlots, In
<1> QED
  BY <1>6, <1>7, <1>8, <1>9, <1>10, <1>12, <1>13, <1>14

\* qsStreamLaunch() queues the sources and launches the first workers.
LEMMA LaunchStep ==
  ASSUME ThreadInv, Launch
  PROVE  ThreadInv'
<1> USE DEF ThreadInv, JobInv
<1> DEFINE n == AtMost(Len(sources), maxThreads)
<1>1. /\ \A t \in Threads : pc[t] = "none" /\ job[t] = NoJob
      /\ unused = Filters /\ marked = {} /\ numThreads = 0 /\ numWorkerThreads = 0
      /\ numIdleThreads = 0 /\ \A r \in Readers : readLength[r] = 0
  BY DEF Launch, NotStarted
<1>2. /\ sources \in Seq(Sources) /\ sources \in Seq(Filters) /\ OnceEach(sources)
      /\ \A f : Holds(sources, f) <=> f \in Sources
      /\ Len(sources) \in Nat \ {0} /\ sources # <<>>
  <2>1. sources \in Seq(Sources) /\ Sources \subseteq Filters
    BY OrderAssumption DEF Listed, Sources
  <2>2. sources \in Seq(Filters)
    BY <2>1, SeqMonotonic
  <2>3. OnceEach(sources) /\ \A f \in Sources : Holds(sources, f)
    BY OrderAssumption DEF Listed, OnceEach, Holds
  <2>4. \A f : Holds(sources, f) => f \in Sources
    BY <2>1, LenProperties DEF Holds
  <2>5. PICK f \in Sources : Holds(sources, f)
    BY <2>3, OrderAssumption
  <2>6. DOMAIN sources = 1..Len(sources) /\ Len(sources) \in Nat
    BY <2>1, LenProperties
  <2>7. Len(sources) # 0 /\ sources # <<>>
    BY <2>5, <2>6 DEF Holds
  <2> QED
    BY <2>1, <2>2, <2>3, <2>4, <2>6, <2>7
<1>3. n \in 1..maxThreads /\ 1 \in Threads
  BY <1>2, ThreadAssumption DEF AtMost, Threads
<1>4. \A t \in Threads : pc'[t] = IF t \in NewSlots(n) THEN "launched" ELSE pc[t]
  BY DEF Launch
<1>5. \A t \in Threads : t \in NewSlots(n) <=> t <= n
  <2> HIDE DEF n
  <2> QED
    BY <1>1, <1>3 DEF NewSlots, Threads
<1>6. NewSlots(n) = {t \in Threads : t > 0 /\ t <= 0 + n}
  BY <1>1 DEF NewSlots
<1>7. Cardinality(NewSlots(n)) = n
  <2>1. n \in Nat /\ 0 + n <= maxThreads
    BY <1>3, ThreadAssumption
  <2> HIDE DEF n
  <2> QED
    BY <1>6, <2>1, SlotsCount
<1>8. Live' = NewSlots(n) /\ Counted' = {} /\ In(Waiting)' = {}
  BY <1>1, <1>4 DEF Live, Counted, In, Waiting, NewSlots
<1>9. numThreads' = n /\ numWorkerThreads' = 0 /\ numIdleThreads' = 0 /\ job' = job
  BY <1>1, <1>3, ThreadAssumption DEF Launch
<1>10. CountersExact'
  BY <1>7, <1>8, <1>9, FS_EmptySet DEF CountersExact
<1>11. TypeOK'
  <2>1. pc' \in [Threads -> Places]
    BY DEF Launch, TypeOK, Places
  <2> QED
    BY <1>2, <1>10, <2>1, CountersTyped DEF TypeOK, Launch, dataVars, MasterPlaces
<1>12. MutexHeld' /\ JobHeld' /\ LensBounded' /\ NotStarted' /\ BoundedBacklog'
  BY <1>1, <1>4 DEF Launch, MutexHeld, JobHeld, LensBounded, NotStarted, BoundedBacklog,
         dataVars, Holding, In, Free, Threads
<1>13. OneJobEach'
  <2>1. \A f : Queued(f)' <=> f \in Sources
    BY <1>2 DEF Launch, Queued, Holds
  <2>2. \A f \in Filters : ~Working(f)'
    BY <1>1, <1>9, ThreadAssumption DEF Working
  <2>3. \A i \in DOMAIN queue' : \A u \in Threads : job'[u] # queue'[i]
    BY <1>1, <1>2, <1>9, ThreadAssumption, LenProperties DEF Launch
  <2>4. \A i, j \in DOMAIN queue' : queue'[i] = queue'[j] => i = j
    BY <1>2 DEF OnceEach, Launch
  <2>5. \A u, v \in Threads : job'[u] = job'[v] /\ job'[u] # NoJob => u = v
    BY <1>1, <1>9
  <2>6. unused' = Filters \ Sources
    BY <1>1 DEF Launch
  <2> QED
    BY <2>1, <2>2, <2>3, <2>4, <2>5, <2>6 DEF OneJobEach, Working
<1>14. ReadyWhenCalled'
  <2>1. \A f : Queued(f)' <=> f \in Sources
    BY <1>2 DEF Launch, Queued, Holds
  <2>2. In({"input"})' = {}
    BY <1>1, <1>4 DEF In
  <2>3. \A f \in Filters : OutputsHungry(f, readLength)
    BY <1>1, GraphAssumption, PromiseAssumption DEF OutputsHungry, Feeds
  <2>4. \A f \in Sources : IsSource(f)
    BY DEF Sources
  <2>5. marked' = {} /\ readLength' = readLength
    BY <1>1 DEF Launch, dataVars
  <2> QED
    BY <2>1, <2>2, <2>3, <2>4, <2>5 DEF ReadyWhenCalled
<1>15. 1 \in In({"launched"})' /\ Live' # {}
  BY <1>3, <1>4, <1>5, <1>8 DEF In
<1>16. SlotsInOrder' /\ LeavesOnlyWhenIdle' /\ WorkHasWorker' /\ NoLostWakeup'
  <2>1. SlotsInOrder'
    BY <1>1, <1>3, <1>4, <1>5, <1>9, ThreadAssumption DEF SlotsInOrder, Threads
  <2>2. In({"exit", "dead"})' = {}
    BY <1>1, <1>4 DEF In
  <2> QED
    BY <1>15, <2>1, <2>2 DEF LeavesOnlyWhenIdle, WorkHasWorker, NoLostWakeup, In
<1>17. StartedOnce' /\ MasterKnows' /\ JoinsSlots'
  BY <1>15 DEF Launch, StartedOnce, MasterKnows, JoinsSlots, In
<1> QED
  BY <1>10, <1>11, <1>12, <1>13, <1>14, <1>16, <1>17

\* The master thread and qsStreamStopSources() leave the workers alone.
LEMMA WorkersUntouched ==
  ASSUME ThreadInv, NotStarted',
         UNCHANGED <<mutex, pc, dataVars, jobVars, countVars>>,
         isSourcing' \in BOOLEAN, master' \in MasterPlaces, joinAt' \in 0..maxThreads,
         master' # "ready" => master # "ready",
         JoinsSlots', MasterKnows'
  PROVE  ThreadInv'
<1> USE DEF ThreadInv, JobInv, dataVars, jobVars, countVars
<1>1. TypeOK'
  BY DEF TypeOK
<1>2. Live' = Live /\ In(Waiting)' = In(Waiting) /\ Counted' = Counted
  BY DEF Live, Counted, In
<1>3. CountersExact'
  BY <1>2 DEF CountersExact
<1>4. MutexHeld' /\ JobHeld' /\ LensBounded' /\ BoundedBacklog'
  BY DEF MutexHeld, JobHeld, LensBounded, BoundedBacklog, In
<1>5. OneJobEach' /\ ReadyWhenCalled'
  BY DEF OneJobEach, ReadyWhenCalled, Queued, Working, In
<1>6. SlotsInOrder' /\ LeavesOnlyWhenIdle' /\ WorkHasWorker' /\ NoLostWakeup' /\ StartedOnce'
  BY <1>2 DEF SlotsInOrder, LeavesOnlyWhenIdle, WorkHasWorker, NoLostWakeup, StartedOnce, In
<1> QED
  BY <1>1, <1>3, <1>4, <1>5, <1>6

LEMMA MasterWaitStep ==
  ASSUME ThreadInv, MasterWait
  PROVE  ThreadInv'
<1> USE DEF ThreadInv, JobInv
<1>1. UNCHANGED <<mutex, pc, dataVars, jobVars, countVars>> /\ isSourcing' = isSourcing
  BY DEF MasterWait
<1>2. Live' = Live
  BY <1>1 DEF Live, In
<1>3. numThreads = 0 => Live = {}
  BY WorkersFinite, PlaceSets, FS_EmptySet DEF CountersExact
<1>4. MasterKnows'
  BY <1>2, <1>3 DEF MasterWait, MasterKnows
<1>5. master' \in MasterPlaces /\ joinAt' \in 0..maxThreads /\ JoinsSlots' /\ NotStarted'
  BY ThreadAssumption DEF MasterWait, MasterPlaces, TypeOK, JoinsSlots, Threads, NotStarted
<1> QED
  BY <1>1, <1>4, <1>5, WorkersUntouched DEF MasterWait, TypeOK

LEMMA SpuriousMasterStep ==
  ASSUME ThreadInv, SpuriousMaster
  PROVE  ThreadInv'
<1> USE DEF ThreadInv, JobInv
<1>1. MasterKnows' /\ JoinsSlots' /\ NotStarted' /\ master' \in MasterPlaces
  BY DEF SpuriousMaster, MasterKnows, JoinsSlots, NotStarted, MasterPlaces
<1> QED
  BY <1>1, WorkersUntouched DEF SpuriousMaster, TypeOK

LEMMA MasterWakeStep ==
  ASSUME ThreadInv, MasterWake
  PROVE  ThreadInv'
<1> USE DEF ThreadInv, JobInv
<1>1. Live' = Live
  BY DEF MasterWake, Live, In
<1>2. MasterKnows' /\ JoinsSlots' /\ NotStarted' /\ master' \in MasterPlaces
      /\ joinAt' \in 0..maxThreads
  BY <1>1, ThreadAssumption DEF MasterWake, MasterKnows, JoinsSlots, NotStarted, MasterPlaces, Threads
<1> QED
  BY <1>2, WorkersUntouched DEF MasterWake, TypeOK

LEMMA JoinStep ==
  ASSUME ThreadInv, Join
  PROVE  ThreadInv'
<1> USE DEF ThreadInv, JobInv
<1>1. Live' = Live
  BY DEF Join, Live, In
<1>2. joinAt \in 1..maxThreads
  BY DEF Join, JoinsSlots, Threads
<1>3. joinAt' \in 0..maxThreads /\ JoinsSlots'
  BY <1>2, ThreadAssumption DEF Join, JoinsSlots, Threads
<1>4. MasterKnows' /\ NotStarted' /\ master' \in MasterPlaces
  BY <1>1 DEF Join, MasterKnows, NotStarted, MasterPlaces
<1> QED
  BY <1>3, <1>4, WorkersUntouched DEF Join, TypeOK

LEMMA StopSourcesStep ==
  ASSUME ThreadInv, StopSources
  PROVE  ThreadInv'
<1> USE DEF ThreadInv, JobInv
<1>1. Live' = Live
  BY DEF StopSources, Live, In
<1>2. MasterKnows' /\ JoinsSlots' /\ NotStarted'
  BY <1>1 DEF StopSources, MasterKnows, JoinsSlots, NotStarted, dataVars, jobVars, countVars
<1> QED
  BY <1>2, WorkersUntouched DEF StopSources, TypeOK

LEMMA StutterStep ==
  ASSUME ThreadInv, UNCHANGED vars
  PROVE  ThreadInv'
<1> USE DEF ThreadInv, JobInv
<1>1. Live' = Live
  BY DEF vars, Live, In
<1>2. MasterKnows' /\ JoinsSlots' /\ NotStarted'
  BY <1>1 DEF vars, MasterKnows, JoinsSlots, NotStarted, dataVars, jobVars, countVars
<1> QED
  BY <1>2, WorkersUntouched DEF vars, TypeOK

-----------------------------------------------------------------------------
(***************************************************************************)
(* RunInput().                                                             *)
(***************************************************************************)

\* The worker that calls input() is the only one with the filter's job.
LEMMA CallerFacts ==
  ASSUME ThreadInv, NEW t \in Threads, RunInput(t)
  PROVE  /\ pc[t] = "input" /\ mutex = Free /\ job[t] \in Filters
         /\ job[t] \notin unused /\ ~Queued(job[t])
         /\ \A u \in Threads : job[u] = job[t] => u = t
         /\ \A r \in Inputs(job[t]) : inputLens[r] <= readLength[r]
         /\ OutputsHungry(job[t], readLength) /\ job[t] \notin marked
         /\ readLength \in [Readers -> Nat] /\ inputLens \in [Readers -> Nat]
         /\ In({"exit", "dead"}) = {} /\ master # "ready"
<1> USE DEF ThreadInv, JobInv
<1>1. pc[t] = "input" /\ mutex = Free /\ t \in In({"input"})
  BY DEF RunInput, In
<1>2. job[t] # NoJob /\ job[t] \in Filters
  BY <1>1 DEF JobHeld, TypeOK
<1>3. job[t] \notin unused /\ ~Queued(job[t]) /\ \A u \in Threads : job[u] = job[t] => u = t
  BY <1>2 DEF OneJobEach, Queued, Working
<1>4. In({"exit", "dead"}) = {} /\ master # "ready"
  BY <1>1 DEF LeavesOnlyWhenIdle, NotStarted, In
<1>5. OutputsHungry(job[t], readLength) /\ job[t] \notin marked
  BY <1>1, <1>2 DEF ReadyWhenCalled
<1>6. \A r \in Inputs(job[t]) : inputLens[r] <= readLength[r]
  BY <1>1 DEF LensBounded
<1> QED
  BY <1>1, <1>2, <1>3, <1>4, <1>5, <1>6 DEF TypeOK

\* What rescheduling does to the queue and to the workers, whichever filters
\* it queues: they come off their unused stacks once each, they are callable,
\* and workers are only woken from idle and launched into free slots.
RescheduledBy(t, f, again, Q, n, W) ==
  /\ NeighboursToQueue(f) \subseteq Q
  /\ \A g \in Q : Callable(g, unused, marked', readLength')
  /\ unused' = unused \ Q
  /\ queue' \in Seq(Filters) /\ OnceEach(queue')
  /\ \A x : Holds(queue', x) <=> Holds(queue, x) \/ x \in Q
  /\ SetLens(f, again, Q)
  /\ numThreads' = numThreads + n /\ numThreads + n <= maxThreads
  /\ \A u \in Threads :
       pc'[u] = IF u = t THEN (IF again THEN "input" ELSE "done")
                ELSE IF u \in W THEN "woken"
                ELSE IF u \in NewSlots(n) THEN "launched"
                ELSE pc[u]
  /\ pc' \in [Threads -> Places]
  /\ mutex' = IF again THEN Free ELSE t

Rescheduled(t, f, again) ==
  \E Q \in SUBSET unused, n \in Nat, W \in SUBSET In({"idle"}) :
    RescheduledBy(t, f, again, Q, n, W)

\* Reschedule() does no more than that.
LEMMA RescheduleFacts ==
  ASSUME ThreadInv, NEW t \in Threads, pc[t] = "input", NEW f \in Filters,
         NEW again \in BOOLEAN, Reschedule(t, f, again)
  PROVE  Rescheduled(t, f, again)
<1> USE DEF ThreadInv, JobInv
<1> DEFINE first  == NeighboursToQueue(f)
           second == SourcesToQueue(again, first)
           wanted == WorkersWanted(again, Cardinality(first) + Cardinality(second))
           Q == first \cup second
           n == WorkersToLaunch(wanted)
<1>1. /\ Enqueue(f, first, second) /\ SetLens(f, again, Q)
      /\ mutex' = IF again THEN Free ELSE t
  BY DEF Reschedule
<1>2. PICK W \in WokenBy(wanted) : Employ(t, W, n, IF again THEN "input" ELSE "done")
  BY DEF Reschedule
<1>3. /\ \A g \in Q : Callable(g, unused, marked', readLength')
      /\ first \cap second = {} /\ first \subseteq Neighbours(f) /\ second \subseteq Sources
  BY DEF NeighboursToQueue, SourcesToQueue
<1>4. Q \subseteq unused /\ unused \subseteq Filters
  BY <1>3 DEF Callable, TypeOK
<1>5. IsFiniteSet(first) /\ IsFiniteSet(second)
  BY <1>4, GraphAssumption, FS_Subset
<1>6. Cardinality(first) \in Nat /\ Cardinality(second) \in Nat
  BY <1>5, FS_CardinalityType
<1>7. n \in Nat /\ numThreads + n <= maxThreads
  <2>1. numThreads \in 0..maxThreads /\ numWorkerThreads \in Nat /\ numIdleThreads \in Nat
        /\ maxThreads \in Nat
    BY ThreadAssumption DEF TypeOK
  <2>2. Cardinality(first) + Cardinality(second) \in Nat
    BY <1>6
  <2> HIDE DEF first, second
  <2>3. wanted \in Nat
    BY <2>1, <2>2 DEF WorkersWanted, Beyond
  <2> HIDE DEF wanted
  <2> QED
    BY <2>1, <2>3 DEF WorkersToLaunch, Beyond, AtMost
<1>8. W \subseteq In({"idle"})
  BY <1>2 DEF WokenBy
<1>9. /\ queue' \in Seq(Filters) /\ OnceEach(queue')
      /\ \A x : Holds(queue', x) <=> Holds(queue, x) \/ x \in Q
  <2>1. PICK p \in Listings(first, visits[f]), q \in Listings(second, LastFirst(sources)) :
          queue' = queue \o p \o q
    BY <1>1 DEF Enqueue
  <2>2. visits[f] \in Seq(Neighbours(f)) /\ OnceEach(visits[f])
    BY OrderAssumption DEF Listed, OnceEach
  <2>3. LastFirst(sources) \in Seq(Sources) /\ OnceEach(LastFirst(sources))
    BY OrderAssumption, LastFirstOnceEach DEF Listed, OnceEach
  <2> HIDE DEF first, second
  <2>4. p \in Seq(first) /\ OnceEach(p) /\ \A x : Holds(p, x) <=> x \in first
    BY <1>5, <2>2, ListingOnceEach
  <2>5. q \in Seq(second) /\ OnceEach(q) /\ \A x : Holds(q, x) <=> x \in second
    BY <1>5, <2>3, ListingOnceEach
  <2>6. p \in Seq(Filters) /\ q \in Seq(Filters)
    BY <1>4, <2>4, <2>5, SeqMonotonic
  <2>7. queue \in Seq(Filters) /\ OnceEach(queue)
    BY DEF TypeOK, OneJobEach, OnceEach
  <2>8. \A x : ~(Holds(queue, x) /\ x \in Q)
    BY <1>4 DEF OneJobEach, Queued, Holds
  <2>9. /\ queue \o p \in Seq(Filters) /\ OnceEach(queue \o p)
        /\ \A x : Holds(queue \o p, x) <=> Holds(queue, x) \/ x \in first
    BY <2>4, <2>6, <2>7, <2>8, AppendOnceEach
  <2>10. \A x : ~(Holds(queue \o p, x) /\ Holds(q, x))
    BY <1>3, <2>5, <2>8, <2>9
  <2>11. /\ (queue \o p) \o q \in Seq(Filters) /\ OnceEach((queue \o p) \o q)
         /\ \A x : Holds((queue \o p) \o q, x) <=> Holds(queue \o p, x) \/ Holds(q, x)
    <3> DEFINE a == queue \o p
    <3>1. a \in Seq(Filters) /\ OnceEach(a) /\ \A x : ~(Holds(a, x) /\ Holds(q, x))
      BY <2>9, <2>10
    <3>2. q \in Seq(Filters) /\ OnceEach(q)
      BY <2>5, <2>6
    <3> HIDE DEF a
    <3>3. /\ a \o q \in Seq(Filters) /\ OnceEach(a \o q)
          /\ \A x : Holds(a \o q, x) <=> Holds(a, x) \/ Holds(q, x)
      BY <3>1, <3>2, AppendOnceEach
    <3> QED
      BY <3>3 DEF a
  <2> QED
    BY <2>1, <2>5, <2>9, <2>11
<1>10. /\ numThreads' = numThreads + n
       /\ \A u \in Threads :
            pc'[u] = IF u = t THEN (IF again THEN "input" ELSE "done")
                     ELSE IF u \in W THEN "woken"
                     ELSE IF u \in NewSlots(n) THEN "launched"
                     ELSE pc[u]
  BY <1>2 DEF Employ
<1>11. pc' \in [Threads -> Places]
  BY <1>2 DEF Employ, TypeOK, Places
<1>12. unused' = unused \ Q
  BY <1>1 DEF Enqueue
<1>13. NeighboursToQueue(f) \subseteq Q
  OBVIOUS
<1>14. Q \in SUBSET unused /\ W \in SUBSET In({"idle"}) /\ n \in Nat
  BY <1>4, <1>7, <1>8
<1> HIDE DEF Q, n
<1>15. RescheduledBy(t, f, again, Q, n, W)
  BY <1>1, <1>3, <1>7, <1>9, <1>10, <1>11, <1>12, <1>13 DEF RescheduledBy
<1> QED
  BY <1>14, <1>15 DEF Rescheduled

LEMMA RunInputStep ==
  ASSUME ThreadInv, NEW t \in Threads, RunInput(t)
  PROVE  ThreadInv'
<1> PICK f \in Filters : f = job[t]
  BY CallerFacts
<1>1. PICK c \in Calls(f, inputLens) :
        Account(f, c) /\ Reschedule(t, f, CallAgain(f, c, readLength'))
  BY DEF RunInput
<1>2. /\ pc[t] = "input" /\ mutex = Free /\ f \in Filters /\ f \notin unused /\ ~Queued(f)
      /\ \A u \in Threads : job[u] = f => u = t
      /\ \A r \in Inputs(f) : inputLens[r] <= readLength[r]
      /\ OutputsHungry(f, readLength) /\ f \notin marked
      /\ readLength \in [Readers -> Nat] /\ inputLens \in [Readers -> Nat]
      /\ In({"exit", "dead"}) = {} /\ master # "ready"
  BY CallerFacts
<1>3. PICK again \in BOOLEAN : again = CallAgain(f, c, readLength')
  BY DEF CallAgain
<1>4. PICK Q \in SUBSET unused, n \in Nat, W \in SUBSET In({"idle"}) :
           RescheduledBy(t, f, again, Q, n, W)
  <2>1. Reschedule(t, f, again)
    BY <1>1, <1>3
  <2>2. Rescheduled(t, f, again)
    BY <1>2, <2>1, RescheduleFacts
  <2> QED
    BY <2>2 DEF Rescheduled
<1> USE DEF ThreadInv, JobInv, RescheduledBy
<1>5. /\ readLength' = LengthsAfter(f, c, readLength)
      /\ marked' \subseteq Filters /\ declined' \subseteq Filters
      /\ marked' = IF c.done THEN marked \cup {f} ELSE marked
      /\ UNCHANGED <<job, isSourcing, numWorkerThreads, numIdleThreads, master, joinAt>>
  BY <1>1, <1>2 DEF Account, RunInput, TypeOK
<1>6. /\ readLength' \in [Readers -> Nat]
      /\ \A r \in Feeds(f) : readLength'[r] <= readLength[r] + maxWrite[output[r]]
      /\ \A r \in Readers : r \notin Feeds(f) => readLength'[r] <= readLength[r]
  BY <1>2, <1>5, LengthFacts
<1>7. \A g \in Filters : g # f =>
        /\ \A r \in Inputs(g) : readLength[r] <= readLength'[r]
        /\ OutputsHungry(g, readLength) => OutputsHungry(g, readLength')
        /\ InputsFeeding(g, readLength) => InputsFeeding(g, readLength')
  BY <1>2, <1>5, OthersUnharmed
<1>8. \A u \in NewSlots(n) : pc[u] = "none" /\ u # t /\ u \notin W
  BY <1>2, <1>4 DEF SlotsInOrder, NewSlots, In, TypeOK, Threads
<1>9. \A u \in W : pc[u] = "idle" /\ u # t
  BY <1>2 DEF In
<1>10. \A u \in Threads : u \notin W /\ u \notin NewSlots(n) /\ u # t => pc'[u] = pc[u]
  BY <1>4
<1>11. pc'[t] = (IF again THEN "input" ELSE "done")
  BY <1>4
<1>12. CountersExact'
  <2>1. Counted' = Counted /\ In(Waiting)' = In(Waiting)
    BY <1>2, <1>4, <1>8, <1>9 DEF Counted, Live, In, Waiting
  <2>2. Live' = Live \cup NewSlots(n) /\ Live \cap NewSlots(n) = {}
    BY <1>2, <1>4, <1>8, <1>9 DEF Live, In, NewSlots
  <2>3. Cardinality(NewSlots(n)) = n /\ IsFiniteSet(NewSlots(n))
    <3>1. NewSlots(n) = {u \in Threads : u > numThreads /\ u <= numThreads + n}
      BY DEF NewSlots
    <3>2. numThreads \in Nat /\ numThreads + n <= maxThreads
      BY <1>4 DEF TypeOK
    <3> QED
      BY <3>1, <3>2, SlotsCount
  <2>4. IsFiniteSet(Live) /\ Cardinality(Live) = numThreads
    BY WorkersFinite, PlaceSets DEF CountersExact
  <2>5. Cardinality(Live') = numThreads + n
    <3>1. Cardinality(Live \cap NewSlots(n)) = 0
      BY <2>2, FS_EmptySet
    <3>2. Cardinality(Live \cup NewSlots(n)) =
            Cardinality(Live) + Cardinality(NewSlots(n)) - Cardinality(Live \cap NewSlots(n))
      BY <2>3, <2>4, FS_Union
    <3>3. numThreads \in Nat
      BY DEF TypeOK
    <3> QED
      BY <2>2, <2>3, <2>4, <3>1, <3>2, <3>3
  <2> QED
    BY <1>4, <1>5, <2>1, <2>5 DEF CountersExact
<1>13. TypeOK'
  <2>1. inputLens' \in [Readers -> Nat]
    BY <1>2, <1>4, <1>6 DEF SetLens
  <2>2. mutex' \in Threads \cup {Free}
    BY <1>4
  <2> QED
    BY <1>4, <1>5, <1>6, <1>12, <2>1, <2>2, CountersTyped DEF TypeOK
<1>14. MutexHeld' /\ JobHeld'
  <2>1. \A u \in Threads : u # t => (pc'[u] \in Holding <=> pc[u] \in Holding)
    BY <1>4, <1>8, <1>9 DEF Holding
  <2>2. \A u \in Threads : pc[u] \notin Holding /\ u # Free
    BY <1>2 DEF MutexHeld, Free, Threads
  <2>3. pc'[t] \in Holding <=> ~again
    BY <1>3, <1>11 DEF Holding
  <2>4. MutexHeld'
    BY <1>3, <1>4, <2>1, <2>2, <2>3 DEF MutexHeld
  <2>5. \A u \in Threads : pc'[u] \in {"input", "done"} <=> pc[u] \in {"input", "done"}
    BY <1>2, <1>3, <1>4, <1>8, <1>9, <1>11
  <2>6. JobHeld'
    BY <1>5, <2>5 DEF JobHeld
  <2> QED
    BY <2>4, <2>6
<1>15. \A u \in Threads : u # t => (pc'[u] = "input" <=> pc[u] = "input")
  BY <1>4, <1>8, <1>9
<1>16. OneJobEach'
  <2>1. \A g : Queued(g)' <=> Queued(g) \/ g \in Q
    BY <1>4 DEF Queued, Holds
  <2>2. \A g : Working(g)' <=> Working(g)
    BY <1>5 DEF Working
  <2>3. \A i \in DOMAIN queue' : Queued(queue'[i]) \/ queue'[i] \in Q
    BY <1>4 DEF Holds, Queued
  <2>4. \A i \in DOMAIN queue' : ~Working(queue'[i])
    BY <2>3, <1>4 DEF OneJobEach, Queued
  <2>5. \A i, j \in DOMAIN queue' : queue'[i] = queue'[j] => i = j
    BY <1>4 DEF OnceEach
  <2> QED
    BY <1>4, <1>5, <2>1, <2>2, <2>4, <2>5 DEF OneJobEach, Working
<1>17. ReadyWhenCalled'
  <2>1. ASSUME NEW g \in Filters, Queued(g)' \/ \E u \in In({"input"})' : job'[u] = g
        PROVE  /\ g \notin marked' /\ OutputsHungry(g, readLength')
               /\ IsSource(g) \/ InputsFeeding(g, readLength')
    <3>1. CASE g \in Q
      BY <1>4, <3>1 DEF Callable
    <3>2. CASE g = f
      <4>1. again
        BY <1>2, <1>4, <1>5, <1>11, <2>1, <3>2 DEF Queued, Holds, In
      <4> QED
        BY <4>1, <3>2, <1>3, <1>5 DEF CallAgain
    <3>3. CASE g \notin Q /\ g # f
      <4>1. Queued(g) \/ \E u \in In({"input"}) : job[u] = g
        BY <1>4, <1>5, <1>15, <2>1, <3>3 DEF Queued, Holds, In
      <4>2. g \notin marked /\ OutputsHungry(g, readLength)
            /\ (IsSource(g) \/ InputsFeeding(g, readLength))
        BY <4>1 DEF ReadyWhenCalled
      <4> QED
        BY <1>5, <1>7, <3>3, <4>2
    <3> QED
      BY <3>1, <3>2, <3>3
  <2> QED
    BY <2>1 DEF ReadyWhenCalled
<1>18. LensBounded'
  <2>1. ASSUME NEW u \in Threads, pc'[u] = "input", NEW r \in Inputs(job[u])
        PROVE  inputLens'[r] <= readLength'[r]
    <3>1. r \in Readers /\ reader[r] = job[u]
      BY DEF Inputs
    <3>2. CASE u = t
      <4>1. again /\ r \in Inputs(f)
        BY <1>11, <2>1, <3>2
      <4> QED
        BY <3>1, <4>1, <1>4, <1>6 DEF SetLens
    <3>3. CASE u # t
      <4>1. pc[u] = "input" /\ job[u] # f /\ job[u] \in Filters /\ Working(job[u])
        BY <1>2, <1>15, <2>1, <3>3 DEF JobHeld, TypeOK, Working
      <4>2. job[u] \notin Q /\ r \notin Inputs(f)
        BY <1>4, <3>1, <4>1 DEF OneJobEach, Inputs
      <4>3. inputLens'[r] = inputLens[r]
        BY <1>4, <3>1, <4>2 DEF SetLens
      <4>4. inputLens[r] <= readLength[r] /\ readLength[r] <= readLength'[r]
        BY <1>7, <4>1 DEF LensBounded, In
      <4> QED
        BY <1>2, <1>6, <3>1, <4>3, <4>4
    <3> QED
      BY <3>2, <3>3
  <2> QED
    BY <2>1, <1>5 DEF LensBounded, In
<1>19. BoundedBacklog'
  <2>1. ASSUME NEW r \in Readers
        PROVE  readLength'[r] < maxLength[output[r]] + maxWrite[output[r]]
    <3>1. maxLength[output[r]] \in Nat /\ maxWrite[output[r]] \in Nat /\ readLength[r] \in Nat
          /\ readLength'[r] \in Nat
      BY <1>2, <1>6, GraphAssumption, PromiseAssumption
    <3>2. CASE r \in Feeds(f)
      BY <3>1, <3>2, <1>2, <1>6 DEF OutputsHungry
    <3>3. CASE r \notin Feeds(f)
      BY <3>1, <3>3, <1>6 DEF BoundedBacklog
    <3> QED
      BY <3>2, <3>3
  <2> QED
    BY <2>1 DEF BoundedBacklog
<1>20. LeavesOnlyWhenIdle' /\ NotStarted'
  BY <1>2, <1>4, <1>5, <1>8, <1>9 DEF LeavesOnlyWhenIdle, NotStarted, In
<1>21. WorkHasWorker' /\ NoLostWakeup'
  BY <1>4, <1>11, ThreadAssumption DEF WorkHasWorker, NoLostWakeup, In, Free, Threads
<1>22. SlotsInOrder'
  <2>1. \A u \in Threads : pc[u] = "none" <=> u > numThreads
    BY <1>2 DEF SlotsInOrder, In
  <2>2. \A u \in Threads : pc'[u] = "none" <=> pc[u] = "none" /\ u \notin NewSlots(n)
    BY <1>2, <1>4, <1>9
  <2>3. \A u \in Threads : u \in Nat /\ numThreads \in Nat
    BY DEF Threads, TypeOK
  <2> QED
    BY <1>4, <2>1, <2>2, <2>3 DEF SlotsInOrder, NewSlots
<1>23. StartedOnce' /\ JoinsSlots'
  BY <1>5, <1>11 DEF StartedOnce, JoinsSlots, In
<1>24. MasterKnows'
  <2>1. t \in Live
    BY <1>2 DEF Live, In
  <2> QED
    BY <1>5, <2>1 DEF MasterKnows
<1> QED
  BY <1>12, <1>13, <1>14, <1>16, <1>17, <1>18, <1>19, <1>20, <1>21, <1>22, <1>23, <1>24

-----------------------------------------------------------------------------
(***************************************************************************)
(* The theorems.                                                           *)
(***************************************************************************)

LEMMA NextStep ==
  ASSUME ThreadInv, [Next]_vars
  PROVE  ThreadInv'
<1>1. ASSUME NEW t \in Threads, Worker(t) PROVE ThreadInv'
  BY <1>1, StartStep, TakeJobStep, GiveUpStep, WaitStep, SpuriousWakeupStep, WakeStep,
     RunInputStep, PutBackStep, ExitStep DEF Worker
<1>2. ASSUME Master PROVE ThreadInv'
  BY <1>2, LaunchStep, MasterWaitStep, SpuriousMasterStep, MasterWakeStep, JoinStep DEF Master
<1> QED
  BY <1>1, <1>2, StopSourcesStep, StutterStep DEF Next, Over

\* The inductive invariant of the jobs, the lengths and the workers holds in
\* every stream, with any number of workers.
THEOREM Inductive == Spec => []ThreadInv
<1>1. Init => ThreadInv
  BY InitStep
<1>2. ThreadInv /\ [Next]_vars => ThreadInv'
  BY NextStep
<1> QED
  BY <1>1, <1>2, PTL DEF Spec

\* Every variable keeps its type in every stream (struct QsStream, struct
\* QsJob).
THEOREM Types == Spec => []TypeOK
  BY Inductive, PTL DEF ThreadInv, JobInv

\* No filter's input() is ever run by two workers at once and no job is lost
\* (flowJobLists.h).
THEOREM OneJobEverywhere == Spec => []OneJobEach
  BY Inductive, PTL DEF ThreadInv, JobInv

\* What CheckFilterInputCallable() saw under the mutex still holds when
\* input() is called without it.
THEOREM StillReady == Spec => []ReadyWhenCalled
  BY Inductive, PTL DEF ThreadInv, JobInv

\* No reader ever lags by more than its output's level and one more write
\* (the write promise asserted in RunInput(), flow.c:286).
THEOREM Backlog == Spec => []BoundedBacklog
  BY Inductive, PTL DEF ThreadInv, JobInv

\* The counters on which workers are woken, launched and let go are exact
\* whenever nobody holds the mutex, and while somebody does.
THEOREM Counters == Spec => []CountersExact
  BY Inductive, PTL DEF ThreadInv

\* GetWork() never puts the last worker to sleep.
THEOREM NobodyOversleeps == Spec => []NoLostWakeup
  BY Inductive, PTL DEF ThreadInv

\* A worker that leaves leaves no work behind.
THEOREM LeavesNoWork == Spec => []LeavesOnlyWhenIdle
  BY Inductive, PTL DEF ThreadInv

\* If pthread_cond_wait(&masterCond) does not return early, qsStreamWait()
\* returns only when every worker has left.
THEOREM WaitJoinsAll == ASSUME ~SpuriousMasterWakeup PROVE Spec => []JoinedAll
<1>1. ThreadInv => JoinedAll
  BY DEF ThreadInv, MasterKnows, JoinedAll
<1> QED
  BY <1>1, Inductive, PTL

\* LaunchWorkerThread() never reuses the slot of a worker that is still to be
\* joined.
THEOREM SlotsOnce == Spec => SlotsUsedOnce
<1> DEFINE A == \A t \in Threads :
                  pc'[t] = "launched" /\ pc[t] # "launched" => pc[t] = "none"
<1>1. ASSUME ThreadInv, Launch PROVE A
  BY <1>1 DEF ThreadInv, JobInv, NotStarted, Launch
<1>2. ASSUME ThreadInv, NEW u \in Threads, RunInput(u) PROVE A
  <2> PICK f \in Filters : f = job[u]
    BY <1>2, CallerFacts
  <2>1. PICK c \in Calls(f, inputLens) : Reschedule(u, f, CallAgain(f, c, readLength'))
    BY <1>2 DEF RunInput
  <2>2. PICK again \in BOOLEAN : again = CallAgain(f, c, readLength')
    BY DEF CallAgain
  <2>3. pc[u] = "input" /\ In({"dead"}) = {}
    BY <1>2, CallerFacts DEF In
  <2>4. Reschedule(u, f, again)
    BY <2>1, <2>2
  <2>5. Rescheduled(u, f, again)
    BY <1>2, <2>3, <2>4, RescheduleFacts
  <2>6. PICK Q \in SUBSET unused, n \in Nat, W \in SUBSET In({"idle"}) :
            RescheduledBy(u, f, again, Q, n, W)
    BY <2>5 DEF Rescheduled
  <2>7. \A t \in NewSlots(n) : pc[t] = "none"
    BY <1>2, <2>3 DEF ThreadInv, SlotsInOrder, NewSlots
  <2> QED
    BY <2>2, <2>6, <2>7 DEF RescheduledBy
<1>3. ASSUME ThreadInv, NEW t \in Threads, Worker(t), ~RunInput(t) PROVE A
  BY <1>3 DEF Worker, Start, TakeJob, GiveUp, Wait, SpuriousWakeup, Wake, PutBack, Exit,
     ThreadInv, JobInv, TypeOK
<1>4. ASSUME Master, ~Launch PROVE A
  BY <1>4 DEF Master, MasterWait, SpuriousMaster, MasterWake, Join
<1>5. ASSUME StopSources \/ Over PROVE A
  BY <1>5 DEF StopSources, Over, vars
<1>6. ThreadInv /\ [Next]_vars => [A]_vars
  BY <1>1, <1>2, <1>3, <1>4, <1>5 DEF Next
<1> QED
  BY <1>6, Inductive, PTL DEF Spec, SlotsUsedOnce

-----------------------------------------------------------------------------
(***************************************************************************)
(* No callable filter is forgotten (flow.c:461-497), and a flow that has   *)
(* ended is drained: WorkInv is inductive on top of ThreadInv.             *)
(***************************************************************************)

\* Beyond JobInv, what WorkInv says.
WorkParts == NothingForgotten /\ LeftUncallable /\ DeclinedShort

LEMMA WorkInit == Init => WorkParts
  BY ThreadAssumption DEF Init, WorkParts, NothingForgotten, LeftUncallable, DeclinedShort, In

\* An action that leaves the filters and the done workers alone.
LEMMA WorkUntouched ==
  ASSUME WorkParts, UNCHANGED <<unused, marked, readLength, declined>>,
         isSourcing' => isSourcing, master # "ready" \/ master' = "ready",
         \A t \in Threads : pc'[t] = "done" => pc[t] = "done" /\ job'[t] = job[t]
  PROVE  WorkParts'
<1>1. NothingForgotten'
  BY DEF WorkParts, NothingForgotten, Callable
<1>2. LeftUncallable'
  BY DEF WorkParts, LeftUncallable, Callable, In
<1>3. DeclinedShort'
  BY DEF WorkParts, DeclinedShort
<1> QED
  BY <1>1, <1>2, <1>3 DEF WorkParts

\* Launch queues every source, and nobody else has input.
LEMMA WorkLaunch ==
  ASSUME ThreadInv, Launch
  PROVE  WorkParts'
<1>1. /\ unused = Filters /\ marked = {} /\ declined = {}
      /\ \A r \in Readers : readLength[r] = 0
      /\ \A t \in Threads : pc[t] = "none"
  BY DEF ThreadInv, JobInv, NotStarted, Launch
<1>2. /\ unused' = Filters \ Sources /\ declined' = {} /\ readLength' = readLength
      /\ \A t \in Threads : pc'[t] # "done"
  BY <1>1 DEF Launch, dataVars
<1>3. \A f \in Filters : ~InputsFeeding(f, readLength)
  BY <1>1, PromiseAssumption DEF InputsFeeding, Inputs
<1>4. NothingForgotten'
  BY <1>2, <1>3 DEF NothingForgotten, Callable, Sources
<1> QED
  BY <1>2, <1>4 DEF WorkParts, LeftUncallable, DeclinedShort, In

\* A filter is given back only when it is not callable, or has refused.
LEMMA WorkPutBack ==
  ASSUME ThreadInv, WorkParts, NEW t \in Threads, PutBack(t)
  PROVE  WorkParts'
<1>1. /\ pc[t] = "done" /\ unused' = unused \cup {job[t]} /\ pc' = [pc EXCEPT ![t] = "getwork"]
      /\ job' = [job EXCEPT ![t] = NoJob]
      /\ UNCHANGED <<marked, readLength, declined, isSourcing, master>>
  BY DEF PutBack, dataVars
<1>2. pc \in [Threads -> Places] /\ job \in [Threads -> Filters \cup {NoJob}]
  BY DEF ThreadInv, JobInv, TypeOK
<1>3. \A u \in Threads : pc'[u] = "done" => pc[u] = "done" /\ job'[u] = job[u]
  BY <1>1, <1>2
<1>4. NothingForgotten'
  <2>1. ASSUME master # "ready", NEW f \in Filters,
               Callable(f, unused', marked, readLength)
        PROVE  f \in declined
    <3>1. CASE f \in unused
      BY <1>1, <2>1, <3>1 DEF WorkParts, NothingForgotten, Callable
    <3>2. CASE f = job[t]
      BY <1>1, <2>1, <3>2 DEF WorkParts, LeftUncallable, Callable, In
    <3> QED
      BY <1>1, <2>1, <3>1, <3>2 DEF Callable
  <2> QED
    BY <1>1, <2>1 DEF NothingForgotten, Callable
<1>5. LeftUncallable'
  BY <1>1, <1>3 DEF WorkParts, LeftUncallable, Callable, In
<1> QED
  BY <1>1, <1>4, <1>5 DEF WorkParts, DeclinedShort

\* RunInput() looks at everyone whose lengths it changes.
LEMMA WorkRunInput ==
  ASSUME ThreadInv, WorkParts, NEW t \in Threads, RunInput(t)
  PROVE  WorkParts'
<1> PICK f \in Filters : f = job[t]
  BY CallerFacts
<1>1. PICK c \in Calls(f, inputLens) :
        Account(f, c) /\ Reschedule(t, f, CallAgain(f, c, readLength'))
  BY DEF RunInput
<1>2. /\ pc[t] = "input" /\ mutex = Free /\ f \notin unused /\ f \notin marked
      /\ \A r \in Inputs(f) : inputLens[r] <= readLength[r]
      /\ readLength \in [Readers -> Nat] /\ inputLens \in [Readers -> Nat]
      /\ master # "ready"
  BY CallerFacts
<1>3. PICK again \in BOOLEAN : again = CallAgain(f, c, readLength')
  BY DEF CallAgain
<1>4. Rescheduled(t, f, again)
  <2>1. Reschedule(t, f, again)
    BY <1>1, <1>3
  <2> QED
    BY <1>2, <2>1, RescheduleFacts
<1>5. PICK Q \in SUBSET unused, n \in Nat, W \in SUBSET In({"idle"}) :
        RescheduledBy(t, f, again, Q, n, W)
  BY <1>4 DEF Rescheduled
<1>6. /\ readLength' = LengthsAfter(f, c, readLength)
      /\ marked' = IF c.done THEN marked \cup {f} ELSE marked
      /\ declined' = {g \in declined \ {f} :
                        \A r \in Inputs(g) \cap Feeds(f) : c.wrote[output[r]] = 0}
                     \cup (IF InputAdvanced(f, c) THEN {} ELSE {f})
      /\ UNCHANGED <<job, isSourcing, master>>
  BY <1>1 DEF Account, RunInput
<1>7. /\ \A r \in Inputs(f) : c.advance[r] \in Nat /\ c.advance[r] <= inputLens[r]
      /\ \A r \in Inputs(f) : inputLens[r] >= maxRead[r] => c.advance[r] > 0
      /\ \A r \in Feeds(f) : c.wrote[output[r]] \in Nat
      /\ \A r \in Inputs(f) : r \notin Feeds(f)
  <2>1. \A r \in Feeds(f) : output[r] \in OutputsOf(f)
    BY GraphAssumption DEF Feeds, OutputsOf
  <2>2. \A r \in Inputs(f) : r \notin Feeds(f)
    BY GraphAssumption DEF Inputs, Feeds
  <2> QED
    BY <1>2, <2>1, <2>2, CallFacts
<1>8. ASSUME NEW r \in Readers PROVE
        /\ readLength'[r] \in Nat
        /\ r \notin Feeds(f) /\ r \notin Inputs(f) => readLength'[r] = readLength[r]
        /\ r \in Feeds(f) => r \notin Inputs(f) /\ readLength'[r] = readLength[r] + c.wrote[output[r]]
        /\ r \in Inputs(f) => readLength'[r] = readLength[r] - c.advance[r]
  BY <1>2, <1>6, <1>7 DEF LengthsAfter
<1>9. DeclinedShort'
  <2>1. ASSUME NEW g \in declined', g # f, NEW r \in Inputs(g)
        PROVE  ~IsSource(g) /\ readLength'[r] < maxRead[r]
    <3>1. g \in declined /\ ~IsSource(g) /\ readLength[r] < maxRead[r]
      BY <1>6, <2>1 DEF WorkParts, DeclinedShort
    <3>2. r \in Readers /\ r \notin Inputs(f)
      BY <2>1 DEF Inputs
    <3>3. r \in Feeds(f) => c.wrote[output[r]] = 0
      BY <1>6, <2>1
    <3> QED
      BY <1>2, <1>8, <3>1, <3>2, <3>3
  <2>2. ASSUME f \in declined', NEW r \in Inputs(f)
        PROVE  readLength'[r] < maxRead[r]
    <3>1. r \in Readers /\ maxRead[r] \in Nat /\ inputLens[r] \in Nat /\ readLength[r] \in Nat
      BY <1>2, PromiseAssumption DEF Inputs
    <3>2. ~InputAdvanced(f, c)
      BY <1>6, <2>2
    <3>3. ~(c.advance[r] > 0) /\ ~(readLength[r] > inputLens[r])
      BY <3>2 DEF InputAdvanced
    <3> QED
      BY <1>2, <1>7, <1>8, <3>1, <3>3
  <2>3. \A g \in declined' : ~IsSource(g)
    BY <1>6 DEF WorkParts, DeclinedShort, InputAdvanced
  <2> QED
    BY <2>1, <2>2, <2>3 DEF DeclinedShort
<1>10. NothingForgotten'
  <2>1. ASSUME NEW g \in Filters, Callable(g, unused', marked', readLength')
        PROVE  g \in declined'
    <3>1. g \in unused /\ g \notin Q /\ g # f /\ g \notin marked'
      BY <1>2, <1>5, <2>1 DEF Callable, RescheduledBy
    <3>2. g \notin Neighbours(f)
      <4>1. SUFFICES ASSUME g \in Neighbours(f) PROVE FALSE
        OBVIOUS
      <4>2. Callable(g, unused, marked', readLength')
        BY <2>1, <3>1 DEF Callable
      <4>3. g \in NeighboursToQueue(f)
        BY <4>1, <4>2 DEF NeighboursToQueue
      <4> QED
        BY <1>5, <3>1, <4>3 DEF RescheduledBy
    <3>3. \A r \in Feeds(g) : r \in Readers /\ readLength'[r] = readLength[r]
      BY <1>8, <3>1, <3>2 DEF Feeds, Inputs, Neighbours
    <3>4. \A r \in Inputs(g) : r \in Readers /\ r \notin Feeds(f) /\ readLength'[r] = readLength[r]
      BY <1>8, <3>1, <3>2 DEF Feeds, Inputs, Neighbours
    <3>5. Callable(g, unused, marked, readLength)
      <4>1. OutputsHungry(g, readLength)
        BY <2>1, <3>3 DEF Callable, OutputsHungry
      <4>2. InputsFeeding(g, readLength) \/ (IsSource(g) /\ isSourcing)
        BY <2>1, <3>4, <1>6 DEF Callable, InputsFeeding
      <4>3. g \notin marked
        BY <1>6, <3>1
      <4> QED
        BY <3>1, <4>1, <4>2, <4>3 DEF Callable
    <3>6. g \in declined
      BY <1>2, <3>5 DEF WorkParts, NothingForgotten
    <3> QED
      BY <1>6, <3>1, <3>4, <3>6
  <2> QED
    BY <1>6, <2>1 DEF NothingForgotten, Callable
<1>11. LeftUncallable'
  <2>1. ASSUME NEW u \in Threads, pc'[u] = "done",
               Callable(job[u], Filters, marked', readLength')
        PROVE  job[u] \in declined'
    <3>1. u = t /\ ~again
      <4>1. pc[u] # "done"
        BY <1>2 DEF ThreadInv, JobInv, MutexHeld, Holding, Free, Threads
      <4> QED
        BY <1>5, <2>1, <4>1 DEF RescheduledBy
    <3>2. f \notin marked' /\ OutputsHungry(f, readLength')
          /\ (InputsFeeding(f, readLength') \/ IsSource(f))
      BY <2>1, <3>1 DEF Callable
    <3>3. ~c.done
      BY <1>6, <3>2
    <3>4. ~InputAdvanced(f, c)
      BY <1>2, <1>3, <3>1, <3>2, <3>3 DEF CallAgain
    <3> QED
      BY <1>6, <3>1, <3>4
  <2> QED
    BY <1>6, <2>1 DEF LeftUncallable, In, Callable
<1> QED
  BY <1>9, <1>10, <1>11 DEF WorkParts

LEMMA WorkNext ==
  ASSUME ThreadInv, WorkParts, [Next]_vars
  PROVE  WorkParts'
<1>1. ASSUME NEW t \in Threads, Worker(t) PROVE WorkParts'
  <2>1. ASSUME Worker(t), ~RunInput(t), ~PutBack(t) PROVE WorkParts'
    <3>1. \A u \in Threads : pc'[u] = "done" => pc[u] = "done" /\ job'[u] = job[u]
      BY <2>1 DEF Worker, Start, TakeJob, GiveUp, Wait, SpuriousWakeup, Wake, Exit, jobVars,
         ThreadInv, JobInv, TypeOK
    <3>2. UNCHANGED <<unused, marked, readLength, declined, isSourcing>>
      BY <2>1 DEF Worker, Start, TakeJob, GiveUp, Wait, SpuriousWakeup, Wake, Exit, jobVars,
         dataVars
    <3>3. master # "ready" \/ master' = "ready"
      BY <2>1 DEF Worker, Start, TakeJob, GiveUp, Wait, SpuriousWakeup, Wake, Exit
    <3> QED
      BY <3>1, <3>2, <3>3, WorkUntouched
  <2> QED
    BY <1>1, <2>1, WorkRunInput, WorkPutBack
<1>2. ASSUME Master PROVE WorkParts'
  <2>1. ASSUME Master, ~Launch PROVE WorkParts'
    <3>1. /\ pc' = pc /\ UNCHANGED <<job, unused, marked, readLength, declined, isSourcing>>
          /\ master # "ready"
      BY <2>1 DEF Master, MasterWait, SpuriousMaster, MasterWake, Join, jobVars, dataVars
    <3> QED
      BY <3>1, WorkUntouched
  <2> QED
    BY <1>2, <2>1, WorkLaunch
<1>3. ASSUME StopSources \/ UNCHANGED vars PROVE WorkParts'
  <2>1. /\ pc' = pc /\ UNCHANGED <<job, unused, marked, readLength, declined, master>>
        /\ isSourcing' => isSourcing
    BY <1>3 DEF StopSources, vars, jobVars, dataVars
  <2> QED
    BY <2>1, WorkUntouched
<1> QED
  BY <1>1, <1>2, <1>3 DEF Next, Over

-----------------------------------------------------------------------------
(***************************************************************************)
(* The theorems.                                                           *)
(***************************************************************************)

\* The inductive invariant of the bookkeeping in RunInput(): what it queues,
\* what it leaves unqueued, and what a filter that refused its input had.
THEOREM WorkInductive == Spec => [](ThreadInv /\ WorkInv)
<1>1. Init => ThreadInv /\ WorkParts
  BY InitStep, WorkInit
<1>2. (ThreadInv /\ WorkParts) /\ [Next]_vars => (ThreadInv /\ WorkParts)'
  BY NextStep, WorkNext
<1>3. ThreadInv /\ WorkParts => ThreadInv /\ WorkInv
  BY DEF ThreadInv, WorkParts, WorkInv
<1> QED
  BY <1>1, <1>2, <1>3, PTL DEF Spec

\* RunInput() need only look at the neighbours of the filter it ran: no other
\* filter can have become callable (flow.c:461-497).
THEOREM NoneForgotten == Spec => []NothingForgotten
  BY WorkInductive, PTL DEF WorkInv

\* A flow whose workers have all left is drained: each filter is done, or
\* blocked, or short of what it promised it could read.
THEOREM Drained == Spec => []EndsDrained
<1>1. ASSUME ThreadInv, WorkInv, master # "ready", numThreads = 0, NEW f \in Filters \ marked,
             OutputsHungry(f, readLength)
      PROVE  /\ IsSource(f) => ~isSourcing
             /\ \A r \in Inputs(f) : readLength[r] < maxRead[r]
  <2>1. Live = {}
    BY <1>1, WorkersFinite, PlaceSets, FS_EmptySet DEF ThreadInv, CountersExact
  <2>2. \A t \in Threads : pc[t] \in {"none", "dead"}
    BY <2>1 DEF Live, In
  <2>3. \E t \in Threads : pc[t] = "dead"
    BY <1>1, <2>2 DEF ThreadInv, StartedOnce, In
  <2>4. queue = <<>>
    BY <1>1, <2>3 DEF ThreadInv, LeavesOnlyWhenIdle, In
  <2>5. ~Queued(f)
    BY <2>4 DEF Queued
  <2>6. ~Working(f)
    BY <1>1, <2>2, ThreadAssumption DEF Working, ThreadInv, JobInv, JobHeld
  <2>7. f \in unused
    BY <1>1, <2>5, <2>6 DEF ThreadInv, JobInv, OneJobEach
  <2>8. (InputsFeeding(f, readLength) \/ (IsSource(f) /\ isSourcing)) => f \in declined
    BY <1>1, <2>7 DEF WorkInv, NothingForgotten, Callable
  <2>9. f \in declined => ~IsSource(f) /\ \A r \in Inputs(f) : readLength[r] < maxRead[r]
    BY <1>1 DEF WorkInv, DeclinedShort
  <2>10. ASSUME NEW r \in Inputs(f), ~(readLength[r] < maxRead[r]) PROVE InputsFeeding(f, readLength)
    <3>1. /\ r \in Readers /\ threshold[r] \in Nat /\ maxRead[r] \in Nat /\ readLength[r] \in Nat
          /\ threshold[r] <= maxRead[r]
      BY <1>1, PromiseAssumption DEF Inputs, ThreadInv, JobInv, TypeOK
    <3> QED
      BY <2>10, <3>1 DEF InputsFeeding
  <2> QED
    BY <2>8, <2>9, <2>10
<1>2. ThreadInv /\ WorkInv => EndsDrained
  BY <1>1 DEF EndsDrained
<1> QED
  BY <1>2, WorkInductive, PTL

-----------------------------------------------------------------------------
(***************************************************************************)
(* The scheduler implements Dataflow.tla: taking a job begins a call,      *)
(* RunInput() ends it or begins the next one at once, and nothing else     *)
(* shows.                                                                  *)
(***************************************************************************)

\* A call depends on the lengths of its own filter's inputs only.
LEMMA CallsLocal ==
  ASSUME NEW f \in Filters, NEW a, NEW b, \A r \in Inputs(f) : a[r] = b[r]
  PROVE  Calls(f, a) \subseteq Calls(f, b)
<1>1. {0..a[r] : r \in Inputs(f)} = {0..b[r] : r \in Inputs(f)}
  OBVIOUS
<1> QED
  BY <1>1 DEF Calls

\* The abstract flow and the scheduler see the same graph.
LEMMA SameGraph ==
  /\ \A f : Promise!Inputs(f) = Inputs(f) /\ Promise!Feeds(f) = Feeds(f)
  /\ \A f : Promise!OutputsOf(f) = OutputsOf(f) /\ (Promise!IsSource(f) <=> IsSource(f))
  /\ \A f, lens : Promise!OutputsHungry(f, lens) <=> OutputsHungry(f, lens)
  /\ \A f, lens : Promise!InputsFeeding(f, lens) <=> InputsFeeding(f, lens)
  /\ \A f, lens : Promise!Calls(f, lens) = Calls(f, lens)
  /\ \A f, c, lens : Promise!LengthsAfter(f, c, lens) = LengthsAfter(f, c, lens)
<1>1. \A f : Promise!Inputs(f) = Inputs(f) /\ Promise!Feeds(f) = Feeds(f)
             /\ Promise!OutputsOf(f) = OutputsOf(f)
  BY DEF Promise!Inputs, Inputs, Promise!Feeds, Feeds, Promise!OutputsOf, OutputsOf
<1>2. \A f : Promise!IsSource(f) <=> IsSource(f)
  BY <1>1 DEF Promise!IsSource, IsSource
<1>3. \A f, lens : Promise!OutputsHungry(f, lens) <=> OutputsHungry(f, lens)
  BY <1>1 DEF Promise!OutputsHungry, OutputsHungry
<1>4. \A f, lens : Promise!InputsFeeding(f, lens) <=> InputsFeeding(f, lens)
  BY <1>1 DEF Promise!InputsFeeding, InputsFeeding
<1>5. \A f, lens : Promise!Calls(f, lens) = Calls(f, lens)
  <2>1. Promise!Sources = Sources
    BY <1>2 DEF Promise!Sources, Sources
  <2> QED
    BY <1>1, <2>1 DEF Promise!Calls, Calls
<1>6. \A f, c, lens : Promise!LengthsAfter(f, c, lens) = LengthsAfter(f, c, lens)
  BY <1>1 DEF Promise!LengthsAfter, LengthsAfter
<1> QED
  BY <1>1, <1>2, <1>3, <1>4, <1>5, <1>6

LEMMA RefineInit == Init => Promise!Init
<1> SUFFICES ASSUME Init PROVE Promise!Init
  OBVIOUS
<1>1. InCall = {}
  BY DEF Init, InCall, In
<1>2. Given = [r \in Readers |-> 0]
  BY <1>1 DEF Given
<1> QED
  BY <1>1, <1>2 DEF Init, Promise!Init

\* A step that does not touch the calls in progress is a stutter.
LEMMA RefineUntouched ==
  ASSUME UNCHANGED <<readLength, inputLens, marked>>,
         \A t \in Threads : pc'[t] = "input" <=> pc[t] = "input",
         \A t \in Threads : pc[t] = "input" => job'[t] = job[t]
  PROVE  UNCHANGED Promise!vars
<1>1. InCall' = InCall
  BY DEF InCall, In
<1>2. Given' = Given
  BY <1>1 DEF Given
<1> QED
  BY <1>1, <1>2 DEF Promise!vars

LEMMA RefineTakeJob ==
  ASSUME ThreadInv, NEW t \in Threads, TakeJob(t)
  PROVE  Promise!Next
<1> PICK f \in Filters : f = Head(queue)
  BY DEF TakeJob, ThreadInv, JobInv, TypeOK
<1>1. /\ pc[t] = "getwork" /\ job' = [job EXCEPT ![t] = f] /\ pc' = [pc EXCEPT ![t] = "input"]
      /\ inputLens' = [r \in Readers |-> IF r \in Inputs(f) THEN readLength[r] ELSE inputLens[r]]
      /\ readLength' = readLength /\ marked' = marked /\ queue # <<>>
  BY DEF TakeJob
<1>2. pc \in [Threads -> Places] /\ job \in [Threads -> Filters \cup {NoJob}] /\ queue \in Seq(Filters)
  BY DEF ThreadInv, JobInv, TypeOK
<1>3. Queued(f)
  BY <1>1, <1>2, EmptySeq, LenProperties DEF Queued
<1>4. ~Working(f)
  BY <1>3 DEF ThreadInv, JobInv, OneJobEach, Queued
<1>5. f \notin InCall
  BY <1>4 DEF InCall, In, Working
<1>6. In({"input"})' = In({"input"}) \cup {t}
  BY <1>1, <1>2 DEF In
<1>7. InCall' = InCall \cup {f}
  BY <1>1, <1>2, <1>6 DEF InCall, In
<1>8. Given' = [r \in Readers |-> IF r \in Inputs(f) THEN readLength[r] ELSE Given[r]]
  BY <1>1, <1>5, <1>7 DEF Given, Inputs
<1>9. f \notin marked /\ Promise!MayBeCalled(f, readLength)
  BY <1>3, SameGraph DEF ThreadInv, JobInv, ReadyWhenCalled, Promise!MayBeCalled
<1>10. Promise!Begin(f)
  BY <1>1, <1>5, <1>7, <1>8, <1>9, SameGraph DEF Promise!Begin
<1> QED
  BY <1>10 DEF Promise!Next

LEMMA RefineRunInput ==
  ASSUME ThreadInv, NEW t \in Threads, RunInput(t)
  PROVE  Promise!Next
<1> PICK f \in Filters : f = job[t]
  BY CallerFacts
<1>1. PICK c \in Calls(f, inputLens) :
        Account(f, c) /\ Reschedule(t, f, CallAgain(f, c, readLength'))
  BY DEF RunInput
<1>2. /\ pc[t] = "input" /\ f \notin unused /\ f \notin marked
      /\ \A u \in Threads : job[u] = f => u = t
      /\ In({"exit", "dead"}) = {}
  BY CallerFacts
<1>3. PICK again \in BOOLEAN : again = CallAgain(f, c, readLength')
  BY DEF CallAgain
<1>4. Rescheduled(t, f, again)
  <2>1. Reschedule(t, f, again)
    BY <1>1, <1>3
  <2> QED
    BY <1>2, <2>1, RescheduleFacts
<1>5. PICK Q \in SUBSET unused, n \in Nat, W \in SUBSET In({"idle"}) :
        RescheduledBy(t, f, again, Q, n, W)
  BY <1>4 DEF Rescheduled
<1>6. /\ readLength' = LengthsAfter(f, c, readLength)
      /\ marked' = IF c.done THEN marked \cup {f} ELSE marked
      /\ job' = job
  BY <1>1 DEF Account, RunInput
<1>7. \A u \in NewSlots(n) : pc[u] = "none"
  BY <1>2 DEF ThreadInv, SlotsInOrder, NewSlots, In
<1>8. \A u \in Threads : u # t => (pc'[u] = "input" <=> pc[u] = "input")
  BY <1>5, <1>7 DEF RescheduledBy, In
<1>9. pc'[t] = IF again THEN "input" ELSE "done"
  BY <1>5 DEF RescheduledBy
<1>10. f \in InCall
  BY <1>2 DEF InCall, In
<1>11. InCall' = IF again THEN InCall ELSE InCall \ {f}
  BY <1>2, <1>3, <1>6, <1>8, <1>9 DEF InCall, In
<1>12. c \in Calls(f, Given)
  <2>1. \A r \in Inputs(f) : inputLens[r] = Given[r]
    BY <1>10 DEF Given, Inputs
  <2> QED
    BY <2>1, CallsLocal
<1>13. ASSUME NEW r \in Readers, reader[r] # f
       PROVE  Given'[r] = Given[r]
  <2>1. reader[r] \in InCall' <=> reader[r] \in InCall
    BY <1>11, <1>13
  <2>2. reader[r] \in InCall => reader[r] \notin Q
    BY DEF InCall, In, ThreadInv, JobInv, OneJobEach, Working
  <2>3. reader[r] \in InCall => inputLens'[r] = inputLens[r]
    BY <1>5, <1>13, <2>2 DEF RescheduledBy, SetLens, Inputs
  <2> QED
    BY <2>1, <2>3 DEF Given
<1>14. CASE ~again
  <2>1. \A r \in Inputs(f) : Given'[r] = 0
    BY <1>11, <1>14 DEF Given, Inputs
  <2>2. Given' = [r \in Readers |-> IF r \in Inputs(f) THEN 0 ELSE Given[r]]
    BY <1>13, <2>1 DEF Given, Inputs
  <2>3. Promise!End(f)
    BY <1>6, <1>10, <1>11, <1>12, <1>14, <2>2, SameGraph DEF Promise!End, Promise!Return
  <2> QED
    BY <2>3 DEF Promise!Next
<1>15. CASE again
  <2>1. \A r \in Inputs(f) : Given'[r] = readLength'[r]
    BY <1>5, <1>10, <1>11, <1>15 DEF Given, Inputs, RescheduledBy, SetLens
  <2>2. Given' = [r \in Readers |-> IF r \in Inputs(f) THEN readLength'[r] ELSE Given[r]]
    BY <1>13, <2>1 DEF Given, Inputs
  <2>3. ~c.done /\ Promise!MayBeCalled(f, readLength') /\ marked' = marked
    BY <1>3, <1>6, <1>15, SameGraph DEF CallAgain, Promise!MayBeCalled
  <2>4. Promise!End(f)
    BY <1>6, <1>10, <1>11, <1>12, <1>15, <2>2, <2>3, SameGraph DEF Promise!End, Promise!Return
  <2> QED
    BY <2>4 DEF Promise!Next
<1> QED
  BY <1>14, <1>15

LEMMA RefineNext ==
  ASSUME ThreadInv, [Next]_vars
  PROVE  [Promise!Next]_(Promise!vars)
<1>1. ASSUME NEW t \in Threads, Worker(t), ~TakeJob(t), ~RunInput(t)
      PROVE  UNCHANGED Promise!vars
  <2>1. UNCHANGED <<readLength, inputLens, marked>>
    BY <1>1 DEF Worker, Start, GiveUp, Wait, SpuriousWakeup, Wake, PutBack, Exit, dataVars
  <2>2. \A u \in Threads : pc'[u] = "input" <=> pc[u] = "input"
    BY <1>1 DEF Worker, Start, GiveUp, Wait, SpuriousWakeup, Wake, PutBack, Exit, LeavingWakes,
       In, ThreadInv, JobInv, TypeOK
  <2>3. \A u \in Threads : pc[u] = "input" => job'[u] = job[u]
    BY <1>1 DEF Worker, Start, GiveUp, Wait, SpuriousWakeup, Wake, PutBack, Exit, jobVars,
       ThreadInv, JobInv, TypeOK
  <2> QED
    BY <2>1, <2>2, <2>3, RefineUntouched
<1>2. ASSUME Launch PROVE UNCHANGED Promise!vars
  <2>1. /\ UNCHANGED <<readLength, inputLens, marked, job>>
        /\ \A u \in Threads : pc[u] = "none" /\ pc'[u] # "input"
    BY <1>2 DEF Launch, dataVars, ThreadInv, JobInv, NotStarted
  <2> QED
    BY <2>1, RefineUntouched
<1>3. ASSUME (Master /\ ~Launch) \/ StopSources \/ UNCHANGED vars
      PROVE  UNCHANGED Promise!vars
  <2>1. UNCHANGED <<readLength, inputLens, marked, job, pc>>
    BY <1>3 DEF Master, MasterWait, SpuriousMaster, MasterWake, Join, StopSources, vars,
       dataVars, jobVars
  <2> QED
    BY <2>1, RefineUntouched
<1> QED
  BY <1>1, <1>2, <1>3, RefineTakeJob, RefineRunInput DEF Next, Over

\* The scheduler keeps what Dataflow.tla promises the author of a filter, in
\* every stream and with any number of workers.
THEOREM Implements == Spec => KeepsPromise
<1>1. Init => Promise!Init
  BY RefineInit
<1>2. ThreadInv /\ [Next]_vars => [Promise!Next]_(Promise!vars)
  BY RefineNext
<1> QED
  BY <1>1, <1>2, Inductive, PTL DEF Spec, KeepsPromise, Promise!Spec

-----------------------------------------------------------------------------
(***************************************************************************)
(* The life of a stream: what a stop and the next launch set back, with    *)
(* what the flow has come to when its last worker left, is the state a     *)
(* flow begins in.                                                         *)
(***************************************************************************)

\* Where a flow begins; a stop of the sources may have come before it.
Clean ==
  /\ mutex = Free
  /\ pc = [t \in Threads |-> "none"] /\ job = [t \in Threads |-> NoJob]
  /\ queue = <<>> /\ unused = Filters
  /\ marked = {} /\ declined = {}
  /\ readLength = [r \in Readers |-> 0] /\ inputLens = [r \in Readers |-> 0]
  /\ isSourcing \in BOOLEAN
  /\ numThreads = 0 /\ numWorkerThreads = 0 /\ numIdleThreads = 0
  /\ master = "ready" /\ joinAt = 0

\* Between two flows: no worker, no queued job, every count at zero.
Between ==
  /\ \A t \in Threads : pc[t] \in {"none", "dead"}
  /\ job = [t \in Threads |-> NoJob]
  /\ queue = <<>>
  /\ numThreads = 0 /\ numWorkerThreads = 0 /\ numIdleThreads = 0
  /\ master = "ready" /\ joinAt = 0

\* The inductive invariant of the life.
LifeInv ==
  /\ TypeOK /\ stage \in Stages
  /\ stage \in {"down", "ready", "failed"} => Between
  /\ stage = "ready" => readLength = [r \in Readers |-> 0]
  /\ stage = "prepared" => Clean
  /\ stage = "launched" => ThreadInv /\ WorkParts /\ master # "ready"

LEMMA CleanHolds == Clean => ThreadInv /\ WorkParts
<1> SUFFICES ASSUME Clean PROVE ThreadInv /\ WorkParts
  OBVIOUS
<1>1. TypeOK
  <2>1. queue \in Seq(Filters) /\ 0 \in 0..maxThreads
    BY ThreadAssumption DEF Clean
  <2>2. readLength \in [Readers -> Nat] /\ inputLens \in [Readers -> Nat]
    BY DEF Clean
  <2>3. pc \in [Threads -> Places] /\ job \in [Threads -> Filters \cup {NoJob}]
    BY DEF Clean, Places
  <2> QED
    BY <2>1, <2>2, <2>3 DEF Clean, TypeOK, MasterPlaces
<1>2. In({"none", "dead"}) = Threads /\ In(Waiting) = {} /\ Live = {} /\ Counted = {}
  BY DEF Clean, In, Waiting, Live, Counted
<1>3. CountersExact
  BY <1>2, FS_EmptySet DEF Clean, CountersExact
<1>4. MutexHeld /\ JobHeld /\ LensBounded /\ NotStarted
  BY ThreadAssumption DEF Clean, MutexHeld, JobHeld, LensBounded, NotStarted, Holding, In,
     Free, Threads
<1>5. OneJobEach /\ ReadyWhenCalled
  BY ThreadAssumption DEF Clean, OneJobEach, ReadyWhenCalled, Queued, Working, In
<1>6. BoundedBacklog
  BY GraphAssumption, PromiseAssumption DEF Clean, BoundedBacklog
<1>7. LeavesOnlyWhenIdle /\ WorkHasWorker /\ NoLostWakeup /\ StartedOnce /\ MasterKnows
  BY <1>2 DEF Clean, LeavesOnlyWhenIdle, WorkHasWorker, NoLostWakeup, StartedOnce,
     MasterKnows, In
<1>8. SlotsInOrder /\ JoinsSlots
  BY ThreadAssumption DEF Clean, SlotsInOrder, JoinsSlots, Threads
<1>9. WorkParts
  BY ThreadAssumption DEF Clean, WorkParts, NothingForgotten, LeftUncallable, DeclinedShort, In
<1> QED
  BY <1>1, <1>3, <1>4, <1>5, <1>6, <1>7, <1>8, <1>9 DEF ThreadInv, JobInv

\* Once qsStreamLaunch() has returned the main thread never gets back to
\* where it was, as long as the flow's own steps are taken.
LEMMA StaysLaunched ==
  ASSUME Next, master # "ready"
  PROVE  master' # "ready"
<1>1. ASSUME NEW t \in Threads, Worker(t) PROVE master' # "ready"
  BY <1>1 DEF Worker, Start, TakeJob, GiveUp, Wait, SpuriousWakeup, Wake, RunInput, PutBack, Exit
<1>2. ASSUME Master PROVE master' # "ready"
  BY <1>2 DEF Master, Launch, MasterWait, SpuriousMaster, MasterWake, Join
<1> QED
  BY <1>1, <1>2 DEF Next, StopSources, Over, vars

\* When no worker lives in a launched stream, the flow has come to an end:
\* the queue is empty and all counts are zero.
LEMMA EndedFlow ==
  ASSUME ThreadInv, master # "ready", Live = {}
  PROVE  /\ \A t \in Threads : pc[t] \in {"none", "dead"}
         /\ job = [t \in Threads |-> NoJob]
         /\ queue = <<>>
         /\ numThreads = 0 /\ numWorkerThreads = 0 /\ numIdleThreads = 0
<1>1. \A t \in Threads : pc[t] \in {"none", "dead"}
  BY DEF Live, In
<1>2. Counted = {} /\ In(Waiting) = {}
  BY PlaceSets
<1>3. numThreads = 0 /\ numWorkerThreads = 0 /\ numIdleThreads = 0
  BY <1>2, FS_EmptySet DEF ThreadInv, CountersExact
<1>4. \A t \in Threads : job[t] = NoJob
  BY <1>1 DEF ThreadInv, JobInv, JobHeld
<1>5. job = [t \in Threads |-> NoJob]
  BY <1>4 DEF ThreadInv, JobInv, TypeOK
<1>6. In({"exit", "dead"}) # {}
  BY <1>1 DEF ThreadInv, StartedOnce, In
<1> QED
  BY <1>1, <1>3, <1>5, <1>6 DEF ThreadInv, LeavesOnlyWhenIdle

-----------------------------------------------------------------------------
(***************************************************************************)
(* One lemma per action.                                                   *)
(***************************************************************************)

LEMMA PrepareStep ==
  ASSUME LifeInv, Prepare
  PROVE  LifeInv'
<1>1. Between /\ readLength = [r \in Readers |-> 0] /\ isSourcing \in BOOLEAN
  BY DEF LifeInv, Prepare, TypeOK
<1>2. Clean'
  BY <1>1 DEF Between, Clean, Prepare, countVars
<1>3. Clean' => ThreadInv'
  BY CleanHolds, PTL
<1>4. TypeOK'
  BY <1>2, <1>3 DEF ThreadInv, JobInv
<1> QED
  BY <1>2, <1>4 DEF LifeInv, Prepare, Stages

LEMMA FlowStep ==
  ASSUME LifeInv, LaunchFlow \/ Flow
  PROVE  LifeInv'
<1>1. ThreadInv /\ WorkParts
  BY CleanHolds DEF LifeInv, LaunchFlow, Flow
<1>2. ThreadInv' /\ WorkParts'
  BY <1>1, NextStep, WorkNext DEF LaunchFlow, Flow, Next, Master
<1>3. master' # "ready"
  <2>1. ASSUME LaunchFlow PROVE master' # "ready"
    BY <2>1 DEF LaunchFlow, Launch
  <2>2. ASSUME Flow PROVE master' # "ready"
    BY <2>2, StaysLaunched DEF LifeInv, Flow
  <2> QED
    BY <2>1, <2>2
<1>4. stage' = "launched"
  BY DEF LaunchFlow, Flow
<1> QED
  BY <1>2, <1>3, <1>4 DEF LifeInv, Stages, ThreadInv, JobInv

LEMMA WaitAgainStep ==
  ASSUME LifeInv, WaitAgain
  PROVE  LifeInv'
<1>1. ThreadInv /\ WorkParts
  BY DEF LifeInv, WaitAgain
<1>2. UNCHANGED <<mutex, pc, dataVars, jobVars, countVars>> /\ isSourcing' = isSourcing
  BY DEF WaitAgain
<1>3. Live' = Live /\ Live = {}
  BY <1>1, <1>2, WorkersFinite, PlaceSets, FS_EmptySet DEF WaitAgain, ThreadInv, CountersExact,
     Live, In
<1>4. MasterKnows'
  BY <1>3 DEF MasterKnows
<1>5. master' \in MasterPlaces /\ joinAt' \in 0..maxThreads /\ JoinsSlots' /\ NotStarted'
  BY ThreadAssumption DEF WaitAgain, MasterPlaces, JoinsSlots, Threads, NotStarted
<1>6. ThreadInv'
  BY <1>1, <1>2, <1>4, <1>5, WorkersUntouched DEF WaitAgain, ThreadInv, JobInv, TypeOK
<1>7. WorkParts'
  BY <1>1, <1>2, WorkUntouched DEF WaitAgain, dataVars, jobVars
<1> QED
  BY <1>6, <1>7 DEF WaitAgain, LifeInv, ThreadInv, JobInv, Stages

LEMMA StopStep ==
  ASSUME LifeInv, Stop
  PROVE  LifeInv'
<1>1. stage \in {"ready", "failed", "launched"} /\ Live = {}
  BY DEF Stop, MayCall
<1>2. /\ \A t \in Threads : pc[t] \in {"none", "dead"}
      /\ job = [t \in Threads |-> NoJob]
      /\ numWorkerThreads = 0
  BY <1>1, EndedFlow DEF LifeInv, Between
<1>3. Between'
  BY <1>2 DEF Stop, Between
<1>4. TypeOK'
  <2>1. <<>> \in Seq(Filters) /\ 0 \in 0..maxThreads
    BY ThreadAssumption
  <2> QED
    BY <2>1 DEF LifeInv, Stop, TypeOK, dataVars, MasterPlaces
<1> QED
  BY <1>3, <1>4 DEF Stop, LifeInv, Stages

LEMMA StopSourcesEarlyStep ==
  ASSUME LifeInv, StopSourcesEarly
  PROVE  LifeInv'
<1>1. /\ UNCHANGED <<mutex, pc, dataVars, jobVars, countVars, master, joinAt, stage>>
      /\ isSourcing' = FALSE /\ stage # "launched"
  BY DEF StopSourcesEarly, StopSources
<1>2. TypeOK'
  BY <1>1 DEF LifeInv, dataVars, jobVars, countVars, TypeOK
<1>3. Between => Between'
  BY <1>1 DEF Between, jobVars, countVars
<1>4. Clean => Clean'
  BY <1>1 DEF Clean, dataVars, jobVars, countVars
<1> QED
  BY <1>1, <1>2, <1>3, <1>4 DEF LifeInv, dataVars

LEMMA ReadyStep ==
  ASSUME LifeInv, StreamReady
  PROVE  LifeInv'
<1>1. TypeOK' /\ Between'
  BY DEF LifeInv, StreamReady, jobVars, countVars, TypeOK, Between
<1> QED
  BY <1>1 DEF StreamReady, LifeInv, Stages

LEMMA LifeStutter ==
  ASSUME LifeInv, UNCHANGED vars, stage' \in Ended \cup {stage}
  PROVE  LifeInv'
<1>1. TypeOK'
  BY DEF LifeInv, vars, dataVars, jobVars, countVars, TypeOK
<1>2. Between => Between'
  BY DEF Between, vars, jobVars, countVars
<1>3. Clean => Clean'
  BY DEF Clean, vars, dataVars, jobVars, countVars
<1>4. ThreadInv => ThreadInv'
  BY StutterStep
<1>5. WorkParts => WorkParts'
  BY WorkUntouched DEF vars, dataVars, jobVars
<1>6. stage' \in Stages
  BY DEF LifeInv, Ended, Stages
<1>7. CASE stage' = stage
  BY <1>1, <1>2, <1>3, <1>4, <1>5, <1>6, <1>7 DEF LifeInv, vars, dataVars
<1>8. CASE stage' \in Ended
  BY <1>1, <1>6, <1>8 DEF LifeInv, Ended
<1> QED
  BY <1>7, <1>8

-----------------------------------------------------------------------------
(***************************************************************************)
(* The theorems.                                                           *)
(***************************************************************************)

LEMMA LifeStep ==
  ASSUME LifeInv, [LifeNext]_lifeVars
  PROVE  LifeInv'
<1>1. ASSUME LaunchUnmapped \/ StopUnderWorkers \/ Halted \/ UNCHANGED lifeVars
      PROVE  LifeInv'
  BY <1>1, LifeStutter DEF LaunchUnmapped, StopUnderWorkers, Halted, lifeVars, Ended
<1> QED
  BY <1>1, ReadyStep, PrepareStep, FlowStep, WaitAgainStep, StopSourcesEarlyStep, StopStep
  DEF LifeNext

\* The inductive invariant of the life holds for every stream and every
\* number of workers, however often the stream is run.
THEOREM LifeInductive == LifeSpec => []LifeInv
<1>1. LifeInit => LifeInv
  <2>1. LifeInit => Clean
    BY DEF LifeInit, Init, Clean
  <2>2. LifeInit => TypeOK /\ Between
    BY <2>1, CleanHolds DEF Clean, Between, ThreadInv, JobInv
  <2> QED
    BY <2>2 DEF LifeInit, LifeInv, Stages
<1>2. LifeInv /\ [LifeNext]_lifeVars => LifeInv'
  BY LifeStep
<1> QED
  BY <1>1, <1>2, PTL DEF LifeSpec

\* Every flow of the life, not only the first, keeps the inductive invariants
\* of the scheduler.
THEOREM EveryFlow == LifeSpec => [](stage = "launched" => ThreadInv /\ WorkInv)
<1>1. LifeInv => (stage = "launched" => ThreadInv /\ WorkInv)
  BY DEF LifeInv, ThreadInv, WorkParts, WorkInv
<1> QED
  BY <1>1, LifeInductive, PTL

\* Each launch finds what the first one found, although stream.h:153 and
\* streamLaunch.c:301 each set back only a part.
THEOREM FreshEveryTime == LifeSpec => []FreshLaunch
<1>1. LifeInv => FreshLaunch
  BY DEF LifeInv, Clean, FreshLaunch, NotStarted
<1> QED
  BY <1>1, LifeInductive, PTL
=============================================================================
