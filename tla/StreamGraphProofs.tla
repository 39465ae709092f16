------------------------- MODULE StreamGraphProofs -------------------------
(***************************************************************************)
(* The invariants of StreamGraph.tla for any filters, ports and number of  *)
(* connections, and of a stream with its buffers, which does nothing else  *)
(* to the graph: while the stream is down no filter is flagged as a source *)
(* and nothing is left of the last run; while it is up, what was built     *)
(* fits the connections as they were numbered.                             *)
(*                                                                         *)
(* Of the buffers: every output has the one it should have, and if every   *)
(* filter that passes one on is fed by one filter, the place of a filter   *)
(* in the walk from the sources is a rank that falls on the way up a list  *)
(* of pass-through outputs.                                                *)
(***************************************************************************)
EXTENDS StreamBuffers, DataLemmas

\* The filters that flow, and the connections between them into one.
Flow(c) == Reached(c, Roots(c))
Between(c, f) == {i \in DOMAIN c : c[i].to = f /\ c[i].from \in Flow(c)}

Connected ==
  /\ connections \in Seq(Connection)
  /\ Len(connections) <= MaxConnections
  /\ allowLoops \in BOOLEAN /\ launched \in BOOLEAN
  /\ ret \in {0, -1, -2, -3, -4}

Down ==
  Inactive => isSource = {} /\ outputs = Free /\ inputs = Free

SourcesUp ==
  /\ isSource = Roots(connections)
  /\ sources \in Seq(Filters)
  /\ Range(sources) = Roots(connections) /\ IsInjective(sources)

\* Every connection between filters that flow is among the readers of its port.
OutputsUp ==
  /\ DOMAIN outputs = Filters
  /\ \A f \in Filters : \A p \in DOMAIN outputs[f] :
       /\ f \in Flow(connections)
       /\ Range(outputs[f][p]) =
            {i \in DOMAIN connections : connections[i].from = f /\ connections[i].fromPort = p}
  /\ \A i \in DOMAIN connections :
       connections[i].from \in Flow(connections)
         => connections[i].fromPort \in DOMAIN outputs[connections[i].from]

InputsUp ==
  /\ DOMAIN inputs = Filters
  /\ \A f \in Filters \ Flow(connections) : DOMAIN inputs[f] = {}
  /\ \A f \in Flow(connections) :
       /\ DOMAIN inputs[f] = 0..(Cardinality(Between(connections, f)) - 1)
       /\ {inputs[f][p] : p \in DOMAIN inputs[f]} = Between(connections, f)
       /\ \A p \in DOMAIN inputs[f] : connections[inputs[f][p]].toPort \in {p, NextPort}

\* The inductive invariant.
Inv == Connected /\ Down /\ (~Inactive => SourcesUp /\ OutputsUp /\ InputsUp)

-----------------------------------------------------------------------------
(***************************************************************************)
(* Parts of lists.                                                         *)
(***************************************************************************)
LEMMA InOrderFacts ==
  ASSUME NEW S \in SUBSET Nat, IsFiniteSet(S)
  PROVE  /\ Cardinality(S) \in Nat
         /\ InOrder(S) \in [1 .. Cardinality(S) -> S] /\ InOrder(S) \in Seq(S)
         /\ Len(InOrder(S)) = Cardinality(S)
         /\ \A i, j \in 1 .. Cardinality(S) : i < j => InOrder(S)[i] < InOrder(S)[j]
         /\ IsInjective(InOrder(S)) /\ Range(InOrder(S)) = S
<1> DEFINE n == Cardinality(S)
           q == InOrder(S)
<1>1. n \in Nat
  BY FS_CardinalityType
<1>2. q \in [1 .. n -> S] /\ \A i, j \in DOMAIN q : i < j => q[i] < q[j]
  BY IncreasingList DEF InOrder
<1> HIDE DEF q
<1>3. IsInjective(q)
  <2> SUFFICES ASSUME NEW i \in DOMAIN q, NEW j \in DOMAIN q, q[i] = q[j] PROVE i = j
    BY DEF IsInjective
  <2>1. q[i] \in Nat /\ q[j] \in Nat
    BY <1>2
  <2>2. ~(i < j) /\ ~(j < i)
    BY <1>2, <2>1
  <2>3. i \in Nat /\ j \in Nat
    <3> HIDE DEF n
    <3> QED
      BY <1>1, <1>2
  <2> QED
    BY <2>2, <2>3
<1>4. Range(q) = S
  <2>1. IsFiniteSet(1 .. n) /\ Cardinality(1 .. n) = n
    <3> HIDE DEF n
    <3> QED
      BY <1>1, FS_Interval
  <2>2. q \in Injection(1 .. n, S)
    BY <1>2, <1>3 DEF Injection
  <2>3. q \in Surjection(1 .. n, S)
    BY <2>1, <2>2, FS_Injection
  <2> QED
    BY <1>2, <2>3 DEF Surjection, Range
<1>5. q \in Seq(S) /\ Len(q) = n
  <2>1. q \in Seq(S)
    <3> HIDE DEF n
    <3> QED
      BY <1>1, <1>2, SeqDef
  <2>2. DOMAIN q = 1 .. Len(q) /\ Len(q) \in Nat
    BY <2>1, LenProperties
  <2> HIDE DEF n
  <2> QED
    BY <1>1, <1>2, <2>1, <2>2
<1> QED
  BY <1>1, <1>2, <1>3, <1>4, <1>5 DEF q

\* The elements of v at the indices in S, in their order.
Picked(v, S) == [k \in DOMAIN InOrder(S) |-> v[InOrder(S)[k]]]

LEMMA PickedList ==
  ASSUME NEW N \in Nat, NEW S \in SUBSET (1 .. N), NEW v
  PROVE  /\ \A W : (\A i \in S : v[i] \in W) => Picked(v, S) \in Seq(W)
         /\ Len(Picked(v, S)) <= N
         /\ Range(Picked(v, S)) = {v[i] : i \in S}
         /\ (\A i, j \in S : v[i] = v[j] => i = j) => IsInjective(Picked(v, S))
<1> DEFINE order  == InOrder(S)
           picked == Picked(v, S)
           n == Cardinality(S)
<1>1. S \in SUBSET Nat
  OBVIOUS
<1>2. IsFiniteSet(S) /\ n <= N
  <2>1. IsFiniteSet(1 .. N) /\ Cardinality(1 .. N) = N
    BY FS_Interval
  <2> QED
    BY <2>1, FS_Subset
<1>3. /\ n \in Nat /\ order \in [1 .. n -> S]
      /\ IsInjective(order) /\ Range(order) = S
  BY <1>1, <1>2, InOrderFacts
<1>4. picked = [k \in DOMAIN order |-> v[order[k]]]
  BY DEF Picked
<1> HIDE DEF order, n, picked
<1>5. \A k \in 1 .. n : order[k] \in S
  BY <1>3
<1>6. ASSUME NEW W, \A i \in S : v[i] \in W
      PROVE  picked \in Seq(W)
  <2>1. picked \in [1 .. n -> W]
    BY <1>3, <1>4, <1>5, <1>6
  <2> QED
    BY <1>3, <2>1, SeqDef
<1>7. Range(picked) = {v[i] : i \in S}
  BY <1>3, <1>4 DEF Range
<1>8. (\A i, j \in S : v[i] = v[j] => i = j) => IsInjective(picked)
  <2> SUFFICES ASSUME \A i, j \in S : v[i] = v[j] => i = j, NEW i \in 1 .. n, NEW j \in 1 .. n,
                      picked[i] = picked[j]
               PROVE  i = j
    BY <1>3, <1>4 DEF IsInjective
  <2>1. order[i] = order[j]
    BY <1>3, <1>4, <1>5
  <2> QED
    BY <1>3, <2>1 DEF IsInjective
<1>9. Len(picked) = n
  <2>1. picked \in Seq({v[i] : i \in S})
    BY <1>6
  <2>2. DOMAIN picked = 1 .. n
    BY <1>3, <1>4
  <2> QED
    BY <1>3, <2>1, <2>2, LenProperties
<1> QED
  BY <1>2, <1>6, <1>7, <1>8, <1>9 DEF picked

-----------------------------------------------------------------------------
(***************************************************************************)
(* Paths: the count is cut off below what the check for loops asks for.    *)
(***************************************************************************)
LEMMA PathCutOff ==
  ASSUME NEW c \in Seq(Connection), NEW max \in Nat, NEW f \in Filters
  PROVE  CountFilterPath(c, max)[f] \in 0 .. max + 1
<1> DEFINE top == max + 1
           V == [Filters -> 0 .. top]
           Below(v, e) == {v[c[i].to] : i \in {j \in DOMAIN c : c[j].from = e}}
           Row(l, v) == [e \in Filters |-> Max(Below(v, e) \cup {l + 1})]
           step == [i \in 1 .. top |-> [v \in V |-> Row(top - i, v)]]
           a == [e \in Filters |-> top]
<1>1. \A i \in DOMAIN c : c[i].to \in Filters
  <2>1. \A i \in DOMAIN c : c[i] \in Connection
    BY ElementOfSeq, LenProperties
  <2> QED
    BY <2>1 DEF Connection
<1>2. top \in Nat
  OBVIOUS
<1>3. ASSUME NEW v \in V, NEW l \in 0 .. max
      PROVE  Row(l, v) \in V
  <2> SUFFICES ASSUME NEW e \in Filters PROVE Max(Below(v, e) \cup {l + 1}) \in 0 .. top
    OBVIOUS
  <2> DEFINE T == Below(v, e) \cup {l + 1}
  <2>1. T \in SUBSET (0 .. top) /\ T # {}
    BY <1>1
  <2> HIDE DEF T, top
  <2>2. T \in SUBSET Nat /\ \A m \in T : m <= top
    BY <1>2, <2>1
  <2>3. Max(T) \in T
    BY <1>2, <2>1, <2>2, MaxFacts
  <2> QED
    BY <2>1, <2>3 DEF T
<1>4. step \in [1 .. top -> [V -> V]]
  <2>1. \A i \in 1 .. top : top - i \in 0 .. max
    OBVIOUS
  <2> HIDE DEF Row, V
  <2> QED
    BY <1>3, <2>1
<1>5. a \in V
  OBVIOUS
<1>6. PICK h : Stepwise(h, V, a, top, step)
  <2> HIDE DEF V, step, top, a, Row, Below
  <2>1. top \in Nat
    BY <1>2
  <2>2. a \in V
    BY <1>5
  <2>3. step \in [1 .. top -> [V -> V]]
    BY <1>4
  <2> QED
    BY <2>1, <2>2, <2>3, StepwiseExists
<1>7. /\ h \in [0 .. top -> V] /\ h[0] = a
      /\ \A i \in 1 .. top : h[i] = step[i][h[i - 1]]
  BY <1>6 DEF Stepwise
<1> DEFINE g == [l \in 0 .. top |-> h[top - l]]
           Is(k) == k = [l \in 0 .. (max + 1) |->
                           [e \in Filters |->
                              IF l > max THEN l
                              ELSE LET below == {k[l + 1][c[i].to] :
                                                   i \in {j \in DOMAIN c : c[j].from = e}}
                                   IN Max(below \cup {l + 1})]]
<1>8. Is(g)
  <2>1. ASSUME NEW l \in 0 .. top
        PROVE  g[l] = [e \in Filters |-> IF l > max THEN l
                                         ELSE Max(Below(g[l + 1], e) \cup {l + 1})]
    <3>1. CASE l = top
      <4>1. g[l] = [e \in Filters |-> top]
        BY <1>7, <3>1
      <4>2. l > max
        BY <3>1
      <4> HIDE DEF g, Below
      <4> QED
        BY <3>1, <4>1, <4>2
    <3>2. CASE l # top
      <4>1. /\ l \in 0 .. max /\ l + 1 \in 0 .. top /\ top - l \in 1 .. top
            /\ (top - l) - 1 = top - (l + 1) /\ top - (top - l) = l /\ ~(l > max)
            /\ (top - l) - 1 \in 0 .. top
        BY <3>2
      <4> HIDE DEF Row, V
      <4>2. g[l] = h[top - l] /\ g[l + 1] = h[(top - l) - 1]
        BY <4>1
      <4> HIDE DEF top, g
      <4>3. h[(top - l) - 1] \in V
        BY <1>7, <4>1
      <4>4. h[top - l] = Row(l, h[(top - l) - 1])
        BY <1>7, <4>1, <4>3
      <4>5. g[l] = Row(l, g[l + 1])
        BY <4>2, <4>4
      <4> QED
        BY <4>1, <4>5 DEF Row
    <3> QED
      BY <3>1, <3>2
  <2>2. g = [l \in 0 .. top |-> g[l]]
    OBVIOUS
  <2>3. g = [l \in 0 .. top |-> [e \in Filters |-> IF l > max THEN l
                                         ELSE Max(Below(g[l + 1], e) \cup {l + 1})]]
    <3> HIDE DEF g, Below, top
    <3> QED
      BY <2>1, <2>2
  <2> HIDE DEF g
  <2> QED
    BY <2>3
<1> DEFINE count == CHOOSE k : Is(k)
<1>9. CountFilterPath(c, max) = count[0]
  BY DEF CountFilterPath
<1> HIDE DEF g, Is
<1>10. Is(count)
  BY <1>8
<1>11. /\ count[top] \in V
       /\ \A l \in 0 .. max : count[l] = Row(l, count[l + 1])
  <2> HIDE DEF count
  <2>1. \A l \in 0 .. top : count[l] =
          [e \in Filters |-> IF l > max THEN l ELSE Max(Below(count[l + 1], e) \cup {l + 1})]
    BY <1>10 DEF Is
  <2>2. top > max /\ top \in 0 .. top /\ \A l \in 0 .. max : l \in 0 .. top /\ ~(l > max)
    OBVIOUS
  <2>3. count[top] = a
    <3> HIDE DEF Below
    <3> QED
      BY <2>1, <2>2
  <2>4. \A l \in 0 .. max : count[l] = Row(l, count[l + 1])
    <3> HIDE DEF Below, top
    <3> QED
      BY <2>1, <2>2
  <2> QED
    BY <1>5, <2>3, <2>4
<1> DEFINE S == {n \in 0 .. top : count[top - n] \in V}
<1> HIDE DEF count, Row, V
<1>12. 0 \in S
  BY <1>11
<1>13. \A n \in 0 .. top - 1 : n \in S => n + 1 \in S
  <2> SUFFICES ASSUME NEW n \in 0 .. top - 1, count[top - n] \in V
               PROVE  count[top - (n + 1)] \in V
    OBVIOUS
  <2>1. top - (n + 1) \in 0 .. max /\ (top - (n + 1)) + 1 = top - n
    OBVIOUS
  <2> QED
    BY <1>3, <1>11, <2>1
<1>14. 0 .. top \subseteq S
  <2> HIDE DEF S, top
  <2> QED
    BY <1>2, <1>12, <1>13, UptoInduction
<1>15. count[0] \in V
  <2>1. top \in 0 .. top /\ top - top = 0
    OBVIOUS
  <2> QED
    BY <1>14, <2>1
<1> QED
  BY <1>9, <1>15 DEF V

\* So qsStreamReady() finds no loop, whatever is connected.
LEMMA NoLoopFound ==
  ASSUME NEW c \in Seq(Connection), NEW S \in SUBSET Filters
  PROVE  ~LoopFound(c, S)
<1>1. Len(c) \in Nat
  BY LenProperties
<1>2. ASSUME NEW f \in S
      PROVE  ~(CountFilterPath(c, Len(c))[f] > Len(c) + 1)
  <2>1. CountFilterPath(c, Len(c))[f] \in 0 .. Len(c) + 1
    BY <1>1, PathCutOff
  <2> QED
    BY <1>1, <2>1
<1> QED
  BY <1>2 DEF LoopFound

-----------------------------------------------------------------------------
(***************************************************************************)
(* The numbering of the output ports.                                      *)
(***************************************************************************)
LEMMA ConnectionFields ==
  ASSUME NEW c \in Seq(Connection)
  PROVE  /\ Len(c) \in Nat /\ DOMAIN c = 1 .. Len(c)
         /\ \A i \in DOMAIN c :
              /\ c[i] \in Connection
              /\ c[i].from \in Filters /\ c[i].to \in Filters
              /\ c[i].fromPort \in FromPorts \cup Nat /\ c[i].toPort \in ToPorts
              /\ c[i].fromPort # NextPort => c[i].fromPort \in Nat
<1>1. Len(c) \in Nat /\ DOMAIN c = 1 .. Len(c) /\ \A i \in DOMAIN c : c[i] \in Connection
  BY ElementOfSeq, LenProperties
<1>2. \A i \in DOMAIN c : c[i].fromPort \in FromPorts \cup Nat
  BY <1>1 DEF Connection
<1> QED
  BY <1>1, <1>2, StreamAssumption DEF Connection

\* The count of a filter's outputs goes up with the connections.
LEMMA Counted ==
  ASSUME NEW c \in Seq(Connection), NEW f
  PROVE  /\ OutputsCounted(c, f) \in [0 .. Len(c) -> Nat]
         /\ \A i \in 1 .. Len(c) :
              OutputsCounted(c, f)[i] =
                IF \/ c[i].from # f
                   \/ c[i].fromPort # NextPort /\ c[i].fromPort < OutputsCounted(c, f)[i - 1]
                THEN OutputsCounted(c, f)[i - 1] ELSE OutputsCounted(c, f)[i - 1] + 1
         /\ OutputsCounted(c, f)[0] = 0
         /\ \A i, j \in 0 .. Len(c) :
              i <= j => OutputsCounted(c, f)[i] <= OutputsCounted(c, f)[j]
<1> DEFINE N == Len(c)
           Old(i, m) == \/ c[i].from # f
                        \/ c[i].fromPort # NextPort /\ c[i].fromPort < m
           step == [i \in 1 .. N |-> [m \in Nat |-> IF Old(i, m) THEN m ELSE m + 1]]
           Is(k) == k = [i \in 0 .. Len(c) |->
                           IF i = 0 THEN 0
                           ELSE IF \/ c[i].from # f
                                   \/ c[i].fromPort # NextPort /\ c[i].fromPort < k[i - 1]
                                THEN k[i - 1] ELSE k[i - 1] + 1]
           count == CHOOSE k : Is(k)
<1>1. N \in Nat
  BY LenProperties
<1>2. step \in [1 .. N -> [Nat -> Nat]]
  OBVIOUS
<1>3. PICK g : Stepwise(g, Nat, 0, N, step)
  <2> HIDE DEF N, step
  <2> QED
    BY <1>1, <1>2, StepwiseExists
<1>4. /\ g \in [0 .. N -> Nat] /\ g[0] = 0
      /\ \A i \in 1 .. N : g[i] = step[i][g[i - 1]]
  BY <1>3 DEF Stepwise
<1>5. \A i \in 1 .. N : i - 1 \in 0 .. N /\ i \in 0 .. N /\ i # 0
  BY <1>1
<1> HIDE DEF N
<1>6. \A i \in 1 .. N : g[i] = IF Old(i, g[i - 1]) THEN g[i - 1] ELSE g[i - 1] + 1
  <2> HIDE DEF Old
  <2> QED
    BY <1>4, <1>5
<1>7. \A i \in 0 .. N : i = 0 \/ i \in 1 .. N
  BY <1>1
<1>8. g = [i \in 0 .. N |-> IF i = 0 THEN 0
                           ELSE IF Old(i, g[i - 1]) THEN g[i - 1] ELSE g[i - 1] + 1]
  <2> HIDE DEF Old
  <2> QED
    BY <1>4, <1>6, <1>7
<1>9. Is(g)
  BY <1>8 DEF N
<1>10. OutputsCounted(c, f) = count
  BY DEF OutputsCounted
<1> HIDE DEF Is
<1>11. Is(count)
  BY <1>9
<1>12. count = [i \in 0 .. N |-> IF i = 0 THEN 0
                              ELSE IF Old(i, count[i - 1]) THEN count[i - 1] ELSE count[i - 1] + 1]
  <2> HIDE DEF count
  <2> QED
    BY <1>11 DEF Is, N
<1> HIDE DEF count
<1>13. /\ DOMAIN count = 0 .. N /\ count[0] = 0
       /\ \A i \in 1 .. N : count[i] = IF Old(i, count[i - 1]) THEN count[i - 1]
                                       ELSE count[i - 1] + 1
  <2> HIDE DEF Old
  <2>1. 0 \in 0 .. N
    BY <1>1
  <2>2. DOMAIN count = 0 .. N
    BY <1>12
  <2>3. \A i \in 0 .. N : count[i] = IF i = 0 THEN 0
                       ELSE IF Old(i, count[i - 1]) THEN count[i - 1] ELSE count[i - 1] + 1
    BY <1>12
  <2> QED
    BY <1>5, <2>1, <2>2, <2>3
<1> HIDE DEF Old
<1>14. count \in [0 .. N -> Nat]
  <2> DEFINE T == {i \in 0 .. N : count[i] \in Nat}
  <2>1. 0 \in T
    BY <1>1, <1>13
  <2>2. \A i \in 0 .. N - 1 : i \in T => i + 1 \in T
    <3> SUFFICES ASSUME NEW i \in 0 .. N - 1, count[i] \in Nat PROVE i + 1 \in T
      OBVIOUS
    <3>1. i + 1 \in 1 .. N /\ i + 1 \in 0 .. N /\ (i + 1) - 1 = i
      BY <1>1
    <3>2. count[i + 1] = IF Old(i + 1, count[i]) THEN count[i] ELSE count[i] + 1
      BY <1>13, <3>1
    <3> QED
      BY <3>1, <3>2
  <2> HIDE DEF T
  <2>3. 0 .. N \subseteq T
    BY <1>1, <2>1, <2>2, UptoInduction
  <2>4. \A i \in 0 .. N : count[i] \in Nat
    BY <2>3 DEF T
  <2>5. count = [i \in 0 .. N |-> count[i]]
    BY <1>12, <1>13
  <2> QED
    BY <2>4, <2>5
<1>15. ASSUME NEW i \in 0 .. N, NEW j \in 0 .. N, i <= j
       PROVE  count[i] <= count[j]
  <2> DEFINE T == {m \in 0 .. N : i <= m => count[i] <= count[m]}
  <2>1. 0 \in T
    <3>1. i <= 0 => i = 0
      BY <1>1
    <3>2. 0 \in 0 .. N /\ count[0] \in Nat
      BY <1>1, <1>14
    <3> QED
      BY <3>1, <3>2
  <2>2. \A m \in 0 .. N - 1 : m \in T => m + 1 \in T
    <3> SUFFICES ASSUME NEW m \in 0 .. N - 1, i <= m => count[i] <= count[m], i <= m + 1
                 PROVE  count[i] <= count[m + 1]
      <4>1. \A m \in 0 .. N - 1 : m + 1 \in 0 .. N
        BY <1>1
      <4> QED
        BY <4>1
    <3>1. m + 1 \in 1 .. N /\ m + 1 \in 0 .. N /\ m \in 0 .. N /\ (m + 1) - 1 = m
          /\ (i = m + 1 \/ i <= m)
      BY <1>1
    <3>2. count[m + 1] = IF Old(m + 1, count[m]) THEN count[m] ELSE count[m] + 1
      BY <1>13, <3>1
    <3>3. count[m] \in Nat /\ count[m + 1] \in Nat /\ count[i] \in Nat
      BY <1>14, <3>1
    <3> QED
      BY <3>1, <3>2, <3>3
  <2> HIDE DEF T
  <2>3. 0 .. N \subseteq T
    BY <1>1, <2>1, <2>2, UptoInduction
  <2> QED
    BY <1>15, <2>3 DEF T
<1> QED
  BY <1>10, <1>13, <1>14, <1>15 DEF N, Old

\* Numbering sets output ports only, and those it sets are ports of the filter.
LEMMA NumberedFacts ==
  ASSUME NEW c \in Seq(Connection), NEW R
  PROVE  /\ Numbered(c, R) \in Seq(Connection)
         /\ Len(Numbered(c, R)) = Len(c) /\ DOMAIN Numbered(c, R) = DOMAIN c
         /\ \A i \in DOMAIN c :
              /\ Numbered(c, R)[i].from = c[i].from
              /\ Numbered(c, R)[i].to = c[i].to
              /\ Numbered(c, R)[i].toPort = c[i].toPort
              /\ NumOutputs(c, c[i].from) \in Nat
              /\ c[i].from \in R =>
                   Numbered(c, R)[i].fromPort \in 0 .. NumOutputs(c, c[i].from) - 1
<1> DEFINE m == InSequence(c)
           r == NextPortsResolved(m)
           n == Numbered(c, R)
           K(f) == OutputsCounted(c, f)
<1>1. Len(c) \in Nat /\ DOMAIN c = 1 .. Len(c)
  BY ConnectionFields
<1>2. \A f : /\ \A i \in 0 .. Len(c) : K(f)[i] \in Nat
            /\ \A i, j \in 0 .. Len(c) : i <= j => K(f)[i] <= K(f)[j]
  BY Counted
<1>3. ASSUME NEW i \in DOMAIN c
      PROVE  /\ K(c[i].from)[i - 1] \in Nat /\ K(c[i].from)[i] \in Nat
             /\ K(c[i].from)[i] = IF /\ c[i].fromPort # NextPort
                                     /\ c[i].fromPort < K(c[i].from)[i - 1]
                                  THEN K(c[i].from)[i - 1] ELSE K(c[i].from)[i - 1] + 1
  <2>1. i \in 1 .. Len(c) /\ i - 1 \in 0 .. Len(c) /\ i \in 0 .. Len(c)
    BY <1>1
  <2> QED
    BY <2>1, Counted
<1>4. ASSUME NEW i \in DOMAIN c
      PROVE  /\ m[i] \in Connection
             /\ m[i].from = c[i].from /\ m[i].to = c[i].to /\ m[i].toPort = c[i].toPort
             /\ m[i].fromPort = NextPort <=> c[i].fromPort = NextPort
             /\ m[i].fromPort # NextPort =>
                  m[i].fromPort \in Nat /\ m[i].fromPort < K(c[i].from)[i]
  <2> DEFINE next == K(c[i].from)[i - 1]
             p    == c[i].fromPort
  <2>1. next \in Nat /\ NextPort \notin Nat
    BY <1>3, StreamAssumption
  <2>2. c[i] \in Connection /\ (p # NextPort => p \in Nat)
    BY ConnectionFields
  <2>3. m[i] = IF p # NextPort /\ p > next THEN [c[i] EXCEPT !.fromPort = next] ELSE c[i]
    BY DEF InSequence
  <2>4. K(c[i].from)[i] = IF p # NextPort /\ p < next THEN next ELSE next + 1
    BY <1>3
  <2> HIDE DEF next, m
  <2>5. CASE p # NextPort /\ p > next
    <3>1. m[i] = [c[i] EXCEPT !.fromPort = next]
      BY <2>3, <2>5
    <3>2. /\ m[i] \in Connection /\ m[i].fromPort = next
          /\ m[i].from = c[i].from /\ m[i].to = c[i].to /\ m[i].toPort = c[i].toPort
      BY <2>1, <2>2, <3>1 DEF Connection
    <3>3. K(c[i].from)[i] = next + 1
      BY <2>1, <2>2, <2>4, <2>5
    <3> QED
      BY <2>1, <2>5, <3>2, <3>3
  <2>6. CASE ~(p # NextPort /\ p > next)
    <3>1. m[i] = c[i]
      BY <2>3, <2>6
    <3>2. p # NextPort => p \in Nat /\ p < K(c[i].from)[i]
      BY <2>1, <2>2, <2>4, <2>6
    <3> QED
      BY <2>2, <3>1, <3>2
  <2> QED
    BY <2>5, <2>6
<1>5. DOMAIN m = DOMAIN c /\ DOMAIN r = DOMAIN c /\ DOMAIN n = DOMAIN c
  BY DEF InSequence, NextPortsResolved, Numbered
<1>6. ASSUME NEW i \in DOMAIN c
      PROVE  /\ r[i] \in Connection
             /\ r[i].from = c[i].from /\ r[i].to = c[i].to /\ r[i].toPort = c[i].toPort
             /\ r[i].fromPort \in Nat /\ r[i].fromPort < K(c[i].from)[i]
  <2> DEFINE Earlier == \E j \in 1 .. i - 1 : m[j].from = m[i].from /\ m[j].fromPort \in {0, NextPort}
  <2>1. r[i] = IF m[i].fromPort # NextPort THEN m[i]
               ELSE IF Earlier THEN [m[i] EXCEPT !.fromPort = 1]
               ELSE [m[i] EXCEPT !.fromPort = 0]
    BY <1>5 DEF NextPortsResolved
  <2> HIDE DEF m, r
  <2>2. CASE m[i].fromPort # NextPort
    BY <1>4, <2>1, <2>2
  <2>3. CASE m[i].fromPort = NextPort
    <3>1. K(c[i].from)[i - 1] \in Nat /\ K(c[i].from)[i] = K(c[i].from)[i - 1] + 1
      BY <1>3, <1>4, <2>3
    <3>2. CASE Earlier
      <4>1. PICK j \in 1 .. i - 1 : m[j].from = m[i].from /\ m[j].fromPort \in {0, NextPort}
        BY <3>2
      <4>2. j \in DOMAIN c /\ j \in 0 .. Len(c) /\ i - 1 \in 0 .. Len(c) /\ j <= i - 1
        BY <1>1
      <4>3. c[j].from = c[i].from /\ K(c[i].from)[j] \in Nat /\ K(c[i].from)[j] >= 1
        <5>1. c[j].from = c[i].from
          BY <1>4, <4>1, <4>2
        <5>2. K(c[j].from)[j] \in Nat /\ K(c[j].from)[j - 1] \in Nat
          BY <1>3, <4>2
        <5>3. CASE m[j].fromPort = NextPort
          <6>1. K(c[j].from)[j] = K(c[j].from)[j - 1] + 1
            BY <1>3, <1>4, <4>2, <5>3
          <6> QED
            BY <5>1, <5>2, <6>1
        <5>4. CASE m[j].fromPort # NextPort
          <6>1. 0 < K(c[j].from)[j]
            BY <1>4, <4>1, <4>2, <5>4
          <6> QED
            BY <5>1, <5>2, <6>1
        <5> QED
          BY <5>3, <5>4
      <4>4. K(c[i].from)[j] <= K(c[i].from)[i - 1]
        BY <1>2, <4>2
      <4>5. 1 < K(c[i].from)[i]
        BY <3>1, <4>3, <4>4
      <4>6. r[i] = [m[i] EXCEPT !.fromPort = 1]
        BY <2>1, <2>3, <3>2
      <4>7. /\ r[i] \in Connection /\ r[i].fromPort = 1
            /\ r[i].from = m[i].from /\ r[i].to = m[i].to /\ r[i].toPort = m[i].toPort
        BY <1>4, <4>6 DEF Connection
      <4> QED
        BY <1>4, <4>5, <4>7
    <3>3. CASE ~Earlier
      <4>1. r[i] = [m[i] EXCEPT !.fromPort = 0]
        BY <2>1, <2>3, <3>3
      <4>2. /\ r[i] \in Connection /\ r[i].fromPort = 0
            /\ r[i].from = m[i].from /\ r[i].to = m[i].to /\ r[i].toPort = m[i].toPort
        BY <1>4, <4>1 DEF Connection
      <4>3. 0 < K(c[i].from)[i]
        BY <3>1
      <4> QED
        BY <1>4, <4>2, <4>3
    <3> QED
      BY <3>2, <3>3
  <2> QED
    BY <2>2, <2>3
<1>7. ASSUME NEW i \in DOMAIN c
      PROVE  /\ n[i] \in Connection
             /\ n[i].from = c[i].from /\ n[i].to = c[i].to /\ n[i].toPort = c[i].toPort
             /\ c[i].from \in R => n[i].fromPort = r[i].fromPort
  <2>1. n[i] = IF c[i].from \in R THEN r[i] ELSE c[i]
    BY DEF Numbered
  <2>2. c[i] \in Connection
    BY ConnectionFields
  <2> HIDE DEF n, r
  <2> QED
    BY <1>6, <2>1, <2>2
<1>8. ASSUME NEW i \in DOMAIN c
      PROVE  /\ NumOutputs(c, c[i].from) \in Nat
             /\ K(c[i].from)[i] <= NumOutputs(c, c[i].from)
  <2>1. i \in 0 .. Len(c) /\ Len(c) \in 0 .. Len(c) /\ i <= Len(c)
    BY <1>1
  <2> QED
    BY <1>2, <2>1 DEF NumOutputs
<1>9. ASSUME NEW i \in DOMAIN c, c[i].from \in R
      PROVE  n[i].fromPort \in 0 .. NumOutputs(c, c[i].from) - 1
  <2>1. n[i].fromPort \in Nat /\ n[i].fromPort < K(c[i].from)[i] /\ K(c[i].from)[i] \in Nat
    BY <1>3, <1>6, <1>7, <1>9
  <2> QED
    BY <1>8, <2>1
<1>10. n \in Seq(Connection) /\ Len(n) = Len(c)
  <2>1. n \in [1 .. Len(c) -> Connection]
    <3>1. n = [i \in DOMAIN c |-> n[i]]
      BY DEF Numbered
    <3> HIDE DEF n
    <3> QED
      BY <1>1, <1>7, <3>1
  <2> HIDE DEF n
  <2>2. n \in Seq(Connection)
    <3> DEFINE k == Len(c)
    <3>1. k \in Nat /\ n \in [1 .. k -> Connection]
      BY <1>1, <2>1
    <3> HIDE DEF k
    <3> QED
      BY <3>1, SeqDef
  <2>3. DOMAIN n = 1 .. Len(n) /\ Len(n) \in Nat
    BY <2>2, LenProperties
  <2> QED
    BY <1>1, <1>5, <2>2, <2>3
<1> QED
  BY <1>5, <1>7, <1>8, <1>9, <1>10

-----------------------------------------------------------------------------
(***************************************************************************)
(* What flows, and its sources.                                            *)
(***************************************************************************)

\* What can be reached does not depend on the ports.
LEMMA SameGraph ==
  ASSUME NEW c, NEW n, DOMAIN n = DOMAIN c,
         \A i \in DOMAIN c : n[i].from = c[i].from /\ n[i].to = c[i].to
  PROVE  Roots(n) = Roots(c) /\ Flow(n) = Flow(c) /\ \A f : Between(n, f) = Between(c, f)
<1>1. Writers(n) = Writers(c) /\ Fed(n) = Fed(c)
  BY DEF Writers, Fed
<1>2. Roots(n) = Roots(c)
  BY <1>1 DEF Roots
<1>3. \A X : (\A i \in DOMAIN n : n[i].from \in X => n[i].to \in X)
            <=> (\A i \in DOMAIN c : c[i].from \in X => c[i].to \in X)
  OBVIOUS
<1>4. \A S : Reached(n, S) = Reached(c, S)
  BY <1>3 DEF Reached
<1>5. Flow(n) = Flow(c)
  BY <1>2, <1>4 DEF Flow
<1>6. \A f : Between(n, f) = Between(c, f)
  BY <1>5 DEF Between
<1> QED
  BY <1>2, <1>5, <1>6

LEMMA RootsFlow ==
  ASSUME NEW c \in Seq(Connection)
  PROVE  /\ Roots(c) \subseteq Writers(c) /\ Roots(c) \subseteq Flow(c)
         /\ Writers(c) \subseteq Filters /\ Flow(c) \subseteq Filters
<1>1. Roots(c) \subseteq Writers(c) /\ Writers(c) \subseteq Filters
  BY ConnectionFields DEF Roots, Writers
<1>2. Flow(c) \subseteq Filters /\ Roots(c) \subseteq Flow(c)
  BY <1>1 DEF Flow, Reached
<1> QED
  BY <1>1, <1>2

\* The list of sources has the writers that are flagged, once each.
LEMMA SourcesListed ==
  ASSUME NEW c \in Seq(Connection), NEW flagged \in SUBSET Writers(c)
  PROVE  /\ SourcesFound(c, flagged) \in Seq(Filters)
         /\ Range(SourcesFound(c, flagged)) = flagged
         /\ IsInjective(SourcesFound(c, flagged))
<1> DEFINE first == {i \in DOMAIN c : /\ c[i].from \in flagged
                                     /\ \A j \in 1 .. (i - 1) : c[j].from # c[i].from}
           v == [i \in DOMAIN c |-> c[i].from]
           order == InOrder(first)
           picked == Picked(v, first)
<1>1. /\ Len(c) \in Nat /\ DOMAIN c = 1 .. Len(c)
      /\ \A i \in DOMAIN c : c[i].from \in Filters
  BY ConnectionFields
<1>2. first \in SUBSET DOMAIN c /\ \A i \in first : v[i] \in Filters
  BY <1>1
<1>3. \A i, j \in first : v[i] = v[j] => i = j
  <2> SUFFICES ASSUME NEW i \in first, NEW j \in first, c[i].from = c[j].from PROVE i = j
    OBVIOUS
  <2>1. i \in 1 .. Len(c) /\ j \in 1 .. Len(c)
    BY <1>1
  <2>2. ~(i < j) /\ ~(j < i)
    <3>1. i < j => i \in 1 .. j - 1
      BY <1>1, <2>1
    <3>2. j < i => j \in 1 .. i - 1
      BY <1>1, <2>1
    <3> QED
      BY <3>1, <3>2
  <2> QED
    BY <1>1, <2>1, <2>2
<1>4. {v[i] : i \in first} = flagged
  <2>1. {v[i] : i \in first} \subseteq flagged
    OBVIOUS
  <2>2. ASSUME NEW f \in flagged PROVE f \in {v[i] : i \in first}
    <3> DEFINE T == {i \in DOMAIN c : c[i].from = f}
    <3>1. T # {}
      BY DEF Writers
    <3>2. T \in SUBSET Nat
      BY <1>1
    <3> HIDE DEF T
    <3>3. PICK i \in T : \A j \in T : i <= j
      BY <3>1, <3>2, LeastNatural
    <3>4. i \in 1 .. Len(c) /\ c[i].from = f
      BY <1>1 DEF T
    <3>5. ASSUME NEW j \in 1 .. i - 1 PROVE c[j].from # f
      <4>1. j \in DOMAIN c /\ ~(i <= j)
        BY <1>1, <3>4
      <4> QED
        BY <3>3, <4>1 DEF T
    <3>6. i \in first /\ v[i] = f
      BY <1>1, <3>4, <3>5
    <3> HIDE DEF first, v
    <3> QED
      BY <3>6
  <2> QED
    BY <2>1, <2>2
<1>5. SourcesFound(c, flagged) = picked
  <2>1. \A k \in DOMAIN order : order[k] \in DOMAIN c
    <3>1. first \in SUBSET Nat /\ IsFiniteSet(first)
      <4> DEFINE N == Len(c)
      <4>1. N \in Nat /\ first \in SUBSET (1 .. N)
        BY <1>1, <1>2
      <4> HIDE DEF N, first
      <4>2. IsFiniteSet(1 .. N)
        BY <4>1, FS_Interval
      <4>3. IsFiniteSet(first)
        BY <4>1, <4>2, FS_Subset
      <4> QED
        BY <4>1, <4>3
    <3> HIDE DEF first
    <3>2. order \in [1 .. Cardinality(first) -> first]
      BY <3>1, InOrderFacts
    <3> QED
      BY <1>2, <3>2
  <2> HIDE DEF order
  <2>2. picked = [k \in DOMAIN order |-> c[order[k]].from]
    BY <2>1 DEF Picked, order
  <2> QED
    BY <2>2 DEF SourcesFound, order, Picked
<1> HIDE DEF first, v
<1>6. picked \in Seq(Filters) /\ Range(picked) = flagged /\ IsInjective(picked)
  <2> DEFINE N == Len(c)
  <2>1. first \in SUBSET (1 .. N) /\ N \in Nat
    BY <1>1, <1>2
  <2>2. \A i \in first : v[i] \in Filters
    BY <1>2
  <2> HIDE DEF N
  <2>3. picked \in Seq(Filters)
    BY <2>1, <2>2, PickedList
  <2>4. Range(picked) = {v[i] : i \in first}
    BY <2>1, <2>2, PickedList
  <2>5. IsInjective(picked)
    BY <1>3, <2>1, <2>2, PickedList
  <2> QED
    BY <1>4, <2>3, <2>4, <2>5
<1> QED
  BY <1>5, <1>6

-----------------------------------------------------------------------------
(***************************************************************************)
(* What qsStreamReady() builds from the numbered connections n.            *)
(***************************************************************************)
LEMMA OutputsFit ==
  ASSUME NEW c \in Seq(Connection)
  PROVE  LET n   == Numbered(c, Flow(c))
             out == OutputsBuilt(c, n, Flow(c))
         IN  /\ DOMAIN out = Filters
             /\ \A f \in Filters : \A p \in DOMAIN out[f] :
                  /\ f \in Flow(c)
                  /\ Range(out[f][p]) = {i \in DOMAIN n : n[i].from = f /\ n[i].fromPort = p}
             /\ \A i \in DOMAIN n : n[i].fromPort \in DOMAIN out[n[i].from] <=> n[i].from \in Flow(c)
<1> DEFINE R   == Flow(c)
           n   == Numbered(c, R)
           out == OutputsBuilt(c, n, R)
<1>1. /\ n \in Seq(Connection) /\ DOMAIN n = DOMAIN c
      /\ \A i \in DOMAIN c :
           /\ n[i].from = c[i].from
           /\ c[i].from \in R => n[i].fromPort \in 0 .. NumOutputs(c, c[i].from) - 1
  BY NumberedFacts
<1>2. \A f \in Filters :
        /\ f \in R => /\ DOMAIN out[f] = 0 .. (NumOutputs(c, f) - 1)
                     /\ \A p \in DOMAIN out[f] : out[f][p] = ReadersOf(n, f, p)
        /\ f \notin R => DOMAIN out[f] = {}
  <2> SUFFICES ASSUME NEW f \in Filters
               PROVE  /\ f \in R => /\ DOMAIN out[f] = 0 .. (NumOutputs(c, f) - 1)
                                   /\ \A p \in DOMAIN out[f] : out[f][p] = ReadersOf(n, f, p)
                      /\ f \notin R => DOMAIN out[f] = {}
    OBVIOUS
  <2>1. out[f] = IF f \in R THEN [p \in 0 .. (NumOutputs(c, f) - 1) |-> ReadersOf(n, f, p)]
                 ELSE <<>>
    BY DEF OutputsBuilt
  <2>2. DOMAIN << >> = {}
    OBVIOUS
  <2> HIDE DEF out, n, R
  <2> QED
    BY <2>1, <2>2
<1>3. DOMAIN out = Filters
  BY DEF OutputsBuilt
<1> HIDE DEF n, out, R
<1>4. ASSUME NEW f, NEW p
      PROVE  Range(ReadersOf(n, f, p)) = {i \in DOMAIN n : n[i].from = f /\ n[i].fromPort = p}
  <2> DEFINE S == {i \in DOMAIN n : n[i].from = f /\ n[i].fromPort = p}
             N == Len(n)
  <2>1. N \in Nat /\ S \in SUBSET (1 .. N)
    BY <1>1, LenProperties
  <2>2. ReadersOf(n, f, p) = InOrder(S)
    BY DEF ReadersOf
  <2> HIDE DEF S, N
  <2>3. IsFiniteSet(1 .. N)
    BY <2>1, FS_Interval
  <2>4. IsFiniteSet(S)
    BY <2>1, <2>3, FS_Subset
  <2>5. Range(InOrder(S)) = S
    BY <2>1, <2>4, InOrderFacts
  <2> QED
    BY <2>2, <2>5 DEF S
<1>5. \A f \in Filters : \A p \in DOMAIN out[f] :
        f \in R /\ Range(out[f][p]) = {i \in DOMAIN n : n[i].from = f /\ n[i].fromPort = p}
  <2> SUFFICES ASSUME NEW f \in Filters, NEW p \in DOMAIN out[f]
               PROVE  f \in R /\ out[f][p] = ReadersOf(n, f, p)
    BY <1>4
  <2> QED
    BY <1>2
<1>6. \A i \in DOMAIN n : n[i].fromPort \in DOMAIN out[n[i].from] <=> n[i].from \in R
  <2> SUFFICES ASSUME NEW i \in DOMAIN n
               PROVE  n[i].fromPort \in DOMAIN out[n[i].from] <=> n[i].from \in R
    OBVIOUS
  <2>1. n[i].from \in Filters /\ i \in DOMAIN c
    BY <1>1, ConnectionFields
  <2>2. CASE n[i].from \in R
    <3>1. n[i].fromPort \in 0 .. NumOutputs(c, n[i].from) - 1
      BY <1>1, <2>1, <2>2
    <3>2. DOMAIN out[n[i].from] = 0 .. (NumOutputs(c, n[i].from) - 1)
      BY <1>2, <2>1, <2>2
    <3> QED
      BY <2>2, <3>1, <3>2
  <2>3. CASE n[i].from \notin R
    BY <1>2, <2>1, <2>3
  <2> QED
    BY <2>2, <2>3
<1> QED
  BY <1>3, <1>5, <1>6 DEF out, n, R

\* If every number below the number of inputs is among the ports gotten, then
\* they are the ports gotten, and each belongs to one connection.
LEMMA InputsFit ==
  ASSUME NEW n \in Seq(Connection), NEW out, NEW R, NEW f \in Filters, f \in R,
         ~InputsBad(n, out, f)
  PROVE  /\ DOMAIN InputsBuilt(n, out, R)[f] = 0 .. (Cardinality(Feeding(n, out, f)) - 1)
         /\ {InputsBuilt(n, out, R)[f][p] : p \in DOMAIN InputsBuilt(n, out, R)[f]}
              = Feeding(n, out, f)
         /\ \A p \in DOMAIN InputsBuilt(n, out, R)[f] :
              n[InputsBuilt(n, out, R)[f][p]].toPort \in {p, NextPort}
<1> DEFINE F == Feeding(n, out, f)
           C == Cardinality(F)
           port == [i \in F |-> InputPort(n, out, i)]
           gotten == PortsGotten(n, out, f)
           in == InputsBuilt(n, out, R)[f]
<1>1. gotten = Range(port) /\ gotten = {port[i] : i \in F} /\ DOMAIN port = F
  BY DEF PortsGotten, Range
<1>2. IsFiniteSet(F) /\ C \in Nat
  <2> DEFINE N == Len(n)
  <2>1. N \in Nat /\ F \in SUBSET (1 .. N)
    BY LenProperties DEF Feeding
  <2> HIDE DEF N, F
  <2>2. IsFiniteSet(1 .. N)
    BY <2>1, FS_Interval
  <2> QED
    BY <2>1, <2>2, FS_Subset, FS_CardinalityType
<1>3. 0 .. (C - 1) \subseteq gotten
  BY DEF InputsBad
<1>4. in = [p \in gotten |->
              CHOOSE i \in F :
                /\ InputPort(n, out, i) = p
                /\ \A j \in F : InputPort(n, out, j) = p /\ j # i => MetBefore(n, i, j)]
  BY DEF InputsBuilt
<1>5. \A i \in F : port[i] = InputPort(n, out, i)
  OBVIOUS
<1>6. \A i \in F : n[i].toPort # NextPort => port[i] = n[i].toPort
  BY DEF InputPort
<1> HIDE DEF F, port, gotten, in
<1>7. gotten = 0 .. (C - 1) /\ IsInjective(port)
  <2> HIDE DEF C
  <2>1. IsFiniteSet(0 .. (C - 1)) /\ Cardinality(0 .. (C - 1)) = C
    <3>1. 0 \in Int /\ C - 1 \in Int
      BY <1>2
    <3>2. /\ IsFiniteSet(0 .. (C - 1))
          /\ Cardinality(0 .. (C - 1)) = IF 0 > C - 1 THEN 0 ELSE (C - 1) - 0 + 1
      BY <3>1, FS_Interval
    <3> QED
      BY <1>2, <3>2
  <2>2. port \in [F -> gotten]
    BY <1>1 DEF port
  <2>3. /\ IsFiniteSet(gotten) /\ Cardinality(gotten) <= C
        /\ Cardinality(gotten) = C <=> IsInjective(port)
    <3>1. IsFiniteSet(F)
      BY <1>2
    <3>2. /\ IsFiniteSet(Range(port)) /\ Cardinality(Range(port)) <= Cardinality(F)
          /\ Cardinality(Range(port)) = Cardinality(F) <=> IsInjective(port)
      BY <2>2, <3>1, ImageSize
    <3> QED
      BY <1>1, <3>2 DEF C
  <2>4. /\ C <= Cardinality(gotten)
        /\ C = Cardinality(gotten) => gotten = 0 .. (C - 1)
    <3> DEFINE U == 0 .. (C - 1)
    <3>1. U \in SUBSET gotten /\ Cardinality(U) = C
      BY <1>3, <2>1
    <3> HIDE DEF U
    <3>2. Cardinality(U) <= Cardinality(gotten)
      BY <2>3, <3>1, FS_Subset
    <3>3. Cardinality(U) = Cardinality(gotten) => U = gotten
      BY <2>3, <3>1, FS_Subset
    <3> QED
      BY <3>1, <3>2, <3>3 DEF U
  <2>5. Cardinality(gotten) \in Nat
    BY <2>3, FS_CardinalityType
  <2>6. Cardinality(gotten) = C
    BY <1>2, <2>3, <2>4, <2>5
  <2> QED
    BY <2>3, <2>4, <2>6
<1>8. \A i, j \in F : port[i] = port[j] => i = j
  BY <1>1, <1>7 DEF IsInjective
<1>9. ASSUME NEW i \in F PROVE port[i] \in gotten /\ in[port[i]] = i
  <2> DEFINE P(k) == /\ k \in F
                     /\ InputPort(n, out, k) = port[i]
                     /\ \A j \in F : InputPort(n, out, j) = port[i] /\ j # k => MetBefore(n, k, j)
  <2>1. port[i] \in gotten
    BY <1>1
  <2>2. in[port[i]] = CHOOSE k : P(k)
    BY <1>4, <2>1
  <2>3. P(i)
    BY <1>5, <1>8
  <2>4. \A k : P(k) => k = i
    BY <1>5, <1>8
  <2>5. P(CHOOSE k : P(k))
    <3> HIDE DEF P
    <3> QED
      BY <2>3
  <2> QED
    BY <2>1, <2>2, <2>4, <2>5
<1>10. DOMAIN in = gotten
  BY <1>4
<1>11. \A p \in gotten : \E i \in F : p = port[i]
  BY <1>1
<1>12. {in[p] : p \in DOMAIN in} = F
  BY <1>9, <1>10, <1>11
<1>13. \A p \in DOMAIN in : n[in[p]].toPort \in {p, NextPort}
  BY <1>6, <1>9, <1>10, <1>11
<1> QED
  BY <1>7, <1>10, <1>12, <1>13 DEF in, F, C

-----------------------------------------------------------------------------
(***************************************************************************)
(* The invariant: one lemma for each operation.                            *)
(***************************************************************************)
LEMMA InvInit == Init => Inv
<1> SUFFICES ASSUME Init PROVE Inv
  OBVIOUS
<1>1. << >> \in Seq(Connection) /\ Len(<< >>) = 0
  BY EmptySeq
<1>2. 0 <= MaxConnections
  BY StreamAssumption
<1> QED
  BY <1>1, <1>2 DEF Init, Inv, Connected, Down, Inactive

LEMMA InvConnect == Inv /\ Connect => Inv'
<1> SUFFICES ASSUME Inv, Connect PROVE Inv'
  OBVIOUS
<1>1. /\ Inactive /\ sources' = sources /\ isSource' = isSource
      /\ outputs' = outputs /\ inputs' = inputs
      /\ UNCHANGED <<allowLoops, launched, ret>>
  BY DEF Connect, runVars
<1>2. PICK f, g \in Filters, fp \in FromPorts, tp \in ToPorts :
        connections' = Append(connections, [from |-> f, to |-> g, fromPort |-> fp, toPort |-> tp])
  BY DEF Connect
<1>3. connections \in Seq(Connection) /\ Len(connections) < MaxConnections
  BY DEF Inv, Connected, Connect
<1>4. [from |-> f, to |-> g, fromPort |-> fp, toPort |-> tp] \in Connection
  BY DEF Connection
<1>5. connections' \in Seq(Connection) /\ Len(connections') = Len(connections) + 1
  BY <1>2, <1>3, <1>4, AppendProperties
<1>6. Len(connections') <= MaxConnections
  BY <1>3, <1>5, LenProperties, StreamAssumption
<1> QED
  BY <1>1, <1>5, <1>6 DEF Inv, Connected, Down, Inactive, Free

LEMMA InvRemoveFilter ==
  ASSUME Inv, NEW f \in Filters, RemoveFilter(f)
  PROVE  Inv'
<1> DEFINE N == Len(connections)
           kept == {i \in DOMAIN connections :
                      connections[i].from # f /\ connections[i].to # f}
<1>1. /\ Inactive /\ sources' = sources /\ isSource' = isSource \ {f}
      /\ outputs' = outputs /\ inputs' = inputs
      /\ UNCHANGED <<allowLoops, launched, ret>>
  BY DEF RemoveFilter, runVars
<1>2. connections \in Seq(Connection) /\ N <= MaxConnections
  BY DEF Inv, Connected
<1>3. /\ N \in Nat /\ kept \in SUBSET (1 .. N)
      /\ \A i \in kept : connections[i] \in Connection
  BY <1>2, ConnectionFields
<1>4. connections' = Picked(connections, kept)
  BY DEF RemoveFilter, Picked
<1> HIDE DEF N, kept
<1>5. connections' \in Seq(Connection) /\ Len(connections') <= N
  BY <1>3, <1>4, PickedList
<1>6. Len(connections') <= MaxConnections
  <2>1. Len(connections') \in Nat
    BY <1>5, LenProperties
  <2> QED
    BY <1>2, <1>3, <1>5, <2>1, StreamAssumption
<1> QED
  BY <1>1, <1>5, <1>6 DEF Inv, Connected, Down, Inactive, Free

LEMMA InvAllowLoops == Inv /\ AllowLoops => Inv'
<1> SUFFICES ASSUME Inv, AllowLoops PROVE Inv'
  OBVIOUS
<1> QED
  BY DEF AllowLoops, runVars, Inv, Connected, Down, Inactive, Free

LEMMA InvLaunch == Inv /\ Launch => Inv'
<1> SUFFICES ASSUME Inv, Launch PROVE Inv'
  OBVIOUS
<1>1. /\ ~Inactive /\ ~Inactive' /\ launched' = TRUE
      /\ UNCHANGED <<connections, allowLoops, isSource, sources, outputs, inputs, ret>>
  BY DEF Launch, runVars, Inactive
<1>2. Connected'
  BY <1>1 DEF Inv, Connected
<1>3. SourcesUp' /\ OutputsUp' /\ InputsUp'
  BY <1>1 DEF Inv, SourcesUp, OutputsUp, InputsUp
<1> QED
  BY <1>1, <1>2, <1>3 DEF Inv, Down

\* All sources have an output, so the stop clears all the flags.
LEMMA InvStop == Inv /\ Stop => Inv'
<1> SUFFICES ASSUME Inv, Stop PROVE Inv'
  OBVIOUS
<1>1. /\ ~Inactive /\ sources' = << >> /\ outputs' = Free /\ inputs' = Free
      /\ launched' = FALSE /\ isSource' = {f \in isSource : outputs[f] = << >>}
      /\ UNCHANGED <<connections, allowLoops, ret>>
  BY DEF Stop, FlagsAfterFree
<1>2. connections \in Seq(Connection) /\ isSource = Roots(connections) /\ OutputsUp
  BY <1>1 DEF Inv, Connected, SourcesUp
<1>3. ASSUME NEW f \in isSource PROVE outputs[f] # << >>
  <2>1. f \in Writers(connections) /\ f \in Flow(connections)
    BY <1>2, RootsFlow
  <2>2. PICK i \in DOMAIN connections : connections[i].from = f
    BY <2>1 DEF Writers
  <2>3. connections[i].fromPort \in DOMAIN outputs[f]
    BY <1>2, <2>1, <2>2 DEF OutputsUp
  <2>4. DOMAIN << >> = {}
    OBVIOUS
  <2> QED
    BY <2>3, <2>4
<1>4. isSource' = {}
  BY <1>1, <1>3
<1>5. Connected'
  BY <1>1 DEF Inv, Connected
<1> QED
  BY <1>1, <1>4, <1>5 DEF Inv, Down, Inactive, Free

\* qsStreamReady() finds no sources, or input ports nobody writes to, or it
\* builds what it can.
LEMMA ReadyCases ==
  ASSUME Inv, Ready
  PROVE  LET c   == connections
             R   == Flow(c)
             n   == Numbered(c, R)
             out == OutputsBuilt(c, n, R)
             in  == InputsBuilt(n, out, R)
         IN  \/ /\ Roots(c) = {} /\ c' = c
                /\ GiveUp(-1, Roots(c), Free)
             \/ /\ Roots(c) # {} /\ c' = n /\ \E f \in R : InputsBad(n, out, f)
                /\ GiveUp(-4, Roots(c), out)
             \/ /\ Roots(c) # {} /\ c' = n /\ \A f \in R : ~InputsBad(n, out, f)
                /\ \E code \in {0, -3} : Build(code, Roots(c), out, in)
<1> DEFINE c   == connections
           S   == Range(SourcesFound(c, Roots(c)))
           R   == Flow(c)
           n   == Numbered(c, R)
           out == OutputsBuilt(c, n, R)
           in  == InputsBuilt(n, out, R)
<1>1. /\ Inactive /\ c \in Seq(Connection) /\ Len(c) <= MaxConnections
      /\ isSource = {} /\ outputs = Free /\ inputs = Free
      /\ allowLoops' = allowLoops /\ launched' = launched
  BY DEF Ready, Inv, Connected, Down
<1>2. Roots(c) \ isSource = Roots(c) /\ isSource \cup Roots(c) = Roots(c)
  BY <1>1
<1>3. /\ Roots(c) \subseteq Writers(c) /\ Roots(c) \subseteq R
      /\ Writers(c) \subseteq Filters /\ R \subseteq Filters
  BY <1>1, RootsFlow
<1>4. /\ SourcesFound(c, Roots(c)) \in Seq(Filters) /\ S = Roots(c)
      /\ IsInjective(SourcesFound(c, Roots(c)))
  BY <1>1, <1>3, SourcesListed
<1>5. Reached(c, S) = R
  BY <1>4 DEF Flow
<1>6. ~LoopFound(c, S)
  <2>1. S \in SUBSET Filters
    BY <1>3, <1>4
  <2> QED
    BY <1>1, <2>1, NoLoopFound
<1>7. \/ /\ Roots(c) = {} /\ c' = c
         /\ GiveUp(-1, Roots(c), Free)
      \/ /\ Roots(c) # {} /\ c' = n /\ \E f \in R : InputsBad(n, out, f)
         /\ GiveUp(-4, Roots(c), out)
      \/ /\ Roots(c) # {} /\ c' = n /\ \A f \in R : ~InputsBad(n, out, f)
         /\ \E code \in {0, -3} : Build(code, Roots(c), out, in)
  <2> DEFINE bad   == \E f \in R : InputsBad(n, out, f)
             error == IF Roots(c) = {} THEN -1 ELSE IF LoopFound(c, S) THEN -2
                      ELSE IF bad THEN -4 ELSE 0
             ports == error \notin {-1, -2}
  <2>1. /\ c' = IF ports THEN n ELSE c
        /\ \/ error # 0 /\ GiveUp(error, Roots(c), IF ports THEN out ELSE Free)
           \/ error = 0 /\ \E code \in {0, -3} : Build(code, Roots(c), out, in)
    BY <1>2, <1>5 DEF Ready
  <2> HIDE DEF n, out, in, S, R
  <2>2. CASE Roots(c) = {}
    <3>1. error = -1 /\ ~ports /\ error # 0
      BY <2>2
    <3> HIDE DEF error, ports
    <3> QED
      BY <2>1, <2>2, <3>1
  <2>3. CASE Roots(c) # {} /\ bad
    <3>1. error = -4 /\ ports /\ error # 0
      BY <1>6, <2>3
    <3> HIDE DEF error, ports
    <3> QED
      BY <2>1, <2>3, <3>1
  <2>4. CASE Roots(c) # {} /\ ~bad
    <3>1. error = 0 /\ ports
      BY <1>6, <2>4
    <3>2. \A f \in R : ~InputsBad(n, out, f)
      BY <2>4
    <3> HIDE DEF error, ports
    <3> QED
      BY <2>1, <2>4, <3>1, <3>2
  <2> QED
    BY <2>2, <2>3, <2>4
<1> QED
  BY <1>7

LEMMA InvReady == Inv /\ Ready => Inv'
<1> SUFFICES ASSUME Inv, Ready PROVE Inv'
  OBVIOUS
<1> DEFINE c   == connections
           S   == Range(SourcesFound(c, Roots(c)))
           R   == Flow(c)
           n   == Numbered(c, R)
           out == OutputsBuilt(c, n, R)
           in  == InputsBuilt(n, out, R)
<1>1. /\ Inactive /\ c \in Seq(Connection) /\ Len(c) <= MaxConnections
      /\ isSource = {} /\ outputs = Free /\ inputs = Free
      /\ allowLoops' = allowLoops /\ launched' = launched
  BY DEF Ready, Inv, Connected, Down
<1>2. /\ Roots(c) \subseteq Writers(c) /\ Roots(c) \subseteq R
      /\ Writers(c) \subseteq Filters /\ R \subseteq Filters
  BY <1>1, RootsFlow
<1>3. /\ SourcesFound(c, Roots(c)) \in Seq(Filters) /\ S = Roots(c)
      /\ IsInjective(SourcesFound(c, Roots(c)))
  BY <1>1, <1>2, SourcesListed
<1>4. \/ /\ Roots(c) = {} /\ c' = c
         /\ GiveUp(-1, Roots(c), Free)
      \/ /\ Roots(c) # {} /\ c' = n
         /\ GiveUp(-4, Roots(c), out)
      \/ /\ Roots(c) # {} /\ c' = n /\ \A f \in R : ~InputsBad(n, out, f)
         /\ \E code \in {0, -3} : Build(code, Roots(c), out, in)
  BY ReadyCases
<1>5. /\ n \in Seq(Connection) /\ Len(n) = Len(c) /\ DOMAIN n = DOMAIN c
      /\ \A i \in DOMAIN c : n[i].from = c[i].from /\ n[i].to = c[i].to
  BY <1>1, NumberedFacts
<1>6. Roots(n) = Roots(c) /\ Flow(n) = R
  <2> HIDE DEF n
  <2> QED
    BY <1>5, SameGraph
<1>7. /\ DOMAIN out = Filters
      /\ \A f \in Filters : \A p \in DOMAIN out[f] :
           /\ f \in R
           /\ Range(out[f][p]) = {i \in DOMAIN n : n[i].from = f /\ n[i].fromPort = p}
      /\ \A i \in DOMAIN n : n[i].fromPort \in DOMAIN out[n[i].from] <=> n[i].from \in R
  BY <1>1, OutputsFit
<1> HIDE DEF S, R, n, out
<1>8. CASE Roots(c) = {} /\ c' = c /\ GiveUp(-1, Roots(c), Free)
  <2>1. ret' = -1 /\ isSource' = {} /\ UNCHANGED <<sources, outputs, inputs>>
    BY <1>8 DEF GiveUp, FlagsAfterFree, runVars
  <2> QED
    BY <1>1, <1>8, <2>1 DEF Inv, Connected, Down, Inactive, Free
<1>9. CASE Roots(c) # {} /\ c' = n /\ GiveUp(-4, Roots(c), out)
  <2>1. /\ ret' = -4 /\ isSource' = {f \in Roots(c) : out[f] = << >>}
        /\ UNCHANGED <<sources, outputs, inputs>>
    BY <1>9 DEF GiveUp, FlagsAfterFree, runVars
  <2>2. ASSUME NEW f \in Roots(c) PROVE out[f] # << >>
    <3>1. PICK i \in DOMAIN c : c[i].from = f
      BY <1>2 DEF Writers
    <3>2. n[i].fromPort \in DOMAIN out[f]
      BY <1>2, <1>5, <1>7, <3>1
    <3>3. DOMAIN << >> = {}
      OBVIOUS
    <3> QED
      BY <3>2, <3>3
  <2>3. isSource' = {}
    BY <2>1, <2>2
  <2>4. Connected'
    BY <1>1, <1>5, <1>9, <2>1 DEF Inv, Connected
  <2> QED
    BY <1>1, <2>1, <2>3, <2>4 DEF Inv, Down, Inactive, Free
<1>10. CASE /\ Roots(c) # {} /\ c' = n /\ \A f \in R : ~InputsBad(n, out, f)
            /\ \E code \in {0, -3} : Build(code, Roots(c), out, in)
  <2>1. /\ ret' \in {0, -3} /\ isSource' = Roots(c)
        /\ sources' = SourcesFound(c, Roots(c)) /\ outputs' = out /\ inputs' = in
    BY <1>10 DEF Build
  <2>2. Connected'
    BY <1>1, <1>5, <1>10, <2>1 DEF Inv, Connected
  <2>3. ~Inactive'
    <3>1. Range(sources') # {}
      BY <1>3, <1>10, <2>1 DEF S
    <3>2. Range(<< >>) = {}
      BY DEF Range
    <3> QED
      BY <3>1, <3>2 DEF Inactive
  <2>4. SourcesUp'
    BY <1>3, <1>6, <1>10, <2>1 DEF SourcesUp, S
  <2>5. OutputsUp'
    BY <1>6, <1>7, <1>10, <2>1 DEF OutputsUp
  <2>6. InputsUp'
    <3>1. DOMAIN in = Filters /\ \A f \in Filters \ R : DOMAIN in[f] = {}
      <4>1. DOMAIN in = Filters
        BY DEF InputsBuilt
      <4>2. \A f \in Filters \ R : in[f] = << >>
        BY DEF InputsBuilt
      <4>3. DOMAIN << >> = {}
        OBVIOUS
      <4> HIDE DEF in
      <4> QED
        BY <4>1, <4>2, <4>3
    <3>2. ASSUME NEW f \in R
          PROVE  /\ DOMAIN in[f] = 0 .. (Cardinality(Between(n, f)) - 1)
                 /\ {in[f][p] : p \in DOMAIN in[f]} = Between(n, f)
                 /\ \A p \in DOMAIN in[f] : n[in[f][p]].toPort \in {p, NextPort}
      <4>1. Feeding(n, out, f) = Between(n, f)
        BY <1>6, <1>7 DEF Feeding, Between
      <4>2. f \in Filters /\ ~InputsBad(n, out, f)
        BY <1>2, <1>10
      <4>3. /\ DOMAIN in[f] = 0 .. (Cardinality(Feeding(n, out, f)) - 1)
            /\ {in[f][p] : p \in DOMAIN in[f]} = Feeding(n, out, f)
            /\ \A p \in DOMAIN in[f] : n[in[f][p]].toPort \in {p, NextPort}
        BY <1>5, <4>2, InputsFit
      <4> HIDE DEF in
      <4> QED
        BY <4>1, <4>3
    <3> HIDE DEF in
    <3> QED
      BY <1>6, <1>10, <2>1, <3>1, <3>2 DEF InputsUp
  <2> QED
    BY <2>2, <2>3, <2>4, <2>5, <2>6 DEF Inv, Down
<1> QED
  BY <1>4, <1>8, <1>9, <1>10

LEMMA InvNext == Inv /\ [Next]_vars => Inv'
<1> SUFFICES ASSUME Inv, [Next]_vars PROVE Inv'
  OBVIOUS
<1>1. CASE Connect
  BY <1>1, InvConnect
<1>2. CASE AllowLoops
  BY <1>2, InvAllowLoops
<1>3. CASE Ready
  BY <1>3, InvReady
<1>4. CASE Launch
  BY <1>4, InvLaunch
<1>5. CASE Stop
  BY <1>5, InvStop
<1>6. CASE \E f \in Filters : RemoveFilter(f)
  BY <1>6, InvRemoveFilter
<1>7. CASE UNCHANGED vars
  BY <1>7 DEF vars, runVars, Inv, Connected, Down, Inactive, SourcesUp, OutputsUp, InputsUp
<1> QED
  BY <1>1, <1>2, <1>3, <1>4, <1>5, <1>6, <1>7 DEF Next

-----------------------------------------------------------------------------
(***************************************************************************)
(* The theorems.                                                           *)
(***************************************************************************)

\* While a stream is down nothing is left of the last run, and while it is up
\* what qsStreamReady() built fits the connections (streamReady.c:603-760).
THEOREM StreamGraphInv == Spec => []Inv
<1> QED
  BY InvInit, InvNext, PTL DEF Spec

\* A stream with its buffers goes through the same connections, sources and
\* ports as the stream without them (buffer.c, filterAPI.c).
THEOREM BuffersImplement == BuffersSpec => Spec
<1>1. BuffersInit => Init
  BY DEF BuffersInit
<1>2. [BuffersNext]_<<vars, bufVars>> => [Next]_vars
  BY DEF BuffersNext, BuffersReady, BuffersStop, Others, Hangs, Next
<1> QED
  BY <1>1, <1>2, PTL DEF BuffersSpec, Spec

LEMMA InvTypeOK == Inv => TypeOK
<1> SUFFICES ASSUME Inv PROVE TypeOK
  OBVIOUS
<1>1. /\ connections \in Seq(Connection) /\ Len(connections) <= MaxConnections
      /\ allowLoops \in BOOLEAN /\ launched \in BOOLEAN /\ ret \in {0, -1, -2, -3, -4}
  BY DEF Inv, Connected
<1>2. isSource \subseteq Filters /\ sources \in Seq(Filters)
  <2>1. CASE Inactive
    <3>1. << >> \in Seq(Filters)
      BY EmptySeq
    <3> QED
      BY <2>1, <3>1 DEF Inv, Down, Inactive
  <2>2. CASE ~Inactive
    BY <1>1, <2>2, RootsFlow DEF Inv, SourcesUp
  <2> QED
    BY <2>1, <2>2
<1>3. /\ DOMAIN outputs = Filters
      /\ \A f \in Filters : \A p \in DOMAIN outputs[f] :
           Range(outputs[f][p]) \subseteq DOMAIN connections
  <2>1. CASE Inactive
    <3>1. outputs = Free
      BY <2>1 DEF Inv, Down
    <3>2. DOMAIN << >> = {}
      OBVIOUS
    <3> QED
      BY <3>1, <3>2 DEF Free
  <2>2. CASE ~Inactive
    BY <2>2 DEF Inv, OutputsUp
  <2> QED
    BY <2>1, <2>2
<1>4. /\ DOMAIN inputs = Filters
      /\ \A f \in Filters : \A p \in DOMAIN inputs[f] : inputs[f][p] \in DOMAIN connections
  <2>1. CASE Inactive
    <3>1. inputs = Free
      BY <2>1 DEF Inv, Down
    <3>2. DOMAIN << >> = {}
      OBVIOUS
    <3> QED
      BY <3>1, <3>2 DEF Free
  <2>2. CASE ~Inactive
    <3>1. InputsUp
      BY <2>2 DEF Inv
    <3>2. ASSUME NEW f \in Filters, NEW p \in DOMAIN inputs[f]
          PROVE  inputs[f][p] \in DOMAIN connections
      <4>1. f \in Flow(connections)
        BY <3>1 DEF InputsUp
      <4>2. inputs[f][p] \in Between(connections, f)
        BY <3>1, <4>1 DEF InputsUp
      <4> QED
        BY <4>2 DEF Between
    <3> QED
      BY <3>1, <3>2 DEF InputsUp
  <2> QED
    BY <2>1, <2>2
<1> QED
  BY <1>1, <1>2, <1>3, <1>4 DEF TypeOK

\* No output and no input names a connection the stream has no more.
THEOREM GraphTyped == Spec => []TypeOK
<1> QED
  BY StreamGraphInv, InvTypeOK, PTL

\* The sources of a ready stream are the filters nothing feeds, once each,
\* whatever was connected, run, stopped and removed (streamReady.c:622-666).
THEOREM SourcesAlwaysExact == Spec => []SourcesExact
<1>1. Inv => SourcesExact
  <2> SUFFICES ASSUME Inv, ~Inactive
               PROVE  /\ Range(sources) = Roots(connections)
                      /\ Cardinality(Range(sources)) = Len(sources)
    BY DEF SourcesExact
  <2>1. /\ sources \in Seq(Filters) /\ IsInjective(sources)
        /\ Range(sources) = Roots(connections)
    BY DEF Inv, SourcesUp
  <2> DEFINE N == Len(sources)
  <2>2. N \in Nat /\ sources \in [1 .. N -> Filters]
    BY <2>1, LenProperties
  <2> HIDE DEF N
  <2>3. IsFiniteSet(1 .. N) /\ Cardinality(1 .. N) = N
    BY <2>2, FS_Interval
  <2>4. Cardinality(Range(sources)) = Cardinality(1 .. N)
    BY <2>1, <2>2, <2>3, ImageSize
  <2> QED
    BY <2>1, <2>3, <2>4 DEF N
<1> QED
  BY <1>1, StreamGraphInv, PTL

LEMMA FlowingIsFlow ==
  ASSUME Inv, ~Inactive
  PROVE  Flowing = Flow(connections)
BY DEF Inv, SourcesUp, Flowing, Flow

\* Each connection of a filter that flows has one reader, at one output port
\* of the filter it comes from (streamReady.c:135-188).
THEOREM ConnectionsAlwaysOnce == Spec => []EachConnectionOnce
<1>1. Inv => EachConnectionOnce
  <2> SUFFICES ASSUME Inv, ~Inactive, NEW i \in DOMAIN connections,
                      connections[i].from \in Flow(connections)
               PROVE  \E p \in DOMAIN outputs[connections[i].from] :
                        /\ i \in Range(outputs[connections[i].from][p])
                        /\ \A f \in Filters : \A q \in DOMAIN outputs[f] :
                             i \in Range(outputs[f][q]) => f = connections[i].from /\ q = p
    BY FlowingIsFlow DEF EachConnectionOnce
  <2> DEFINE g == connections[i].from
             p == connections[i].fromPort
  <2>1. OutputsUp /\ connections \in Seq(Connection)
    BY DEF Inv, Connected
  <2>2. g \in Filters
    BY <2>1, ConnectionFields
  <2>3. p \in DOMAIN outputs[g]
    BY <2>1 DEF OutputsUp
  <2>4. i \in Range(outputs[g][p])
    BY <2>1, <2>2, <2>3 DEF OutputsUp
  <2>5. \A f \in Filters : \A q \in DOMAIN outputs[f] :
          i \in Range(outputs[f][q]) => f = g /\ q = p
    BY <2>1 DEF OutputsUp
  <2> QED
    BY <2>3, <2>4, <2>5
<1> QED
  BY <1>1, StreamGraphInv, PTL

\* The input ports of a filter that flows are 0 to numInputs-1, each read by
\* one connection into it, as asked (streamReady.c:212-359).
THEOREM InputPortsAlwaysExact == Spec => []InputPortsExact
<1>1. Inv => InputPortsExact
  <2> SUFFICES ASSUME Inv, ~Inactive PROVE InputPortsExact
    BY DEF InputPortsExact
  <2>1. Flowing = Flow(connections)
    BY FlowingIsFlow
  <2>2. InputsUp
    BY DEF Inv
  <2> QED
    BY <2>1, <2>2 DEF InputPortsExact, InputsUp, Between
<1> QED
  BY <1>1, StreamGraphInv, PTL

-----------------------------------------------------------------------------
(***************************************************************************)
(* A second start.  What qsStreamReady() builds depends on the connections *)
(* only, and numbering connections that are numbered changes nothing, as   *)
(* long as no filter with a QS_NEXTPORT has more than two outputs: the     *)
(* third is where the numbering goes wrong.                                *)
(***************************************************************************)
HasNext(c, f) == \E i \in DOMAIN c : c[i].from = f /\ c[i].fromPort = NextPort
FewNext(c)    == \A f \in Filters : HasNext(c, f) => NumOutputs(c, f) <= NextOutputs

\* What qsStreamReady() leaves of the connections c in a stream that is down.
Outcome(c) ==
  LET R   == Flow(c)
      n   == Numbered(c, R)
      out == OutputsBuilt(c, n, R)
  IN IF Roots(c) = {} \/ \E f \in R : InputsBad(n, out, f) THEN <<<<>>, Free, Free>>
     ELSE <<SourcesFound(c, Roots(c)), out, InputsBuilt(n, out, R)>>

\* The inductive invariant of the restarts.
Settled ==
  /\ Inv
  /\ FewNext(connections)
  /\ EveryOutputRead
  /\ layout # NoLayout => layout = Outcome(connections)

\* The connection i of c calls for no more outputs than those before it.
OldPort(c, i) ==
  c[i].fromPort # NextPort /\ c[i].fromPort < OutputsCounted(c, c[i].from)[i - 1]

LEMMA CountedHere ==
  ASSUME NEW c \in Seq(Connection), NEW i \in DOMAIN c
  PROVE  LET K == OutputsCounted(c, c[i].from)
         IN  /\ K[i - 1] \in Nat /\ K[i] \in Nat
             /\ K[i] = IF OldPort(c, i) THEN K[i - 1] ELSE K[i - 1] + 1
             /\ K[i] <= NumOutputs(c, c[i].from) /\ NumOutputs(c, c[i].from) \in Nat
<1> DEFINE K == OutputsCounted(c, c[i].from)
<1>1. Len(c) \in Nat /\ DOMAIN c = 1 .. Len(c)
  BY ConnectionFields
<1>2. i \in 1 .. Len(c) /\ i \in 0 .. Len(c) /\ i - 1 \in 0 .. Len(c) /\ Len(c) \in 0 .. Len(c)
  BY <1>1
<1>3. K[i - 1] \in Nat /\ K[i] \in Nat /\ K[Len(c)] \in Nat
  BY <1>2, Counted
<1>4. K[i] = IF OldPort(c, i) THEN K[i - 1] ELSE K[i - 1] + 1
  BY <1>2, Counted DEF OldPort
<1>5. K[i] <= K[Len(c)]
  <2>1. i <= Len(c)
    BY <1>1, <1>2
  <2> QED
    BY <1>2, <2>1, Counted
<1> QED
  BY <1>3, <1>4, <1>5 DEF NumOutputs

\* The first connection from a filter asks for port 0 or for the next one.
LEMMA FirstPort ==
  ASSUME NEW c \in Seq(Connection), NEW f, NEW l \in 0 .. Len(c),
         OutputsCounted(c, f)[l] # 0
  PROVE  \E j \in 1 .. l : c[j].from = f /\ InSequence(c)[j].fromPort \in {0, NextPort}
<1> DEFINE K == OutputsCounted(c, f)
           m == InSequence(c)
           N == Len(c)
           First(x) == \E j \in 1 .. x : c[j].from = f /\ m[j].fromPort \in {0, NextPort}
           S == {x \in 0 .. N : K[x] # 0 => First(x)}
<1>1. N \in Nat /\ DOMAIN c = 1 .. N
  BY ConnectionFields
<1>2. 0 \in S
  <2>1. K[0] = 0
    BY Counted
  <2> QED
    BY <1>1, <2>1
<1>3. \A x \in 0 .. N - 1 : x \in S => x + 1 \in S
  <2> SUFFICES ASSUME NEW x \in 0 .. N - 1, K[x] # 0 => First(x), K[x + 1] # 0
               PROVE  First(x + 1)
    BY <1>1
  <2>1. x + 1 \in DOMAIN c /\ (x + 1) - 1 = x /\ x \in Nat /\ x + 1 \in 1 .. N
    BY <1>1
  <2>2. CASE K[x] # 0
    <3>1. PICK j \in 1 .. x : c[j].from = f /\ m[j].fromPort \in {0, NextPort}
      BY <2>2
    <3>2. j \in 1 .. x + 1
      BY <2>1
    <3> QED
      BY <3>1, <3>2
  <2>3. CASE K[x] = 0
    <3>1. c[x + 1].from = f
      <4>1. c[x + 1].from # f => K[x + 1] = K[x]
        BY <2>1, Counted
      <4> QED
        BY <2>3, <4>1
    <3>2. m[x + 1] = IF c[x + 1].fromPort # NextPort /\ c[x + 1].fromPort > 0
                     THEN [c[x + 1] EXCEPT !.fromPort = 0] ELSE c[x + 1]
      BY <2>1, <2>3, <3>1 DEF InSequence
    <3>3. /\ c[x + 1] \in Connection
          /\ c[x + 1].fromPort # NextPort => c[x + 1].fromPort \in Nat
      BY <2>1, ConnectionFields
    <3> HIDE DEF m, K
    <3>4. m[x + 1].fromPort \in {0, NextPort}
      BY <3>2, <3>3 DEF Connection
    <3>5. x + 1 \in 1 .. x + 1
      BY <2>1
    <3> QED
      BY <3>1, <3>4, <3>5
  <2> QED
    BY <2>2, <2>3
<1> HIDE DEF S
<1>4. 0 .. N \subseteq S
  <2> HIDE DEF N
  <2> QED
    BY <1>1, <1>2, <1>3, UptoInduction
<1> QED
  BY <1>4 DEF S

\* A port that is new is the next one.
LEMMA NumberedPort ==
  ASSUME NEW c \in Seq(Connection), FewNext(c), NextOutputs <= 2,
         NEW R, NEW i \in DOMAIN c, c[i].from \in R
  PROVE  Numbered(c, R)[i].fromPort = IF OldPort(c, i) THEN c[i].fromPort
                                      ELSE OutputsCounted(c, c[i].from)[i - 1]
<1> DEFINE m == InSequence(c)
           r == NextPortsResolved(m)
           f == c[i].from
           p == c[i].fromPort
           next == OutputsCounted(c, f)[i - 1]
           Earlier == \E j \in 1 .. i - 1 : m[j].from = m[i].from /\ m[j].fromPort \in {0, NextPort}
<1>1. /\ Len(c) \in Nat /\ i \in 1 .. Len(c) /\ f \in Filters
      /\ c[i] \in Connection /\ (p # NextPort => p \in Nat)
  BY ConnectionFields
<1>2. /\ next \in Nat /\ OutputsCounted(c, f)[i] \in Nat
      /\ OutputsCounted(c, f)[i] = IF OldPort(c, i) THEN next ELSE next + 1
      /\ OutputsCounted(c, f)[i] <= NumOutputs(c, f) /\ NumOutputs(c, f) \in Nat
  BY CountedHere
<1>3. DOMAIN m = DOMAIN c /\ DOMAIN r = DOMAIN c
  BY DEF InSequence, NextPortsResolved
<1>4. m[i] = IF p # NextPort /\ p > next THEN [c[i] EXCEPT !.fromPort = next] ELSE c[i]
  BY DEF InSequence
<1>5. r[i] = IF m[i].fromPort # NextPort THEN m[i]
             ELSE IF Earlier THEN [m[i] EXCEPT !.fromPort = 1]
             ELSE [m[i] EXCEPT !.fromPort = 0]
  BY <1>3 DEF NextPortsResolved
<1>6. Numbered(c, R)[i] = r[i]
  BY DEF Numbered
<1>7. \A j \in DOMAIN c : m[j].from = c[j].from
  <2> SUFFICES ASSUME NEW j \in DOMAIN c PROVE m[j].from = c[j].from
    OBVIOUS
  <2>1. \/ m[j] = c[j]
        \/ m[j] = [c[j] EXCEPT !.fromPort = OutputsCounted(c, c[j].from)[j - 1]]
    BY DEF InSequence
  <2>2. c[j] \in Connection
    BY ConnectionFields
  <2> HIDE DEF m
  <2> QED
    BY <2>1, <2>2 DEF Connection
<1>8. OldPort(c, i) <=> p # NextPort /\ p < next
  BY DEF OldPort
<1>9. ~(next \in {NextPort})
  BY <1>2, StreamAssumption
<1>10. next # 0 => Earlier
  <2> SUFFICES ASSUME next # 0 PROVE Earlier
    OBVIOUS
  <2>1. i - 1 \in 0 .. Len(c)
    BY <1>1
  <2>2. PICK j \in 1 .. i - 1 : c[j].from = f /\ m[j].fromPort \in {0, NextPort}
    BY <2>1, FirstPort
  <2>3. j \in DOMAIN c
    BY <1>1, <2>1, ConnectionFields
  <2> QED
    BY <1>7, <2>2, <2>3
<1>11. Earlier => next # 0
  <2> SUFFICES ASSUME Earlier, next = 0 PROVE FALSE
    OBVIOUS
  <2>1. PICK j \in 1 .. i - 1 : m[j].from = m[i].from /\ m[j].fromPort \in {0, NextPort}
    OBVIOUS
  <2>2. /\ j \in DOMAIN c /\ j \in 0 .. Len(c) /\ i - 1 \in 0 .. Len(c)
        /\ j <= i - 1
    BY <1>1, ConnectionFields
  <2>3. c[j].from = f
    BY <1>7, <2>1, <2>2
  <2>4. OutputsCounted(c, f)[j] = 0
    <3>1. OutputsCounted(c, f)[j] \in Nat /\ OutputsCounted(c, f)[j] <= next
      BY <2>2, Counted
    <3> QED
      BY <3>1
  <2>5. OutputsCounted(c, f)[j - 1] \in Nat /\ OldPort(c, j)
    BY <2>2, <2>3, <2>4, CountedHere
  <2>6. /\ OutputsCounted(c, f)[j - 1] = 0
        /\ c[j].fromPort # NextPort /\ c[j].fromPort \in Nat
        /\ c[j].fromPort < OutputsCounted(c, f)[j - 1]
    <3>1. OutputsCounted(c, f)[j] = OutputsCounted(c, f)[j - 1]
      BY <2>2, <2>3, <2>5, CountedHere
    <3>2. c[j].fromPort # NextPort => c[j].fromPort \in Nat
      BY <2>2, ConnectionFields
    <3> QED
      BY <2>3, <2>4, <2>5, <3>1, <3>2 DEF OldPort
  <2> QED
    BY <2>6
<1> HIDE DEF next, m, r, Earlier
<1>12. CASE p # NextPort
  <2>1. CASE p > next
    <3>1. m[i] = [c[i] EXCEPT !.fromPort = next]
      BY <1>4, <1>12, <2>1
    <3>2. m[i].fromPort = next
      BY <1>1, <3>1 DEF Connection
    <3>3. r[i] = m[i]
      BY <1>5, <1>9, <3>2
    <3>4. ~OldPort(c, i)
      BY <1>1, <1>2, <1>8, <1>12, <2>1
    <3> QED
      BY <1>6, <3>2, <3>3, <3>4 DEF next
  <2>2. CASE ~(p > next)
    <3>1. m[i] = c[i] /\ r[i] = c[i]
      BY <1>4, <1>5, <1>12, <2>2
    <3>2. OldPort(c, i) \/ p = next
      BY <1>1, <1>2, <1>8, <1>12, <2>2
    <3> QED
      BY <1>6, <3>1, <3>2 DEF next
  <2> QED
    BY <2>1, <2>2
<1>13. CASE p = NextPort
  <2>1. m[i] = c[i] /\ ~OldPort(c, i)
    BY <1>4, <1>8, <1>13
  <2>2. next \in {0, 1}
    <3>1. NumOutputs(c, f) <= NextOutputs
      BY <1>1, <1>13 DEF FewNext, HasNext
    <3> QED
      BY <1>2, <2>1, <3>1, StreamAssumption
  <2>3. CASE next = 0
    <3>1. r[i] = [c[i] EXCEPT !.fromPort = 0]
      BY <1>5, <1>11, <1>13, <2>1, <2>3
    <3> QED
      BY <1>1, <1>6, <2>1, <2>3, <3>1 DEF Connection, next
  <2>4. CASE next = 1
    <3>1. r[i] = [c[i] EXCEPT !.fromPort = 1]
      BY <1>5, <1>10, <1>13, <2>1, <2>4
    <3> QED
      BY <1>1, <1>6, <2>1, <2>4, <3>1 DEF Connection, next
  <2> QED
    BY <2>2, <2>3, <2>4
<1> QED
  BY <1>12, <1>13

\* Counting the numbered connections gives what counting them before gave.
LEMMA SameCount ==
  ASSUME NEW c \in Seq(Connection), FewNext(c), NextOutputs <= 2,
         NEW R, NEW f \in R, NEW l \in 0 .. Len(c)
  PROVE  OutputsCounted(Numbered(c, R), f)[l] = OutputsCounted(c, f)[l]
<1> DEFINE n == Numbered(c, R)
           N == Len(c)
           S == {x \in 0 .. N : OutputsCounted(n, f)[x] = OutputsCounted(c, f)[x]}
<1>1. N \in Nat /\ DOMAIN c = 1 .. N
  BY ConnectionFields
<1>2. /\ n \in Seq(Connection) /\ Len(n) = N
      /\ \A i \in DOMAIN c : n[i].from = c[i].from
  BY NumberedFacts
<1>3. 0 \in S
  <2>1. OutputsCounted(n, f)[0] = 0
    BY <1>2, Counted
  <2>2. OutputsCounted(c, f)[0] = 0
    BY Counted
  <2> QED
    BY <1>1, <2>1, <2>2
<1>4. \A x \in 0 .. N - 1 : x \in S => x + 1 \in S
  <2> SUFFICES ASSUME NEW x \in 0 .. N - 1,
                      OutputsCounted(n, f)[x] = OutputsCounted(c, f)[x]
               PROVE  OutputsCounted(n, f)[x + 1] = OutputsCounted(c, f)[x + 1]
    BY <1>1
  <2> DEFINE K == OutputsCounted(c, f)
             Kn == OutputsCounted(n, f)
             i == x + 1
  <2>1. i \in DOMAIN c /\ i \in 1 .. N /\ i - 1 = x /\ x \in 0 .. N
    BY <1>1
  <2>2. K[i] = IF \/ c[i].from # f
                  \/ c[i].fromPort # NextPort /\ c[i].fromPort < K[x]
               THEN K[x] ELSE K[x] + 1
    <3>1. K[i] = IF \/ c[i].from # f
                    \/ c[i].fromPort # NextPort /\ c[i].fromPort < K[i - 1]
                 THEN K[i - 1] ELSE K[i - 1] + 1
      BY <2>1, Counted
    <3> HIDE DEF K
    <3> QED
      BY <2>1, <3>1
  <2>3. Kn[i] = IF \/ n[i].from # f
                   \/ n[i].fromPort # NextPort /\ n[i].fromPort < Kn[x]
                THEN Kn[x] ELSE Kn[x] + 1
    <3>1. i \in 1 .. Len(n)
      BY <1>2, <2>1
    <3>2. Kn[i] = IF \/ n[i].from # f
                     \/ n[i].fromPort # NextPort /\ n[i].fromPort < Kn[i - 1]
                  THEN Kn[i - 1] ELSE Kn[i - 1] + 1
      <4> HIDE DEF n
      <4> QED
        BY <1>2, <3>1, Counted
    <3> HIDE DEF Kn
    <3> QED
      BY <2>1, <3>2
  <2>4. K[x] \in Nat /\ NextPort \notin Nat
    BY <2>1, Counted, StreamAssumption
  <2>5. CASE c[i].from # f
    BY <1>2, <2>1, <2>2, <2>3, <2>5
  <2>6. CASE c[i].from = f
    <3>1. n[i].fromPort = IF OldPort(c, i) THEN c[i].fromPort ELSE K[x]
      BY <2>1, <2>6, NumberedPort
    <3>2. OldPort(c, i) <=> c[i].fromPort # NextPort /\ c[i].fromPort < K[x]
      BY <2>1, <2>6 DEF OldPort
    <3>3. n[i].from = f
      BY <1>2, <2>1, <2>6
    <3>4. Kn[x] = K[x]
      OBVIOUS
    <3> HIDE DEF K, Kn, n, i
    <3>5. Kn[i] = K[i]
      BY <2>2, <2>3, <2>4, <2>6, <3>1, <3>2, <3>3, <3>4
    <3> QED
      BY <3>5 DEF K, Kn, i
  <2> QED
    BY <2>5, <2>6
<1> HIDE DEF S, n
<1>5. 0 .. N \subseteq S
  <2> HIDE DEF N
  <2> QED
    BY <1>1, <1>3, <1>4, UptoInduction
<1> QED
  BY <1>5 DEF S, n

LEMMA Renumbered ==
  ASSUME NEW c \in Seq(Connection), FewNext(c), NextOutputs <= 2, NEW R
  PROVE  /\ Numbered(Numbered(c, R), R) = Numbered(c, R)
         /\ \A f \in R : NumOutputs(Numbered(c, R), f) = NumOutputs(c, f)
         /\ \A f \in R : \A p \in 0 .. NumOutputs(c, f) - 1 :
              \E i \in DOMAIN c : c[i].from = f /\ Numbered(c, R)[i].fromPort = p
<1> DEFINE n == Numbered(c, R)
           N == Len(c)
<1>1. N \in Nat /\ DOMAIN c = 1 .. N
  BY ConnectionFields
<1>2. /\ n \in Seq(Connection) /\ Len(n) = N /\ DOMAIN n = DOMAIN c
      /\ \A i \in DOMAIN c :
           /\ n[i].from = c[i].from
           /\ NumOutputs(c, c[i].from) \in Nat
           /\ c[i].from \in R => n[i].fromPort \in 0 .. NumOutputs(c, c[i].from) - 1
  BY NumberedFacts
<1>3. \A f \in R : \A l \in 0 .. N : OutputsCounted(n, f)[l] = OutputsCounted(c, f)[l]
  BY SameCount
<1>4. \A f \in R : NumOutputs(n, f) = NumOutputs(c, f)
  BY <1>1, <1>2, <1>3 DEF NumOutputs
<1>5. Numbered(n, R) = n
  <2> DEFINE m == InSequence(n)
             r == NextPortsResolved(m)
  <2> HIDE DEF n
  <2>1. DOMAIN m = DOMAIN n /\ DOMAIN r = DOMAIN n
    BY DEF InSequence, NextPortsResolved
  <2>2. ASSUME NEW i \in DOMAIN n, n[i].from \in R
        PROVE  r[i] = n[i]
    <3> DEFINE next == OutputsCounted(n, n[i].from)[i - 1]
    <3>1. i \in DOMAIN c /\ n[i].from = c[i].from /\ i - 1 \in 0 .. N
      BY <1>1, <1>2
    <3>2. next = OutputsCounted(c, c[i].from)[i - 1]
      BY <1>3, <2>2, <3>1
    <3>3. next \in Nat
      BY <3>1, <3>2, Counted
    <3>4. n[i].fromPort \in Nat /\ n[i].fromPort # NextPort
      BY <1>2, <2>2, <3>1, StreamAssumption
    <3>5. n[i].fromPort = IF OldPort(c, i) THEN c[i].fromPort ELSE next
      BY <2>2, <3>1, <3>2, NumberedPort DEF n
    <3>6. ~(n[i].fromPort > next)
      <4>1. OldPort(c, i) <=> c[i].fromPort # NextPort /\ c[i].fromPort < next
        BY <3>2 DEF OldPort
      <4> HIDE DEF next
      <4> QED
        BY <3>3, <3>4, <3>5, <4>1
    <3>7. m[i] = IF n[i].fromPort # NextPort /\ n[i].fromPort > next
                 THEN [n[i] EXCEPT !.fromPort = next] ELSE n[i]
      BY DEF InSequence
    <3> HIDE DEF m, next
    <3>8. m[i] = n[i]
      BY <3>6, <3>7
    <3>9. m[i].fromPort # NextPort => r[i] = m[i]
      BY <2>1 DEF NextPortsResolved
    <3> QED
      BY <3>4, <3>8, <3>9
  <2>3. Numbered(n, R) = [i \in DOMAIN n |-> IF n[i].from \in R THEN r[i] ELSE n[i]]
    BY DEF Numbered
  <2>4. n = [i \in DOMAIN n |-> n[i]]
    BY DEF n, Numbered
  <2> HIDE DEF m, r
  <2> QED
    BY <2>2, <2>3, <2>4
<1>6. ASSUME NEW f \in R, NEW p \in 0 .. NumOutputs(c, f) - 1
      PROVE  \E i \in DOMAIN c : c[i].from = f /\ n[i].fromPort = p
  <2> DEFINE K == OutputsCounted(c, f)
             T == {x \in 0 .. N : K[x] > p}
  <2>1. /\ \A x \in 0 .. N : K[x] \in Nat
        /\ K[0] = 0 /\ NumOutputs(c, f) = K[N]
        /\ \A i \in 1 .. N : K[i] = IF \/ c[i].from # f
                                       \/ c[i].fromPort # NextPort /\ c[i].fromPort < K[i - 1]
                                    THEN K[i - 1] ELSE K[i - 1] + 1
    BY Counted DEF NumOutputs
  <2> HIDE DEF K, N
  <2>2. p \in Nat /\ p < K[N] /\ N \in 0 .. N /\ 0 \in 0 .. N
    BY <1>1, <2>1
  <2>3. T \in SUBSET Nat /\ N \in T
    BY <1>1, <2>2
  <2> HIDE DEF T
  <2>4. PICK x \in T : \A y \in T : x <= y
    BY <2>3, LeastNatural
  <2>5. x \in 0 .. N /\ K[x] > p
    BY DEF T
  <2>6. x \in 1 .. N /\ x - 1 \in 0 .. N /\ x \in DOMAIN c
    <3>1. x # 0
      BY <2>1, <2>2, <2>5
    <3> QED
      BY <1>1, <2>5, <3>1
  <2>7. K[x - 1] <= p
    <3>1. ~(x <= x - 1)
      BY <2>6
    <3>2. x - 1 \notin T
      BY <2>4, <3>1
    <3> QED
      BY <2>1, <2>2, <2>6, <3>2 DEF T
  <2>8. /\ c[x].from = f /\ ~(c[x].fromPort # NextPort /\ c[x].fromPort < K[x - 1])
        /\ K[x - 1] = p
    <3>1. K[x] = IF \/ c[x].from # f
                    \/ c[x].fromPort # NextPort /\ c[x].fromPort < K[x - 1]
                 THEN K[x - 1] ELSE K[x - 1] + 1
      BY <2>1, <2>6
    <3>2. K[x - 1] \in Nat
      BY <2>1, <2>6
    <3> QED
      BY <2>2, <2>5, <2>7, <3>1, <3>2
  <2>9. ~OldPort(c, x)
    BY <2>8 DEF OldPort, K
  <2>10. n[x].fromPort = K[x - 1]
    BY <2>6, <2>8, <2>9, NumberedPort DEF K
  <2> QED
    BY <2>6, <2>8, <2>10
<1> QED
  BY <1>4, <1>5, <1>6

-----------------------------------------------------------------------------
\* If the connections of f in c are, in their order, among those in d, then c
\* does not call for more outputs of f than d does.  e says where they are.
LEMMA FewerOutputs ==
  ASSUME NEW c \in Seq(Connection), NEW d \in Seq(Connection), NEW f,
         NEW e, \A i \in 0 .. Len(c) : e[i] \in 0 .. Len(d),
         \A i \in 1 .. Len(c) :
           /\ e[i - 1] <= e[i]
           /\ c[i].from = f => /\ e[i - 1] < e[i]
                               /\ d[e[i]].from = f /\ d[e[i]].fromPort = c[i].fromPort
  PROVE  NumOutputs(c, f) <= NumOutputs(d, f)
<1> DEFINE K == OutputsCounted(c, f)
           L == OutputsCounted(d, f)
           N == Len(c)
           M == Len(d)
           S == {x \in 0 .. N : K[x] <= L[e[x]]}
<1>1. N \in Nat /\ M \in Nat
  BY LenProperties
<1>2. /\ \A x \in 0 .. N : K[x] \in Nat
      /\ K[0] = 0 /\ NumOutputs(c, f) = K[N]
      /\ \A i \in 1 .. N : K[i] = IF \/ c[i].from # f
                                     \/ c[i].fromPort # NextPort /\ c[i].fromPort < K[i - 1]
                                  THEN K[i - 1] ELSE K[i - 1] + 1
  BY Counted DEF NumOutputs
<1>3. /\ \A x \in 0 .. M : L[x] \in Nat
      /\ NumOutputs(d, f) = L[M]
      /\ \A i \in 1 .. M : L[i] = IF \/ d[i].from # f
                                     \/ d[i].fromPort # NextPort /\ d[i].fromPort < L[i - 1]
                                  THEN L[i - 1] ELSE L[i - 1] + 1
      /\ \A i, j \in 0 .. M : i <= j => L[i] <= L[j]
  BY Counted DEF NumOutputs
<1>4. \A i \in DOMAIN c : c[i].fromPort # NextPort => c[i].fromPort \in Nat
  BY ConnectionFields
<1>5. DOMAIN c = 1 .. N
  BY LenProperties
<1>6. /\ \A i \in 0 .. N : e[i] \in 0 .. M
      /\ \A i \in 1 .. N :
           /\ e[i - 1] <= e[i]
           /\ c[i].from = f => /\ e[i - 1] < e[i]
                               /\ d[e[i]].from = f /\ d[e[i]].fromPort = c[i].fromPort
  OBVIOUS
<1> HIDE DEF K, L, N, M
<1>7. 0 \in S
  BY <1>1, <1>2, <1>3, <1>6
<1>8. \A x \in 0 .. N - 1 : x \in S => x + 1 \in S
  <2> SUFFICES ASSUME NEW x \in 0 .. N - 1, K[x] <= L[e[x]]
               PROVE  K[x + 1] <= L[e[x + 1]]
    BY <1>1
  <2> DEFINE i == x + 1
             j == e[i]
             p == c[i].fromPort
  <2>1. i \in 1 .. N /\ i - 1 = x /\ x \in 0 .. N /\ i \in 0 .. N
    BY <1>1
  <2>2. e[x] \in 0 .. M /\ j \in 0 .. M /\ e[x] <= j
    BY <1>6, <2>1
  <2>3. K[x] \in Nat /\ K[i] \in Nat /\ L[e[x]] \in Nat /\ L[j] \in Nat
    BY <1>2, <1>3, <2>1, <2>2
  <2>4. K[i] = IF c[i].from # f \/ (p # NextPort /\ p < K[x]) THEN K[x] ELSE K[x] + 1
    BY <1>2, <2>1
  <2>5. L[e[x]] <= L[j]
    BY <1>3, <2>2
  <2> HIDE DEF i, j
  <2>6. CASE c[i].from # f
    BY <2>3, <2>4, <2>5, <2>6 DEF i, j
  <2>7. CASE c[i].from = f
    <3>1. e[x] < j /\ d[j].from = f /\ d[j].fromPort = p
      BY <1>6, <2>1, <2>7 DEF j
    <3>2. j \in 1 .. M /\ j - 1 \in 0 .. M /\ e[x] <= j - 1
      BY <1>1, <2>2, <3>1
    <3>3. L[j - 1] \in Nat /\ L[e[x]] <= L[j - 1]
      BY <1>3, <2>2, <3>2
    <3>4. L[j] = IF p # NextPort /\ p < L[j - 1] THEN L[j - 1] ELSE L[j - 1] + 1
      BY <1>3, <3>1, <3>2
    <3>5. p # NextPort => p \in Nat
      BY <1>4, <1>5, <2>1
    <3> HIDE DEF p
    <3>6. K[i] <= L[j]
      <4>1. CASE p = NextPort
        BY <2>3, <2>4, <2>7, <3>3, <3>4, <4>1
      <4>2. CASE p # NextPort /\ p < K[x]
        BY <2>3, <2>4, <2>5, <4>2
      <4>3. CASE p # NextPort /\ ~(p < K[x])
        <5>1. K[i] = K[x] + 1 /\ p \in Nat /\ K[x] <= p
          BY <2>3, <2>4, <2>7, <3>5, <4>3
        <5>2. K[x] <= L[j - 1]
          BY <2>3, <3>3
        <5>3. CASE p < L[j - 1]
          BY <2>3, <3>3, <3>4, <4>3, <5>1, <5>3
        <5>4. CASE ~(p < L[j - 1])
          BY <2>3, <3>3, <3>4, <5>1, <5>2, <5>4
        <5> QED
          BY <5>3, <5>4
      <4> QED
        BY <4>1, <4>2, <4>3
    <3> QED
      BY <3>6 DEF i, j
  <2> QED
    BY <2>6, <2>7
<1> HIDE DEF S
<1>9. N \in S
  <2>1. 0 .. N \subseteq S
    BY <1>1, <1>7, <1>8, UptoInduction
  <2> QED
    BY <1>1, <2>1
<1>10. K[N] <= L[e[N]] /\ e[N] \in 0 .. M
  BY <1>1, <1>6, <1>9 DEF S
<1>11. L[e[N]] <= L[M]
  BY <1>1, <1>3, <1>10
<1>12. K[N] \in Nat /\ L[e[N]] \in Nat /\ L[M] \in Nat
  BY <1>1, <1>2, <1>3, <1>10
<1> QED
  BY <1>2, <1>3, <1>10, <1>11, <1>12

LEMMA CountedAll ==
  ASSUME NEW c \in Seq(Connection), NEW f
  PROVE  NumOutputs(c, f) \in Nat
<1>1. Len(c) \in 0 .. Len(c)
  BY LenProperties
<1> QED
  BY <1>1, Counted DEF NumOutputs

-----------------------------------------------------------------------------
\* The bound on the QS_NEXTPORTs is kept by what the stream's operations do to
\* the connections.
LEMMA FewConnect ==
  ASSUME Inv, FewNext(connections), Connect
  PROVE  FewNext(connections')
<1>1. PICK f, g \in Filters, fp \in FromPorts, tp \in ToPorts :
        /\ connections' = Append(connections, [from |-> f, to |-> g, fromPort |-> fp, toPort |-> tp])
        /\ NextPort \in {c.fromPort : c \in {x \in Range(connections') : x.from = f}}
             => NumOutputs(connections', f) <= NextOutputs
  BY DEF Connect
<1> DEFINE N == Len(connections)
           x == [from |-> f, to |-> g, fromPort |-> fp, toPort |-> tp]
           d == connections'
<1>2. connections \in Seq(Connection) /\ x \in Connection /\ x.from = f
  BY DEF Inv, Connected, Connection
<1>3. /\ d \in Seq(Connection) /\ Len(d) = N + 1 /\ N \in Nat
      /\ DOMAIN d = 1 .. N + 1 /\ DOMAIN connections = 1 .. N
      /\ \A i \in 1 .. N : d[i] = connections[i]
      /\ d[N + 1] = x
  <2>1. DOMAIN connections = 1 .. N /\ N \in Nat
    BY <1>2, LenProperties
  <2> QED
    BY <1>1, <1>2, <2>1, AppendedList
<1> HIDE DEF d, x
<1>4. ASSUME NEW h \in Filters, HasNext(d, h)
      PROVE  NumOutputs(d, h) <= NextOutputs
  <2>1. CASE h = f
    <3>1. PICK i \in DOMAIN d : d[i].from = f /\ d[i].fromPort = NextPort
      BY <1>4, <2>1 DEF HasNext
    <3>2. d[i] \in {y \in Range(d) : y.from = f}
      BY <3>1 DEF Range
    <3>3. NextPort \in {y.fromPort : y \in {y \in Range(d) : y.from = f}}
      BY <3>1, <3>2
    <3> QED
      BY <1>1, <2>1, <3>3 DEF d
  <2>2. CASE h # f
    <3> DEFINE e == [i \in 0 .. N + 1 |-> IF i = N + 1 THEN N ELSE i]
    <3>1. \A i \in 0 .. Len(d) : e[i] \in 0 .. Len(connections)
      BY <1>3
    <3>2. ASSUME NEW i \in 1 .. Len(d)
          PROVE  /\ e[i - 1] <= e[i]
                 /\ d[i].from = h =>
                      /\ e[i - 1] < e[i]
                      /\ connections[e[i]].from = h /\ connections[e[i]].fromPort = d[i].fromPort
      <4>1. CASE i = N + 1
        BY <1>2, <1>3, <2>2, <4>1
      <4>2. CASE i # N + 1
        <5>1. i \in 1 .. N /\ i - 1 # N + 1 /\ i \in 0 .. N + 1 /\ i - 1 \in 0 .. N + 1
          BY <1>3, <4>2
        <5>2. e[i] = i /\ e[i - 1] = i - 1
          BY <4>2, <5>1
        <5> HIDE DEF e
        <5> QED
          BY <1>3, <5>1, <5>2
      <4> QED
        BY <4>1, <4>2
    <3> HIDE DEF e
    <3>3. NumOutputs(d, h) <= NumOutputs(connections, h)
      BY <1>2, <1>3, <3>1, <3>2, FewerOutputs
    <3>4. HasNext(connections, h)
      <4>1. PICK i \in DOMAIN d : d[i].from = h /\ d[i].fromPort = NextPort
        BY <1>4 DEF HasNext
      <4>2. i \in 1 .. N
        BY <1>2, <1>3, <2>2, <4>1
      <4> QED
        BY <1>3, <4>1, <4>2 DEF HasNext
    <3>5. NumOutputs(connections, h) <= NextOutputs
      BY <3>4 DEF FewNext
    <3>6. NumOutputs(d, h) \in Nat /\ NumOutputs(connections, h) \in Nat
      BY <1>2, <1>3, CountedAll
    <3> QED
      BY <3>3, <3>5, <3>6, StreamAssumption
  <2> QED
    BY <2>1, <2>2
<1> QED
  BY <1>4 DEF FewNext, d

LEMMA FewRemoveFilter ==
  ASSUME Inv, FewNext(connections), NEW f \in Filters, RemoveFilter(f)
  PROVE  FewNext(connections')
<1> DEFINE N == Len(connections)
           kept == {i \in DOMAIN connections :
                      connections[i].from # f /\ connections[i].to # f}
           n == Cardinality(kept)
           order == InOrder(kept)
           d == connections'
<1>1. connections \in Seq(Connection) /\ N \in Nat /\ DOMAIN connections = 1 .. N
  BY LenProperties DEF Inv, Connected
<1>2. d = [k \in DOMAIN order |-> connections[order[k]]]
  BY DEF RemoveFilter
<1>3. /\ n \in Nat /\ order \in [1 .. n -> kept]
      /\ \A i, j \in 1 .. n : i < j => order[i] < order[j]
  <2>1. kept \in SUBSET (1 .. N)
    BY <1>1
  <2> HIDE DEF kept, N
  <2>2. IsFiniteSet(1 .. N)
    BY <1>1, FS_Interval
  <2>3. IsFiniteSet(kept)
    BY <2>1, <2>2, FS_Subset
  <2>4. kept \in SUBSET Nat
    BY <2>1
  <2> QED
    BY <2>3, <2>4, InOrderFacts
<1>4. \A i \in 1 .. n : order[i] \in 1 .. N
  <2> HIDE DEF n, order
  <2> QED
    BY <1>1, <1>3
<1> HIDE DEF order, kept, n
<1>5. DOMAIN d = 1 .. n /\ \A i \in 1 .. n : d[i] = connections[order[i]]
  BY <1>2, <1>3
<1>6. d \in Seq(Connection)
  <2>1. \A i \in 1 .. n : d[i] \in Connection
    BY <1>1, <1>4, <1>5, ConnectionFields
  <2>2. d = [i \in 1 .. n |-> connections[order[i]]]
    BY <1>2, <1>3
  <2>3. d \in [1 .. n -> Connection]
    BY <1>5, <2>1, <2>2
  <2> QED
    BY <1>3, <2>3, SeqDef
<1>7. Len(d) = n
  BY <1>3, <1>5, <1>6, LenProperties
<1> HIDE DEF d
<1>8. ASSUME NEW h \in Filters, HasNext(d, h)
      PROVE  NumOutputs(d, h) <= NextOutputs
  <2> DEFINE e == [i \in 0 .. n |-> IF i = 0 THEN 0 ELSE order[i]]
  <2>1. \A i \in 0 .. Len(d) : e[i] \in 0 .. N
    <3> HIDE DEF N
    <3> QED
      BY <1>1, <1>3, <1>4, <1>7
  <2>2. ASSUME NEW i \in 1 .. Len(d)
        PROVE  /\ e[i - 1] <= e[i]
               /\ d[i].from = h =>
                    /\ e[i - 1] < e[i]
                    /\ connections[e[i]].from = h /\ connections[e[i]].fromPort = d[i].fromPort
    <3>1. i \in 1 .. n /\ i \in 0 .. n /\ i - 1 \in 0 .. n /\ i # 0
      BY <1>3, <1>7
    <3>2. e[i] = order[i] /\ order[i] \in 1 .. N /\ d[i] = connections[order[i]]
      BY <1>4, <1>5, <3>1
    <3>3. e[i - 1] < e[i] /\ e[i - 1] \in Nat /\ e[i] \in Nat
      <4> HIDE DEF N
      <4>1. CASE i = 1
        BY <1>1, <3>1, <3>2, <4>1
      <4>2. CASE i # 1
        <5>1. i - 1 \in 1 .. n /\ i - 1 < i /\ i - 1 # 0
          BY <1>3, <3>1, <4>2
        <5>2. e[i - 1] = order[i - 1] /\ order[i - 1] \in 1 .. N
          BY <1>4, <3>1, <5>1
        <5>3. order[i - 1] < order[i]
          BY <1>3, <3>1, <5>1
        <5> HIDE DEF e
        <5> QED
          BY <1>1, <3>2, <5>2, <5>3
      <4> QED
        BY <4>1, <4>2
    <3> HIDE DEF e
    <3> QED
      BY <3>2, <3>3
  <2> HIDE DEF e
  <2>3. NumOutputs(d, h) <= NumOutputs(connections, h)
    BY <1>1, <1>6, <2>1, <2>2, FewerOutputs
  <2>4. HasNext(connections, h)
    <3>1. PICK i \in DOMAIN d : d[i].from = h /\ d[i].fromPort = NextPort
      BY <1>8 DEF HasNext
    <3>2. order[i] \in DOMAIN connections /\ d[i] = connections[order[i]]
      BY <1>1, <1>4, <1>5, <3>1
    <3> QED
      BY <3>1, <3>2 DEF HasNext
  <2>5. NumOutputs(connections, h) <= NextOutputs
    BY <2>4 DEF FewNext
  <2>6. NumOutputs(d, h) \in Nat /\ NumOutputs(connections, h) \in Nat
    BY <1>1, <1>6, CountedAll
  <2> QED
    BY <2>3, <2>5, <2>6, StreamAssumption
<1> QED
  BY <1>8 DEF FewNext, d

LEMMA FewNumbered ==
  ASSUME NEW c \in Seq(Connection), FewNext(c), NEW R
  PROVE  FewNext(Numbered(c, R))
<1> DEFINE n == Numbered(c, R)
           N == Len(c)
<1>1. N \in Nat /\ DOMAIN c = 1 .. N
  BY LenProperties
<1>2. /\ n \in Seq(Connection) /\ Len(n) = N /\ DOMAIN n = DOMAIN c
      /\ \A i \in DOMAIN c :
           /\ n[i].from = c[i].from
           /\ c[i].from \in R => n[i].fromPort \in 0 .. NumOutputs(c, c[i].from) - 1
  BY NumberedFacts
<1>3. \A i \in DOMAIN c : c[i].from \notin R => n[i] = c[i]
  BY DEF Numbered
<1> HIDE DEF n
<1>4. ASSUME NEW h \in Filters, HasNext(n, h)
      PROVE  NumOutputs(n, h) <= NextOutputs
  <2>1. PICK k \in DOMAIN c : c[k].from = h /\ n[k].fromPort = NextPort
    BY <1>2, <1>4 DEF HasNext
  <2>2. h \notin R
    <3>1. NextPort \notin Nat
      BY StreamAssumption
    <3>2. h \in R => n[k].fromPort \in Nat
      BY <1>2, <2>1
    <3> QED
      BY <2>1, <3>1, <3>2
  <2> DEFINE e == [i \in 0 .. N |-> i]
  <2>3. \A i \in 0 .. Len(n) : e[i] \in 0 .. Len(c)
    BY <1>2
  <2>4. ASSUME NEW i \in 1 .. Len(n)
        PROVE  /\ e[i - 1] <= e[i]
               /\ n[i].from = h => /\ e[i - 1] < e[i]
                                   /\ c[e[i]].from = h /\ c[e[i]].fromPort = n[i].fromPort
    <3>1. i \in 1 .. N /\ i \in 0 .. N /\ i - 1 \in 0 .. N /\ i \in DOMAIN c
      BY <1>1, <1>2
    <3>2. e[i] = i /\ e[i - 1] = i - 1
      BY <3>1
    <3> HIDE DEF e
    <3> QED
      BY <1>2, <1>3, <2>2, <3>1, <3>2
  <2> HIDE DEF e
  <2>5. NumOutputs(n, h) <= NumOutputs(c, h)
    BY <1>2, <2>3, <2>4, FewerOutputs
  <2>6. HasNext(c, h)
    BY <1>3, <2>1, <2>2 DEF HasNext
  <2>7. NumOutputs(c, h) <= NextOutputs
    BY <2>6 DEF FewNext
  <2>8. NumOutputs(n, h) \in Nat /\ NumOutputs(c, h) \in Nat
    BY <1>2, CountedAll
  <2> QED
    BY <2>5, <2>7, <2>8, StreamAssumption
<1> QED
  BY <1>4 DEF FewNext, n

-----------------------------------------------------------------------------
\* The numbers the ports got are the numbers they get.
LEMMA SameOutcome ==
  ASSUME NEW c \in Seq(Connection), FewNext(c), NextOutputs <= 2
  PROVE  Outcome(Numbered(c, Flow(c))) = Outcome(c)
<1> DEFINE R   == Flow(c)
           n   == Numbered(c, R)
           out == OutputsBuilt(c, n, R)
<1>1. /\ n \in Seq(Connection) /\ DOMAIN n = DOMAIN c
      /\ \A i \in DOMAIN c : n[i].from = c[i].from /\ n[i].to = c[i].to
  BY NumberedFacts
<1>2. Numbered(n, R) = n /\ \A f \in R : NumOutputs(n, f) = NumOutputs(c, f)
  BY Renumbered
<1>3. Roots(n) = Roots(c) /\ Flow(n) = R
  <2> HIDE DEF n
  <2> QED
    BY <1>1, SameGraph
<1>4. OutputsBuilt(n, n, R) = out
  <2>1. \A f \in Filters :
          (IF f \in R THEN [p \in 0 .. (NumOutputs(n, f) - 1) |-> ReadersOf(n, f, p)] ELSE <<>>)
            = (IF f \in R THEN [p \in 0 .. (NumOutputs(c, f) - 1) |-> ReadersOf(n, f, p)] ELSE <<>>)
    <3> HIDE DEF n, R
    <3> QED
      BY <1>2
  <2> HIDE DEF n, R
  <2> QED
    BY <2>1 DEF OutputsBuilt
<1>5. SourcesFound(n, Roots(n)) = SourcesFound(c, Roots(c))
  <2> DEFINE First(d) == {i \in DOMAIN d : /\ d[i].from \in Roots(c)
                                          /\ \A j \in 1 .. (i - 1) : d[j].from # d[i].from}
  <2>1. Len(c) \in Nat /\ DOMAIN c = 1 .. Len(c)
    BY LenProperties
  <2>2. \A i \in DOMAIN c : \A j \in 1 .. (i - 1) : j \in DOMAIN c
    BY <2>1
  <2> HIDE DEF n
  <2>3. First(n) = First(c)
    BY <1>1, <2>2
  <2>4. \A k \in DOMAIN InOrder(First(c)) : InOrder(First(c))[k] \in DOMAIN c
    <3> DEFINE F == First(c)
               N == Len(c)
    <3>1. F \in SUBSET (1 .. N) /\ N \in Nat
      BY <2>1
    <3> HIDE DEF F, N
    <3>2. IsFiniteSet(1 .. N) /\ F \in SUBSET Nat
      BY <3>1, FS_Interval
    <3>3. IsFiniteSet(F)
      BY <3>1, <3>2, FS_Subset
    <3>4. InOrder(F) \in [1 .. Cardinality(F) -> F]
      BY <3>2, <3>3, InOrderFacts
    <3>5. \A k \in DOMAIN InOrder(F) : InOrder(F)[k] \in F
      BY <3>4
    <3> QED
      BY <3>5 DEF F
  <2>5. /\ SourcesFound(n, Roots(c)) =
             [k \in DOMAIN InOrder(First(n)) |-> n[InOrder(First(n))[k]].from]
        /\ SourcesFound(c, Roots(c)) =
             [k \in DOMAIN InOrder(First(c)) |-> c[InOrder(First(c))[k]].from]
    BY DEF SourcesFound
  <2> HIDE DEF First
  <2>6. \A k \in DOMAIN InOrder(First(c)) :
          n[InOrder(First(c))[k]].from = c[InOrder(First(c))[k]].from
    BY <1>1, <2>4
  <2> QED
    BY <1>3, <2>3, <2>5, <2>6
<1>6. Outcome(c) = IF Roots(c) = {} \/ \E f \in R : InputsBad(n, out, f) THEN <<<<>>, Free, Free>>
                   ELSE <<SourcesFound(c, Roots(c)), out, InputsBuilt(n, out, R)>>
  BY DEF Outcome
<1>7. Outcome(n) =
        LET Q == OutputsBuilt(n, Numbered(n, Flow(n)), Flow(n))
        IN IF Roots(n) = {} \/ \E f \in Flow(n) : InputsBad(Numbered(n, Flow(n)), Q, f)
           THEN <<<<>>, Free, Free>>
           ELSE <<SourcesFound(n, Roots(n)), Q, InputsBuilt(Numbered(n, Flow(n)), Q, Flow(n))>>
  <2> HIDE DEF n
  <2> QED
    BY DEF Outcome
<1> HIDE DEF n, out, R
<1> QED
  BY <1>2, <1>3, <1>4, <1>5, <1>6, <1>7 DEF n, R

\* What qsStreamReady() builds is the outcome of the connections, before and
\* after it numbers them.
LEMMA ReadyOutcome ==
  ASSUME Settled, Ready, NextOutputs <= 2
  PROVE  /\ layout' = Outcome(connections) /\ Outcome(connections') = Outcome(connections)
         /\ FewNext(connections') /\ EveryOutputRead'
<1> DEFINE c   == connections
           R   == Flow(c)
           n   == Numbered(c, R)
           out == OutputsBuilt(c, n, R)
           in  == InputsBuilt(n, out, R)
<1>1. /\ Inv /\ FewNext(c) /\ c \in Seq(Connection) /\ Inactive
      /\ outputs = Free /\ runVars = <<<<>>, Free, Free>>
  BY DEF Settled, Inv, Connected, Down, Inactive, Ready, runVars
<1>2. Outcome(n) = Outcome(c) /\ FewNext(n)
  BY <1>1, SameOutcome, FewNumbered
<1>3. Outcome(c) = IF Roots(c) = {} \/ \E f \in R : InputsBad(n, out, f) THEN <<<<>>, Free, Free>>
                   ELSE <<SourcesFound(c, Roots(c)), out, in>>
  BY DEF Outcome
<1>4. outputs' = outputs => EveryOutputRead'
  BY DEF Settled, EveryOutputRead
<1>5. \/ /\ Roots(c) = {} /\ c' = c
         /\ GiveUp(-1, Roots(c), Free)
      \/ /\ Roots(c) # {} /\ c' = n /\ \E f \in R : InputsBad(n, out, f)
         /\ GiveUp(-4, Roots(c), out)
      \/ /\ Roots(c) # {} /\ c' = n /\ \A f \in R : ~InputsBad(n, out, f)
         /\ \E code \in {0, -3} : Build(code, Roots(c), out, in)
  BY <1>1, ReadyCases
<1>6. ASSUME NEW f \in Filters, NEW p \in DOMAIN out[f]
      PROVE  out[f][p] # <<>>
  <2>1. f \in R
    BY <1>1, OutputsFit
  <2>2. Range(out[f][p]) = {i \in DOMAIN n : n[i].from = f /\ n[i].fromPort = p}
    BY <1>1, OutputsFit
  <2>3. p \in 0 .. NumOutputs(c, f) - 1
    BY <2>1 DEF OutputsBuilt
  <2>4. PICK i \in DOMAIN c : c[i].from = f /\ n[i].fromPort = p
    BY <1>1, <2>1, <2>3, Renumbered
  <2>5. i \in DOMAIN n /\ n[i].from = f
    BY <1>1, <2>4, NumberedFacts
  <2> HIDE DEF out, n, R
  <2>6. i \in Range(out[f][p])
    BY <2>2, <2>4, <2>5
  <2>7. Range(<<>>) = {}
    BY DEF Range
  <2> QED
    BY <2>6, <2>7
<1> HIDE DEF n, out, in, R
<1>7. CASE Roots(c) = {} /\ c' = c /\ GiveUp(-1, Roots(c), Free)
  <2>1. layout' = runVars /\ outputs' = outputs
    BY <1>7 DEF GiveUp, runVars
  <2> QED
    BY <1>1, <1>3, <1>4, <1>7, <2>1
<1>8. CASE /\ Roots(c) # {} /\ c' = n /\ \E f \in R : InputsBad(n, out, f)
           /\ GiveUp(-4, Roots(c), out)
  <2>1. layout' = runVars /\ outputs' = outputs
    BY <1>8 DEF GiveUp, runVars
  <2> QED
    BY <1>1, <1>2, <1>3, <1>4, <1>8, <2>1
<1>9. CASE /\ Roots(c) # {} /\ c' = n /\ \A f \in R : ~InputsBad(n, out, f)
           /\ \E code \in {0, -3} : Build(code, Roots(c), out, in)
  <2>1. layout' = <<SourcesFound(c, Roots(c)), out, in>> /\ outputs' = out
    BY <1>9 DEF Build
  <2>2. EveryOutputRead'
    BY <1>6, <2>1 DEF EveryOutputRead
  <2>3. layout' = Outcome(c)
    BY <1>3, <1>9, <2>1
  <2> QED
    BY <1>2, <1>9, <2>2, <2>3
<1> QED
  BY <1>5, <1>7, <1>8, <1>9

LEMMA SettledNext ==
  ASSUME Settled, [Next]_vars, NextOutputs <= 2
  PROVE  /\ Settled'
         /\ layout # NoLayout => layout' \in {layout, NoLayout}
<1>1. Inv'
  BY InvNext DEF Settled
<1>2. outputs' \in {outputs, Free} => EveryOutputRead'
  <2>1. outputs' = outputs => EveryOutputRead'
    BY DEF Settled, EveryOutputRead
  <2>2. outputs' = Free => EveryOutputRead'
    <3>1. DOMAIN <<>> = {}
      OBVIOUS
    <3> QED
      BY <3>1 DEF EveryOutputRead, Free
  <2> QED
    BY <2>1, <2>2
<1>3. CASE Connect
  <2>1. layout' = NoLayout /\ outputs' = outputs
    BY <1>3 DEF Connect, runVars
  <2>2. FewNext(connections')
    BY <1>3, FewConnect DEF Settled
  <2> QED
    BY <1>1, <1>2, <2>1, <2>2 DEF Settled
<1>4. CASE AllowLoops
  BY <1>1, <1>2, <1>4 DEF AllowLoops, runVars, Settled
<1>5. CASE Ready
  <2>1. /\ layout' = Outcome(connections) /\ Outcome(connections') = Outcome(connections)
        /\ FewNext(connections') /\ EveryOutputRead'
    BY <1>5, ReadyOutcome
  <2> QED
    BY <1>1, <2>1 DEF Settled
<1>6. CASE Launch
  BY <1>1, <1>2, <1>6 DEF Launch, runVars, Settled
<1>7. CASE Stop
  BY <1>1, <1>2, <1>7 DEF Stop, Settled
<1>8. CASE \E f \in Filters : RemoveFilter(f)
  <2>1. PICK f \in Filters : RemoveFilter(f)
    BY <1>8
  <2>2. layout' = NoLayout /\ outputs' = outputs
    BY <2>1 DEF RemoveFilter, runVars
  <2>3. FewNext(connections')
    BY <2>1, FewRemoveFilter DEF Settled
  <2> QED
    BY <1>1, <1>2, <2>2, <2>3 DEF Settled
<1>9. CASE UNCHANGED vars
  BY <1>1, <1>2, <1>9 DEF vars, runVars, Settled
<1> QED
  BY <1>3, <1>4, <1>5, <1>6, <1>7, <1>8, <1>9 DEF Next

LEMMA SettledInit == Init => Settled
<1> SUFFICES ASSUME Init PROVE Settled
  OBVIOUS
<1>1. DOMAIN <<>> = {}
  OBVIOUS
<1>2. FewNext(connections) /\ EveryOutputRead
  BY <1>1 DEF Init, FewNext, HasNext, EveryOutputRead, Free
<1>3. layout = NoLayout
  BY DEF Init
<1> QED
  BY <1>2, <1>3, InvInit DEF Settled

\* A stop and a second start give the same sources, ports and readers, if no
\* filter with a QS_NEXTPORT has more than two outputs (streamReady.c:83-155).
THEOREM RestartAlwaysSame ==
  ASSUME NextOutputs <= 2
  PROVE  Spec => RestartSame
<1>1. Init => Settled
  BY SettledInit
<1>2. Settled /\ [Next]_vars => Settled'
  BY SettledNext
<1>3. Settled /\ [Next]_vars => [layout # NoLayout => layout' \in {layout, NoLayout}]_vars
  BY SettledNext
<1> QED
  BY <1>1, <1>2, <1>3, PTL DEF Spec, RestartSame

\* Then every output port also has somebody to read it, what streamReady.c:157
\* asserts; the run next_ports shows that it fails with three.
THEOREM OutputsAlwaysRead ==
  ASSUME NextOutputs <= 2
  PROVE  Spec => []EveryOutputRead
<1>1. Init => Settled
  BY SettledInit
<1>2. Settled /\ [Next]_vars => Settled'
  BY SettledNext
<1>3. Settled => EveryOutputRead
  BY DEF Settled
<1> QED
  BY <1>1, <1>2, <1>3, PTL DEF Spec

-----------------------------------------------------------------------------
(***************************************************************************)
(* The outputs of a filter and the filters that read them.                 *)
(***************************************************************************)

\* The outputs of f are numbered from 0, and the readers of each are its
\* connections, once each.
Ported(c, out, f) ==
  \E n \in 0 .. Len(c) :
    /\ DOMAIN out[f] = 0 .. n - 1
    /\ \A p \in DOMAIN out[f] :
         /\ out[f][p] \in Seq(DOMAIN c) /\ IsInjective(out[f][p])
         /\ Range(out[f][p]) = {i \in DOMAIN c : c[i].from = f /\ c[i].fromPort = p}

\* The filters that flow have all outputs that c calls for, others have none.
Wired(c, out) ==
  /\ DOMAIN out = Filters
  /\ \A f \in Filters : Ported(c, out, f) /\ (f \notin Flow(c) => DOMAIN out[f] = {})
  /\ \A i \in DOMAIN c : c[i].fromPort \in DOMAIN out[c[i].from] <=> c[i].from \in Flow(c)

LEMMA OutputsBound ==
  ASSUME NEW c \in Seq(Connection), NEW f
  PROVE  NumOutputs(c, f) \in 0 .. Len(c)
<1> DEFINE K == OutputsCounted(c, f)
           N == Len(c)
           T == {i \in 0 .. N : K[i] <= i}
<1>1. N \in Nat
  BY LenProperties
<1>2. /\ \A i \in 0 .. N : K[i] \in Nat
      /\ K[0] = 0
      /\ \A i \in 1 .. N : K[i] = K[i - 1] \/ K[i] = K[i - 1] + 1
  <2> HIDE DEF K
  <2> QED
    BY Counted DEF K
<1> HIDE DEF K, N
<1>3. 0 \in T
  BY <1>1, <1>2
<1>4. \A i \in 0 .. N - 1 : i \in T => i + 1 \in T
  <2> SUFFICES ASSUME NEW i \in 0 .. N - 1, i \in T PROVE i + 1 \in T
    OBVIOUS
  <2>1. i + 1 \in 1 .. N /\ (i + 1) - 1 = i /\ i + 1 \in 0 .. N /\ i \in 0 .. N
    BY <1>1
  <2>2. K[i + 1] = K[i] \/ K[i + 1] = K[i] + 1
    BY <1>2, <2>1
  <2>3. K[i] <= i /\ K[i] \in Nat /\ K[i + 1] \in Nat
    BY <1>2, <2>1
  <2> QED
    BY <2>1, <2>2, <2>3
<1>5. 0 .. N \subseteq T
  <2> HIDE DEF T
  <2> QED
    BY <1>1, <1>3, <1>4, UptoInduction
<1>6. N \in 0 .. N
  BY <1>1
<1>7. K[N] <= N /\ K[N] \in Nat
  BY <1>2, <1>5, <1>6
<1> QED
  BY <1>1, <1>7 DEF NumOutputs, K, N

LEMMA OutputsWired ==
  ASSUME NEW c \in Seq(Connection)
  PROVE  Wired(Numbered(c, Flow(c)), OutputsBuilt(c, Numbered(c, Flow(c)), Flow(c)))
<1> DEFINE R   == Flow(c)
           n   == Numbered(c, R)
           out == OutputsBuilt(c, n, R)
<1>1. /\ n \in Seq(Connection) /\ Len(n) = Len(c) /\ DOMAIN n = DOMAIN c
      /\ \A i \in DOMAIN c : n[i].from = c[i].from /\ n[i].to = c[i].to
  BY NumberedFacts
<1>2. Flow(n) = R
  <2> HIDE DEF n
  <2> QED
    BY <1>1, SameGraph
<1>3. /\ DOMAIN out = Filters
      /\ \A f \in Filters : \A p \in DOMAIN out[f] :
           Range(out[f][p]) = {i \in DOMAIN n : n[i].from = f /\ n[i].fromPort = p}
      /\ \A i \in DOMAIN n : n[i].fromPort \in DOMAIN out[n[i].from] <=> n[i].from \in R
  BY OutputsFit
<1>4. \A f \in Filters : out[f] =
        IF f \in R THEN [p \in 0 .. (NumOutputs(c, f) - 1) |-> ReadersOf(n, f, p)] ELSE << >>
  BY DEF OutputsBuilt
<1>5. DOMAIN << >> = {} /\ 0 .. 0 - 1 = {} /\ Len(c) \in Nat /\ DOMAIN n = 1 .. Len(c)
  BY <1>1, LenProperties
<1> HIDE DEF n, out, R
<1>6. ASSUME NEW f \in Filters PROVE Ported(n, out, f) /\ (f \notin R => DOMAIN out[f] = {})
  <2>1. CASE f \notin R
    <3>1. DOMAIN out[f] = 0 .. 0 - 1 /\ DOMAIN out[f] = {}
      BY <1>4, <1>5, <2>1
    <3>2. 0 \in 0 .. Len(n)
      BY <1>1, <1>5
    <3> QED
      BY <3>1, <3>2 DEF Ported
  <2>2. CASE f \in R
    <3>1. NumOutputs(c, f) \in 0 .. Len(n)
      BY <1>1, OutputsBound
    <3>2. /\ DOMAIN out[f] = 0 .. NumOutputs(c, f) - 1
          /\ \A p \in DOMAIN out[f] : out[f][p] = ReadersOf(n, f, p)
      BY <1>4, <2>2
    <3>3. ASSUME NEW p \in DOMAIN out[f]
          PROVE  out[f][p] \in Seq(DOMAIN n) /\ IsInjective(out[f][p])
      <4> DEFINE S == {i \in DOMAIN n : n[i].from = f /\ n[i].fromPort = p}
      <4>1. out[f][p] = InOrder(S)
        BY <3>2 DEF ReadersOf
      <4>2. S \in SUBSET Nat /\ S \in SUBSET (1 .. Len(c)) /\ S \subseteq DOMAIN n
        BY <1>5
      <4> HIDE DEF S
      <4>3. IsFiniteSet(S)
        <5>1. IsFiniteSet(1 .. Len(c))
          BY <1>5, FS_Interval
        <5> QED
          BY <4>2, <5>1, FS_Subset
      <4>4. InOrder(S) \in [1 .. Cardinality(S) -> S] /\ IsInjective(InOrder(S)) /\ Cardinality(S) \in Nat
        BY <4>2, <4>3, InOrderFacts
      <4>5. InOrder(S) \in [1 .. Cardinality(S) -> DOMAIN n]
        BY <4>2, <4>4
      <4> QED
        BY <4>1, <4>4, <4>5, SeqDef
    <3> QED
      BY <1>3, <2>2, <3>1, <3>2, <3>3 DEF Ported
  <2> QED
    BY <2>1, <2>2
<1>7. Wired(n, out)
  BY <1>2, <1>3, <1>6 DEF Wired
<1> QED
  BY <1>7 DEF n, out, R

\* The connections of the filters in M that have readers.
Wires(c, out, M) == {i \in DOMAIN c : c[i].from \in M /\ c[i].fromPort \in DOMAIN out[c[i].from]}

LEMMA WiresFinite ==
  ASSUME NEW c \in Seq(Connection), NEW out, NEW M
  PROVE  /\ IsFiniteSet(Wires(c, out, M))
         /\ Cardinality(Wires(c, out, M)) \in 0 .. Len(c)
<1> DEFINE N == Len(c)
<1>1. N \in Nat /\ Wires(c, out, M) \in SUBSET (1 .. N)
  BY LenProperties DEF Wires
<1> HIDE DEF N
<1>2. IsFiniteSet(1 .. N) /\ Cardinality(1 .. N) = N
  BY <1>1, FS_Interval
<1>3. IsFiniteSet(Wires(c, out, M)) /\ Cardinality(Wires(c, out, M)) <= N
  BY <1>1, <1>2, FS_Subset
<1>4. Cardinality(Wires(c, out, M)) \in Nat
  BY <1>3, FS_CardinalityType
<1> QED
  BY <1>1, <1>3, <1>4 DEF N

LEMMA ReadByFacts ==
  ASSUME NEW c \in Seq(Connection), NEW out, NEW f \in Filters, Ported(c, out, f)
  PROVE  /\ ReadBy(c, out, f) \in Seq(Filters)
         /\ Len(ReadBy(c, out, f)) = Cardinality(Wires(c, out, {f}))
         /\ Range(ReadBy(c, out, f)) = {c[i].to : i \in Wires(c, out, {f})}
<1> DEFINE D  == DOMAIN c
           W  == Wires(c, out, {f})
           ss == [k \in 1 .. Cardinality(DOMAIN out[f]) |-> out[f][k - 1]]
           order == FlattenSeq(ss)
<1>1. \A i \in D : c[i].to \in Filters
  BY ConnectionFields
<1>2. PICK n \in 0 .. Len(c) :
        /\ DOMAIN out[f] = 0 .. n - 1
        /\ \A p \in DOMAIN out[f] :
             /\ out[f][p] \in Seq(D) /\ IsInjective(out[f][p])
             /\ Range(out[f][p]) = {i \in D : c[i].from = f /\ c[i].fromPort = p}
  BY DEF Ported
<1>3. n \in Nat
  BY LenProperties
<1>4. Cardinality(DOMAIN out[f]) = n
  <2>1. 0 \in Int /\ n - 1 \in Int
    BY <1>3
  <2>2. Cardinality(0 .. (n - 1)) = IF 0 > n - 1 THEN 0 ELSE (n - 1) - 0 + 1
    BY <2>1, FS_Interval
  <2> QED
    BY <1>2, <1>3, <2>2
<1>5. /\ DOMAIN ss = 1 .. n
      /\ \A k \in 1 .. n : k - 1 \in DOMAIN out[f] /\ ss[k] = out[f][k - 1]
  BY <1>2, <1>3, <1>4
<1>6. ss \in Seq(Seq(D)) /\ Len(ss) = n
  <2> HIDE DEF ss, D
  <2>1. \A k \in 1 .. n : ss[k] \in Seq(D)
    BY <1>2, <1>5
  <2>2. ss \in [1 .. n -> Seq(D)]
    <3>1. ss = [k \in 1 .. n |-> ss[k]]
      BY <1>4 DEF ss
    <3> QED
      BY <2>1, <3>1
  <2>3. ss \in Seq(Seq(D))
    BY <1>3, <2>2, SeqDef
  <2> QED
    BY <1>3, <1>5, <2>3, LenProperties
<1> HIDE DEF ss
<1>7. Flat(order, D, ss, n)
  BY <1>6, FlattenFacts
<1>8. ReadBy(c, out, f) = [j \in DOMAIN order |-> c[order[j]].to]
  BY DEF ReadBy, ss
<1> HIDE DEF order, D
<1>9. order \in Seq(D) /\ Range(order) = UNION {Range(ss[k]) : k \in 1 .. n}
  BY <1>7 DEF Flat
<1>10. \A k \in 1 .. n : Range(ss[k]) = {i \in D : c[i].from = f /\ c[i].fromPort = k - 1}
  BY <1>2, <1>5
<1>11. Range(order) = W
  <2>1. ASSUME NEW i \in W PROVE \E k \in 1 .. n : i \in Range(ss[k])
    <3>1. i \in D /\ c[i].from = f /\ c[i].fromPort \in 0 .. n - 1
      BY <1>2 DEF Wires, D
    <3>2. c[i].fromPort + 1 \in 1 .. n /\ (c[i].fromPort + 1) - 1 = c[i].fromPort
      BY <1>3, <3>1
    <3> QED
      BY <1>10, <3>1, <3>2
  <2>2. ASSUME NEW k \in 1 .. n, NEW i \in Range(ss[k]) PROVE i \in W
    BY <1>5, <1>10, <2>2 DEF Wires, D
  <2> QED
    BY <1>9, <2>1, <2>2
<1>12. IsInjective(order)
  <2>1. \A k \in 1 .. n : IsInjective(ss[k])
    BY <1>2, <1>5
  <2>2. \A k, m \in 1 .. n : k # m => Range(ss[k]) \cap Range(ss[m]) = {}
    <3> SUFFICES ASSUME NEW k \in 1 .. n, NEW m \in 1 .. n, NEW i \in Range(ss[k]) \cap Range(ss[m])
                 PROVE  k = m
      OBVIOUS
    <3>1. c[i].fromPort = k - 1 /\ c[i].fromPort = m - 1
      BY <1>10
    <3> QED
      BY <1>3, <3>1
  <2> QED
    BY <1>7, <2>1, <2>2 DEF Flat
<1> DEFINE x == Len(order)
<1>13. x \in Nat /\ DOMAIN order = 1 .. x /\ order \in [1 .. x -> D]
  BY <1>9, LenProperties
<1> HIDE DEF x
<1>14. x = Cardinality(W)
  <2>1. IsFiniteSet(1 .. x) /\ Cardinality(1 .. x) = x
    BY <1>13, FS_Interval
  <2>2. Cardinality(Range(order)) = Cardinality(1 .. x)
    BY <1>12, <1>13, <2>1, ImageSize
  <2> QED
    BY <1>11, <2>1, <2>2
<1> DEFINE r == ReadBy(c, out, f)
<1>15. r = [j \in 1 .. x |-> c[order[j]].to]
  BY <1>8, <1>13
<1>16. r \in [1 .. x -> Filters]
  BY <1>1, <1>13, <1>15
<1>17. r \in Seq(Filters) /\ Len(r) = x
  <2> HIDE DEF r
  <2>1. r \in Seq(Filters)
    BY <1>13, <1>16, SeqDef
  <2>2. DOMAIN r = 1 .. x
    BY <1>16
  <2> QED
    BY <1>13, <2>1, <2>2, LenProperties
<1>18. Range(r) = {c[i].to : i \in W}
  <2>1. Range(order) = {order[j] : j \in 1 .. x}
    BY <1>13 DEF Range
  <2>2. Range(r) = {c[order[j]].to : j \in 1 .. x}
    <3> HIDE DEF r
    <3> QED
      BY <1>15 DEF Range
  <2>3. \A j \in 1 .. x : order[j] \in W
    BY <1>11, <2>1
  <2>4. \A i \in W : \E j \in 1 .. x : order[j] = i
    BY <1>11, <2>1
  <2> HIDE DEF W, r
  <2> QED
    BY <2>2, <2>3, <2>4
<1> QED
  BY <1>14, <1>17, <1>18

-----------------------------------------------------------------------------
(***************************************************************************)
(* The recursion of AllocateBuffer() and MapRingBuffers().                 *)
(***************************************************************************)
LEMMA FlowClosed ==
  ASSUME NEW c \in Seq(Connection)
  PROVE  \A i \in DOMAIN c : c[i].from \in Flow(c) => c[i].to \in Flow(c)
<1>1. \A i \in DOMAIN c : c[i].to \in Filters
  BY ConnectionFields
<1>2. ASSUME NEW i \in DOMAIN c, c[i].from \in Flow(c),
             NEW X \in SUBSET Filters, Roots(c) \subseteq X,
             \A k \in DOMAIN c : c[k].from \in X => c[k].to \in X
      PROVE  c[i].to \in X
  BY <1>2 DEF Flow, Reached
<1> QED
  BY <1>1, <1>2 DEF Flow, Reached

\* f is a source, or read one of the first k - 1 filters met.
Led(c, from, met, k, f) ==
  f \in Range(from) \/ \E j \in 1 .. k - 1, i \in DOMAIN c : c[i].from = met[j] /\ c[i].to = f

\* Where the recursion from the sources is after n steps.  Every step is the
\* end of a call, and calls are made for sources and readers of filters met.
Walked(c, out, from, w, n) ==
  /\ w \in [met : Seq(Filters), todo : Seq(Filters)]
  /\ IsInjective(w.met)
  /\ Range(from) \subseteq Range(w.met) \cup Range(w.todo)
  /\ \A i \in Wires(c, out, Range(w.met)) : c[i].to \in Range(w.met) \cup Range(w.todo)
  /\ \A k \in DOMAIN w.met : Led(c, from, w.met, k, w.met[k])
  /\ \A f \in Range(w.todo) : Led(c, from, w.met, Len(w.met) + 1, f)
  /\ w.todo # <<>> =>
       n + Len(w.todo) <= Len(from) + Cardinality(Wires(c, out, Range(w.met)))

LEMMA HeadAndTail ==
  ASSUME NEW S, NEW s \in Seq(S), s # << >>
  PROVE  /\ Head(s) \in S /\ Tail(s) \in Seq(S)
         /\ Len(s) \in Nat \ {0} /\ Len(Tail(s)) = Len(s) - 1
         /\ Range(s) = {Head(s)} \cup Range(Tail(s))
<1> DEFINE t == Tail(s)
<1>1. /\ Head(s) \in S /\ t \in Seq(S) /\ Len(t) = Len(s) - 1
      /\ \A i \in 1 .. Len(t) : t[i] = s[i + 1]
  BY HeadTailProperties
<1>2. Len(s) \in Nat \ {0} /\ DOMAIN s = 1 .. Len(s)
  BY LenProperties, EmptySeq
<1>3. Head(s) = s[1]
  OBVIOUS
<1> HIDE DEF t
<1>4. DOMAIN t = 1 .. Len(s) - 1
  BY <1>1, LenProperties
<1>5. ASSUME NEW i \in DOMAIN s PROVE s[i] \in {Head(s)} \cup Range(t)
  <2>1. CASE i = 1
    BY <1>3, <2>1
  <2>2. CASE i # 1
    <3>1. i - 1 \in 1 .. Len(t) /\ (i - 1) + 1 = i /\ i - 1 \in DOMAIN t
      BY <1>1, <1>2, <1>4, <2>2
    <3>2. t[i - 1] = s[i]
      BY <1>1, <3>1
    <3> QED
      BY <3>1, <3>2 DEF Range
  <2> QED
    BY <2>1, <2>2
<1>6. ASSUME NEW i \in DOMAIN t PROVE t[i] \in Range(s)
  <2>1. i \in 1 .. Len(t) /\ i + 1 \in DOMAIN s
    BY <1>1, <1>2, <1>4
  <2> QED
    BY <1>1, <2>1 DEF Range
<1>7. Head(s) \in Range(s)
  <2>1. 1 \in DOMAIN s
    BY <1>2
  <2> QED
    BY <1>3, <2>1 DEF Range
<1>8. Range(s) = {Head(s)} \cup Range(t)
  BY <1>5, <1>6, <1>7 DEF Range
<1> QED
  BY <1>1, <1>2, <1>8 DEF t

LEMMA WalkStep ==
  ASSUME NEW c \in Seq(Connection), NEW out, Wired(c, out), NEW from,
         Len(from) \in Nat, NEW w, NEW n \in Nat, Walked(c, out, from, w, n)
  PROVE  Walked(c, out, from, MeetNext(c, out, w), n + 1)
<1> DEFINE met  == w.met
           todo == w.todo
           v    == MeetNext(c, out, w)
           C(M) == Cardinality(Wires(c, out, M))
<1>1. /\ w \in [met : Seq(Filters), todo : Seq(Filters)]
      /\ met \in Seq(Filters) /\ todo \in Seq(Filters) /\ IsInjective(met)
      /\ Range(from) \subseteq Range(met) \cup Range(todo)
      /\ \A i \in Wires(c, out, Range(met)) : c[i].to \in Range(met) \cup Range(todo)
      /\ \A k \in DOMAIN met : Led(c, from, met, k, met[k])
      /\ \A f \in Range(todo) : Led(c, from, met, Len(met) + 1, f)
      /\ todo # <<>> => n + Len(todo) <= Len(from) + C(Range(met))
  BY DEF Walked
<1>2. CASE todo = << >>
  <2>1. v = w
    BY <1>2 DEF MeetNext
  <2> QED
    BY <1>2, <2>1 DEF Walked
<1>3. ASSUME todo # << >>
      PROVE  /\ Head(todo) \in Filters /\ Tail(todo) \in Seq(Filters)
             /\ Len(todo) \in Nat \ {0} /\ Len(Tail(todo)) = Len(todo) - 1
             /\ Range(todo) = {Head(todo)} \cup Range(Tail(todo))
  <2> HIDE DEF todo
  <2> QED
    BY <1>1, <1>3, HeadAndTail
<1>4. \A M : C(M) \in Nat
  <2>1. \A M : C(M) \in 0 .. Len(c)
    BY WiresFinite
  <2> HIDE DEF C
  <2> QED
    BY <2>1
<1>5. CASE todo # << >> /\ Head(todo) \in Range(met)
  <2>1. v.met = met /\ v.todo = Tail(todo) /\ v \in [met : Seq(Filters), todo : Seq(Filters)]
    BY <1>1, <1>3, <1>5 DEF MeetNext
  <2>2. Range(met) \cup Range(todo) = Range(met) \cup Range(Tail(todo))
    <3> HIDE DEF met, todo
    <3> QED
      BY <1>3, <1>5
  <2>3. (n + 1) + Len(Tail(todo)) <= Len(from) + C(Range(met))
    <3> HIDE DEF met, todo, C
    <3> QED
      BY <1>1, <1>3, <1>4, <1>5
  <2>4. Range(Tail(todo)) \subseteq Range(todo)
    BY <1>3, <1>5
  <2> HIDE DEF met, todo, v, C
  <2>5. /\ Range(from) \subseteq Range(v.met) \cup Range(v.todo)
        /\ \A i \in Wires(c, out, Range(v.met)) : c[i].to \in Range(v.met) \cup Range(v.todo)
        /\ \A k \in DOMAIN v.met : Led(c, from, v.met, k, v.met[k])
        /\ \A f \in Range(v.todo) : Led(c, from, v.met, Len(v.met) + 1, f)
    BY <1>1, <2>1, <2>2, <2>4
  <2> QED
    BY <1>1, <2>1, <2>3, <2>5 DEF Walked, C, v
<1>6. CASE todo # << >> /\ Head(todo) \notin Range(met)
  <2> DEFINE h == Head(todo)
             read == ReadBy(c, out, h)
             x == Len(met)
             H == Wires(c, out, {h})
  <2>1. v = [met |-> Append(met, h), todo |-> read \o Tail(todo)]
    BY <1>6 DEF MeetNext
  <2>2. /\ read \in Seq(Filters) /\ Len(read) = Cardinality(H)
        /\ Range(read) = {c[i].to : i \in H}
    <3>1. h \in Filters
      BY <1>3, <1>6
    <3>2. Ported(c, out, h)
      BY <3>1 DEF Wired
    <3> HIDE DEF h
    <3> QED
      BY <3>1, <3>2, ReadByFacts
  <2>3. /\ v.met = Append(met, h) /\ v.todo = read \o Tail(todo)
    <3> HIDE DEF v, met, h, read, todo
    <3> QED
      BY <2>1
  <2>4. /\ v.todo \in Seq(Filters) /\ Len(v.todo) = Len(read) + Len(Tail(todo))
        /\ Range(v.todo) = Range(read) \cup Range(Tail(todo))
    <3> DEFINE t == Tail(todo)
    <3>1. t \in Seq(Filters) /\ read \in Seq(Filters)
      BY <1>3, <1>6, <2>2
    <3> HIDE DEF read, v, t, met, h, H, todo
    <3>2. /\ read \o t \in Seq(Filters) /\ Len(read \o t) = Len(read) + Len(t)
          /\ Range(read \o t) = Range(read) \cup Range(t)
      BY <3>1, JoinedLists
    <3> QED
      BY <2>3, <3>2 DEF t
  <2>5. x \in Nat /\ DOMAIN met = 1 .. x
    <3> HIDE DEF met
    <3> QED
      BY <1>1, LenProperties
  <2> HIDE DEF x
  <2>6. /\ v.met \in Seq(Filters) /\ DOMAIN v.met = 1 .. x + 1 /\ Len(v.met) = x + 1
        /\ \A i \in DOMAIN met : v.met[i] = met[i]
        /\ v.met[x + 1] = h
        /\ Range(v.met) = Range(met) \cup {h} /\ IsInjective(v.met)
    <3>1. \A s : Range(s) = ToSet(s)
      BY DEF Range, ToSet
    <3>2. h \in Filters /\ h \notin ToSet(met)
      BY <1>3, <1>6, <3>1
    <3> HIDE DEF met, h, v
    <3>3. /\ Append(met, h) \in Seq(Filters) /\ DOMAIN Append(met, h) = 1 .. Len(met) + 1
          /\ Len(Append(met, h)) = Len(met) + 1
          /\ \A i \in DOMAIN met : Append(met, h)[i] = met[i]
          /\ Append(met, h)[Len(met) + 1] = h
          /\ ToSet(Append(met, h)) = ToSet(met) \cup {h}
      BY <1>1, <3>2, AppendedList
    <3>4. IsInjective(Append(met, h))
      BY <1>1, <3>2, AppendedOnce
    <3> QED
      BY <2>3, <3>1, <3>3, <3>4 DEF x
  <2>7. /\ Wires(c, out, Range(v.met)) = Wires(c, out, Range(met)) \cup H
        /\ Wires(c, out, Range(met)) \cap H = {}
    <3>1. h \notin Range(met)
      BY <1>6
    <3> HIDE DEF met, v, h
    <3> QED
      BY <2>6, <3>1 DEF Wires
  <2>8. C(Range(v.met)) = C(Range(met)) + Cardinality(H)
    <3>1. IsFiniteSet(Wires(c, out, Range(met))) /\ IsFiniteSet(H)
      BY WiresFinite
    <3> HIDE DEF v, met, H
    <3>2. Cardinality(Wires(c, out, Range(met)) \cap H) = 0
      BY <2>7, FS_EmptySet
    <3>3. Cardinality(Wires(c, out, Range(met)) \cup H) =
            Cardinality(Wires(c, out, Range(met))) + Cardinality(H)
              - Cardinality(Wires(c, out, Range(met)) \cap H)
      BY <3>1, FS_Union
    <3>4. Cardinality(H) \in Nat
      BY <3>1, FS_CardinalityType
    <3>5. Cardinality(Wires(c, out, Range(met))) \in Nat
      BY <3>1, FS_CardinalityType
    <3> QED
      BY <2>7, <3>2, <3>3, <3>4, <3>5
  <2>9. (n + 1) + Len(v.todo) <= Len(from) + C(Range(v.met))
    <3>1. C(Range(met)) \in Nat /\ Cardinality(H) \in Nat
      BY <1>4
    <3>2. n + Len(todo) <= Len(from) + C(Range(met)) /\ Len(todo) \in Nat \ {0}
          /\ Len(Tail(todo)) = Len(todo) - 1
      BY <1>1, <1>3, <1>6
    <3> HIDE DEF C, H, v, todo, met, read
    <3> QED
      BY <2>2, <2>4, <2>8, <3>1, <3>2
  <2>10. Range(todo) = {h} \cup Range(Tail(todo))
    BY <1>3, <1>6
  <2> HIDE DEF met, todo, v, h, read, C, H
  <2>11. Range(v.met) \cup Range(v.todo) = Range(met) \cup Range(todo) \cup Range(read)
    BY <2>4, <2>6, <2>10
  <2>12. \A i \in Wires(c, out, Range(v.met)) : c[i].to \in Range(v.met) \cup Range(v.todo)
    BY <1>1, <2>2, <2>7, <2>11
  <2>13. ASSUME NEW k \in 1 .. x + 1, NEW f, Led(c, from, met, k, f)
         PROVE  \A m \in {k, x + 2} : Led(c, from, v.met, m, f)
    <3>1. CASE f \in Range(from)
      BY <3>1 DEF Led
    <3>2. CASE \E j \in 1 .. k - 1, i \in DOMAIN c : c[i].from = met[j] /\ c[i].to = f
      <4>1. PICK j \in 1 .. k - 1, i \in DOMAIN c : c[i].from = met[j] /\ c[i].to = f
        BY <3>2
      <4>2. j \in DOMAIN met /\ \A m \in {k, x + 2} : j \in 1 .. m - 1
        BY <2>5
      <4>3. c[i].from = v.met[j]
        BY <2>6, <4>1, <4>2
      <4> QED
        BY <4>1, <4>2, <4>3 DEF Led
    <3> QED
      BY <2>13, <3>1, <3>2 DEF Led
  <2>14. \A f \in Range(todo) : Led(c, from, met, x + 1, f)
    BY <1>1 DEF x
  <2>15. x + 1 \in 1 .. x + 1 /\ (x + 2) - 1 = x + 1 /\ x + 1 + 1 = x + 2
    BY <2>5
  <2>16. ASSUME NEW k \in DOMAIN v.met PROVE Led(c, from, v.met, k, v.met[k])
    <3>1. CASE k = x + 1
      BY <2>6, <2>10, <2>13, <2>14, <2>15, <3>1
    <3>2. CASE k # x + 1
      <4>1. k \in DOMAIN met /\ k \in 1 .. x + 1
        BY <2>5, <2>6, <3>2
      <4>2. Led(c, from, met, k, met[k]) /\ v.met[k] = met[k]
        BY <1>1, <2>6, <4>1
      <4> QED
        BY <2>13, <4>1, <4>2
    <3> QED
      BY <3>1, <3>2
  <2>17. ASSUME NEW f \in Range(v.todo) PROVE Led(c, from, v.met, x + 2, f)
    <3>1. CASE f \in Range(Tail(todo))
      BY <2>10, <2>13, <2>14, <2>15, <3>1
    <3>2. CASE f \in Range(read)
      <4>1. PICK i \in H : c[i].to = f
        BY <2>2, <3>2
      <4>2. i \in DOMAIN c /\ c[i].from = h
        BY DEF H, Wires
      <4> QED
        BY <2>6, <2>15, <4>1, <4>2 DEF Led
    <3> QED
      BY <2>4, <3>1, <3>2
  <2>18. v \in [met : Seq(Filters), todo : Seq(Filters)]
    BY <2>1, <2>3, <2>4, <2>6
  <2>19. Range(from) \subseteq Range(v.met) \cup Range(v.todo)
    BY <1>1, <2>11
  <2>20. \A f \in Range(v.todo) : Led(c, from, v.met, Len(v.met) + 1, f)
    BY <2>6, <2>15, <2>17
  <2> QED
    BY <2>6, <2>9, <2>12, <2>16, <2>18, <2>19, <2>20 DEF Walked, C, v
<1> QED
  BY <1>2, <1>5, <1>6

LEMMA WalkStart ==
  ASSUME NEW c, NEW out, NEW from \in Seq(Filters)
  PROVE  Walked(c, out, from, [met |-> << >>, todo |-> from], 0)
<1> DEFINE w == [met |-> << >>, todo |-> from]
<1>1. << >> \in Seq(Filters) /\ Len(<< >>) = 0 /\ DOMAIN << >> = {}
  BY EmptySeq
<1>2. Range(<< >>) = {} /\ IsInjective(<< >>)
  BY <1>1 DEF Range, IsInjective
<1>3. w \in [met : Seq(Filters), todo : Seq(Filters)] /\ w.met = << >> /\ w.todo = from
  BY <1>1
<1>4. Wires(c, out, {}) = {} /\ Cardinality({}) = 0
  BY FS_EmptySet DEF Wires
<1>5. Len(from) \in Nat
  BY LenProperties
<1>6. 0 + Len(from) <= Len(from) + 0
  BY <1>5
<1> HIDE DEF w
<1> QED
  BY <1>1, <1>2, <1>3, <1>4, <1>6 DEF Walked, Led, w

\* There are enough steps for all calls.
LEMMA WalkEnds ==
  ASSUME NEW c \in Seq(Connection), NEW out, Wired(c, out), NEW from \in Seq(Filters)
  PROVE  \E w : /\ Walked(c, out, from, w, Len(from) + Len(c)) /\ w.todo = << >>
                /\ FiltersMet(c, out, from) = w.met
<1> DEFINE N == Len(from) + Len(c)
           V == [met : Seq(Filters), todo : Seq(Filters)]
           a == [met |-> << >>, todo |-> from]
           Is(k) == k = [n \in 0 .. (Len(from) + Len(c)) |->
                           IF n = 0 THEN [met |-> << >>, todo |-> from]
                           ELSE MeetNext(c, out, k[n - 1])]
           walk == CHOOSE k : Is(k)
           step == [i \in 1 .. N |-> [w \in V |-> MeetNext(c, out, w)]]
<1>1. Len(from) \in Nat /\ Len(c) \in Nat /\ N \in Nat
  BY LenProperties
<1>2. ASSUME NEW w \in V PROVE MeetNext(c, out, w) \in V
  <2>1. CASE w.todo = << >>
    BY <2>1 DEF MeetNext
  <2>2. CASE w.todo # << >>
    <3>1. w.met \in Seq(Filters) /\ w.todo \in Seq(Filters)
      OBVIOUS
    <3> DEFINE t == w.todo
    <3>2. Head(t) \in Filters /\ Tail(t) \in Seq(Filters)
      <4>1. t \in Seq(Filters) /\ t # << >>
        BY <2>2
      <4> HIDE DEF t
      <4> QED
        BY <4>1, HeadAndTail
    <3>3. ReadBy(c, out, Head(t)) \in Seq(Filters)
      <4>1. Ported(c, out, Head(t))
        BY <3>2 DEF Wired
      <4> HIDE DEF t
      <4> QED
        BY <3>2, <4>1, ReadByFacts
    <3>4. ReadBy(c, out, Head(t)) \o Tail(t) \in Seq(Filters) /\ Append(w.met, Head(t)) \in Seq(Filters)
      <4> HIDE DEF t
      <4> QED
        BY <3>1, <3>2, <3>3, ConcatProperties, AppendProperties
    <3> QED
      BY <2>2, <3>2, <3>4 DEF MeetNext
  <2> QED
    BY <2>1, <2>2
<1>3. step \in [1 .. N -> [V -> V]]
  <2> HIDE DEF V, N
  <2> QED
    BY <1>2
<1>4. a \in V
  BY EmptySeq
<1>5. PICK g : Stepwise(g, V, a, N, step)
  <2> HIDE DEF N, V, a, step
  <2> QED
    BY <1>1, <1>3, <1>4, StepwiseExists
<1>6. /\ g \in [0 .. N -> V] /\ g[0] = a
      /\ \A i \in 1 .. N : g[i] = MeetNext(c, out, g[i - 1])
  <2>1. /\ g \in [0 .. N -> V] /\ g[0] = a
        /\ \A i \in 1 .. N : g[i] = step[i][g[i - 1]]
    BY <1>5 DEF Stepwise
  <2>2. \A i \in 1 .. N : i - 1 \in 0 .. N
    BY <1>1
  <2> HIDE DEF N, V, a
  <2> QED
    BY <2>1, <2>2
<1> HIDE DEF N, V, step
<1>7. Is(g)
  <2>1. \A n \in 0 .. N : n # 0 => n \in 1 .. N
    BY <1>1
  <2>2. \A n \in 0 .. N : g[n] = IF n = 0 THEN [met |-> << >>, todo |-> from]
                                 ELSE MeetNext(c, out, g[n - 1])
    BY <1>6, <2>1
  <2>3. g = [n \in 0 .. N |-> g[n]]
    BY <1>6
  <2>4. g = [n \in 0 .. N |-> IF n = 0 THEN [met |-> << >>, todo |-> from]
                              ELSE MeetNext(c, out, g[n - 1])]
    BY <2>2, <2>3
  <2> QED
    BY <2>4 DEF N
<1>8. Is(walk)
  <2> HIDE DEF Is
  <2> QED
    BY <1>7
<1>9. FiltersMet(c, out, from) = walk[N].met
  BY DEF FiltersMet, N
<1> HIDE DEF walk
<1>10. \A n \in 0 .. N : walk[n] = IF n = 0 THEN a ELSE MeetNext(c, out, walk[n - 1])
  BY <1>8 DEF N
<1> HIDE DEF Is, a
<1> DEFINE T == {n \in 0 .. N : Walked(c, out, from, walk[n], n)}
<1>11. 0 \in T
  <2>1. 0 \in 0 .. N
    BY <1>1
  <2>2. Walked(c, out, from, a, 0)
    BY WalkStart DEF a
  <2>3. walk[0] = a
    BY <1>10, <2>1
  <2> QED
    BY <2>1, <2>2, <2>3
<1>12. ASSUME NEW n \in 0 .. N - 1, n \in T PROVE n + 1 \in T
  <2>1. n + 1 \in 0 .. N /\ n + 1 # 0 /\ (n + 1) - 1 = n /\ n \in Nat
    BY <1>1
  <2>2. walk[n + 1] = MeetNext(c, out, walk[n])
    BY <1>10, <2>1
  <2>3. Walked(c, out, from, walk[n], n)
    BY <1>12
  <2>4. Walked(c, out, from, MeetNext(c, out, walk[n]), n + 1)
    BY <1>1, <2>1, <2>3, WalkStep
  <2> QED
    BY <2>1, <2>2, <2>4
<1>13. 0 .. N \subseteq T
  <2> HIDE DEF T
  <2> QED
    BY <1>1, <1>11, <1>12, UptoInduction
<1>14. Walked(c, out, from, walk[N], N)
  <2>1. N \in 0 .. N
    BY <1>1
  <2> QED
    BY <1>13, <2>1
<1>15. walk[N].todo = << >>
  <2> DEFINE t == walk[N].todo
             K == Cardinality(Wires(c, out, Range(walk[N].met)))
  <2> SUFFICES ASSUME t # << >> PROVE FALSE
    OBVIOUS
  <2>1. N + Len(t) <= Len(from) + K
    BY <1>14 DEF Walked
  <2>2. t \in Seq(Filters)
    BY <1>14 DEF Walked
  <2>3. K \in 0 .. Len(c)
    BY WiresFinite
  <2> HIDE DEF t, K
  <2>4. Len(t) \in Nat \ {0}
    BY <2>2, HeadAndTail
  <2> QED
    BY <1>1, <2>1, <2>3, <2>4 DEF N
<1> QED
  BY <1>9, <1>14, <1>15 DEF N

\* Every filter that flows is met, once, and behind one that feeds it unless
\* it is a source.
LEMMA MetFacts ==
  ASSUME NEW c \in Seq(Connection), NEW out, Wired(c, out),
         NEW from \in Seq(Filters), Range(from) = Roots(c)
  PROVE  LET met == FiltersMet(c, out, from)
         IN  /\ met \in Seq(Filters) /\ IsInjective(met) /\ Range(met) = Flow(c)
             /\ \A k \in DOMAIN met : Led(c, from, met, k, met[k])
<1>1. PICK w : /\ Walked(c, out, from, w, Len(from) + Len(c)) /\ w.todo = << >>
               /\ FiltersMet(c, out, from) = w.met
  BY WalkEnds
<1> DEFINE met == w.met
           M   == Range(met)
<1>2. /\ met \in Seq(Filters) /\ IsInjective(met)
      /\ \A k \in DOMAIN met : Led(c, from, met, k, met[k])
      /\ Range(from) \subseteq M
      /\ \A i \in Wires(c, out, M) : c[i].to \in M
  <2>1. Range(w.todo) = {}
    BY <1>1 DEF Range
  <2> QED
    BY <1>1, <2>1 DEF Walked
<1> HIDE DEF met
<1>3. Len(met) \in Nat /\ DOMAIN met = 1 .. Len(met)
  BY <1>2, LenProperties
<1>4. M \subseteq Flow(c)
  <2> DEFINE S == {k \in DOMAIN met : met[k] \notin Flow(c)}
  <2> SUFFICES ASSUME S # {} PROVE FALSE
    BY DEF Range
  <2>1. PICK k \in S : \A j \in S : k <= j
    <3>1. S \in SUBSET Nat
      BY <1>3
    <3> HIDE DEF S
    <3> QED
      BY <3>1, LeastNatural
  <2>2. k \in 1 .. Len(met) /\ Led(c, from, met, k, met[k])
    BY <1>2, <1>3
  <2>3. CASE met[k] \in Range(from)
    BY <2>3, RootsFlow
  <2>4. CASE \E j \in 1 .. k - 1, i \in DOMAIN c : c[i].from = met[j] /\ c[i].to = met[k]
    <3>1. PICK j \in 1 .. k - 1, i \in DOMAIN c : c[i].from = met[j] /\ c[i].to = met[k]
      BY <2>4
    <3>2. j \in DOMAIN met /\ j \notin S
      <4>1. j \in 1 .. Len(met) /\ ~(k <= j)
        BY <1>3, <2>2
      <4> QED
        BY <1>3, <2>1, <4>1
    <3>3. met[k] \in Flow(c)
      BY <3>1, <3>2, FlowClosed
    <3> QED
      BY <3>3
  <2> QED
    BY <2>2, <2>3, <2>4 DEF Led
<1>5. Flow(c) \subseteq M
  <2>1. \A i \in DOMAIN c : c[i].from \in M => c[i].to \in M
    <3>1. \A i \in DOMAIN c : c[i].from \in M => i \in Wires(c, out, M)
      BY <1>4 DEF Wires, Wired
    <3> QED
      BY <1>2, <3>1
  <2>2. Roots(c) \subseteq M
    BY <1>2
  <2>3. M \in SUBSET Filters
    BY <1>4, RootsFlow
  <2> HIDE DEF M
  <2> QED
    BY <2>1, <2>2, <2>3 DEF Flow, Reached
<1> QED
  BY <1>1, <1>2, <1>4, <1>5 DEF met

LEMMA PortsFacts ==
  ASSUME NEW c \in Seq(Connection), NEW out, Wired(c, out), Len(c) <= MaxConnections,
         NEW f \in Filters
  PROVE  /\ Ports(out, f) \in Seq(Outputs)
         /\ Range(Ports(out, f)) = {<<f, p>> : p \in DOMAIN out[f]}
         /\ \A p \in DOMAIN out[f] : <<f, p>> \in OutputsOf(out) /\ 0 \in DOMAIN out[f]
<1>1. PICK n \in 0 .. Len(c) : DOMAIN out[f] = 0 .. n - 1
  BY DEF Wired, Ported
<1>2. n \in Nat /\ n <= MaxConnections /\ MaxConnections \in Nat
  BY LenProperties, StreamAssumption
<1>3. Cardinality(DOMAIN out[f]) = n
  <2>1. 0 \in Int /\ n - 1 \in Int
    BY <1>2
  <2>2. Cardinality(0 .. (n - 1)) = IF 0 > n - 1 THEN 0 ELSE (n - 1) - 0 + 1
    BY <2>1, FS_Interval
  <2> QED
    BY <1>1, <1>2, <2>2
<1> DEFINE r == Ports(out, f)
<1>4. r = [k \in 1 .. n |-> <<f, k - 1>>]
  BY <1>3 DEF Ports
<1>5. \A k \in 1 .. n : k - 1 \in 0 .. n - 1 /\ k - 1 \in 0 .. (MaxConnections - 1)
  BY <1>2
<1>6. \A p \in 0 .. n - 1 : p + 1 \in 1 .. n /\ (p + 1) - 1 = p /\ p \in 0 .. (MaxConnections - 1)
                            /\ 0 \in 0 .. n - 1
  BY <1>2
<1> HIDE DEF r
<1>7. r \in Seq(Outputs)
  <2>1. r \in [1 .. n -> Outputs]
    BY <1>4, <1>5 DEF Outputs
  <2> QED
    BY <1>2, <2>1, SeqDef
<1>8. Range(r) = {<<f, p>> : p \in DOMAIN out[f]}
  <2>1. Range(r) = {<<f, k - 1>> : k \in 1 .. n}
    BY <1>4 DEF Range
  <2> QED
    BY <1>1, <1>5, <1>6, <2>1
<1>9. \A p \in DOMAIN out[f] : <<f, p>> \in OutputsOf(out) /\ 0 \in DOMAIN out[f]
  BY <1>1, <1>6 DEF OutputsOf, Outputs
<1> QED
  BY <1>7, <1>8, <1>9 DEF r

\* All outputs are met, those of a filter behind those of the filters that
\* were met before it.
LEMMA OutputsMetFacts ==
  ASSUME NEW c \in Seq(Connection), NEW out, Wired(c, out), Len(c) <= MaxConnections,
         NEW from \in Seq(Filters), Range(from) = Roots(c)
  PROVE  LET met  == FiltersMet(c, out, from)
             outs == OutputsMet(c, out, from)
         IN  /\ outs \in Seq(Outputs) /\ Range(outs) = OutputsOf(out)
             /\ \A i \in DOMAIN outs : \E m \in DOMAIN met :
                  /\ outs[i][1] = met[m]
                  /\ \A o \in OutputsOf(out) : \A k \in 1 .. m - 1 :
                       o[1] = met[k] => o \in FirstOnes(outs, i)
<1> DEFINE met  == FiltersMet(c, out, from)
           outs == OutputsMet(c, out, from)
           ss   == [k \in DOMAIN met |-> Ports(out, met[k])]
           N    == Len(met)
<1>1. met \in Seq(Filters) /\ Range(met) = Flow(c)
  BY MetFacts
<1>2. outs = FlattenSeq(ss)
  BY DEF OutputsMet
<1> HIDE DEF met, outs
<1>3. N \in Nat /\ DOMAIN met = 1 .. N /\ \A k \in 1 .. N : met[k] \in Filters
  BY <1>1, LenProperties, ElementOfSeq
<1> HIDE DEF N
<1>4. \A k \in 1 .. N : /\ ss[k] \in Seq(Outputs)
                        /\ Range(ss[k]) = {<<met[k], p>> : p \in DOMAIN out[met[k]]}
  BY <1>3, PortsFacts
<1>5. DOMAIN ss = 1 .. N /\ ss = [k \in 1 .. N |-> ss[k]]
  BY <1>3
<1> HIDE DEF ss
<1>6. ss \in Seq(Seq(Outputs)) /\ Len(ss) = N
  <2>1. ss \in [1 .. N -> Seq(Outputs)]
    BY <1>4, <1>5
  <2>2. ss \in Seq(Seq(Outputs))
    BY <1>3, <2>1, SeqDef
  <2> QED
    BY <1>3, <1>5, <2>2, LenProperties
<1>7. Flat(outs, Outputs, ss, N)
  BY <1>2, <1>6, FlattenFacts
<1>8. /\ outs \in Seq(Outputs)
      /\ Range(outs) = UNION {Range(ss[k]) : k \in 1 .. N}
      /\ \A i \in DOMAIN outs : \E m \in 1 .. N :
           /\ outs[i] \in Range(ss[m])
           /\ \A k \in 1 .. m - 1 : Range(ss[k]) \subseteq FirstOnes(outs, i)
  BY <1>7 DEF Flat
<1>9. ASSUME NEW o \in OutputsOf(out)
      PROVE  \A k \in 1 .. N : o[1] = met[k] => o \in Range(ss[k])
  <2>1. o[2] \in DOMAIN out[o[1]] /\ o = <<o[1], o[2]>>
    BY DEF OutputsOf, Outputs
  <2> QED
    BY <1>4, <2>1
<1>10. Range(outs) = OutputsOf(out)
  <2>1. ASSUME NEW k \in 1 .. N, NEW x \in Range(ss[k]) PROVE x \in OutputsOf(out)
    <3>1. PICK p \in DOMAIN out[met[k]] : x = <<met[k], p>>
      BY <1>4
    <3> QED
      BY <1>3, <3>1, PortsFacts
  <2>2. ASSUME NEW o \in OutputsOf(out) PROVE \E k \in 1 .. N : o \in Range(ss[k])
    <3>1. o[1] \in Filters /\ o[2] \in DOMAIN out[o[1]]
      BY DEF OutputsOf, Outputs
    <3>2. o[1] \in Flow(c)
      BY <3>1 DEF Wired
    <3>3. PICK k \in 1 .. N : met[k] = o[1]
      BY <1>1, <1>3, <3>2 DEF Range
    <3> QED
      BY <1>9, <3>3
  <2> QED
    BY <1>8, <2>1, <2>2
<1>11. ASSUME NEW i \in DOMAIN outs
       PROVE  \E m \in DOMAIN met :
                /\ outs[i][1] = met[m]
                /\ \A o \in OutputsOf(out) : \A k \in 1 .. m - 1 :
                     o[1] = met[k] => o \in FirstOnes(outs, i)
  <2>1. PICK m \in 1 .. N :
          /\ outs[i] \in Range(ss[m])
          /\ \A k \in 1 .. m - 1 : Range(ss[k]) \subseteq FirstOnes(outs, i)
    BY <1>8
  <2>2. PICK p \in DOMAIN out[met[m]] : outs[i] = <<met[m], p>>
    BY <1>4, <2>1
  <2>3. \A k \in 1 .. m - 1 : k \in 1 .. N
    BY <1>3
  <2>4. m \in DOMAIN met /\ outs[i][1] = met[m]
    BY <1>3, <2>2
  <2>5. ASSUME NEW o \in OutputsOf(out), NEW k \in 1 .. m - 1, o[1] = met[k]
        PROVE  o \in FirstOnes(outs, i)
    <3>1. k \in 1 .. N
      BY <2>3
    <3>2. o \in Range(ss[k])
      BY <1>9, <2>5, <3>1
    <3> QED
      BY <2>1, <3>2
  <2>6. \A o \in OutputsOf(out) : \A k \in 1 .. m - 1 :
          o[1] = met[k] => o \in FirstOnes(outs, i)
    BY <2>5
  <2> QED
    BY <2>4, <2>6
<1> QED
  BY <1>8, <1>10, <1>11 DEF met, outs

-----------------------------------------------------------------------------
(***************************************************************************)
(* The way up a list of pass-through outputs.                              *)
(***************************************************************************)

\* up is the way from o by the links l, of n steps.
Ascent(up, l, V, o, n) ==
  /\ up \in [0 .. n -> V] /\ up[0] = o
  /\ \A k \in 1 .. n : up[k] = IF up[k - 1] \in DOMAIN l THEN l[up[k - 1]] ELSE up[k - 1]

LEMMA TopAscent ==
  ASSUME NEW l, NEW V, IsFiniteSet(DOMAIN l), l \in [DOMAIN l -> V], NEW o \in V
  PROVE  \E up : /\ Ascent(up, l, V, o, Cardinality(DOMAIN l))
                 /\ Top(l, o) = up[Cardinality(DOMAIN l)]
<1> DEFINE n == Cardinality(DOMAIN l)
           Is(up) == up = [k \in 0 .. n |->
                             IF k > 0 /\ up[k - 1] \in DOMAIN l THEN l[up[k - 1]]
                             ELSE IF k > 0 THEN up[k - 1] ELSE o]
           up == CHOOSE u : Is(u)
           step == [i \in 1 .. n |-> [x \in V |-> IF x \in DOMAIN l THEN l[x] ELSE x]]
<1>1. n \in Nat
  BY FS_CardinalityType
<1>2. Top(l, o) = up[n]
  BY DEF Top
<1> HIDE DEF n
<1>3. step \in [1 .. n -> [V -> V]]
  OBVIOUS
<1>4. PICK g : Stepwise(g, V, o, n, step)
  <2> HIDE DEF step
  <2> QED
    BY <1>1, <1>3, StepwiseExists
<1>5. Ascent(g, l, V, o, n)
  <2>1. /\ g \in [0 .. n -> V] /\ g[0] = o
        /\ \A i \in 1 .. n : g[i] = step[i][g[i - 1]]
    BY <1>4 DEF Stepwise
  <2>2. \A i \in 1 .. n : g[i - 1] \in V
    <3>1. \A i \in 1 .. n : i - 1 \in 0 .. n
      BY <1>1
    <3> QED
      BY <2>1, <3>1
  <2> QED
    BY <2>1, <2>2 DEF Ascent
<1> HIDE DEF step
<1>6. Is(g)
  <2>1. \A k \in 0 .. n : (k > 0 <=> k \in 1 .. n) /\ (~(k > 0) => k = 0)
    BY <1>1
  <2>2. \A k \in 0 .. n : g[k] = IF k > 0 /\ g[k - 1] \in DOMAIN l THEN l[g[k - 1]]
                                 ELSE IF k > 0 THEN g[k - 1] ELSE o
    BY <1>5, <2>1 DEF Ascent
  <2>3. g = [k \in 0 .. n |-> g[k]]
    BY <1>5 DEF Ascent
  <2> QED
    BY <2>2, <2>3
<1>7. Is(up)
  <2> HIDE DEF Is
  <2> QED
    BY <1>6
<1> HIDE DEF up
<1>8. up = g
  <2>1. \A k \in 0 .. n : up[k] = IF k > 0 /\ up[k - 1] \in DOMAIN l THEN l[up[k - 1]]
                                  ELSE IF k > 0 THEN up[k - 1] ELSE o
    BY <1>7
  <2> DEFINE T == {k \in 0 .. n : up[k] = g[k]}
  <2>2. 0 \in T
    <3>1. 0 \in 0 .. n /\ ~(0 > 0)
      BY <1>1
    <3>2. up[0] = o /\ g[0] = o
      BY <1>5, <2>1, <3>1 DEF Ascent
    <3> QED
      BY <3>1, <3>2
  <2>3. ASSUME NEW k \in 0 .. n - 1, k \in T PROVE k + 1 \in T
    <3>1. k + 1 \in 0 .. n /\ k + 1 \in 1 .. n /\ k + 1 > 0 /\ (k + 1) - 1 = k
      BY <1>1
    <3>2. up[k] = g[k]
      BY <2>3
    <3>3. up[k + 1] = IF up[k] \in DOMAIN l THEN l[up[k]] ELSE up[k]
      BY <2>1, <3>1
    <3>4. g[k + 1] = IF g[k] \in DOMAIN l THEN l[g[k]] ELSE g[k]
      BY <1>5, <3>1 DEF Ascent
    <3> QED
      BY <3>1, <3>2, <3>3, <3>4
  <2>4. 0 .. n \subseteq T
    <3> HIDE DEF T
    <3> QED
      BY <1>1, <2>2, <2>3, UptoInduction
  <2>5. up = [k \in 0 .. n |-> up[k]]
    <3>1. DOMAIN up = 0 .. n
      BY <1>7
    <3>2. \E F : up = [k \in 0 .. n |-> F[k]]
      <4> DEFINE F == [k \in 0 .. n |-> IF k > 0 /\ up[k - 1] \in DOMAIN l THEN l[up[k - 1]]
                                        ELSE IF k > 0 THEN up[k - 1] ELSE o]
      <4>1. up = F
        BY <1>7
      <4>2. F = [k \in 0 .. n |-> F[k]]
        OBVIOUS
      <4> QED
        BY <4>1, <4>2
    <3> QED
      BY <3>2
  <2>6. g = [k \in 0 .. n |-> g[k]]
    BY <1>5 DEF Ascent
  <2> QED
    BY <2>4, <2>5, <2>6
<1> QED
  BY <1>2, <1>5, <1>8 DEF n

\* Once the way is at the top it stays there.
LEMMA AscentStays ==
  ASSUME NEW l, NEW V, NEW n \in Nat, NEW o, NEW up, Ascent(up, l, V, o, n),
         NEW k \in 0 .. n, up[k] \notin DOMAIN l
  PROVE  \A j \in k .. n : up[j] = up[k]
<1> DEFINE T == {i \in 0 .. n - k : up[k + i] = up[k]}
<1>1. 0 \in T
  OBVIOUS
<1>2. ASSUME NEW i \in 0 .. (n - k) - 1, i \in T PROVE i + 1 \in T
  <2>1. k + (i + 1) \in 1 .. n /\ (k + (i + 1)) - 1 = k + i /\ i + 1 \in 0 .. n - k
    OBVIOUS
  <2>2. up[k + (i + 1)] = IF up[k + i] \in DOMAIN l THEN l[up[k + i]] ELSE up[k + i]
    BY <2>1 DEF Ascent
  <2> QED
    BY <1>2, <2>1, <2>2
<1>3. n - k \in Nat
  OBVIOUS
<1>4. 0 .. n - k \subseteq T
  <2> HIDE DEF T
  <2> QED
    BY <1>1, <1>2, <1>3, UptoInduction
<1>5. \A j \in k .. n : j - k \in 0 .. n - k /\ k + (j - k) = j
  OBVIOUS
<1> QED
  BY <1>4, <1>5

LEMMA TopFacts ==
  ASSUME NEW l, NEW V, IsFiniteSet(DOMAIN l), l \in [DOMAIN l -> V], DOMAIN l \subseteq V,
         NEW o \in V
  PROVE  /\ Top(l, o) \in V
         /\ o \notin DOMAIN l => Top(l, o) = o
         /\ o \in DOMAIN l /\ Top(l, o) \notin DOMAIN l => Top(l, l[o]) = Top(l, o)
<1> DEFINE n == Cardinality(DOMAIN l)
<1>1. n \in Nat
  BY FS_CardinalityType
<1>2. PICK up : Ascent(up, l, V, o, n) /\ Top(l, o) = up[n]
  BY TopAscent
<1> HIDE DEF n
<1>3. up \in [0 .. n -> V] /\ up[0] = o /\ 0 \in 0 .. n /\ n \in 0 .. n
  BY <1>1, <1>2 DEF Ascent
<1>4. o \notin DOMAIN l => Top(l, o) = o
  <2>1. n \in 0 .. n /\ 0 \in 0 .. n
    BY <1>1
  <2> QED
    BY <1>1, <1>2, <1>3, <2>1, AscentStays
<1>5. ASSUME o \in DOMAIN l, Top(l, o) \notin DOMAIN l PROVE Top(l, l[o]) = Top(l, o)
  <2>1. l[o] \in V
    BY <1>5
  <2>2. PICK vp : Ascent(vp, l, V, l[o], n) /\ Top(l, l[o]) = vp[n]
    BY <2>1, TopAscent DEF n
  <2> DEFINE T == {k \in 0 .. n : k = 0 \/ vp[k - 1] = up[k]}
  <2>3. 0 \in T
    BY <1>1
  <2>4. ASSUME NEW k \in 0 .. n - 1, k \in T PROVE k + 1 \in T
    <3>1. k + 1 \in 1 .. n /\ (k + 1) - 1 = k /\ k + 1 \in 0 .. n
      BY <1>1
    <3>2. up[k + 1] = IF up[k] \in DOMAIN l THEN l[up[k]] ELSE up[k]
      BY <1>2, <3>1 DEF Ascent
    <3>3. CASE k = 0
      <4>1. up[k + 1] = l[o] /\ vp[k] = l[o]
        BY <1>3, <1>5, <2>2, <3>2, <3>3 DEF Ascent
      <4> QED
        BY <3>1, <4>1
    <3>4. CASE k # 0
      <4>1. vp[k - 1] = up[k] /\ k \in 1 .. n
        BY <1>1, <2>4, <3>4
      <4>2. vp[k] = IF vp[k - 1] \in DOMAIN l THEN l[vp[k - 1]] ELSE vp[k - 1]
        BY <2>2, <4>1 DEF Ascent
      <4> QED
        BY <3>1, <3>2, <4>1, <4>2
    <3> QED
      BY <3>3, <3>4
  <2>5. 0 .. n \subseteq T
    <3> HIDE DEF T
    <3> QED
      BY <1>1, <2>3, <2>4, UptoInduction
  <2>6. n # 0
    <3>1. CASE n = 0
      <4>1. DOMAIN l = {}
        BY <3>1, FS_EmptySet DEF n
      <4> QED
        BY <1>5, <4>1
    <3> QED
      BY <3>1
  <2>7. vp[n - 1] = up[n] /\ n - 1 \in 0 .. n /\ n \in (n - 1) .. n
    BY <1>1, <1>3, <2>5, <2>6
  <2>8. vp[n - 1] \notin DOMAIN l
    BY <1>2, <1>5, <2>7
  <2>9. vp[n] = vp[n - 1]
    BY <1>1, <2>2, <2>7, <2>8, AscentStays
  <2> QED
    BY <1>2, <2>2, <2>7, <2>9
<1> QED
  BY <1>2, <1>3, <1>4, <1>5

\* If each link leads to an output of lower rank the way ends, and at an
\* output of lower rank unless it began there.
LEMMA TopReached ==
  ASSUME NEW l, NEW V, IsFiniteSet(DOMAIN l), l \in [DOMAIN l -> V], DOMAIN l \subseteq V,
         NEW o \in V, NEW r \in [V -> Nat], \A x \in DOMAIN l : r[l[x]] < r[x]
  PROVE  Top(l, o) \notin DOMAIN l /\ (Top(l, o) = o \/ r[Top(l, o)] < r[o])
<1> DEFINE n == Cardinality(DOMAIN l)
<1>1. n \in Nat
  BY FS_CardinalityType
<1>2. PICK up : Ascent(up, l, V, o, n) /\ Top(l, o) = up[n]
  BY TopAscent
<1> HIDE DEF n
<1>3. up \in [0 .. n -> V] /\ up[0] = o /\ 0 \in 0 .. n /\ n \in 0 .. n
  BY <1>1, <1>2 DEF Ascent
<1>4. \A k \in 0 .. n : up[k] \in V /\ r[up[k]] \in Nat
  BY <1>3
<1>5. \A k \in 0 .. n - 1 : /\ k \in 0 .. n /\ k + 1 \in 0 .. n
                            /\ up[k + 1] = up[k] \/ r[up[k + 1]] < r[up[k]]
                            /\ up[k] \in DOMAIN l => r[up[k + 1]] < r[up[k]]
  <2> SUFFICES ASSUME NEW k \in 0 .. n - 1
               PROVE  /\ k \in 0 .. n /\ k + 1 \in 0 .. n
                      /\ up[k + 1] = up[k] \/ r[up[k + 1]] < r[up[k]]
                      /\ up[k] \in DOMAIN l => r[up[k + 1]] < r[up[k]]
    OBVIOUS
  <2>1. k \in 0 .. n /\ k + 1 \in 0 .. n /\ k + 1 \in 1 .. n /\ (k + 1) - 1 = k
    BY <1>1
  <2>2. up[k + 1] = IF up[k] \in DOMAIN l THEN l[up[k]] ELSE up[k]
    BY <1>2, <2>1 DEF Ascent
  <2> QED
    BY <2>1, <2>2
<1>6. Top(l, o) = o \/ r[Top(l, o)] < r[o]
  <2> DEFINE T == {k \in 0 .. n : up[k] = o \/ r[up[k]] < r[o]}
  <2>1. 0 \in T
    BY <1>3
  <2>2. ASSUME NEW k \in 0 .. n - 1, k \in T PROVE k + 1 \in T
    <3>1. r[up[k]] \in Nat /\ r[up[k + 1]] \in Nat /\ r[o] \in Nat
      BY <1>4, <1>5
    <3> QED
      BY <1>5, <2>2, <3>1
  <2>3. 0 .. n \subseteq T
    <3> HIDE DEF T
    <3> QED
      BY <1>1, <2>1, <2>2, UptoInduction
  <2> QED
    BY <1>2, <1>3, <2>3
<1>7. up[n] \notin DOMAIN l
  <2> SUFFICES ASSUME up[n] \in DOMAIN l PROVE FALSE
    OBVIOUS
  <2>1. \A k \in 0 .. n : up[k] \in DOMAIN l
    <3> SUFFICES ASSUME NEW k \in 0 .. n, up[k] \notin DOMAIN l PROVE FALSE
      OBVIOUS
    <3>1. n \in k .. n
      BY <1>1
    <3>2. Ascent(up, l, V, o, n)
      BY <1>2
    <3>3. \A j \in k .. n : up[j] = up[k]
      BY <1>1, <3>2, AscentStays
    <3> QED
      BY <3>1, <3>3
  <2> DEFINE T == {k \in 0 .. n : \A j \in 0 .. k - 1 : r[up[k]] < r[up[j]]}
  <2>2. 0 \in T
    BY <1>1
  <2>3. ASSUME NEW k \in 0 .. n - 1, k \in T PROVE k + 1 \in T
    <3> SUFFICES ASSUME NEW j \in 0 .. (k + 1) - 1 PROVE r[up[k + 1]] < r[up[j]]
      BY <1>5
    <3>1. r[up[k + 1]] < r[up[k]] /\ r[up[k]] \in Nat /\ r[up[k + 1]] \in Nat
      BY <1>4, <1>5, <2>1
    <3>2. CASE j = k
      BY <3>1, <3>2
    <3>3. CASE j # k
      <4>1. j \in 0 .. k - 1 /\ j \in 0 .. n
        BY <1>1, <3>3
      <4>2. r[up[k]] < r[up[j]] /\ r[up[j]] \in Nat
        BY <1>4, <2>3, <4>1
      <4> QED
        BY <3>1, <4>2
    <3> QED
      BY <3>2, <3>3
  <2>4. 0 .. n \subseteq T
    <3> HIDE DEF T
    <3> QED
      BY <1>1, <2>2, <2>3, UptoInduction
  <2>5. IsInjective(up)
    <3> SUFFICES ASSUME NEW i \in 0 .. n, NEW j \in 0 .. n, up[i] = up[j] PROVE i = j
      BY <1>3 DEF IsInjective
    <3>1. \A k \in 0 .. n : \A h \in 0 .. k - 1 : r[up[k]] < r[up[h]]
      BY <2>4
    <3>2. r[up[i]] \in Nat /\ ~(r[up[i]] < r[up[j]]) /\ ~(r[up[j]] < r[up[i]])
      BY <1>4
    <3>3. ~(i \in 0 .. j - 1) /\ ~(j \in 0 .. i - 1)
      BY <3>1, <3>2
    <3> QED
      BY <1>1, <3>3
  <2>6. IsFiniteSet(0 .. n) /\ Cardinality(0 .. n) = n + 1
    <3>1. 0 \in Int /\ n \in Int
      BY <1>1
    <3>2. IsFiniteSet(0 .. n) /\ Cardinality(0 .. n) = IF 0 > n THEN 0 ELSE n - 0 + 1
      BY <3>1, FS_Interval
    <3> QED
      BY <1>1, <3>2
  <2>7. Cardinality(Range(up)) = n + 1
    <3> DEFINE A == 0 .. n
    <3>1. up \in [A -> V] /\ IsFiniteSet(A)
      BY <1>3, <2>6
    <3> HIDE DEF A
    <3>2. Cardinality(Range(up)) = Cardinality(A)
      BY <2>5, <3>1, ImageSize
    <3> QED
      BY <2>6, <3>2 DEF A
  <2>8. Range(up) \in SUBSET (DOMAIN l)
    BY <1>3, <2>1 DEF Range
  <2>9. Cardinality(Range(up)) <= n
    BY <2>8, FS_Subset DEF n
  <2> QED
    BY <1>1, <2>7, <2>9
<1> QED
  BY <1>2, <1>6, <1>7

-----------------------------------------------------------------------------
(***************************************************************************)
(* The buffers of a start.                                                 *)
(***************************************************************************)

\* l are pass-through requests between outputs of out.
Chained(l, out) ==
  /\ l \in [DOMAIN l -> OutputsOf(out)]
  /\ DOMAIN l \subseteq OutputsOf(out)
  /\ IsFiniteSet(DOMAIN l)

\* Each passes on an output that feeds its filter.
Granted(c, in, l) == \A o \in DOMAIN l : l[o] \in FeedOutputs(c, in, o[1])

\* The filters that pass a buffer on are fed by one filter each.
FedByOne(c, in, l) ==
  \A o \in DOMAIN l : Cardinality({g[1] : g \in FeedOutputs(c, in, o[1])}) = 1

\* Each leads to a filter that comes earlier in met.
Rising(met, l) ==
  \A o \in DOMAIN l : \A k \in DOMAIN met :
    met[k] = o[1] => \E j \in 1 .. k - 1 : l[o][1] = met[j]

LEMMA LinksFacts ==
  ASSUME NEW c \in Seq(Connection), NEW out, Wired(c, out), Len(c) <= MaxConnections,
         NEW from \in Seq(Filters), Range(from) = Roots(c), NEW in, NEW l \in Links(c, out, in)
  PROVE  Chained(l, out) /\ Granted(c, in, l)
<1> DEFINE outs == OutputsMet(c, out, from)
           W    == OutputsOf(out)
<1>1. outs \in Seq(Outputs) /\ Range(outs) = W
  BY OutputsMetFacts
<1> HIDE DEF outs
<1>2. IsFiniteSet(W)
  <2>1. Len(outs) \in Nat /\ outs \in [1 .. Len(outs) -> Outputs]
    BY <1>1, LenProperties
  <2>2. IsFiniteSet(1 .. Len(outs))
    BY <2>1, FS_Interval
  <2> DEFINE A == 1 .. Len(outs)
  <2>3. IsFiniteSet(A) /\ outs \in [A -> Outputs]
    BY <2>1, <2>2
  <2> HIDE DEF A
  <2>4. IsFiniteSet(Range(outs))
    BY <2>3, ImageSize
  <2> QED
    BY <1>1, <2>4
<1> HIDE DEF W
<1>3. /\ l \in UNION {[D -> W] : D \in SUBSET W}
      /\ \A o \in DOMAIN l : l[o] \in FeedOutputs(c, in, o[1])
  BY DEF Links, W
<1>4. PICK D \in SUBSET W : l \in [D -> W]
  BY <1>3
<1>5. DOMAIN l = D /\ IsFiniteSet(D)
  BY <1>2, <1>4, FS_Subset
<1> QED
  BY <1>3, <1>4, <1>5 DEF Chained, Granted, W

\* The inputs of the filters that flow.
Read(c, in) ==
  /\ \A f \in Flow(c) : Range(in[f]) = Between(c, f)
  /\ \A f \in Filters \ Flow(c) : Range(in[f]) = {}

\* If every filter that passes a buffer on is fed by one filter only, a link
\* leads to an output of a filter that is met earlier.
LEMMA LinksRise ==
  ASSUME NEW c \in Seq(Connection), NEW out, Wired(c, out), Len(c) <= MaxConnections,
         NEW from \in Seq(Filters), Range(from) = Roots(c), NEW in, Read(c, in),
         NEW l, Chained(l, out), Granted(c, in, l), FedByOne(c, in, l)
  PROVE  Rising(FiltersMet(c, out, from), l)
<1> DEFINE met == FiltersMet(c, out, from)
<1>1. /\ met \in Seq(Filters) /\ IsInjective(met) /\ Range(met) = Flow(c)
      /\ \A k \in DOMAIN met : Led(c, from, met, k, met[k])
  BY MetFacts
<1> HIDE DEF met
<1> SUFFICES ASSUME NEW o \in DOMAIN l, NEW k \in DOMAIN met, met[k] = o[1]
             PROVE  \E j \in 1 .. k - 1 : l[o][1] = met[j]
  BY DEF Rising, met
<1> DEFINE f == o[1]
           feeders == {g[1] : g \in FeedOutputs(c, in, f)}
<1>2. f \in Flow(c) /\ Range(in[f]) = Between(c, f)
  BY <1>1 DEF Read, Range
<1>3. feeders = {c[i].from : i \in Between(c, f)}
  <2> DEFINE fed(i) == <<c[i].from, c[i].fromPort>>
  <2>1. FeedOutputs(c, in, f) = {fed(i) : i \in Between(c, f)}
    BY <1>2 DEF FeedOutputs
  <2>2. \A i : fed(i)[1] = c[i].from
    OBVIOUS
  <2> HIDE DEF fed
  <2>3. feeders = {fed(i)[1] : i \in Between(c, f)}
    BY <2>1
  <2> QED
    BY <2>2, <2>3
<1>4. PICK i \in Between(c, f) : l[o][1] = c[i].from
  <2>1. l[o][1] \in feeders
    BY DEF Granted
  <2> HIDE DEF feeders
  <2> QED
    BY <1>3, <2>1
<1>5. f \notin Range(from)
  BY <1>4 DEF Between, Roots, Fed
<1>6. PICK j \in 1 .. k - 1, h \in DOMAIN c : c[h].from = met[j] /\ c[h].to = f
  BY <1>1, <1>5 DEF Led
<1>7. met[j] \in Flow(c)
  <2>1. Len(met) \in Nat /\ DOMAIN met = 1 .. Len(met)
    BY <1>1, LenProperties
  <2>2. j \in DOMAIN met
    BY <2>1
  <2> QED
    BY <1>1, <2>2 DEF Range
<1>8. h \in Between(c, f)
  BY <1>6, <1>7 DEF Between
<1>9. c[i].from \in feeders /\ c[h].from \in feeders
  <2> HIDE DEF feeders
  <2> QED
    BY <1>3, <1>8
<1>10. IsFiniteSet(feeders) /\ Cardinality(feeders) = 1
  <2>1. Cardinality(feeders) = 1
    BY DEF FedByOne
  <2>2. IsFiniteSet(DOMAIN c)
    <3>1. DOMAIN c = 1 .. Len(c) /\ Len(c) \in Nat
      BY LenProperties
    <3> QED
      BY <3>1, FS_Interval
  <2>3. Between(c, f) \in SUBSET (DOMAIN c)
    BY DEF Between
  <2>4. IsFiniteSet(Between(c, f))
    BY <2>2, <2>3, FS_Subset
  <2>5. feeders \in SUBSET {c[x].from : x \in Between(c, f)}
    <3> HIDE DEF feeders
    <3> QED
      BY <1>3
  <2> DEFINE A == Between(c, f)
             G == [x \in A |-> c[x].from]
  <2>6. IsFiniteSet(A) /\ G \in [A -> Range(G)] /\ Range(G) = {c[x].from : x \in A}
    BY <2>4 DEF Range
  <2> HIDE DEF A, G
  <2>7. IsFiniteSet(Range(G))
    BY <2>6, ImageSize
  <2> HIDE DEF feeders
  <2> QED
    BY <1>3, <2>1, <2>6, <2>7 DEF A
<1>11. c[i].from = c[h].from
  <2> HIDE DEF feeders
  <2>1. PICK x : feeders = {x}
    BY <1>10, FS_Singleton
  <2> QED
    BY <1>9, <2>1
<1> QED
  BY <1>4, <1>6, <1>11

\* Then every way up ends, and the owner of a buffer is met before the outputs
\* that use it.
LEMMA ChainsReached ==
  ASSUME NEW c \in Seq(Connection), NEW out, Wired(c, out), Len(c) <= MaxConnections,
         NEW from \in Seq(Filters), Range(from) = Roots(c), NEW in, Read(c, in),
         NEW l, Chained(l, out), Granted(c, in, l), FedByOne(c, in, l)
  PROVE  LET outs == OutputsMet(c, out, from)
         IN  /\ \A o \in OutputsOf(out) : Top(l, o) \notin DOMAIN l
             /\ MapRingBuffers(l, outs) = OutputsOf(out)
<1> DEFINE met  == FiltersMet(c, out, from)
           outs == OutputsMet(c, out, from)
           W    == OutputsOf(out)
           place(f) == CHOOSE k \in DOMAIN met : met[k] = f
           r    == [o \in W |-> place(o[1])]
<1>1. met \in Seq(Filters) /\ IsInjective(met) /\ Range(met) = Flow(c)
  BY MetFacts
<1>2. /\ outs \in Seq(Outputs) /\ Range(outs) = W
      /\ \A i \in DOMAIN outs : \E m \in DOMAIN met :
           /\ outs[i][1] = met[m]
           /\ \A o \in W : \A k \in 1 .. m - 1 : o[1] = met[k] => o \in FirstOnes(outs, i)
  BY OutputsMetFacts
<1>3. Rising(met, l)
  BY LinksRise
<1> HIDE DEF met, outs
<1>4. Len(met) \in Nat /\ DOMAIN met = 1 .. Len(met)
  BY <1>1, LenProperties
<1>5. \A k \in DOMAIN met : place(met[k]) = k
  BY <1>1, PlaceFacts
<1> HIDE DEF place
<1>6. ASSUME NEW o \in W
      PROVE  r[o] \in DOMAIN met /\ met[r[o]] = o[1]
  <2>1. o[1] \in Filters /\ o[2] \in DOMAIN out[o[1]]
    BY DEF OutputsOf, Outputs, W
  <2>2. o[1] \in Flow(c)
    BY <2>1 DEF Wired
  <2>3. PICK k \in DOMAIN met : met[k] = o[1]
    BY <1>1, <2>2 DEF Range
  <2> QED
    BY <1>5, <2>3
<1>7. /\ l \in [DOMAIN l -> W] /\ DOMAIN l \subseteq W /\ IsFiniteSet(DOMAIN l)
  BY DEF Chained
<1>8. \A o \in W : r[o] = place(o[1])
  OBVIOUS
<1>9. r \in [W -> Nat]
  <2>1. \A o \in W : r[o] \in Nat
    BY <1>4, <1>6
  <2> QED
    BY <2>1
<1> HIDE DEF r, W
<1>10. ASSUME NEW o \in DOMAIN l PROVE r[l[o]] < r[o]
  <2>1. o \in W /\ l[o] \in W
    BY <1>7
  <2>2. PICK j \in 1 .. r[o] - 1 : l[o][1] = met[j]
    BY <1>3, <1>6, <2>1 DEF Rising
  <2>3. j \in DOMAIN met
    BY <1>4, <1>6, <2>1
  <2>4. r[l[o]] = j
    BY <1>5, <1>8, <2>1, <2>2, <2>3
  <2> QED
    BY <1>9, <2>1, <2>4
<1>11. ASSUME NEW o \in W
       PROVE  /\ Top(l, o) \in W /\ Top(l, o) \notin DOMAIN l
              /\ Top(l, o) = o \/ r[Top(l, o)] < r[o]
  BY <1>7, <1>9, <1>10, TopFacts, TopReached
<1>12. ASSUME NEW i \in DOMAIN outs PROVE \E j \in 1 .. i : outs[j] = Top(l, outs[i])
  <2> DEFINE o == outs[i]
             t == Top(l, o)
  <2>1. o \in W
    BY <1>2 DEF Range
  <2>2. i \in 1 .. i
    BY <1>2, LenProperties
  <2>3. CASE t = o
    BY <2>2, <2>3
  <2>4. CASE r[t] < r[o]
    <3>1. t \in W
      BY <1>11, <2>1
    <3>2. PICK m \in DOMAIN met :
            /\ o[1] = met[m]
            /\ \A x \in W : \A k \in 1 .. m - 1 : x[1] = met[k] => x \in FirstOnes(outs, i)
      BY <1>2
    <3> HIDE DEF o, t
    <3>3. r[o] = m
      BY <1>5, <1>8, <2>1, <3>2
    <3>4. r[t] \in 1 .. m - 1 /\ t[1] = met[r[t]]
      BY <1>4, <1>6, <2>4, <3>1, <3>3
    <3>5. t \in FirstOnes(outs, i)
      BY <3>1, <3>2, <3>4
    <3> QED
      BY <3>5 DEF FirstOnes, t, o
  <2> QED
    BY <1>11, <2>1, <2>3, <2>4
<1>13. MapRingBuffers(l, outs) = W
  <2>1. {i \in DOMAIN outs : \E j \in 1 .. i : outs[j] = Top(l, outs[i])} = DOMAIN outs
    BY <1>12
  <2>2. MapRingBuffers(l, outs) = {outs[k] : k \in DOMAIN outs}
    BY <2>1 DEF MapRingBuffers
  <2> QED
    BY <1>2, <2>2 DEF Range
<1> QED
  BY <1>11, <1>13 DEF W, outs

\* What a start makes of the requests l.
LEMMA StartFacts ==
  ASSUME NEW c \in Seq(Connection), NEW out, Wired(c, out), Len(c) <= MaxConnections,
         NEW from \in Seq(Filters), Range(from) = Roots(c), NEW in, NEW l \in Links(c, out, in)
  PROVE  LET outs == OutputsMet(c, out, from)
             W    == OutputsOf(out)
         IN  /\ Range(outs) = W /\ DOMAIN l \subseteq W
             /\ \A o \in W : <<o[1], 0>> \in W
             /\ (\A o \in W : Top(l, o) \notin DOMAIN l)
                  => \A o \in W : IF o \in DOMAIN l
                                  THEN l[o] \in W /\ Top(l, o) = Top(l, l[o])
                                  ELSE Top(l, o) = o
             /\ Read(c, in) /\ FedByOne(c, in, l)
                => /\ \A o \in W : Top(l, o) \notin DOMAIN l
                   /\ MapRingBuffers(l, outs) = W
<1> DEFINE outs == OutputsMet(c, out, from)
           W    == OutputsOf(out)
<1>1. Range(outs) = W
  BY OutputsMetFacts
<1>2. Chained(l, out) /\ Granted(c, in, l)
  BY LinksFacts
<1>3. ASSUME NEW o \in W PROVE <<o[1], 0>> \in W
  <2>1. o[1] \in Filters /\ o[2] \in DOMAIN out[o[1]] /\ MaxConnections \in Nat
    BY StreamAssumption DEF OutputsOf, Outputs
  <2>2. \A p \in DOMAIN out[o[1]] : <<o[1], p>> \in OutputsOf(out) /\ 0 \in DOMAIN out[o[1]]
    BY <2>1, PortsFacts
  <2> QED
    BY <2>1, <2>2
<1>4. ASSUME \A o \in W : Top(l, o) \notin DOMAIN l, NEW o \in W
      PROVE  IF o \in DOMAIN l THEN l[o] \in W /\ Top(l, o) = Top(l, l[o]) ELSE Top(l, o) = o
  <2>1. l \in [DOMAIN l -> W] /\ DOMAIN l \subseteq W /\ IsFiniteSet(DOMAIN l)
    BY <1>2 DEF Chained
  <2> HIDE DEF W
  <2>2. /\ o \notin DOMAIN l => Top(l, o) = o
        /\ o \in DOMAIN l /\ Top(l, o) \notin DOMAIN l => Top(l, l[o]) = Top(l, o)
    BY <2>1, TopFacts
  <2> QED
    BY <1>4, <2>1, <2>2
<1>5. ASSUME Read(c, in), FedByOne(c, in, l)
      PROVE  (\A o \in W : Top(l, o) \notin DOMAIN l) /\ MapRingBuffers(l, outs) = W
  BY <1>2, <1>5, ChainsReached
<1>6. DOMAIN l \subseteq W
  BY <1>2 DEF Chained
<1> HIDE DEF outs, W
<1> QED
  BY <1>1, <1>3, <1>4, <1>5, <1>6 DEF outs, W

-----------------------------------------------------------------------------
(***************************************************************************)
(* The buffers of a stream, step by step.                                  *)
(***************************************************************************)

\* FreeBuffers() looks at the first output of a filter, which every filter
\* that has outputs has.
FirstOutputs == \A o \in OutputsOf(outputs) : <<o[1], 0>> \in OutputsOf(outputs)

BuffersInv == BuffersOwned /\ ChainsMapped /\ FirstOutputs

LEMMA BuffersInvInit == BuffersInit => BuffersInv
<1> SUFFICES ASSUME BuffersInit PROVE BuffersInv
  OBVIOUS
<1>1. /\ Inactive /\ outputs = Free /\ DOMAIN buffer = {} /\ made = [o \in Outputs |-> 0]
  <2>1. DOMAIN << >> = {}
    OBVIOUS
  <2> QED
    BY <2>1 DEF BuffersInit, Init, Inactive
<1>2. OutputsOf(outputs) = {}
  <2>1. DOMAIN << >> = {}
    OBVIOUS
  <2> QED
    BY <1>1, <2>1 DEF OutputsOf, Outputs, Free
<1> QED
  BY <1>1, <1>2 DEF BuffersInv, BuffersOwned, ChainsMapped, FirstOutputs, Buffered

\* The buffers are made, or the walk up a ring begins.
LEMMA InvLinked ==
  ASSUME Inv', Wired(connections', outputs'), ~Inactive', Inactive, BuffersInv, ~hung,
         NEW l \in Links(connections', outputs', inputs'), prev' = l, ret' = 0, Linked(l)
  PROVE  BuffersInv'
<1> DEFINE c    == connections'
           out  == outputs'
           in   == inputs'
           from == sources'
           outs == OutputsMet(c, out, from)
           W    == OutputsOf(out)
           ring == \E o \in W : Top(l, o) \in DOMAIN l
<1>1. /\ c \in Seq(Connection) /\ Len(c) <= MaxConnections
      /\ from \in Seq(Filters) /\ Range(from) = Roots(c)
  BY DEF Inv, Connected, SourcesUp
<1>2. Read(c, in)
  BY DEF Inv, InputsUp, Read, Range
<1>3. /\ Range(outs) = W /\ DOMAIN l \subseteq W
      /\ \A o \in W : <<o[1], 0>> \in W
      /\ ~ring => \A o \in W : IF o \in DOMAIN l
                               THEN l[o] \in W /\ Top(l, o) = Top(l, l[o])
                               ELSE Top(l, o) = o
      /\ FedByOne(c, in, l) => ~ring /\ MapRingBuffers(l, outs) = W
  BY <1>1, <1>2, StartFacts
<1>4. DOMAIN buffer = {} /\ (\A o \in Outputs : made[o] = 0) /\ ~Buffered
  BY DEF BuffersInv, BuffersOwned, Buffered
<1>5. FirstOutputs'
  BY <1>3 DEF FirstOutputs
<1>6. CASE ring
  <2>1. hung' = TRUE /\ UNCHANGED <<buffer, mapped, made>>
    BY <1>3, <1>6 DEF Linked
  <2>2. ~Buffered'
    BY <2>1 DEF Buffered
  <2>3. BuffersOwned'
    BY <1>4, <2>1, <2>2 DEF BuffersOwned
  <2>4. ChainsMapped'
    BY <1>3, <1>6 DEF ChainsMapped, FedByOne
  <2> QED
    BY <1>5, <2>3, <2>4 DEF BuffersInv
<1>7. CASE ~ring
  <2>1. /\ made' = [o \in Outputs |->
                      IF o \in AllocateBuffer(l, outs) THEN made[o] + 1 ELSE made[o]]
        /\ buffer' = [o \in Range(outs) |-> BufferFound(l, outs, o)]
        /\ mapped' = MapRingBuffers(l, outs)
        /\ ~hung'
    BY <1>3, <1>7 DEF Linked
  <2>2. AllocateBuffer(l, outs) = W \ DOMAIN l
    BY <1>3 DEF AllocateBuffer
  <2>3. Buffered'
    BY <2>1 DEF Buffered
  <2>4. buffer' = [o \in W |-> Top(l, o)]
    BY <1>3, <2>1 DEF BufferFound
  <2>5. \A o \in Outputs : made'[o] = IF o \in W \ DOMAIN l THEN 1 ELSE 0
    BY <1>4, <2>1, <2>2
  <2>6. \A o \in W : IF o \in DOMAIN l THEN buffer'[o] = buffer'[l[o]] ELSE buffer'[o] = o
    BY <1>3, <1>7, <2>4
  <2>7. BuffersOwned'
    BY <2>3, <2>4, <2>5, <2>6 DEF BuffersOwned
  <2>8. ChainsMapped'
    BY <1>3, <2>1 DEF ChainsMapped, FedByOne
  <2> QED
    BY <1>5, <2>7, <2>8 DEF BuffersInv
<1> QED
  BY <1>6, <1>7

LEMMA InvBuffersReady == Inv /\ BuffersInv /\ BuffersReady => BuffersInv'
<1> SUFFICES ASSUME Inv, BuffersInv, BuffersReady PROVE BuffersInv'
  OBVIOUS
<1>1. ~hung /\ Ready /\ Inactive /\ Inv'
  BY InvReady DEF BuffersReady, Ready
<1>2. /\ DOMAIN buffer = {} /\ \A o \in Outputs : made[o] = 0
      /\ FirstOutputs
  BY <1>1 DEF BuffersInv, BuffersOwned, Buffered
<1>3. CASE sources' = <<>> /\ UNCHANGED bufVars
  <2>1. Inactive' /\ UNCHANGED <<prev, buffer, mapped, made, hung>>
    BY <1>3 DEF Inactive, bufVars
  <2>2. outputs = Free /\ outputs' = Free
    BY <1>1, <2>1 DEF Inv, Down
  <2> QED
    BY <1>2, <2>1, <2>2
       DEF BuffersInv, BuffersOwned, ChainsMapped, FirstOutputs, Buffered
<1>4. CASE /\ sources' # <<>>
           /\ \E l \in Links(connections', outputs', inputs') :
                /\ prev' = l
                /\ \/ ret' = -3 /\ UNCHANGED <<buffer, mapped, made, hung>>
                   \/ ret' = 0 /\ Linked(l)
  <2>1. ~Inactive'
    BY <1>4 DEF Inactive
  <2>2. Wired(connections', outputs')
    <3> DEFINE c   == connections
               n   == Numbered(c, Flow(c))
               out == OutputsBuilt(c, n, Flow(c))
    <3>1. c \in Seq(Connection)
      BY DEF Inv, Connected
    <3>2. sources' # sources
      BY <1>1, <1>4 DEF Inactive
    <3>3. connections' = n /\ outputs' = out
      BY <1>1, <3>2, ReadyCases DEF GiveUp, Build, runVars
    <3>4. Wired(n, out)
      BY <3>1, OutputsWired
    <3> HIDE DEF n, out
    <3> QED
      BY <3>3, <3>4
  <2>3. PICK l \in Links(connections', outputs', inputs') :
          /\ prev' = l
          /\ \/ ret' = -3 /\ UNCHANGED <<buffer, mapped, made, hung>>
             \/ ret' = 0 /\ Linked(l)
    BY <1>4
  <2>4. CASE ret' = 0 /\ Linked(l)
    BY <1>1, <2>1, <2>2, <2>3, <2>4, InvLinked
  <2>5. CASE ret' = -3 /\ UNCHANGED <<buffer, mapped, made, hung>>
    <3>1. FirstOutputs'
      <4> DEFINE c   == connections'
                 out == outputs'
                 from == sources'
      <4>1. /\ c \in Seq(Connection) /\ Len(c) <= MaxConnections
            /\ from \in Seq(Filters) /\ Range(from) = Roots(c)
        BY <1>1, <2>1 DEF Inv, Connected, SourcesUp
      <4>2. \A o \in OutputsOf(out) : <<o[1], 0>> \in OutputsOf(out)
        BY <2>2, <2>3, <4>1, StartFacts
      <4> QED
        BY <4>2 DEF FirstOutputs
    <3>2. ~Buffered'
      BY <2>5 DEF Buffered
    <3>3. BuffersOwned'
      BY <1>2, <2>5, <3>2 DEF BuffersOwned
    <3>4. ChainsMapped'
      BY <2>5 DEF ChainsMapped
    <3> QED
      BY <3>1, <3>3, <3>4 DEF BuffersInv
  <2> QED
    BY <2>3, <2>4, <2>5
<1> QED
  BY <1>3, <1>4 DEF BuffersReady

\* Each output that no other passes its buffer to frees one, and that is the
\* one that was made for it.
LEMMA InvBuffersStop == Inv /\ BuffersInv /\ BuffersStop => BuffersInv'
<1> SUFFICES ASSUME Inv, BuffersInv, BuffersStop PROVE BuffersInv'
  OBVIOUS
<1> DEFINE F     == Writers(connections) \cup Fed(connections)
           freed == UNION {FreeBuffers(f) : f \in F}
           users(b) == {o \in freed : o \in DOMAIN buffer /\ buffer[o] = b}
<1>1. /\ ~hung /\ Stop /\ ~Inactive /\ sources' = <<>> /\ outputs' = Free
      /\ buffer' = <<>> /\ ~hung'
      /\ made' = [b \in Outputs |-> made[b] - Cardinality(users(b))]
  BY DEF BuffersStop, Stop
<1>2. DOMAIN buffer' = {} /\ OutputsOf(outputs') = {} /\ Inactive'
  <2>1. DOMAIN << >> = {}
    OBVIOUS
  <2> QED
    BY <1>1, <2>1 DEF OutputsOf, Outputs, Free, Inactive
<1>3. ASSUME NEW b \in Outputs PROVE made'[b] = 0
  <2>1. made'[b] = made[b] - Cardinality(users(b))
    BY <1>1
  <2>2. CASE Buffered
    <3>1. DOMAIN buffer = OutputsOf(outputs) /\ FirstOutputs
      BY <2>2 DEF BuffersInv, BuffersOwned
    <3>2. ASSUME NEW o \in OutputsOf(outputs) PROVE o[1] \in F
      <4>1. o[1] \in Filters /\ o[2] \in DOMAIN outputs[o[1]]
        BY DEF OutputsOf, Outputs
      <4>2. o[1] \in Flow(connections) /\ connections \in Seq(Connection)
        BY <1>1, <4>1 DEF Inv, Connected, OutputsUp
      <4>3. Flow(connections) \subseteq F
        <5>1. F \in SUBSET Filters /\ Roots(connections) \subseteq F
          BY <4>2, ConnectionFields DEF Writers, Fed, Roots
        <5>2. \A i \in DOMAIN connections : connections[i].to \in F
          BY DEF Fed
        <5> HIDE DEF F
        <5> QED
          BY <5>1, <5>2 DEF Flow, Reached
      <4> QED
        BY <4>2, <4>3
    <3>3. freed = OutputsOf(outputs) \ DOMAIN prev
      <4>1. \A o \in OutputsOf(outputs) : <<o[1], 0>> \in DOMAIN buffer
        BY <3>1 DEF FirstOutputs
      <4>2. \A o : o \in freed <=> \E f \in F : o \in FreeBuffers(f)
        OBVIOUS
      <4> HIDE DEF F, freed
      <4> QED
        BY <3>2, <4>1, <4>2 DEF FreeBuffers
    <3>4. \A o \in freed : o \in DOMAIN buffer /\ buffer[o] = o
      <4> HIDE DEF freed
      <4> QED
        BY <3>1, <3>3 DEF BuffersInv, BuffersOwned
    <3>5. made[b] = IF b \in freed THEN 1 ELSE 0
      <4> HIDE DEF freed
      <4> QED
        BY <2>2, <3>3 DEF BuffersInv, BuffersOwned
    <3> HIDE DEF freed
    <3>6. CASE b \in freed
      <4>1. users(b) = {b}
        BY <3>4, <3>6
      <4>2. Cardinality(users(b)) = 1
        BY <4>1, FS_Singleton
      <4> QED
        BY <2>1, <3>5, <3>6, <4>2
    <3>7. CASE b \notin freed
      <4>1. users(b) = {}
        BY <3>4, <3>7
      <4>2. Cardinality(users(b)) = 0
        BY <4>1, FS_EmptySet
      <4> QED
        BY <2>1, <3>5, <3>7, <4>2
    <3> QED
      BY <3>6, <3>7
  <2>3. CASE ~Buffered
    <3>1. DOMAIN buffer = {} /\ made[b] = 0
      BY <2>3 DEF BuffersInv, BuffersOwned
    <3>2. users(b) = {}
      BY <3>1
    <3>3. Cardinality(users(b)) = 0
      BY <3>2, FS_EmptySet
    <3> QED
      BY <2>1, <3>1, <3>3
  <2> QED
    BY <2>2, <2>3
<1>4. BuffersOwned'
  BY <1>2, <1>3 DEF BuffersOwned, Buffered
<1>5. ChainsMapped' /\ FirstOutputs'
  BY <1>2 DEF ChainsMapped, FirstOutputs
<1> QED
  BY <1>4, <1>5 DEF BuffersInv

LEMMA InvOthers == BuffersInv /\ Others => BuffersInv'
<1> SUFFICES ASSUME BuffersInv, Others PROVE BuffersInv'
  OBVIOUS
<1>1. UNCHANGED <<prev, buffer, mapped, made, hung>>
  BY DEF Others, bufVars
<1>2. CASE Launch
  BY <1>1, <1>2
     DEF Launch, runVars, BuffersInv, BuffersOwned, ChainsMapped, FirstOutputs, Buffered, Inactive
<1>3. CASE Connect \/ AllowLoops \/ \E f \in Filters : RemoveFilter(f)
  <2>1. Inactive /\ Inactive' /\ outputs' = outputs
    BY <1>3 DEF Connect, AllowLoops, RemoveFilter, runVars, Inactive
  <2> QED
    BY <1>1, <2>1 DEF BuffersInv, BuffersOwned, ChainsMapped, FirstOutputs, Buffered
<1> QED
  BY <1>2, <1>3 DEF Others

LEMMA BuffersInvNext == Inv /\ BuffersInv /\ [BuffersNext]_<<vars, bufVars>> => BuffersInv'
<1> SUFFICES ASSUME Inv, BuffersInv, [BuffersNext]_<<vars, bufVars>> PROVE BuffersInv'
  OBVIOUS
<1>1. CASE BuffersReady
  BY <1>1, InvBuffersReady
<1>2. CASE BuffersStop
  BY <1>2, InvBuffersStop
<1>3. CASE Others
  BY <1>3, InvOthers
<1>4. CASE UNCHANGED <<vars, bufVars>>
  BY <1>4 DEF vars, runVars, bufVars, BuffersInv, BuffersOwned, ChainsMapped, FirstOutputs,
              Buffered, Inactive
<1> QED
  BY <1>1, <1>2, <1>3, <1>4 DEF BuffersNext, Hangs

\* In a stream that becomes ready and stops again every output has the buffer
\* of the one it passes on or one of its own, every buffer is made once and
\* freed once, and nothing is left for the next start (buffer.c:44-130).
THEOREM BuffersAlwaysOwned == BuffersSpec => []BuffersOwned
<1>1. BuffersInv => BuffersOwned
  BY DEF BuffersInv
<1> QED
  BY <1>1, BuffersInvInit, BuffersInvNext, BuffersImplement, StreamGraphInv, PTL DEF BuffersSpec

\* If every filter that passes a buffer on has one filter that feeds it, the
\* walk from the sources maps all the buffers, each before the outputs that
\* use it, and it ends (buffer.c:51-57, 176-240).
THEOREM ChainsAlwaysMapped == BuffersSpec => []ChainsMapped
<1>1. BuffersInv => ChainsMapped
  BY DEF BuffersInv
<1> QED
  BY <1>1, BuffersInvInit, BuffersInvNext, BuffersImplement, StreamGraphInv, PTL DEF BuffersSpec
=============================================================================
