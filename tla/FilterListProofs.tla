-------------------------- MODULE FilterListProofs --------------------------
(***************************************************************************)
(* The invariants of FilterList.tla, for any number of streams, filters    *)
(* and modules and any nesting of construct() and destroy(): the tables    *)
(* agree with each other, the stack of calls is a chain of filters that    *)
(* are there, and the walk that takes a stream down is at its first filter.*)
(***************************************************************************)
EXTENDS FilterList, DataLemmas

Call == [what : {"construct", "destroy"}, who : Filters, saved : Filters \cup {None}]

\* The filter whose function is on top of a stack of calls.
CallerOf(stack) == IF stack = <<>> THEN None ELSE Last(stack).who

\* Each call saved the key of the one below, and no filter is called twice.
Chain(stack) ==
  /\ stack \in Seq(Call)
  /\ \A i \in DOMAIN stack :
       stack[i].saved = (IF i = 1 THEN None ELSE stack[i - 1].who)
  /\ \A i, j \in DOMAIN stack : stack[i].who = stack[j].who => i = j

\* A filter that is in no list any more is in its destroy().
CallsExact ==
  /\ Chain(frames) /\ key = CallerOf(frames)
  /\ \A i \in DOMAIN frames :
       /\ frames[i].who \in DOMAIN filter
       /\ frames[i].who \in Listed(filter[frames[i].who].stream)
            <=> frames[i].what = "construct"
  /\ \A f \in DOMAIN filter \ Running : f \in Listed(filter[f].stream)

\* The lists, the dictionaries and the filters agree.
Lists ==
  /\ app \subseteq Streams
  /\ list \in [Streams -> Seq(Filters)]
  /\ \A s \in Streams : IsInjective(list[s])
  /\ DOMAIN filter \subseteq Filters
  /\ \A f \in DOMAIN filter : filter[f].stream \in app
  /\ \A s \in Streams : \A f \in Listed(s) : f \in DOMAIN filter /\ filter[f].stream = s

Names ==
  /\ DOMAIN dict = Streams
  /\ \A s, t \in app : \A f \in Listed(s), g \in Listed(t) :
       filter[f].name = filter[g].name => f = g
  /\ \A s \in app :
       /\ DOMAIN dict[s] = {filter[f].name : f \in Listed(s)}
       /\ \A f \in Listed(s) : dict[s][filter[f].name] = f

\* A copy of a module's file is made for one filter and used by no other.
Modules ==
  /\ \A f \in DOMAIN filter :
       \E file \in Files : filter[f].handle \in {Original(file), CopyFor(file, f)}
  /\ \A s \in app : \A f, g \in Listed(s) : filter[f].handle = filter[g].handle => f = g

Users(h) == {f \in DOMAIN filter : filter[f].handle = h}

Opened ==
  /\ opened \in [Handles -> Nat]
  /\ \A h \in Handles : opened[h] = Cardinality(Users(h))

\* The walk is at the first filter of the stream unless that was freed; it
\* is over when none is left, and nothing is loaded meanwhile.
WalkFirst ==
  walk # None =>
    /\ walk \in [stream : app, at : Filters \cup {None}]
    /\ walk.at = None => list[walk.stream] = <<>>
    /\ walk.at \in Listed(walk.stream) => walk.at = list[walk.stream][1]
    /\ \A i \in DOMAIN frames : frames[i].what = "destroy"

\* The inductive invariant.
Inv == Lists /\ Names /\ Modules /\ Opened /\ CallsExact /\ WalkFirst /\ broken \in BOOLEAN

-----------------------------------------------------------------------------
(***************************************************************************)
(* Stacks of calls.                                                        *)
(***************************************************************************)

LEMMA ChainPush ==
  ASSUME NEW stack, Chain(stack), NEW c \in Call, c.saved = CallerOf(stack),
         \A i \in DOMAIN stack : stack[i].who # c.who
  PROVE  /\ Chain(Append(stack, c)) /\ CallerOf(Append(stack, c)) = c.who
         /\ \A i \in DOMAIN stack : i \in DOMAIN Append(stack, c)
                                    /\ Append(stack, c)[i] = stack[i]
         /\ \A i \in DOMAIN Append(stack, c) :
              i \in DOMAIN stack \/ Append(stack, c)[i] = c
         /\ \E i \in DOMAIN Append(stack, c) : Append(stack, c)[i] = c
<1> DEFINE n == Len(stack) + 1
           new == Append(stack, c)
<1>1. stack \in Seq(Call)
  BY DEF Chain
<1>2. /\ new \in Seq(Call) /\ DOMAIN new = 1 .. n /\ Len(new) = n
      /\ \A i \in DOMAIN stack : new[i] = stack[i]
      /\ new[n] = c /\ Last(new) = c
  BY <1>1, AppendedList
<1>3. Len(stack) \in Nat /\ DOMAIN stack = 1 .. Len(stack)
      /\ (stack = <<>> <=> Len(stack) = 0)
  BY <1>1, LenProperties, EmptySeq
<1> HIDE DEF new
<1>4. new # <<>>
  BY <1>2, <1>3, EmptySeq
<1>5. \A i, j \in DOMAIN new : new[i].who = new[j].who => i = j
  <2>1. \A i \in DOMAIN new : i = n \/ i \in DOMAIN stack
    BY <1>2, <1>3
  <2> HIDE DEF n
  <2> QED
    BY <1>2, <2>1 DEF Chain
<1>6. ASSUME NEW i \in DOMAIN new
      PROVE  new[i].saved = (IF i = 1 THEN None ELSE new[i - 1].who)
  <2>1. CASE i = n
    <3>1. CASE stack = <<>>
      BY <1>2, <1>3, <2>1, <3>1 DEF CallerOf
    <3>2. CASE stack # <<>>
      <4>1. i - 1 = Len(stack) /\ i - 1 \in DOMAIN stack /\ i # 1
        BY <1>3, <2>1, <3>2
      <4>2. new[i].saved = stack[Len(stack)].who
        BY <1>2, <2>1, <3>2 DEF CallerOf, Last
      <4> QED
        BY <1>2, <4>1, <4>2
    <3> QED
      BY <3>1, <3>2
  <2>2. CASE i # n
    <3>1. i \in DOMAIN stack /\ (i # 1 => i - 1 \in DOMAIN stack)
      BY <1>2, <1>3, <2>2
    <3> QED
      BY <1>2, <3>1 DEF Chain
  <2> QED
    BY <2>1, <2>2
<1>7. Chain(new)
  BY <1>2, <1>5, <1>6 DEF Chain
<1>8. CallerOf(new) = c.who
  BY <1>2, <1>4 DEF CallerOf
<1>9. /\ \A i \in DOMAIN stack : i \in DOMAIN new
      /\ \A i \in DOMAIN new : i \in DOMAIN stack \/ i = n
      /\ n \in DOMAIN new
  BY <1>2, <1>3
<1> QED
  BY <1>2, <1>7, <1>8, <1>9 DEF new

LEMMA ChainPop ==
  ASSUME NEW stack, Chain(stack), stack # <<>>
  PROVE  /\ Chain(Front(stack)) /\ CallerOf(Front(stack)) = Last(stack).saved
         /\ Last(stack) \in Call
         /\ Len(stack) \in DOMAIN stack /\ Last(stack) = stack[Len(stack)]
         /\ \A i \in DOMAIN Front(stack) :
              /\ i \in DOMAIN stack /\ Front(stack)[i] = stack[i]
              /\ stack[i].who # Last(stack).who
         /\ \A i \in DOMAIN stack : i = Len(stack) \/ i \in DOMAIN Front(stack)
<1> DEFINE n == Len(stack)
           old == Front(stack)
<1>1. stack \in Seq(Call)
  BY DEF Chain
<1>2. /\ old \in Seq(Call) /\ n \in Nat \ {0} /\ DOMAIN stack = 1 .. n
      /\ Last(stack) = stack[n] /\ Last(stack) \in Call
      /\ DOMAIN old = 1 .. n - 1 /\ Len(old) = n - 1
      /\ \A i \in 1 .. n - 1 : old[i] = stack[i]
      /\ old = <<>> <=> n = 1
  BY <1>1, PoppedList
<1> HIDE DEF n, old
<1>3. \A i \in DOMAIN old : i \in DOMAIN stack /\ i # n /\ (i # 1 => i - 1 \in DOMAIN old)
  BY <1>2
<1>4. n \in DOMAIN stack /\ \A i \in DOMAIN stack : i = n \/ i \in DOMAIN old
  BY <1>2
<1>5. \A i \in DOMAIN old : stack[i].who # Last(stack).who
  BY <1>2, <1>3, <1>4 DEF Chain
<1>6. Chain(old)
  BY <1>2, <1>3 DEF Chain
<1>7. CallerOf(old) = Last(stack).saved
  <2>1. Last(stack).saved = (IF n = 1 THEN None ELSE stack[n - 1].who)
    BY <1>2, <1>4 DEF Chain
  <2>2. n # 1 => Last(old) = stack[n - 1]
    <3>1. n # 1 => n - 1 \in 1 .. n - 1
      BY <1>2
    <3> QED
      BY <1>2, <3>1 DEF Last
  <2> QED
    BY <1>2, <2>1, <2>2 DEF CallerOf
<1> QED
  BY <1>2, <1>3, <1>4, <1>5, <1>6, <1>7 DEF n, old

-----------------------------------------------------------------------------
(***************************************************************************)
(* Names.                                                                  *)
(***************************************************************************)

\* The names made of one name by counting are different.
LEMMA CountedNames ==
  ASSUME NEW name, Len(name) \in Nat, name = [i \in 1 .. Len(name) |-> name[i]],
         NEW m \in Nat, NEW n \in Nat, Append(name, m) = Append(name, n)
  PROVE  m = n
<1> DEFINE S == {name[i] : i \in 1 .. Len(name)} \cup Nat
<1>1. name \in Seq(S)
  <2>1. name \in [1 .. Len(name) -> S]
    OBVIOUS
  <2> HIDE DEF S
  <2> QED
    BY <2>1, SeqDef
<1>2. m \in S /\ n \in S
  OBVIOUS
<1> HIDE DEF S
<1>3. Append(name, m)[Len(name) + 1] = m /\ Append(name, n)[Len(name) + 1] = n
  BY <1>1, <1>2, AppendProperties
<1> QED
  BY <1>3

\* AllocAndAddToFilterList() comes to a name that no filter of the app has
\* before it has counted more names than there are filters.
LEMMA NewNameFresh ==
  ASSUME Lists, NEW s, NEW f \in Filters \ DOMAIN filter,
         NEW name \in LoadNames \cup {DerivedName[file] : file \in Files}
  PROVE  Named(NewName(name, s)) = {}
<1> DEFINE C == Cardinality(Filters)
           N == 2 .. C + 1
           Free == {n \in N : Named(Append(name, n)) = {}}
<1>1. CASE Named(name) = {}
  BY <1>1 DEF NewName
<1>2. CASE Named(name) # {}
  <2>1. C \in Nat /\ IsFiniteSet(Filters \ {f}) /\ Cardinality(Filters \ {f}) = C - 1
    BY FilesAssumption, FS_CardinalityType, FS_RemoveElement
  <2>2. IsFiniteSet(N) /\ Cardinality(N) = C
    <3>1. C + 1 \in Int /\ IsFiniteSet(2 .. C + 1)
          /\ Cardinality(2 .. C + 1) = IF 2 > C + 1 THEN 0 ELSE (C + 1) - 2 + 1
      BY <2>1, FS_Interval
    <3> QED
      BY <2>1, <3>1
  <2>3. Free # {}
    <3> SUFFICES ASSUME Free = {} PROVE FALSE
      OBVIOUS
    <3> DEFINE h == [n \in N |-> CHOOSE g : g \in Named(Append(name, n))]
    <3>1. \A n \in N : h[n] \in Named(Append(name, n))
      <4>1. \A n \in N : Named(Append(name, n)) # {}
        OBVIOUS
      <4> QED
        BY <4>1
    <3>2. \A n \in N : Named(Append(name, n)) \subseteq Filters \ {f}
      BY DEF Named, Lists
    <3>3. h \in [N -> Filters \ {f}]
      <4>1. \A n \in N : h[n] \in Filters \ {f}
        BY <3>1, <3>2
      <4> QED
        BY <4>1
    <3> HIDE DEF h, N
    <3>4. Cardinality(Filters \ {f}) < Cardinality(N)
      BY <2>1, <2>2
    <3>5. PICK x \in N, y \in N : x # y /\ h[x] = h[y]
      BY <2>1, <2>2, <3>3, <3>4, FS_PigeonHole
    <3>6. Append(name, x) = Append(name, y)
      BY <3>1, <3>5 DEF Named
    <3>7. x \in Nat /\ y \in Nat
      BY <2>1 DEF N
    <3> QED
      BY <3>5, <3>6, <3>7, CountedNames, FilesAssumption
  <2>4. Min(Free) \in Free
    <3>1. Free \in SUBSET Nat
      BY <2>1
    <3> HIDE DEF Free
    <3> QED
      BY <2>3, <3>1, MinFacts
  <2>5. NewName(name, s) = Append(name, Min(Free))
    BY <1>2 DEF NewName
  <2> HIDE DEF N
  <2> QED
    BY <2>4, <2>5
<1> QED
  BY <1>1, <1>2

-----------------------------------------------------------------------------
(***************************************************************************)
(* Unloading.                                                              *)
(***************************************************************************)

\* A filter leaves its list and its dictionary, and the others stay in order.
LEMMA DetachedTables ==
  ASSUME Lists, Names, Modules, NEW f \in DOMAIN filter, NEW before, NEW under,
         f \in Listed(filter[f].stream), Detached(f, before, under),
         UNCHANGED <<app, filter>>
  PROVE  /\ Lists' /\ Names' /\ Modules'
         /\ \A t \in Streams : ToSet(list'[t]) = Listed(t) \ {f}
         /\ \A t \in Streams \ {filter[f].stream} : list'[t] = list[t]
         /\ \E n \in DOMAIN list[filter[f].stream] :
              /\ list[filter[f].stream][n] = f
              /\ list'[filter[f].stream] = RemoveAt(list[filter[f].stream], n)
<1>0. PICK s \in app : s = filter[f].stream
  BY DEF Lists
<1>1. s \in Streams /\ list[s] \in Seq(Filters) /\ IsInjective(list[s])
  BY DEF Lists
<1>2. PICK n \in DOMAIN list[s] : f = list[s][n]
  BY <1>0 DEF Listed, ToSet
<1>3. Place(s, f) = n
  BY <1>1, <1>2, PlaceFacts DEF Place
<1>4. /\ dict' = [dict EXCEPT ![s] = Restrict(@, DOMAIN @ \ {filter[f].name})]
      /\ list' = [list EXCEPT ![s] = RemoveAt(@, n)]
  BY <1>0, <1>3 DEF Detached
<1>5. /\ RemoveAt(list[s], n) \in Seq(Filters) /\ IsInjective(RemoveAt(list[s], n))
      /\ ToSet(RemoveAt(list[s], n)) = ToSet(list[s]) \ {f}
  BY <1>1, <1>2, RemovedAt, RemovedOnce
<1>6. \A t \in Streams : list'[t] = IF t = s THEN RemoveAt(list[s], n) ELSE list[t]
  BY <1>4 DEF Lists
<1>7. \A t \in Streams \ {s} : f \notin Listed(t)
  BY <1>0 DEF Lists
<1>8. \A t \in Streams : ToSet(list'[t]) = Listed(t) \ {f}
  <2> SUFFICES ASSUME NEW t \in Streams PROVE ToSet(list'[t]) = ToSet(list[t]) \ {f}
    BY DEF Listed
  <2>1. CASE t = s
    BY <1>5, <1>6, <2>1
  <2>2. CASE t # s
    BY <1>6, <1>7, <2>2 DEF Listed
  <2> QED
    BY <2>1, <2>2
<1>9. Lists'
  <2>1. list' \in [Streams -> Seq(Filters)]
    BY <1>4, <1>5 DEF Lists
  <2>2. \A t \in Streams : IsInjective(list'[t])
    BY <1>5, <1>6 DEF Lists
  <2>3. \A t \in Streams : \A g \in ToSet(list'[t]) : g \in DOMAIN filter' /\ filter'[g].stream = t
    BY <1>8 DEF Lists
  <2> QED
    BY <2>1, <2>2, <2>3 DEF Lists, Listed
<1>10. Names'
  <2>1. DOMAIN dict' = Streams
    BY <1>4 DEF Names
  <2>2. \A t \in Streams : dict'[t] = IF t = s
             THEN [name \in DOMAIN dict[s] \ {filter[f].name} |-> dict[s][name]] ELSE dict[t]
    BY <1>4 DEF Names, Restrict
  <2>3. \A t \in app : t \in Streams
    BY DEF Lists
  <2>4. \A t, u \in app : \A g \in ToSet(list'[t]), h \in ToSet(list'[u]) :
          filter'[g].name = filter'[h].name => g = h
    BY <1>8, <2>3 DEF Names
  <2>5. ASSUME NEW t \in app
        PROVE  /\ DOMAIN dict'[t] = {filter[g].name : g \in ToSet(list'[t])}
               /\ \A g \in ToSet(list'[t]) : dict'[t][filter[g].name] = g
    <3>1. CASE t = s
      <4>1. DOMAIN dict'[s] = DOMAIN dict[s] \ {filter[f].name}
        BY <1>1, <2>2
      <4>2. ToSet(list'[s]) = Listed(s) \ {f} /\ f \in Listed(s)
        BY <1>0, <1>1, <1>2, <1>8 DEF Listed, ToSet
      <4>3. \A g \in ToSet(list'[s]) : filter[g].name # filter[f].name
        BY <1>1, <4>2 DEF Names
      <4>4. DOMAIN dict'[s] = {filter[g].name : g \in ToSet(list'[s])}
        BY <1>1, <4>1, <4>2, <4>3 DEF Names
      <4>5. \A g \in ToSet(list'[s]) : dict'[s][filter[g].name] = g
        <5> SUFFICES ASSUME NEW g \in ToSet(list'[s])
                     PROVE  dict'[s][filter[g].name] = g
          OBVIOUS
        <5>1. g \in Listed(s) /\ filter[g].name # filter[f].name
          BY <4>2, <4>3
        <5>2. filter[g].name \in DOMAIN dict[s] /\ dict[s][filter[g].name] = g
          BY <5>1 DEF Names
        <5> QED
          BY <1>1, <2>2, <5>1, <5>2
      <4> QED
        BY <3>1, <4>4, <4>5
    <3>2. CASE t # s
      <4>1. ToSet(list'[t]) = Listed(t) /\ dict'[t] = dict[t]
        <5>1. t \in Streams \ {s} /\ f \notin Listed(t)
          BY <1>7, <2>3, <3>2
        <5>2. ToSet(list'[t]) = Listed(t)
          BY <1>8, <5>1
        <5> QED
          BY <2>2, <5>1, <5>2
      <4> QED
        BY <4>1 DEF Names, Listed
    <3> QED
      BY <3>1, <3>2
  <2> QED
    BY <2>1, <2>4, <2>5 DEF Names, Listed
<1>11. Modules'
  BY <1>8 DEF Modules, Lists, Listed
<1> QED
  BY <1>0, <1>1, <1>2, <1>6, <1>8, <1>9, <1>10, <1>11

\* Its destroy() is called on top of calls that are those in progress, with
\* at most the one of the same filter gone.
LEMMA DetachedCalls ==
  ASSUME Inv, NEW f \in DOMAIN filter, NEW before, NEW under,
         f \in Listed(filter[f].stream), Detached(f, before, under),
         UNCHANGED <<app, filter, opened>>,
         Chain(under), before = CallerOf(under),
         \A i \in DOMAIN under :
            /\ under[i].who # f
            /\ \E j \in DOMAIN frames : under[i] = frames[j],
         \A j \in DOMAIN frames :
            frames[j].who # f => \E i \in DOMAIN under : under[i] = frames[j]
  PROVE  /\ CallsExact' /\ Opened'
         /\ \A i \in DOMAIN frames' : \/ frames'[i].what = "destroy"
                                      \/ \E j \in DOMAIN frames : frames'[i] = frames[j]
<1> DEFINE c == [what |-> "destroy", who |-> f, saved |-> before]
<1>1. frames' = Append(under, c) /\ key' = f
  BY DEF Detached, Enter
<1>2. f \in Filters /\ c \in Call
  <2>1. f \in Filters
    BY DEF Inv, Lists
  <2>2. before \in Filters \cup {None}
    <3>1. under # <<>> => Last(under) \in Call
      BY ChainPop
    <3> QED
      BY <3>1 DEF CallerOf, Call
  <2> QED
    BY <2>1, <2>2 DEF Call
<1>3. c.who = f /\ c.saved = CallerOf(under) /\ c.what = "destroy"
  OBVIOUS
<1> HIDE DEF c
<1>4. /\ Chain(frames') /\ CallerOf(frames') = f
      /\ \A i \in DOMAIN under : i \in DOMAIN frames' /\ frames'[i] = under[i]
      /\ \A i \in DOMAIN frames' : i \in DOMAIN under \/ frames'[i] = c
      /\ \E i \in DOMAIN frames' : frames'[i] = c
  BY <1>1, <1>2, <1>3, ChainPush
<1>5. \A t \in Streams : ToSet(list'[t]) = Listed(t) \ {f}
  BY DetachedTables DEF Inv
<1>6. \A g \in DOMAIN filter : filter[g].stream \in Streams
  BY DEF Inv, Lists
<1>7. ASSUME NEW i \in DOMAIN frames'
      PROVE  /\ frames'[i].who \in DOMAIN filter
             /\ frames'[i].who \in ToSet(list'[filter[frames'[i].who].stream])
                  <=> frames'[i].what = "construct"
  <2>1. CASE frames'[i] = c
    BY <1>3, <1>5, <1>6, <2>1
  <2>2. CASE i \in DOMAIN under
    <3>1. PICK j \in DOMAIN frames : frames'[i] = frames[j] /\ frames[j].who # f
      BY <1>4, <2>2
    <3>2. /\ frames[j].who \in DOMAIN filter
          /\ frames[j].who \in Listed(filter[frames[j].who].stream)
               <=> frames[j].what = "construct"
      BY DEF Inv, CallsExact
    <3>3. ToSet(list'[filter[frames[j].who].stream]) = Listed(filter[frames[j].who].stream) \ {f}
      BY <1>5, <1>6, <3>2
    <3> QED
      BY <3>1, <3>2, <3>3
  <2> QED
    BY <1>4, <2>1, <2>2
<1>8. ASSUME NEW g \in DOMAIN filter, g \notin Running'
      PROVE  g \in ToSet(list'[filter[g].stream])
  <2>1. g # f
    BY <1>3, <1>4, <1>8 DEF Running
  <2>2. g \notin Running
    <3> SUFFICES ASSUME NEW j \in DOMAIN frames, frames[j].who = g PROVE FALSE
      BY DEF Running
    <3>1. PICK i \in DOMAIN under : under[i] = frames[j]
      BY <2>1
    <3> QED
      BY <1>4, <1>8, <3>1 DEF Running
  <2>3. g \in Listed(filter[g].stream)
    BY <2>2 DEF Inv, CallsExact
  <2> QED
    BY <1>5, <1>6, <2>1, <2>3
<1>9. CallsExact'
  BY <1>1, <1>4, <1>7, <1>8 DEF CallsExact, Listed
<1>10. Opened'
  BY DEF Inv, Opened, Users
<1> QED
  BY <1>3, <1>4, <1>9, <1>10

\* The walk stays at the first filter when another one goes.
LEMMA DetachedWalk ==
  ASSUME Inv, NEW f \in DOMAIN filter, NEW before, NEW under,
         f \in Listed(filter[f].stream), Detached(f, before, under),
         UNCHANGED <<app, filter, walk>>,
         \A i \in DOMAIN frames' : \/ frames'[i].what = "destroy"
                                   \/ \E j \in DOMAIN frames : frames'[i] = frames[j]
  PROVE  WalkFirst'
<1> SUFFICES ASSUME walk # None
             PROVE  /\ walk.at = None => list'[walk.stream] = <<>>
                    /\ walk.at \in ToSet(list'[walk.stream]) => walk.at = list'[walk.stream][1]
  BY DEF Inv, WalkFirst, Listed
<1> DEFINE ws == walk.stream
           s == filter[f].stream
<1>1. /\ ws \in Streams /\ s \in Streams
      /\ walk.at = None => list[ws] = <<>>
      /\ walk.at \in Listed(ws) => walk.at = list[ws][1]
  BY DEF Inv, WalkFirst, Lists
<1>2. /\ \A t \in Streams : ToSet(list'[t]) = Listed(t) \ {f}
      /\ \A t \in Streams \ {s} : list'[t] = list[t]
  BY DetachedTables DEF Inv
<1>3. PICK n \in DOMAIN list[s] : list[s][n] = f /\ list'[s] = RemoveAt(list[s], n)
  BY DetachedTables DEF Inv
<1>4. CASE ws # s
  BY <1>1, <1>2, <1>4
<1>5. CASE ws = s
  <2>1. list[s] # <<>> /\ walk.at # None
    BY <1>1, <1>3, <1>5, EmptySeq
  <2>2. ASSUME walk.at \in ToSet(list'[s])
        PROVE  walk.at = list'[s][1]
    <3>1. walk.at = list[s][1] /\ walk.at # f
      BY <1>1, <1>2, <1>5, <2>2
    <3>2. n # 1
      BY <1>3, <3>1
    <3>3. list[s] \in Seq(Filters) /\ DOMAIN list[s] = 1 .. Len(list[s]) /\ Len(list[s]) \in Nat
      BY <1>1, LenProperties DEF Inv, Lists
    <3>4. 1 \in 1 .. Len(list[s]) - 1 /\ 1 < n
      BY <1>3, <3>2, <3>3
    <3>5. list'[s][1] = list[s][1]
      BY <1>3, <3>3, <3>4, RemovedAt
    <3> QED
      BY <3>1, <3>5
  <2> QED
    BY <1>5, <2>1, <2>2
<1> QED
  BY <1>4, <1>5

\* qsFilterUnload()
LEMMA InvUnload ==
  ASSUME Inv, NEW f \in Filters, Unload(f)
  PROVE  Inv'
<1>1. /\ f \in DOMAIN filter /\ f \notin Running /\ Detached(f, key, frames)
      /\ UNCHANGED <<app, filter, opened, walk, broken>>
  BY DEF Unload
<1>2. f \in Listed(filter[f].stream) /\ Chain(frames) /\ key = CallerOf(frames)
  BY <1>1 DEF Inv, CallsExact
<1>3. Lists' /\ Names' /\ Modules'
  BY <1>1, <1>2, DetachedTables DEF Inv
<1>4. /\ CallsExact' /\ Opened'
      /\ \A i \in DOMAIN frames' : \/ frames'[i].what = "destroy"
                                   \/ \E j \in DOMAIN frames : frames'[i] = frames[j]
  BY <1>1, <1>2, DetachedCalls DEF Running
<1>5. WalkFirst'
  BY <1>1, <1>2, <1>4, DetachedWalk
<1> QED
  BY <1>1, <1>3, <1>4, <1>5 DEF Inv

\* A construct() returns; a filter that failed goes on to its destroy().
LEMMA InvConstructed ==
  ASSUME Inv, NEW ok \in BOOLEAN, Constructed(ok)
  PROVE  Inv'
<1> DEFINE f == Last(frames).who
<1>1. /\ frames # <<>> /\ Last(frames).what = "construct"
      /\ UNCHANGED <<app, filter, opened, walk, broken>>
  BY DEF Constructed
<1>2. /\ Chain(frames) /\ Chain(Front(frames))
      /\ CallerOf(Front(frames)) = Last(frames).saved
      /\ Len(frames) \in DOMAIN frames /\ Last(frames) = frames[Len(frames)]
      /\ \A i \in DOMAIN Front(frames) :
           /\ i \in DOMAIN frames /\ Front(frames)[i] = frames[i]
           /\ frames[i].who # f
      /\ \A i \in DOMAIN frames : i = Len(frames) \/ i \in DOMAIN Front(frames)
  BY <1>1, ChainPop DEF Inv, CallsExact
<1>3. f \in DOMAIN filter /\ f \in Listed(filter[f].stream)
  BY <1>1, <1>2 DEF Inv, CallsExact
<1> HIDE DEF f
<1>4. CASE ok
  <2>1. /\ frames' = Front(frames) /\ key' = Last(frames).saved
        /\ UNCHANGED <<list, dict>>
    BY <1>4 DEF Constructed
  <2>2. Lists' /\ Names' /\ Modules' /\ Opened'
    BY <1>1, <2>1 DEF Inv, Lists, Names, Modules, Opened, Users, Listed
  <2>3. CallsExact'
    <3>1. Chain(frames)' /\ key' = CallerOf(frames')
      BY <1>2, <2>1 DEF Chain
    <3>2. ASSUME NEW i \in DOMAIN frames'
          PROVE  /\ frames'[i].who \in DOMAIN filter'
                 /\ frames'[i].who \in ToSet(list'[filter'[frames'[i].who].stream])
                      <=> frames'[i].what = "construct"
      BY <1>1, <1>2, <2>1 DEF Inv, CallsExact, Listed
    <3>3. ASSUME NEW g \in DOMAIN filter', g \notin Running'
          PROVE  g \in ToSet(list'[filter'[g].stream])
      <4>1. CASE g = f
        BY <1>1, <1>3, <2>1, <4>1 DEF Listed
      <4>2. CASE g # f
        <5>1. g \notin Running
          BY <1>2, <2>1, <3>3, <4>2 DEF Running, f
        <5> QED
          BY <1>1, <2>1, <5>1 DEF Inv, CallsExact, Listed
      <4> QED
        BY <4>1, <4>2
    <3> QED
      BY <3>1, <3>2, <3>3 DEF CallsExact, Listed
  <2>4. WalkFirst'
    BY <1>1, <1>2, <2>1 DEF Inv, WalkFirst, Listed
  <2> QED
    BY <1>1, <2>2, <2>3, <2>4 DEF Inv
<1>5. CASE ~ok
  <2>1. Detached(f, Last(frames).saved, Front(frames))
    BY <1>5 DEF Constructed, f
  <2>2. Lists' /\ Names' /\ Modules'
    BY <1>1, <1>3, <2>1, DetachedTables DEF Inv
  <2>3. \A j \in DOMAIN frames :
          frames[j].who # f => \E i \in DOMAIN Front(frames) : Front(frames)[i] = frames[j]
    BY <1>2 DEF f
  <2>4. \A i \in DOMAIN Front(frames) :
          /\ Front(frames)[i].who # f
          /\ \E j \in DOMAIN frames : Front(frames)[i] = frames[j]
    BY <1>2
  <2>5. /\ CallsExact' /\ Opened'
        /\ \A i \in DOMAIN frames' : \/ frames'[i].what = "destroy"
                                     \/ \E j \in DOMAIN frames : frames'[i] = frames[j]
    BY <1>1, <1>2, <1>3, <2>1, <2>3, <2>4, DetachedCalls
  <2>6. WalkFirst'
    BY <1>1, <1>3, <2>1, <2>5, DetachedWalk
  <2> QED
    BY <1>1, <2>2, <2>5, <2>6 DEF Inv
<1> QED
  BY <1>4, <1>5

-----------------------------------------------------------------------------
(***************************************************************************)
(* Loading and freeing.                                                    *)
(***************************************************************************)

\* Two handles are one only if their files are and they are both the file's
\* or the copies for one filter.
LEMMA HandlesApart ==
  /\ \A a, b : Original(a) = Original(b) => a = b
  /\ \A a, b, g : Original(a) # CopyFor(b, g)
  /\ \A a, b, g, h : CopyFor(a, g) = CopyFor(b, h) => a = b /\ g = h
<1>1. \A a, b : Original(a) = Original(b) => a = b
  BY DEF Original
<1>2. ASSUME NEW a, NEW b, NEW g, Original(a) = CopyFor(b, g)
      PROVE  FALSE
  <2>1. Len(<<a>>) = 1 /\ Len(<<b, g>>) = 2
    OBVIOUS
  <2> QED
    BY <1>2, <2>1 DEF Original, CopyFor
<1>3. \A a, b, g, h : CopyFor(a, g) = CopyFor(b, h) => a = b /\ g = h
  BY DEF CopyFor
<1> QED
  BY <1>1, <1>2, <1>3

\* The module that a filter gets is used by no other filter of its stream.
LEMMA HandleGotApart ==
  ASSUME Lists, Modules, NEW s \in app, NEW file \in Files, NEW f \in Filters \ DOMAIN filter
  PROVE  /\ HandleGot(file, f, s) \in Handles
         /\ HandleGot(file, f, s) \in {Original(file), CopyFor(file, f)}
         /\ \A g \in Listed(s) : filter[g].handle # HandleGot(file, f, s)
<1>1. \A g \in Listed(s) : g \in DOMAIN filter /\ g # f
  BY DEF Lists
<1>2. CASE \E g \in Listed(s) : filter[g].handle = Original(file)
  <2>1. HandleGot(file, f, s) = CopyFor(file, f)
    BY <1>2 DEF HandleGot
  <2>2. ASSUME NEW g \in Listed(s) PROVE filter[g].handle # CopyFor(file, f)
    <3>1. PICK from \in Files : filter[g].handle \in {Original(from), CopyFor(from, g)}
      BY <1>1 DEF Modules
    <3> QED
      BY <1>1, <3>1, HandlesApart
  <2> QED
    BY <2>1, <2>2 DEF Handles
<1>3. CASE ~\E g \in Listed(s) : filter[g].handle = Original(file)
  <2>1. HandleGot(file, f, s) = Original(file)
    BY <1>3 DEF HandleGot
  <2> QED
    BY <1>3, <2>1 DEF Handles
<1> QED
  BY <1>2, <1>3

\* A filter is added to the tables, under a name that none has.
LEMMA LoadedTables ==
  ASSUME Lists, Names, Modules, NEW s \in app, NEW f \in Filters \ DOMAIN filter,
         NEW name, Named(name) = {}, NEW handle,
         \E file \in Files : handle \in {Original(file), CopyFor(file, f)},
         \A g \in Listed(s) : filter[g].handle # handle,
         filter' = Having(filter, f, [name |-> name, stream |-> s, handle |-> handle]),
         list' = [list EXCEPT ![s] = Append(@, f)],
         dict' = [dict EXCEPT ![s] = Having(@, name, f)],
         app' = app
  PROVE  /\ Lists' /\ Names' /\ Modules'
         /\ \A t \in Streams : ToSet(list'[t]) = IF t = s THEN Listed(s) \cup {f} ELSE Listed(t)
         /\ DOMAIN filter' = DOMAIN filter \cup {f} /\ f \notin DOMAIN filter
         /\ filter'[f].stream = s /\ filter'[f].handle = handle
         /\ \A g \in DOMAIN filter : filter'[g] = filter[g]
<1>1. /\ s \in Streams /\ list[s] \in Seq(Filters) /\ IsInjective(list[s])
      /\ \A t \in Streams : f \notin Listed(t)
  BY DEF Lists
<1>2. /\ DOMAIN filter' = DOMAIN filter \cup {f}
      /\ filter'[f] = [name |-> name, stream |-> s, handle |-> handle]
      /\ \A g \in DOMAIN filter : filter'[g] = filter[g]
  BY DEF Having
<1>3. /\ Append(list[s], f) \in Seq(Filters) /\ IsInjective(Append(list[s], f))
      /\ ToSet(Append(list[s], f)) = ToSet(list[s]) \cup {f}
  BY <1>1, AppendedList, AppendedOnce DEF Listed
<1>4. \A t \in Streams : list'[t] = IF t = s THEN Append(list[s], f) ELSE list[t]
  BY DEF Lists
<1>5. \A t \in Streams : ToSet(list'[t]) = IF t = s THEN Listed(s) \cup {f} ELSE Listed(t)
  <2>1. ASSUME NEW t \in Streams, t = s PROVE ToSet(list'[t]) = Listed(s) \cup {f}
    BY <1>3, <1>4, <2>1 DEF Listed
  <2>2. ASSUME NEW t \in Streams, t # s PROVE ToSet(list'[t]) = Listed(t)
    BY <1>4, <2>2 DEF Listed
  <2> QED
    BY <2>1, <2>2
<1>6. Lists'
  <2>1. list' \in [Streams -> Seq(Filters)]
    BY <1>3 DEF Lists
  <2>2. \A t \in Streams : IsInjective(list'[t])
    BY <1>3, <1>4 DEF Lists
  <2>3. ASSUME NEW t \in Streams, NEW g \in ToSet(list'[t])
        PROVE  g \in DOMAIN filter' /\ filter'[g].stream = t
    <3>1. CASE g = f
      BY <1>1, <1>2, <1>5, <3>1
    <3>2. CASE g # f
      BY <1>2, <1>5, <3>2 DEF Lists
    <3> QED
      BY <3>1, <3>2
  <2>4. \A g \in DOMAIN filter' : filter'[g].stream \in app /\ g \in Filters
    BY <1>2 DEF Lists
  <2> QED
    BY <2>1, <2>2, <2>3, <2>4 DEF Lists, Listed
<1>7. ASSUME NEW t \in app, NEW g \in ToSet(list'[t])
      PROVE  \/ g = f /\ t = s /\ filter'[g] = [name |-> name, stream |-> s, handle |-> handle]
             \/ g # f /\ g \in Listed(t) /\ filter'[g] = filter[g] /\ filter[g].name # name
  <2>1. t \in Streams
    BY DEF Lists
  <2>2. CASE g = f
    BY <1>1, <1>2, <1>5, <2>1, <2>2
  <2>3. CASE g # f
    <3>1. g \in Listed(t) /\ g \in DOMAIN filter
      BY <1>5, <2>1, <2>3 DEF Lists
    <3>2. filter[g].name # name
      BY <3>1 DEF Named
    <3> QED
      BY <1>2, <2>3, <3>1, <3>2
  <2> QED
    BY <2>2, <2>3
<1>8. Names'
  <2>1. DOMAIN dict' = Streams
    BY DEF Names
  <2>2. ASSUME NEW t \in app, NEW u \in app, NEW g \in ToSet(list'[t]), NEW h \in ToSet(list'[u]),
               filter'[g].name = filter'[h].name
        PROVE  g = h
    BY <1>7, <2>2 DEF Names
  <2>3. ASSUME NEW t \in app
        PROVE  /\ DOMAIN dict'[t] = {filter'[g].name : g \in ToSet(list'[t])}
               /\ \A g \in ToSet(list'[t]) : dict'[t][filter'[g].name] = g
    <3>1. t \in Streams
      BY DEF Lists
    <3>2. CASE t = s
      <4>1. /\ DOMAIN dict'[s] = DOMAIN dict[s] \cup {name}
            /\ \A y \in DOMAIN dict[s] \cup {name} :
                 dict'[s][y] = IF y = name THEN f ELSE dict[s][y]
        BY <1>1 DEF Names, Having
      <4>2. DOMAIN dict[s] = {filter[g].name : g \in Listed(s)}
            /\ \A g \in Listed(s) : dict[s][filter[g].name] = g
        BY DEF Names
      <4>3. ToSet(list'[s]) = Listed(s) \cup {f} /\ filter'[f].name = name
        BY <1>1, <1>2, <1>5
      <4>4. \A g \in Listed(s) : filter'[g] = filter[g] /\ filter[g].name # name
        BY <1>1, <1>7, <4>3
      <4>5. DOMAIN dict'[s] = {filter'[g].name : g \in ToSet(list'[s])}
        BY <4>1, <4>2, <4>3, <4>4
      <4>6. \A g \in ToSet(list'[s]) : dict'[s][filter'[g].name] = g
        BY <4>1, <4>2, <4>3, <4>4
      <4> QED
        BY <3>2, <4>5, <4>6
    <3>3. CASE t # s
      <4>1. /\ ToSet(list'[t]) = Listed(t) /\ dict'[t] = dict[t]
            /\ \A g \in Listed(t) : filter'[g] = filter[g]
        BY <1>2, <1>5, <3>1, <3>3 DEF Lists, Names
      <4> QED
        BY <4>1 DEF Names
    <3> QED
      BY <3>2, <3>3
  <2> QED
    BY <2>1, <2>2, <2>3 DEF Names, Listed
<1>9. Modules'
  <2>1. \A g \in DOMAIN filter' :
          \E file \in Files : filter'[g].handle \in {Original(file), CopyFor(file, g)}
    BY <1>2 DEF Modules
  <2>2. ASSUME NEW t \in app, NEW g \in ToSet(list'[t]), NEW h \in ToSet(list'[t]),
               filter'[g].handle = filter'[h].handle
        PROVE  g = h
    BY <1>7, <2>2 DEF Modules
  <2> QED
    BY <2>1, <2>2 DEF Modules, Listed
<1>10. filter'[f].stream = s /\ filter'[f].handle = handle
  BY <1>2
<1> QED
  BY <1>2, <1>5, <1>6, <1>8, <1>9, <1>10

\* qsStreamFilterLoad() up to the call of construct()
LEMMA InvLoad ==
  ASSUME Inv, NEW s \in Streams, NEW file \in Files, NEW asked \in LoadNames \cup {None},
         Load(s, file, asked)
  PROVE  Inv'
<1> DEFINE wanted == IF asked = None THEN DerivedName[file] ELSE asked
<1>1. MayLoad /\ s \in app /\ UNCHANGED <<app, walk, broken>>
  BY DEF Load
<1>2. PICK f \in Filters \ DOMAIN filter :
        /\ filter' = Having(filter, f, [name   |-> NewName(wanted, s), stream |-> s,
                                        handle |-> HandleGot(file, f, s)])
        /\ list' = [list EXCEPT ![s] = Append(@, f)]
        /\ dict' = [dict EXCEPT ![s] = Having(@, NewName(wanted, s), f)]
        /\ opened' = [opened EXCEPT ![HandleGot(file, f, s)] = @ + 1]
        /\ Enter("construct", f, key, frames)
  BY DEF Load
<1>3. PICK name : name = NewName(wanted, s)
  OBVIOUS
<1>4. PICK handle : handle = HandleGot(file, f, s)
  OBVIOUS
<1>5. Named(name) = {}
  BY <1>3, NewNameFresh DEF Inv
<1>6. /\ handle \in Handles /\ handle \in {Original(file), CopyFor(file, f)}
      /\ \A g \in Listed(s) : filter[g].handle # handle
  BY <1>1, <1>4, HandleGotApart DEF Inv
<1> HIDE DEF wanted
<1>7. /\ Lists' /\ Names' /\ Modules'
      /\ \A t \in Streams : ToSet(list'[t]) = IF t = s THEN Listed(s) \cup {f} ELSE Listed(t)
      /\ DOMAIN filter' = DOMAIN filter \cup {f} /\ f \notin DOMAIN filter
      /\ filter'[f].stream = s /\ filter'[f].handle = handle
      /\ \A g \in DOMAIN filter : filter'[g] = filter[g]
  <2>1. filter' = Having(filter, f, [name |-> name, stream |-> s, handle |-> handle])
    BY <1>2, <1>3, <1>4
  <2>2. dict' = [dict EXCEPT ![s] = Having(@, name, f)]
    BY <1>2, <1>3
  <2>3. \E from \in Files : handle \in {Original(from), CopyFor(from, f)}
    BY <1>6
  <2> QED
    BY <1>1, <1>2, <1>5, <1>6, <2>1, <2>2, <2>3, LoadedTables DEF Inv
<1>8. Opened'
  <2>1. opened' = [opened EXCEPT ![handle] = @ + 1]
    BY <1>2, <1>4
  <2>2. ASSUME NEW h \in Handles
        PROVE  opened'[h] = Cardinality({g \in DOMAIN filter' : filter'[g].handle = h})
    <3> DEFINE users == {g \in DOMAIN filter' : filter'[g].handle = h}
    <3>1. IsFiniteSet(Users(h)) /\ opened[h] = Cardinality(Users(h)) /\ opened[h] \in Nat
      BY FilesAssumption, FS_Subset DEF Users, Inv, Lists, Opened
    <3>2. CASE h = handle
      <4>1. users = Users(h) \cup {f} /\ f \notin Users(h)
        BY <1>7, <3>2 DEF Users
      <4>2. Cardinality(users) = Cardinality(Users(h)) + 1
        BY <3>1, <4>1, FS_AddElement
      <4> QED
        BY <2>1, <3>1, <3>2, <4>2 DEF Inv, Opened
    <3>3. CASE h # handle
      <4>1. users = Users(h)
        BY <1>7, <3>3 DEF Users
      <4> QED
        BY <2>1, <3>1, <3>3, <4>1 DEF Inv, Opened
    <3> QED
      BY <3>2, <3>3
  <2>3. opened' \in [Handles -> Nat]
    <3>1. opened \in [Handles -> Nat] /\ opened[handle] + 1 \in Nat
      BY <1>6 DEF Inv, Opened
    <3> QED
      BY <2>1, <3>1
  <2> QED
    BY <2>2, <2>3 DEF Opened, Users
<1>9. CallsExact'
  <2> DEFINE c == [what |-> "construct", who |-> f, saved |-> key]
  <2>1. frames' = Append(frames, c) /\ key' = f
    BY <1>2 DEF Enter
  <2>2. Chain(frames) /\ key = CallerOf(frames)
    BY DEF Inv, CallsExact
  <2>3. c \in Call
    <3>1. frames # <<>> => Last(frames) \in Call
      BY <2>2, ChainPop
    <3> QED
      BY <2>2, <3>1 DEF CallerOf, Call
  <2>4. c.who = f /\ c.saved = key /\ c.what = "construct"
    OBVIOUS
  <2> HIDE DEF c
  <2>5. \A i \in DOMAIN frames : frames[i].who # c.who
    BY <1>7, <2>4 DEF Inv, CallsExact
  <2>6. /\ Chain(frames') /\ CallerOf(frames') = f
        /\ \A i \in DOMAIN frames : i \in DOMAIN frames' /\ frames'[i] = frames[i]
        /\ \A i \in DOMAIN frames' : i \in DOMAIN frames \/ frames'[i] = c
        /\ \E i \in DOMAIN frames' : frames'[i] = c
    BY <2>1, <2>2, <2>3, <2>4, <2>5, ChainPush
  <2>7. ASSUME NEW g \in DOMAIN filter
        PROVE  /\ filter'[g].stream = filter[g].stream
               /\ g \in ToSet(list'[filter'[g].stream]) <=> g \in Listed(filter[g].stream)
    <3>1. filter[g].stream \in Streams /\ filter'[g] = filter[g] /\ g # f
      BY <1>7 DEF Inv, Lists
    <3> QED
      BY <1>7, <3>1
  <2>8. ASSUME NEW i \in DOMAIN frames'
        PROVE  /\ frames'[i].who \in DOMAIN filter'
               /\ frames'[i].who \in ToSet(list'[filter'[frames'[i].who].stream])
                    <=> frames'[i].what = "construct"
    <3>1. CASE frames'[i] = c
      BY <1>7, <2>4, <3>1
    <3>2. CASE i \in DOMAIN frames
      <4>1. /\ frames'[i] = frames[i] /\ frames[i].who \in DOMAIN filter
            /\ frames[i].who \in Listed(filter[frames[i].who].stream)
                 <=> frames[i].what = "construct"
        BY <2>6, <3>2 DEF Inv, CallsExact
      <4> QED
        BY <1>7, <2>7, <4>1
    <3> QED
      BY <2>6, <3>1, <3>2
  <2>9. ASSUME NEW g \in DOMAIN filter', g \notin Running'
        PROVE  g \in ToSet(list'[filter'[g].stream])
    <3>1. g # f
      BY <2>4, <2>6, <2>9 DEF Running
    <3>2. g \in DOMAIN filter /\ g \notin Running
      BY <1>7, <2>6, <2>9, <3>1 DEF Running
    <3> QED
      BY <2>7, <3>2 DEF Inv, CallsExact
  <2> QED
    BY <2>1, <2>6, <2>8, <2>9 DEF CallsExact, Listed
<1>10. WalkFirst'
  <2>1. walk = None
    <3>1. frames # <<>> => \E i \in DOMAIN frames : Last(frames) = frames[i]
      BY ChainPop DEF Inv, CallsExact
    <3> QED
      BY <1>1, <3>1 DEF MayLoad, Inv, WalkFirst
  <2> QED
    BY <1>1, <2>1 DEF WalkFirst
<1> QED
  BY <1>1, <1>7, <1>8, <1>9, <1>10 DEF Inv

\* destroy() returns: the filter is freed.
LEMMA InvDestroyed ==
  ASSUME Inv, Destroyed
  PROVE  Inv'
<1>1. PICK f : f = Last(frames).who
  OBVIOUS
<1>2. /\ frames # <<>> /\ Last(frames).what = "destroy"
      /\ frames' = Front(frames) /\ key' = Last(frames).saved
      /\ opened' = [opened EXCEPT ![filter[f].handle] = @ - 1]
      /\ filter' = Restrict(filter, DOMAIN filter \ {f})
      /\ UNCHANGED <<app, list, dict, walk, broken>>
  BY <1>1 DEF Destroyed
<1>3. /\ Chain(frames') /\ CallerOf(frames') = key'
      /\ Len(frames) \in DOMAIN frames /\ Last(frames) = frames[Len(frames)]
      /\ \A i \in DOMAIN frames' :
           i \in DOMAIN frames /\ frames'[i] = frames[i] /\ frames[i].who # f
      /\ \A i \in DOMAIN frames : i = Len(frames) \/ i \in DOMAIN frames'
  BY <1>1, <1>2, ChainPop DEF Inv, CallsExact
<1>4. f \in DOMAIN filter /\ f \notin Listed(filter[f].stream)
  BY <1>1, <1>2, <1>3 DEF Inv, CallsExact
<1>5. \A t \in Streams : f \notin Listed(t)
  BY <1>4 DEF Inv, Lists
<1>6. DOMAIN filter' = DOMAIN filter \ {f} /\ \A g \in DOMAIN filter \ {f} : filter'[g] = filter[g]
  BY <1>2 DEF Restrict
<1>7. \A t \in Streams : \A g \in Listed(t) :
        g \in DOMAIN filter \ {f} /\ filter[g].stream = t /\ filter'[g] = filter[g]
  BY <1>5, <1>6 DEF Inv, Lists
<1>8. \A t \in app : t \in Streams
  BY DEF Inv, Lists
<1>9. Lists'
  <2>1. \A t \in Streams : \A g \in ToSet(list'[t]) : g \in DOMAIN filter' /\ filter'[g].stream = t
    <3>1. \A t \in Streams : ToSet(list'[t]) = Listed(t)
      BY <1>2 DEF Listed
    <3> QED
      BY <1>6, <1>7, <3>1
  <2>2. \A g \in DOMAIN filter' : filter'[g].stream \in app /\ g \in Filters
    BY <1>6 DEF Inv, Lists
  <2> QED
    BY <1>2, <2>1, <2>2 DEF Inv, Lists, Listed
<1>10. Names'
  <2>1. \A t, u \in app : \A g \in Listed(t), h \in Listed(u) :
          filter'[g].name = filter'[h].name => g = h
    BY <1>7, <1>8 DEF Inv, Names
  <2>2. ASSUME NEW t \in app
        PROVE  /\ DOMAIN dict[t] = {filter'[g].name : g \in Listed(t)}
               /\ \A g \in Listed(t) : dict[t][filter'[g].name] = g
    <3>1. \A g \in Listed(t) : filter'[g] = filter[g]
      BY <1>7, <1>8
    <3> QED
      BY <3>1 DEF Inv, Names
  <2> QED
    <3>1. /\ DOMAIN dict' = Streams /\ app' = app /\ dict' = dict
          /\ \A t \in Streams : Listed(t) = ToSet(list'[t])
      BY <1>2 DEF Inv, Names, Listed
    <3>2. \A t, u \in app' : \A g \in ToSet(list'[t]), h \in ToSet(list'[u]) :
            filter'[g].name = filter'[h].name => g = h
      BY <1>8, <2>1, <3>1
    <3>3. \A t \in app' :
            /\ DOMAIN dict'[t] = {filter'[g].name : g \in ToSet(list'[t])}
            /\ \A g \in ToSet(list'[t]) : dict'[t][filter'[g].name] = g
      BY <1>8, <2>2, <3>1
    <3> QED
      BY <3>1, <3>2, <3>3 DEF Names, Listed
<1>11. Modules'
  <2>1. \A g \in DOMAIN filter' :
          \E file \in Files : filter'[g].handle \in {Original(file), CopyFor(file, g)}
    BY <1>6 DEF Inv, Modules
  <2>2. \A t \in app : \A g, h \in Listed(t) : filter'[g].handle = filter'[h].handle => g = h
    BY <1>7, <1>8 DEF Inv, Modules
  <2> QED
    BY <1>2, <2>1, <2>2 DEF Modules, Listed
<1>12. Opened'
  <2> DEFINE handle == filter[f].handle
  <2>0. opened' = [opened EXCEPT ![handle] = @ - 1] /\ DOMAIN opened = Handles
    BY <1>2 DEF Inv, Opened
  <2>1. handle \in Handles
    BY <1>4 DEF Inv, Modules, Lists, Handles
  <2> HIDE DEF handle
  <2>2. ASSUME NEW h \in Handles
        PROVE  /\ opened'[h] = Cardinality({g \in DOMAIN filter' : filter'[g].handle = h})
               /\ opened'[h] \in Nat
    <3> DEFINE users == {g \in DOMAIN filter' : filter'[g].handle = h}
    <3>1. IsFiniteSet(Users(h)) /\ opened[h] = Cardinality(Users(h)) /\ opened[h] \in Nat
      BY FilesAssumption, FS_Subset DEF Users, Inv, Lists, Opened
    <3>2. CASE h = handle
      <4>1. users = Users(h) \ {f} /\ f \in Users(h)
        BY <1>4, <1>6, <3>2 DEF Users, handle
      <4>2. Cardinality(users) = Cardinality(Users(h)) - 1 /\ Cardinality(users) \in Nat
        <5>1. IsFiniteSet(users) /\ Cardinality(users) = Cardinality(Users(h)) - 1
          BY <3>1, <4>1, FS_RemoveElement
        <5> QED
          BY <5>1, FS_CardinalityType
      <4>3. opened'[h] = opened[h] - 1
        BY <2>0, <3>2
      <4> QED
        BY <3>1, <4>2, <4>3
    <3>3. CASE h # handle
      <4>1. users = Users(h)
        BY <1>4, <1>6, <3>3 DEF Users, handle
      <4>2. opened'[h] = opened[h]
        BY <2>0, <3>3
      <4> QED
        BY <3>1, <4>1, <4>2
    <3> QED
      BY <3>2, <3>3
  <2>3. DOMAIN opened' = Handles /\ opened' = [h \in Handles |-> opened'[h]]
    BY <1>2 DEF Inv, Opened
  <2>4. opened' \in [Handles -> Nat]
    BY <2>2, <2>3
  <2> QED
    BY <2>2, <2>4 DEF Opened, Users
<1>13. CallsExact'
  <2>1. ASSUME NEW i \in DOMAIN frames'
        PROVE  /\ frames'[i].who \in DOMAIN filter'
               /\ frames'[i].who \in ToSet(list[filter'[frames'[i].who].stream])
                    <=> frames'[i].what = "construct"
    <3>1. /\ frames'[i] = frames[i] /\ frames[i].who # f /\ frames[i].who \in DOMAIN filter
          /\ frames[i].who \in ToSet(list[filter[frames[i].who].stream])
               <=> frames[i].what = "construct"
      BY <1>3 DEF Inv, CallsExact, Listed
    <3> QED
      BY <1>6, <3>1
  <2>2. ASSUME NEW g \in DOMAIN filter', g \notin Running'
        PROVE  g \in ToSet(list[filter'[g].stream])
    <3>1. g \in DOMAIN filter /\ g # f /\ filter'[g] = filter[g]
      BY <1>6
    <3>2. g \notin Running
      BY <1>1, <1>3, <2>2, <3>1 DEF Running
    <3> QED
      BY <3>1, <3>2 DEF Inv, CallsExact, Listed
  <2> QED
    BY <1>2, <1>3, <2>1, <2>2 DEF CallsExact, Listed
<1>14. WalkFirst'
  BY <1>2, <1>3 DEF Inv, WalkFirst, Listed
<1> QED
  BY <1>2, <1>9, <1>10, <1>11, <1>12, <1>13, <1>14 DEF Inv

-----------------------------------------------------------------------------
(***************************************************************************)
(* Streams.                                                                *)
(***************************************************************************)

\* Between calls every filter there is is in the list of its stream.
LEMMA AllListed ==
  ASSUME Inv, frames = <<>>
  PROVE  \A f \in DOMAIN filter :
           /\ filter[f].stream \in app /\ f \in Listed(filter[f].stream) /\ f \notin Running
           /\ list[filter[f].stream] # <<>>
<1>1. DOMAIN frames = {} /\ ToSet(<<>>) = {}
  BY DEF ToSet
<1> QED
  BY <1>1 DEF Inv, CallsExact, Lists, Running, Listed

\* qsAppStreamCreate()
LEMMA InvStreamCreate ==
  ASSUME Inv, NEW s \in Streams, StreamCreate(s)
  PROVE  Inv'
<1>1. /\ frames = <<>> /\ walk = None /\ s \notin app
      /\ app' = app \cup {s}
      /\ dict' = [dict EXCEPT ![s] = <<>>] /\ list' = [list EXCEPT ![s] = <<>>]
      /\ UNCHANGED <<filter, opened, key, frames, walk, broken>>
  BY DEF StreamCreate
<1>2. /\ ToSet(<<>>) = {} /\ DOMAIN <<>> = {} /\ <<>> \in Seq(Filters) /\ IsInjective(<<>>)
  BY DEF ToSet, IsInjective
<1>3. /\ \A t \in Streams : list'[t] = IF t = s THEN <<>> ELSE list[t]
      /\ \A t \in Streams : dict'[t] = IF t = s THEN <<>> ELSE dict[t]
      /\ DOMAIN dict' = Streams /\ list' \in [Streams -> Seq(Filters)]
  BY <1>1, <1>2 DEF Inv, Lists, Names
<1>4. \A f \in DOMAIN filter : filter[f].stream \in app /\ filter[f].stream \in Streams
                               /\ filter[f].stream # s
  BY <1>1 DEF Inv, Lists
<1>5. /\ ToSet(list'[s]) = {}
      /\ \A t \in Streams \ {s} : ToSet(list'[t]) = Listed(t) /\ dict'[t] = dict[t]
      /\ app' \subseteq Streams /\ s \in Streams
  BY <1>1, <1>2, <1>3 DEF Listed, Inv, Lists
<1>6. Lists'
  <2>1. \A t \in Streams : \A g \in ToSet(list'[t]) : g \in DOMAIN filter /\ filter[g].stream = t
    BY <1>5 DEF Inv, Lists
  <2>2. \A t \in Streams : IsInjective(list'[t])
    BY <1>2, <1>3 DEF Inv, Lists
  <2> QED
    BY <1>1, <1>3, <1>4, <1>5, <2>1, <2>2 DEF Inv, Lists, Listed
<1>7. Names'
  <2>1. \A t, u \in app' : \A g \in ToSet(list'[t]), h \in ToSet(list'[u]) :
          filter[g].name = filter[h].name => g = h
    BY <1>1, <1>5 DEF Inv, Names
  <2>2. ASSUME NEW t \in app'
        PROVE  /\ DOMAIN dict'[t] = {filter[g].name : g \in ToSet(list'[t])}
               /\ \A g \in ToSet(list'[t]) : dict'[t][filter[g].name] = g
    <3>1. CASE t = s
      BY <1>2, <1>3, <1>5, <3>1
    <3>2. CASE t # s
      <4>1. t \in app /\ ToSet(list'[t]) = Listed(t) /\ dict'[t] = dict[t]
        BY <1>1, <1>5, <3>2
      <4> QED
        BY <4>1 DEF Inv, Names
    <3> QED
      BY <3>1, <3>2
  <2> QED
    BY <1>1, <1>3, <2>1, <2>2 DEF Names, Listed
<1>8. Modules'
  <2>1. \A t \in app' : \A g, h \in ToSet(list'[t]) : filter[g].handle = filter[h].handle => g = h
    BY <1>1, <1>5 DEF Inv, Modules
  <2> QED
    BY <1>1, <2>1 DEF Inv, Modules, Listed
<1>9. CallsExact'
  <2>1. \A g \in DOMAIN filter : g \in ToSet(list'[filter[g].stream])
    BY <1>1, <1>4, <1>5, AllListed
  <2> QED
    BY <1>1, <1>2, <2>1 DEF Inv, CallsExact, Listed, Chain
<1>10. Opened' /\ WalkFirst'
  BY <1>1 DEF Inv, Opened, Users, WalkFirst
<1> QED
  BY <1>1, <1>6, <1>7, <1>8, <1>9, <1>10 DEF Inv

\* qsStreamDestroy() starts at the first filter.
LEMMA InvStreamDestroy ==
  ASSUME Inv, NEW s \in Streams, StreamDestroy(s)
  PROVE  Inv'
<1>1. /\ frames = <<>> /\ walk = None /\ s \in app
      /\ walk' = [stream |-> s, at |-> FirstIn(s)]
      /\ UNCHANGED <<app, list, dict, filter, opened, key, frames, broken>>
  BY DEF StreamDestroy
<1>2. /\ FirstIn(s) \in Filters \cup {None}
      /\ FirstIn(s) = None => list[s] = <<>>
      /\ FirstIn(s) \in Listed(s) => FirstIn(s) = list[s][1]
  <2>1. list[s] \in Seq(Filters)
    BY DEF Inv, Lists
  <2>2. CASE list[s] = <<>>
    <3>1. Listed(s) = {}
      BY <2>2 DEF Listed, ToSet
    <3> QED
      BY <2>2, <3>1 DEF FirstIn
  <2>3. CASE list[s] # <<>>
    <3>1. Head(list[s]) = list[s][1] /\ Head(list[s]) \in Filters
      BY <2>1, <2>3, HeadTailProperties
    <3> QED
      BY <2>3, <3>1, FilesAssumption DEF FirstIn
  <2> QED
    BY <2>2, <2>3
<1>3. WalkFirst'
  BY <1>1, <1>2 DEF WalkFirst, Listed
<1>4. Lists' /\ Names' /\ Modules' /\ Opened' /\ CallsExact'
  BY <1>1 DEF Inv, Lists, Names, Modules, Opened, Users, CallsExact, Running, Listed
<1> QED
  BY <1>1, <1>3, <1>4 DEF Inv

\* It destroys the filter it is at, which is the first, and goes to the next.
LEMMA InvWalk ==
  ASSUME Inv, Walk
  PROVE  Inv'
<1>1. PICK f, s : f = walk.at /\ s = walk.stream
  OBVIOUS
<1>2. /\ frames = <<>> /\ walk # None /\ f \in Listed(s)
      /\ walk' = [walk EXCEPT !.at = NextIn(s, f)]
      /\ Detached(f, key, frames)
      /\ UNCHANGED <<app, filter, opened, broken>>
  BY <1>1 DEF Walk
<1>3. /\ s \in app /\ s \in Streams /\ f = list[s][1]
      /\ walk = [stream |-> s, at |-> f]
      /\ list[s] \in Seq(Filters) /\ IsInjective(list[s])
      /\ f \in DOMAIN filter /\ filter[f].stream = s
  BY <1>1, <1>2 DEF Inv, WalkFirst, Lists
<1>4. /\ Chain(frames) /\ key = CallerOf(frames) /\ DOMAIN frames = {}
  BY <1>2 DEF Inv, CallsExact
<1>5. Lists' /\ Names' /\ Modules'
  BY <1>2, <1>3, DetachedTables DEF Inv
<1>6. /\ CallsExact' /\ Opened'
      /\ \A i \in DOMAIN frames' : frames'[i].what = "destroy"
  BY <1>2, <1>3, <1>4, DetachedCalls
<1>7. PICK n \in DOMAIN list[s] : list[s][n] = f /\ list'[s] = RemoveAt(list[s], n)
  BY <1>2, <1>3, DetachedTables DEF Inv
<1>8. /\ DOMAIN list[s] = 1 .. Len(list[s]) /\ Len(list[s]) \in Nat
      /\ 1 \in DOMAIN list[s] /\ n = 1
  <2>1. DOMAIN list[s] = 1 .. Len(list[s]) /\ Len(list[s]) \in Nat
    BY <1>3, LenProperties
  <2>2. 1 \in DOMAIN list[s]
    BY <1>7, <2>1
  <2> QED
    BY <1>3, <1>7, <2>1, <2>2 DEF IsInjective
<1>9. /\ list'[s] \in Seq(Filters) /\ Len(list'[s]) = Len(list[s]) - 1
      /\ DOMAIN list'[s] = 1 .. Len(list[s]) - 1
      /\ \A j \in 1 .. Len(list[s]) - 1 : list'[s][j] = list[s][j + 1]
  BY <1>3, <1>7, <1>8, RemovedAt
<1>10. /\ NextIn(s, f) \in Filters \cup {None}
       /\ NextIn(s, f) = None => list'[s] = <<>>
       /\ NextIn(s, f) # None => NextIn(s, f) = list'[s][1]
  <2>1. CASE f = Last(list[s])
    <3>1. Len(list[s]) = 1
      <4>1. 1 \in DOMAIN list[s] /\ Len(list[s]) \in DOMAIN list[s]
            /\ list[s][Len(list[s])] = list[s][1]
        <5> DEFINE N == Len(list[s])
        <5>1. N \in Nat /\ 1 \in 1 .. N
          BY <1>8
        <5> HIDE DEF N
        <5>2. N \in 1 .. N
          BY <5>1
        <5> QED
          BY <1>3, <1>8, <2>1, <5>2 DEF Last, N
      <4> QED
        BY <1>3, <4>1 DEF IsInjective
    <3>2. list'[s] = <<>>
      BY <1>9, <3>1, EmptySeq
    <3> QED
      BY <2>1, <3>2 DEF NextIn
  <2>2. CASE f # Last(list[s])
    <3>1. Len(list[s]) # 1
      BY <1>3, <2>2 DEF Last
    <3>2. Place(s, f) = 1
      BY <1>3, <1>8, PlaceFacts DEF Place
    <3>3. NextIn(s, f) = list[s][2]
      BY <2>2, <3>2 DEF NextIn
    <3>4. 1 \in 1 .. Len(list[s]) - 1 /\ 2 \in 1 .. Len(list[s])
      <4> DEFINE N == Len(list[s])
      <4>1. N \in Nat /\ 1 \in 1 .. N /\ N # 1
        BY <1>8, <3>1
      <4> HIDE DEF N
      <4>2. 1 \in 1 .. N - 1 /\ 2 \in 1 .. N
        BY <4>1
      <4> QED
        BY <4>2 DEF N
    <3>5. list'[s][1] = list[s][2] /\ list[s][2] \in Filters
      BY <1>3, <1>8, <1>9, <3>4, ElementOfSeq
    <3> QED
      BY <3>3, <3>5, FilesAssumption
  <2> QED
    BY <2>1, <2>2
<1>11. WalkFirst'
  <2>1. walk' = [stream |-> s, at |-> NextIn(s, f)]
    BY <1>2, <1>3
  <2>2. NextIn(s, f) \in ToSet(list'[s]) => NextIn(s, f) = list'[s][1]
    <3>1. ASSUME NextIn(s, f) = None PROVE NextIn(s, f) \notin ToSet(list'[s])
      BY <1>10, <3>1 DEF ToSet
    <3> QED
      BY <1>10, <3>1
  <2> QED
    BY <1>2, <1>3, <1>6, <1>10, <2>1, <2>2 DEF WalkFirst, Listed
<1> QED
  BY <1>2, <1>5, <1>6, <1>11 DEF Inv

\* The stream goes when none of its filters is left.
LEMMA InvWalkEnd ==
  ASSUME Inv, WalkEnd
  PROVE  Inv'
<1>1. PICK s : s = walk.stream
  OBVIOUS
<1>2. /\ frames = <<>> /\ walk # None /\ walk.at = None
      /\ app' = app \ {s} /\ walk' = None
      /\ UNCHANGED <<list, dict, filter, opened, key, frames, broken>>
  BY <1>1 DEF WalkEnd
<1>3. list[s] = <<>>
  BY <1>1, <1>2 DEF Inv, WalkFirst
<1>4. \A f \in DOMAIN filter : filter[f].stream \in app'
  BY <1>2, <1>3, AllListed
<1>5. Lists'
  BY <1>2, <1>4 DEF Inv, Lists, Listed
<1>6. Names' /\ Modules'
  BY <1>2 DEF Inv, Names, Modules, Listed
<1>7. Opened' /\ CallsExact' /\ WalkFirst'
  BY <1>2 DEF Inv, Opened, Users, CallsExact, Running, Listed, WalkFirst
<1> QED
  BY <1>2, <1>5, <1>6, <1>7 DEF Inv

-----------------------------------------------------------------------------
LEMMA InvInit ==
  ASSUME Init
  PROVE  Inv
<1>1. /\ ToSet(<<>>) = {} /\ DOMAIN <<>> = {} /\ <<>> \in Seq(Filters) /\ IsInjective(<<>>)
  BY DEF ToSet, IsInjective
<1>2. Lists
  BY <1>1 DEF Init, Lists, Listed
<1>3. Names /\ Modules
  BY <1>1 DEF Init, Names, Modules, Listed
<1>4. Opened
  <2>1. \A h \in Handles : Users(h) = {}
    BY <1>1 DEF Init, Users
  <2>2. Cardinality({}) = 0
    BY FS_EmptySet
  <2> QED
    BY <2>1, <2>2 DEF Init, Opened
<1>5. CallsExact
  <2>1. <<>> \in Seq(Call)
    OBVIOUS
  <2> QED
    BY <1>1, <2>1 DEF Init, CallsExact, Chain, CallerOf, Running
<1>6. WalkFirst /\ broken \in BOOLEAN
  BY DEF Init, WalkFirst
<1> QED
  BY <1>2, <1>3, <1>4, <1>5, <1>6 DEF Inv

LEMMA InvNext ==
  ASSUME Inv, [Next]_vars
  PROVE  Inv'
<1>1. CASE Next
  <2>1. ASSUME NEW s \in Streams, NEW file \in Files, NEW asked \in LoadNames \cup {None},
               Load(s, file, asked)
        PROVE  Inv'
    BY <2>1, InvLoad
  <2>2. ASSUME NEW s \in Streams, NEW file \in Files, NEW asked \in LoadNames \cup {None},
               LoadNoInput(s, file, asked)
        PROVE  Inv'
    BY <2>2 DEF LoadNoInput, Inv, Lists, Names, Modules, Opened, Users, CallsExact, Running,
                Listed, WalkFirst
  <2>3. ASSUME NEW ok \in BOOLEAN, Constructed(ok) PROVE Inv'
    BY <2>3, InvConstructed
  <2>4. ASSUME NEW f \in Filters, Unload(f) PROVE Inv'
    BY <2>4, InvUnload
  <2>5. ASSUME NEW s \in Streams, StreamCreate(s) \/ StreamDestroy(s) PROVE Inv'
    BY <2>5, InvStreamCreate, InvStreamDestroy
  <2>6. CASE WalkFreed
    BY <2>6 DEF WalkFreed, Inv, Lists, Names, Modules, Opened, Users, CallsExact, Running,
                Listed, WalkFirst
  <2> QED
    BY <1>1, <2>1, <2>2, <2>3, <2>4, <2>5, <2>6, InvDestroyed, InvWalk, InvWalkEnd DEF Next
<1>2. CASE UNCHANGED vars
  BY <1>2 DEF vars, Inv, Lists, Names, Modules, Opened, Users, CallsExact, Running, Listed,
              WalkFirst
<1> QED
  BY <1>1, <1>2

\* The inductive invariant: the tables, the calls and the walk agree, whatever
\* is loaded and unloaded from whichever construct() and destroy().
THEOREM FilterListInv == Spec => []Inv
BY InvInit, InvNext, PTL DEF Spec

LEMMA InvTypeOK ==
  ASSUME Inv
  PROVE  TypeOK
<1>1. \A f \in DOMAIN filter : filter[f].handle \in Handles
  BY DEF Inv, Modules, Lists, Handles
<1>2. key \in Filters \cup {None}
  <2>1. frames # <<>> => Last(frames) \in Call
    BY ChainPop DEF Inv, CallsExact
  <2> QED
    BY <2>1 DEF Inv, CallsExact, CallerOf, Call
<1> QED
  BY <1>1, <1>2 DEF Inv, Lists, Opened, TypeOK

\* No two filters of the app have one name, and every stream's dictionary finds
\* its filters and no others, for every way the names are asked for and made
\* (filterList.h:176, "name must be unique for all filters in stream").
THEOREM NamesAlwaysExact == Spec => []NamesExact
<1>1. ASSUME Inv PROVE NamesExact
  BY <1>1, InvTypeOK DEF Inv, Names, NamesExact
<1> QED
  BY <1>1, FilterListInv, PTL

\* The key names the filter whose function runs, no filter's functions are
\* nested in each other, and what is being destroyed can no longer be found
\* (filter.c:253; filterList.h:78, "A filter cannot unload itself").
THEOREM RunningAlwaysExact == Spec => []RunningExact
<1>1. ASSUME Inv PROVE RunningExact
  <2>1. IsInjective([i \in DOMAIN frames |-> frames[i].who])
    BY <1>1 DEF Inv, CallsExact, Chain, IsInjective
  <2> QED
    BY <1>1, <2>1 DEF Inv, CallsExact, CallerOf, RunningExact
<1> QED
  BY <1>1, FilterListInv, PTL

\* No two filters of a stream share a module's data, and a module is open
\* exactly as long as a filter uses it (filter.c:141).
THEOREM ModulesAlwaysApart == Spec => []ModulesApart
<1>1. ASSUME Inv PROVE ModulesApart
  BY <1>1 DEF Inv, Modules, Opened, Users, ModulesApart
<1> QED
  BY <1>1, FilterListInv, PTL
=============================================================================
