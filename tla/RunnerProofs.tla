---------------------------- MODULE RunnerProofs ----------------------------
(***************************************************************************)
(* The four properties of the program quickstream hold for every number of *)
(* filters and streams and every list of thread numbers.                   *)
(***************************************************************************)
EXTENDS Runner, TLAPS, SequenceTheorems

Stages == {"down", "ready", "flowing", "ended", "destroyed"}
Places == {"options", "adding", "launching", "inflow", "waiting", "stopping"} \cup Ends

\* The types, and that the filters were loaded stream by stream.
Shaped ==
  /\ filters \in Seq([stream : Nat \ {0}, loaded : BOOLEAN])
  /\ Len(streams) <= MaxStreams
  /\ at = "adding" => Len(streams) < MaxStreams
  /\ \A f \in DOMAIN filters : filters[f].stream <= Len(streams)
  /\ \A f, g \in DOMAIN filters : f < g => filters[f].stream <= filters[g].stream
  /\ connections \subseteq (DOMAIN filters) \X (DOMAIN filters)
  /\ lastFilterConnected \in 1..(numFilters + 1)
  /\ streams \in Seq(Stages)
  /\ sourcing \in Seq(Int) /\ Len(sourcing) = Len(streams)
  /\ maxThreads \in Seq(Nat) \ {<<>>}
  /\ ready \in BOOLEAN /\ catching \in BOOLEAN
  /\ lost \in BOOLEAN /\ edited \in BOOLEAN /\ early \in BOOLEAN
  /\ at \in Places /\ i \in Nat
  /\ why \in {"none", "across", "mode", "null", "unready", "unset", "freed"}
  /\ at # "broken" => why = "none"

\* The stream has not been launched yet in the run that goes on.
Pending(s) == (at = "launching" /\ i <= s) \/ (at = "inflow" /\ i < s)

\* How far isSourcing can be below what a launch sets it to.
Sourced ==
  \A s \in DOMAIN streams :
    /\ sourcing[s] \in -2..1
    /\ at # "broken" =>
         sourcing[s] >= (IF Pending(s) THEN -1 ELSE 0) - (IF catching THEN 0 ELSE 1)

\* What each stream may be, wherever the program is.
StreamsThere ==
  /\ at = "adding" /\ ready => edited
  /\ at \in {"launching", "inflow", "waiting", "stopping"} => i # 0
  /\ \A s \in DOMAIN streams :
      /\ at \in {"options", "adding"} =>
           /\ streams[s] \in {"down", "ready"}
           /\ ~ready => streams[s] = "down"
           /\ ready /\ ~edited => streams[s] = "ready"
      /\ Pending(s) =>
           /\ streams[s] \in {"down", "ready"}
           /\ ~edited => streams[s] = "ready"
      /\ at \in {"launching", "waiting"} /\ streams[s] = "flowing" => ThreadsFor(s) # 0
      /\ at \in {"launching", "waiting"} /\ streams[s] = "ended" /\ (at = "waiting" => s >= i)
           => ThreadsFor(s) = 0
      /\ at = "inflow" /\ s < i /\ streams[s] = "flowing" => ThreadsFor(s) # 0
      /\ at = "inflow" /\ s < i /\ streams[s] = "ended" => ThreadsFor(s) = 0
      /\ at = "inflow" /\ s = i => ThreadsFor(s) = 0
      /\ at = "waiting" /\ s < i => streams[s] # "flowing"
      /\ at = "stopping" => streams[s] # "flowing"
      /\ at = "stopping" /\ s < i => streams[s] = "down"
      /\ at \in {"returned", "destroyed"} => streams[s] # "flowing"

\* Which filters the loops over the unconnected ones would connect.
Marked ==
  /\ at = "adding" => lastFilterConnected = numFilters + 1
  /\ ~early =>
       /\ \A k \in 1..(numFilters - 1) :
            k >= lastFilterConnected => filters[k].stream = filters[k+1].stream
       /\ lastFilterConnected <= numFilters => filters[numFilters].stream = Len(streams)

\* A launch that is still to come finds the handler installed, or the signal
\* is already lost.
HandlerThere == (\E s \in DOMAIN streams : Pending(s)) => catching \/ lost

\* The inductive invariant.
RunInv ==
  Shaped /\ Sourced /\ StreamsThere /\ Marked /\ HandlerThere /\ LibraryObeyed /\ SignalHeard

-----------------------------------------------------------------------------
(***************************************************************************)
(* What the steps have in common.                                          *)
(***************************************************************************)

\* A function over the places of a sequence is one of the same length.
LEMMA SameLength ==
  ASSUME NEW S, NEW T, NEW s \in Seq(T), NEW t \in [DOMAIN s -> S]
  PROVE  t \in Seq(S) /\ Len(t) = Len(s)
<1>1. t \in [1..Len(s) -> S] /\ Len(s) \in Nat
  BY LenProperties
<1>2. t \in Seq(S)
  BY <1>1, SeqDef
<1> QED
  BY <1>1, <1>2, LenProperties

\* What the types say of places in the sequences.
LEMMA Lengths ==
  ASSUME Shaped
  PROVE  /\ numFilters \in Nat /\ DOMAIN filters = 1..numFilters
         /\ \A f \in 1..numFilters : filters[f].stream \in Nat \ {0}
         /\ Len(streams) \in Nat /\ DOMAIN streams = 1..Len(streams)
         /\ streams = <<>> <=> Len(streams) = 0
         /\ DOMAIN sourcing = 1..Len(streams)
         /\ Len(streams) = 0 => numFilters = 0
<1>1. numFilters \in Nat /\ DOMAIN filters = 1..numFilters
  BY LenProperties DEF Shaped, numFilters
<1>2. \A f \in 1..numFilters : filters[f] \in [stream : Nat \ {0}, loaded : BOOLEAN]
  BY ElementOfSeq DEF Shaped, numFilters
<1>3. /\ Len(streams) \in Nat /\ DOMAIN streams = 1..Len(streams)
      /\ streams = <<>> <=> Len(streams) = 0
  BY LenProperties, EmptySeq DEF Shaped
<1>4. DOMAIN sourcing = 1..Len(streams)
  BY LenProperties DEF Shaped
<1>5. Len(streams) = 0 => numFilters = 0
  <2> SUFFICES ASSUME Len(streams) = 0, numFilters # 0 PROVE FALSE
    OBVIOUS
  <2>1. 1 \in DOMAIN filters /\ filters[1].stream \in Nat \ {0}
    BY <1>1, <1>2
  <2>2. filters[1].stream <= 0
    BY <2>1 DEF Shaped
  <2> QED
    BY <2>1, <2>2
<1> QED
  BY <1>1, <1>2, <1>3, <1>4, <1>5

\* A step that leaves the graph alone and no stream out keeps the types.
LEMMA ShapedFrame ==
  ASSUME Shaped,
         UNCHANGED <<filters, connections, lastFilterConnected>>,
         streams' \in [DOMAIN streams -> Stages],
         sourcing' \in [DOMAIN sourcing -> Int],
         maxThreads' \in Seq(Nat) \ {<<>>},
         ready' \in BOOLEAN, catching' \in BOOLEAN,
         lost' \in BOOLEAN, edited' \in BOOLEAN, early' \in BOOLEAN,
         at' \in Places, at' = "adding" => at = "adding", i' \in Nat,
         at # "broken", why' = why
  PROVE  Shaped' /\ Len(streams') = Len(streams)
<1>1. streams' \in Seq(Stages) /\ Len(streams') = Len(streams)
  BY SameLength DEF Shaped
<1>2. sourcing' \in Seq(Int) /\ Len(sourcing') = Len(sourcing)
  BY SameLength DEF Shaped
<1> QED
  BY <1>1, <1>2 DEF Shaped, numFilters

\* ... and keeps what the marker says, unless a stream is being added.
LEMMA MarkedFrame ==
  ASSUME Marked, UNCHANGED <<filters, lastFilterConnected, early>>,
         Len(streams') = Len(streams), at' = "adding" => at = "adding"
  PROVE  Marked'
BY DEF Marked, numFilters

\* A step that touches neither the streams nor the handler, nor moves on.
LEMMA StreamsFrame ==
  ASSUME Shaped, Sourced, StreamsThere, HandlerThere, SignalHeard,
         UNCHANGED <<streams, sourcing, catching, maxThreads, ready, at, i, lost>>,
         edited => edited'
  PROVE  Sourced' /\ StreamsThere' /\ HandlerThere' /\ SignalHeard'
BY DEF Shaped, Sourced, StreamsThere, HandlerThere, SignalHeard, Pending, ThreadsFor

\* The program ends in the middle: only what ended it is to be looked at.
LEMMA BrokenStep ==
  ASSUME RunInv, NEW reason, Broken(reason), at # "broken",
         reason \in {"across", "mode", "null", "unready", "unset", "freed"},
         reason = "across" => early, reason = "unready" => edited, reason = "mode" => ready
  PROVE  RunInv'
<1>1. /\ UNCHANGED <<filters, connections, lastFilterConnected, streams, sourcing, catching,
                     maxThreads, ready, i, lost, edited, early>>
      /\ at' = "broken" /\ why' = reason
  BY DEF Broken, graphVars, histVars
<1>2. Shaped'
  BY <1>1, LenProperties DEF RunInv, Shaped, numFilters, Places, Ends
<1>3. Sourced' /\ StreamsThere' /\ HandlerThere' /\ SignalHeard'
  BY <1>1 DEF RunInv, Sourced, StreamsThere, HandlerThere, SignalHeard, Pending
<1>4. Marked'
  BY <1>1, MarkedFrame DEF RunInv
<1>5. LibraryObeyed'
  BY <1>1 DEF RunInv, LibraryObeyed, Across
<1> QED
  BY <1>2, <1>3, <1>4, <1>5 DEF RunInv

\* As long as the program goes on, only connections matter to the library.
LEMMA LibraryFrame ==
  ASSUME Shaped, Shaped', LibraryObeyed, at' # "broken", UNCHANGED connections,
         \A f \in DOMAIN filters : f \in DOMAIN filters' /\ filters'[f] = filters[f]
  PROVE  LibraryObeyed'
BY DEF Shaped, LibraryObeyed, Across

\* The connections a loop makes are of one stream, if the library takes them.
LEMMA ConnectedInOrder ==
  ASSUME Shaped, LibraryObeyed, Legal(InOrder), UNCHANGED <<filters, why>>, at # "broken",
         connections' = connections \cup InOrder
  PROVE  /\ connections' \subseteq (DOMAIN filters) \X (DOMAIN filters)
         /\ LibraryObeyed'
<1>1. InOrder \subseteq (DOMAIN filters) \X (DOMAIN filters)
  BY LenProperties DEF InOrder, numFilters, Shaped
<1>2. \A p \in connections' : ~Across(p)
  BY DEF Legal, LibraryObeyed
<1> QED
  BY <1>1, <1>2 DEF Shaped, LibraryObeyed, Across

-----------------------------------------------------------------------------
(***************************************************************************)
(* Building the streams.                                                   *)
(***************************************************************************)

LEMMA LoadControllerStep ==
  ASSUME RunInv, LoadController
  PROVE  RunInv'
<1>1. UNCHANGED <<filters, connections, lastFilterConnected, streams, sourcing, catching,
                  maxThreads, ready, at, i, why, lost, edited, early>> /\ at = "options"
  BY DEF LoadController, runVars, histVars
<1>2. Shaped'
  BY <1>1 DEF RunInv, Shaped, numFilters
<1>3. Sourced' /\ StreamsThere' /\ HandlerThere' /\ SignalHeard'
  BY <1>1, StreamsFrame DEF RunInv
<1>4. Marked'
  BY <1>1, MarkedFrame DEF RunInv
<1>5. LibraryObeyed'
  BY <1>1, <1>2, LibraryFrame DEF RunInv
<1> QED
  BY <1>2, <1>3, <1>4, <1>5 DEF RunInv

LEMMA LoadFilterStep ==
  ASSUME RunInv, LoadFilter
  PROVE  RunInv'
<1>0. /\ UNCHANGED <<connections, lastFilterConnected, catching, maxThreads, ready, at, i,
                     why, lost, early>>
      /\ at = "options" /\ edited' \in BOOLEAN
      /\ edited => edited'
      /\ streams = <<>> => streams' = <<"down">> /\ sourcing' = <<0>> /\ (ready => edited')
      /\ streams # <<>> => streams' = streams /\ sourcing' = sourcing
  BY DEF LoadFilter, runVars, RunInv, Shaped
<1>1. PICK new \in [stream : Nat \ {0}, loaded : BOOLEAN] :
        filters' = Append(filters, new) /\ new.stream = Len(streams')
  <2>1. Len(streams') \in Nat \ {0}
    BY <1>0, Lengths DEF RunInv
  <2> QED
    BY <2>1 DEF LoadFilter
<1>2. /\ filters' \in Seq([stream : Nat \ {0}, loaded : BOOLEAN])
      /\ Len(filters') = Len(filters) + 1 /\ Len(filters) \in Nat
      /\ DOMAIN filters = 1..Len(filters) /\ DOMAIN filters' = 1..(Len(filters) + 1)
      /\ filters'[Len(filters) + 1] = new
      /\ \A f \in DOMAIN filters : filters'[f] = filters[f]
  BY <1>1, AppendProperties, LenProperties DEF RunInv, Shaped
<1>3. streams = <<>> => Len(filters) = 0
  BY Lengths DEF RunInv, numFilters
<1>4. streams' \in Seq(Stages) /\ Len(streams') \in Nat /\ Len(streams') <= MaxStreams
      /\ Len(streams) <= Len(streams')
      /\ sourcing' \in Seq(Int) /\ Len(sourcing') = Len(streams')
  <2>1. CASE streams # <<>>
    BY <1>0, <2>1, Lengths DEF RunInv, Shaped
  <2>2. CASE streams = <<>>
    <3>1. <<"down">> \in Seq(Stages) /\ Len(<<"down">>) = 1
      BY DEF Stages
    <3>2. <<0>> \in Seq(Int) /\ Len(<<0>>) = 1
      OBVIOUS
    <3>3. streams' = <<"down">> /\ sourcing' = <<0>> /\ Len(streams) = 0
      BY <1>0, <2>2
    <3>4. MaxStreams \in Nat \ {0}
      BY RunnerAssumption
    <3> QED
      BY <3>1, <3>2, <3>3, <3>4
  <2> QED
    BY <2>1, <2>2
<1>5. Shaped'
  <2>1. /\ \A f \in DOMAIN filters' : filters'[f].stream <= Len(streams')
        /\ \A f, g \in DOMAIN filters' : f < g => filters'[f].stream <= filters'[g].stream
    <3>1. \A f \in DOMAIN filters : filters[f].stream \in Nat /\ filters[f].stream <= Len(streams)
      BY Lengths DEF RunInv, Shaped
    <3>2. \A f \in DOMAIN filters : filters'[f].stream <= Len(streams')
      BY <1>2, <1>4, <3>1, Lengths DEF RunInv
    <3>3. new.stream \in Nat /\ new.stream = Len(streams')
      BY <1>1
    <3>4. \A f \in DOMAIN filters' : filters'[f].stream <= Len(streams')
      BY <1>2, <3>2, <3>3
    <3>5. ASSUME NEW f \in DOMAIN filters', NEW g \in DOMAIN filters', f < g
          PROVE  filters'[f].stream <= filters'[g].stream
      <4>1. CASE g = Len(filters) + 1
        BY <1>2, <3>3, <3>4, <4>1
      <4>2. CASE g # Len(filters) + 1
        <5>1. f \in DOMAIN filters /\ g \in DOMAIN filters
          BY <1>2, <3>5, <4>2
        <5> QED
          BY <1>2, <3>5, <5>1 DEF RunInv, Shaped
      <4> QED
        BY <4>1, <4>2
    <3> QED
      BY <3>4, <3>5
  <2>2. /\ connections' \subseteq (DOMAIN filters') \X (DOMAIN filters')
        /\ lastFilterConnected' \in 1..(numFilters' + 1)
    BY <1>0, <1>2 DEF RunInv, Shaped, numFilters
  <2> QED
    BY <1>0, <1>2, <1>4, <2>1, <2>2 DEF RunInv, Shaped
<1>6. Sourced' /\ StreamsThere' /\ HandlerThere' /\ SignalHeard'
  <2>1. CASE streams # <<>>
    BY <1>0, <2>1, StreamsFrame DEF RunInv
  <2>2. CASE streams = <<>>
    <3>1. DOMAIN streams' = {1} /\ streams'[1] = "down" /\ sourcing'[1] = 0
      BY <1>0, <2>2
    <3> QED
      BY <1>0, <2>2, <3>1 DEF RunInv, Shaped, Sourced, StreamsThere, HandlerThere, SignalHeard, Pending
  <2> QED
    BY <2>1, <2>2
<1>7. Marked'
  <2> SUFFICES ASSUME ~early
               PROVE  /\ \A k \in 1..Len(filters) :
                           k >= lastFilterConnected => filters'[k].stream = filters'[k+1].stream
                      /\ filters'[Len(filters) + 1].stream = Len(streams')
    BY <1>0, <1>2 DEF Marked, numFilters
  <2>1. lastFilterConnected \in Nat
    BY DEF RunInv, Shaped
  <2>2. ASSUME NEW k \in 1..(Len(filters) - 1), k >= lastFilterConnected
        PROVE  filters'[k].stream = filters'[k+1].stream
    <3>1. k \in DOMAIN filters /\ k + 1 \in DOMAIN filters
      BY <1>2
    <3>2. filters[k].stream = filters[k+1].stream
      BY <2>2 DEF RunInv, Marked, numFilters
    <3> QED
      BY <1>2, <3>1, <3>2
  <2>3. ASSUME Len(filters) # 0, Len(filters) >= lastFilterConnected
        PROVE  filters'[Len(filters)].stream = Len(streams')
    BY <1>0, <1>2, <1>3, <2>1, <2>3 DEF RunInv, Marked, numFilters
  <2>4. filters'[Len(filters) + 1].stream = Len(streams')
    BY <1>1, <1>2
  <2>5. ASSUME NEW k \in 1..Len(filters), k >= lastFilterConnected
        PROVE  filters'[k].stream = filters'[k+1].stream
    <3>1. CASE k = Len(filters)
      BY <1>2, <2>3, <2>4, <2>5, <3>1
    <3>2. CASE k # Len(filters)
      <4>1. Len(filters) \in Nat
        BY <1>2
      <4>2. k \in 1..(Len(filters) - 1)
        BY <3>2, <4>1
      <4> QED
        BY <2>2, <2>5, <4>2
    <3> QED
      BY <3>1, <3>2
  <2> QED
    BY <2>4, <2>5
<1>8. LibraryObeyed'
  BY <1>0, <1>2, <1>5, LibraryFrame DEF RunInv
<1> QED
  BY <1>5, <1>6, <1>7, <1>8 DEF RunInv

LEMMA ConnectInOrderStep ==
  ASSUME RunInv, ConnectInOrder
  PROVE  RunInv'
<1>1. /\ UNCHANGED <<filters, streams, sourcing, catching, maxThreads, ready, at, i, why,
                     lost, edited>>
      /\ at = "options" /\ numFilters >= 2
      /\ lastFilterConnected' = numFilters
      /\ early' = (early \/ \A f \in 1..numFilters : filters[f].stream # Len(streams))
  BY DEF ConnectInOrder, runVars
<1>2. /\ connections' \subseteq (DOMAIN filters) \X (DOMAIN filters)
      /\ LibraryObeyed'
  BY <1>1, ConnectedInOrder DEF ConnectInOrder, RunInv
<1>3. Shaped'
  BY <1>1, <1>2, LenProperties DEF RunInv, Shaped, numFilters
<1>4. Sourced' /\ StreamsThere' /\ HandlerThere' /\ SignalHeard'
  BY <1>1, StreamsFrame DEF RunInv
<1>5. Marked'
  <2>1. ~early' => filters[numFilters].stream = Len(streams)
    <3>1. ASSUME NEW f \in 1..numFilters, filters[f].stream = Len(streams)
          PROVE  filters[numFilters].stream = Len(streams)
      <4>1. /\ numFilters \in DOMAIN filters /\ f \in DOMAIN filters /\ f <= numFilters
            /\ filters[numFilters].stream \in Nat /\ Len(streams) \in Nat
        BY <1>1, Lengths DEF RunInv
      <4>2. filters[numFilters].stream <= Len(streams)
        BY <4>1 DEF RunInv, Shaped
      <4>3. f < numFilters => Len(streams) <= filters[numFilters].stream
        BY <3>1, <4>1 DEF RunInv, Shaped
      <4> QED
        BY <3>1, <4>1, <4>2, <4>3
    <3> QED
      BY <1>1, <3>1
  <2> QED
    BY <1>1, <2>1, Lengths DEF RunInv, Marked, numFilters
<1> QED
  BY <1>2, <1>3, <1>4, <1>5 DEF RunInv

LEMMA ConnectGivenStep ==
  ASSUME RunInv, ConnectGiven
  PROVE  RunInv'
<1>1. /\ UNCHANGED <<filters, streams, sourcing, catching, maxThreads, ready, at, i, why,
                     lost, edited, early>>
      /\ at = "options"
  BY DEF ConnectGiven, runVars, histVars
<1>2. PICK p \in (1..numFilters) \X (1..numFilters) :
        /\ ~Across(p)
        /\ connections' = connections \cup {p}
        /\ lastFilterConnected' =
             CHOOSE m \in {lastFilterConnected, p[1], p[2]} :
               \A x \in {lastFilterConnected, p[1], p[2]} : x <= m
  BY DEF ConnectGiven
<1>3. lastFilterConnected' \in {lastFilterConnected, p[1], p[2]}
      /\ lastFilterConnected' >= lastFilterConnected
  <2>1. lastFilterConnected \in Int /\ p[1] \in Int /\ p[2] \in Int
    BY DEF RunInv, Shaped
  <2>2. \E m \in {lastFilterConnected, p[1], p[2]} :
          \A x \in {lastFilterConnected, p[1], p[2]} : x <= m
    BY <2>1
  <2> QED
    BY <1>2, <2>1, <2>2
<1>4. Shaped'
  <2>1. /\ numFilters \in Nat /\ DOMAIN filters = 1..numFilters
        /\ lastFilterConnected \in 1..(numFilters + 1)
        /\ p[1] \in 1..numFilters /\ p[2] \in 1..numFilters
    BY Lengths DEF RunInv, Shaped
  <2>2. connections' \subseteq (DOMAIN filters) \X (DOMAIN filters)
    BY <1>2, <2>1 DEF RunInv, Shaped
  <2>3. lastFilterConnected' \in 1..(numFilters + 1)
    BY <1>3, <2>1
  <2> QED
    BY <1>1, <2>2, <2>3 DEF RunInv, Shaped, numFilters
<1>5. Sourced' /\ StreamsThere' /\ HandlerThere' /\ SignalHeard'
  BY <1>1, StreamsFrame DEF RunInv
<1>6. Marked'
  BY <1>1, <1>3, Lengths DEF RunInv, Shaped, Marked, numFilters
<1>7. LibraryObeyed'
  BY <1>1, <1>2, <1>4 DEF RunInv, Shaped, LibraryObeyed, Across
<1> QED
  BY <1>4, <1>5, <1>6, <1>7 DEF RunInv

\* Two filters in a row that are of different streams, or of one that is
\* ready, and that no --connect has passed.
LEMMA MisconnectStep ==
  ASSUME RunInv, Misconnect
  PROVE  RunInv'
<1>1. PICK p \in InOrder :
        ~Legal({p}) /\ Broken(IF Across(p) THEN "across" ELSE "mode")
  BY DEF Misconnect
<1>2. /\ p[1] \in 1..numFilters /\ p[2] = p[1] + 1 /\ p[2] \in 1..numFilters
      /\ p[2] > lastFilterConnected
      /\ lastFilterConnected \in Nat /\ numFilters \in Nat
  BY Lengths DEF InOrder, RunInv, Shaped
<1>3. Across(p) => early
  BY <1>2 DEF RunInv, Marked, Across
<1>4. ~Across(p) => ready
  <2>1. ~Across(p) => ~Down(p)
    BY <1>1 DEF Legal
  <2>2. filters[p[1]].stream \in DOMAIN streams
    <3>1. /\ p[1] \in DOMAIN filters /\ filters[p[1]].stream \in Nat \ {0}
          /\ Len(streams) \in Nat /\ DOMAIN streams = 1..Len(streams)
      BY <1>2, Lengths DEF RunInv
    <3> QED
      BY <3>1 DEF RunInv, Shaped
  <2> QED
    BY <2>1, <2>2 DEF Misconnect, RunInv, StreamsThere, Down
<1> QED
  BY <1>1, <1>3, <1>4, BrokenStep DEF Misconnect

LEMMA AddStreamStep ==
  ASSUME RunInv, AddStream
  PROVE  RunInv'
<1>1. /\ UNCHANGED <<filters, streams, sourcing, catching, maxThreads, ready, i, why, lost,
                     early>>
      /\ at = "options" /\ at' = "adding" /\ Len(streams) < MaxStreams
      /\ lastFilterConnected' = numFilters + 1
      /\ edited' = (edited \/ ready)
  BY DEF AddStream
<1>2. /\ connections' \subseteq (DOMAIN filters) \X (DOMAIN filters)
      /\ LibraryObeyed'
  BY <1>1, ConnectedInOrder DEF AddStream, RunInv
<1>3. Shaped'
  BY <1>1, <1>2, LenProperties DEF RunInv, Shaped, numFilters, Places
<1>4. Sourced' /\ StreamsThere' /\ HandlerThere' /\ SignalHeard'
  BY <1>1 DEF RunInv, Sourced, StreamsThere, HandlerThere, SignalHeard, Pending
<1>5. Marked'
  BY <1>1, LenProperties DEF RunInv, Shaped, Marked, numFilters
<1> QED
  BY <1>2, <1>3, <1>4, <1>5 DEF RunInv

LEMMA StreamAddedStep ==
  ASSUME RunInv, StreamAdded
  PROVE  RunInv'
<1>1. /\ UNCHANGED <<filters, connections, lastFilterConnected, catching, maxThreads, ready,
                     i, why, lost, edited, early>>
      /\ at = "adding" /\ at' = "options"
      /\ streams' = Append(streams, "down")
      /\ sourcing' = Append(sourcing, 0)
  BY DEF StreamAdded, graphVars, histVars
<1>2. /\ streams' \in Seq(Stages) /\ Len(streams') = Len(streams) + 1 /\ Len(streams) \in Nat
      /\ DOMAIN streams = 1..Len(streams) /\ DOMAIN streams' = 1..(Len(streams) + 1)
      /\ streams'[Len(streams) + 1] = "down"
      /\ \A s \in DOMAIN streams : streams'[s] = streams[s]
  BY <1>1, AppendProperties, LenProperties DEF RunInv, Shaped, Stages
<1>3. /\ sourcing' \in Seq(Int) /\ Len(sourcing') = Len(streams')
      /\ sourcing'[Len(streams) + 1] = 0
      /\ \A s \in DOMAIN streams : sourcing'[s] = sourcing[s]
  <2>1. sourcing \in Seq(Int) /\ Len(sourcing) = Len(streams) /\ 0 \in Int
    BY DEF RunInv, Shaped
  <2> QED
    BY <1>1, <1>2, <2>1, AppendProperties
<1>4. Shaped'
  <2>1. Len(streams') <= MaxStreams
    BY <1>1, <1>2, RunnerAssumption DEF RunInv, Shaped
  <2>2. ASSUME NEW f \in DOMAIN filters
        PROVE  filters[f].stream <= Len(streams')
    <3>1. filters[f].stream \in Nat /\ filters[f].stream <= Len(streams)
      BY Lengths DEF RunInv, Shaped
    <3> QED
      BY <1>2, <3>1
  <2> QED
    BY <1>1, <1>2, <1>3, <2>1, <2>2 DEF RunInv, Shaped, numFilters, Places
<1>5. Sourced' /\ StreamsThere' /\ HandlerThere' /\ SignalHeard'
  <2>1. \A s \in DOMAIN streams' : s \in DOMAIN streams \/ s = Len(streams) + 1
    BY <1>2
  <2>2. Sourced'
    BY <1>1, <1>2, <1>3, <2>1 DEF RunInv, Sourced, Pending
  <2>3. StreamsThere'
    BY <1>1, <1>2, <1>3, <2>1 DEF RunInv, StreamsThere, Pending
  <2>4. HandlerThere' /\ SignalHeard'
    BY <1>1, <1>2, <1>3, <2>1 DEF RunInv, HandlerThere, SignalHeard, Pending
  <2> QED
    BY <2>2, <2>3, <2>4
<1>6. Marked'
  BY <1>1, LenProperties DEF RunInv, Shaped, Marked, numFilters
<1>7. LibraryObeyed'
  BY <1>1, <1>4, LibraryFrame DEF RunInv
<1> QED
  BY <1>4, <1>5, <1>6, <1>7 DEF RunInv

\* There is no first stream to be added: the program ends.
LEMMA FirstStreamAddedStep ==
  ASSUME RunInv, FirstStreamAdded
  PROVE  RunInv'
BY BrokenStep DEF FirstStreamAdded

LEMMA SetThreadsStep ==
  ASSUME RunInv, SetThreads
  PROVE  RunInv'
<1>1. /\ UNCHANGED <<filters, connections, lastFilterConnected, streams, sourcing, catching,
                     ready, at, i, why, lost, edited, early>>
      /\ at = "options"
  BY DEF SetThreads, graphVars, histVars
<1>2. maxThreads' \in Seq(Nat) \ {<<>>}
  <2>1. PICK list \in ThreadLists :
          LET n == IF Len(list) > Len(maxThreads) THEN Len(list) ELSE Len(maxThreads)
          IN maxThreads' = [k \in 1..n |-> IF k <= Len(list) THEN list[k] ELSE maxThreads[k]]
    BY DEF SetThreads
  <2> DEFINE n == IF Len(list) > Len(maxThreads) THEN Len(list) ELSE Len(maxThreads)
  <2>2. list \in Seq(Nat) /\ Len(list) \in Nat
    BY RunnerAssumption, LenProperties
  <2>3. maxThreads \in Seq(Nat) /\ maxThreads # <<>> /\ Len(maxThreads) \in Nat \ {0}
    BY LenProperties, EmptySeq DEF RunInv, Shaped
  <2>4. \A k \in 1..n : (IF k <= Len(list) THEN list[k] ELSE maxThreads[k]) \in Nat
    BY <2>2, <2>3, ElementOfSeq
  <2>5. n \in Nat \ {0}
    BY <2>2, <2>3
  <2> HIDE DEF n
  <2>6. maxThreads' \in [1..n -> Nat]
    BY <2>1, <2>4 DEF n
  <2>7. maxThreads' \in Seq(Nat) /\ Len(maxThreads') = n
    BY <2>5, <2>6, SeqDef, LenProperties
  <2> QED
    BY <2>5, <2>7, EmptySeq
<1>3. Shaped'
  BY <1>1, <1>2 DEF RunInv, Shaped, numFilters
<1>4. Sourced' /\ StreamsThere' /\ HandlerThere' /\ SignalHeard'
  BY <1>1 DEF RunInv, Sourced, StreamsThere, HandlerThere, SignalHeard, Pending
<1>5. Marked'
  BY <1>1, MarkedFrame DEF RunInv
<1>6. LibraryObeyed'
  BY <1>1, <1>3, LibraryFrame DEF RunInv
<1> QED
  BY <1>3, <1>4, <1>5, <1>6 DEF RunInv

-----------------------------------------------------------------------------
(***************************************************************************)
(* --ready, --run and the end.                                             *)
(***************************************************************************)

\* A step of these kinds changes stages, and nothing of the graph.
LEMMA RunFrame ==
  ASSUME RunInv, at # "broken",
         UNCHANGED <<filters, connections, lastFilterConnected, why, early>>,
         streams' \in [DOMAIN streams -> Stages],
         sourcing' \in [DOMAIN sourcing -> Int],
         maxThreads' = maxThreads,
         ready' \in BOOLEAN, catching' \in BOOLEAN, lost' \in BOOLEAN, edited' \in BOOLEAN,
         at' \in Places \ {"broken"}, at' = "adding" => at = "adding", i' \in Nat
  PROVE  /\ Shaped' /\ Marked' /\ LibraryObeyed'
         /\ DOMAIN streams' = DOMAIN streams
<1>1. maxThreads' \in Seq(Nat) \ {<<>>} /\ early' \in BOOLEAN
  BY DEF RunInv, Shaped
<1>2. Shaped' /\ Len(streams') = Len(streams)
  BY <1>1, ShapedFrame DEF RunInv
<1>3. Marked'
  BY <1>2, MarkedFrame DEF RunInv
<1>4. LibraryObeyed'
  BY <1>2, LibraryFrame DEF RunInv
<1> QED
  BY <1>2, <1>3, <1>4

LEMMA ReadyStep ==
  ASSUME RunInv, Ready
  PROVE  RunInv'
<1>1. /\ UNCHANGED <<filters, connections, lastFilterConnected, sourcing, catching,
                     maxThreads, at, i, why, lost, early>>
      /\ at = "options" /\ ready' = TRUE /\ edited' = FALSE
      /\ streams' = [s \in DOMAIN streams |-> "ready"]
  BY DEF Ready, AllReadied, graphVars
<1>2. /\ Shaped' /\ Marked' /\ LibraryObeyed'
      /\ DOMAIN streams' = DOMAIN streams
  <2>1. streams' \in [DOMAIN streams -> Stages]
    BY <1>1 DEF Stages
  <2>2. sourcing' \in [DOMAIN sourcing -> Int] /\ i' \in Nat
        /\ catching' \in BOOLEAN /\ lost' \in BOOLEAN
    BY <1>1, LenProperties, SeqDef DEF RunInv, Shaped
  <2> QED
    BY <1>1, <2>1, <2>2, RunFrame DEF Places, Ends
<1>3. Sourced' /\ StreamsThere' /\ HandlerThere' /\ SignalHeard'
  BY <1>1, <1>2 DEF RunInv, Sourced, StreamsThere, HandlerThere, SignalHeard, Pending
<1> QED
  BY <1>2, <1>3 DEF RunInv

LEMMA RunOptionStep ==
  ASSUME RunInv, Run
  PROVE  RunInv'
<1>1. /\ UNCHANGED <<filters, connections, lastFilterConnected, sourcing, maxThreads, why,
                     early>>
      /\ at = "options" /\ at' = "launching" /\ i' = 1
      /\ ready' = TRUE /\ catching' = TRUE /\ lost' = FALSE
      /\ \/ ready /\ UNCHANGED <<streams, edited>>
         \/ ~ready /\ streams' = [s \in DOMAIN streams |-> "ready"] /\ edited' = FALSE
  BY DEF Run, AllReadied, graphVars
<1>2. /\ Shaped' /\ Marked' /\ LibraryObeyed'
      /\ DOMAIN streams' = DOMAIN streams
  <2>1. streams' \in [DOMAIN streams -> Stages] /\ edited' \in BOOLEAN
    BY <1>1, LenProperties, SeqDef DEF RunInv, Shaped, Stages
  <2>2. sourcing' \in [DOMAIN sourcing -> Int] /\ i' \in Nat
    BY <1>1, LenProperties, SeqDef DEF RunInv, Shaped
  <2> QED
    BY <1>1, <2>1, <2>2, RunFrame DEF Places, Ends
<1>3. \A s \in DOMAIN streams : s \in Nat \ {0} /\ sourcing[s] \in -2..1
  BY Lengths DEF RunInv, Sourced
<1>4. Sourced'
  <2>1. ASSUME NEW s \in DOMAIN streams
        PROVE  sourcing[s] >= -1
    <3>1. ~Pending(s) /\ sourcing[s] \in -2..1
      BY <1>1, <1>3 DEF Pending
    <3>2. sourcing[s] >= 0 - (IF catching THEN 0 ELSE 1)
      BY <1>1, <3>1 DEF RunInv, Sourced
    <3> QED
      BY <3>1, <3>2
  <2>2. \A s \in DOMAIN streams' : sourcing'[s] = sourcing[s] /\ Pending(s)'
    BY <1>1, <1>2, <1>3 DEF Pending
  <2> QED
    BY <1>1, <1>2, <1>3, <2>1, <2>2 DEF Sourced
<1>5. StreamsThere'
  BY <1>1, <1>2, <1>3 DEF RunInv, StreamsThere, Pending
<1>6. HandlerThere' /\ SignalHeard'
  BY <1>1 DEF HandlerThere, SignalHeard
<1> QED
  BY <1>2, <1>4, <1>5, <1>6 DEF RunInv

LEMMA RefuseStep ==
  ASSUME RunInv, Refuse
  PROVE  RunInv'
<1>1. /\ UNCHANGED <<filters, connections, lastFilterConnected, streams, sourcing, catching,
                     maxThreads, ready, i, why, lost, edited, early>>
      /\ at = "options" /\ at' = "returned"
  BY DEF Refuse, graphVars, histVars
<1>2. /\ Shaped' /\ Marked' /\ LibraryObeyed'
      /\ DOMAIN streams' = DOMAIN streams
  <2>1. /\ streams' \in [DOMAIN streams -> Stages] /\ sourcing' \in [DOMAIN sourcing -> Int]
        /\ i' \in Nat /\ ready' \in BOOLEAN /\ catching' \in BOOLEAN
        /\ lost' \in BOOLEAN /\ edited' \in BOOLEAN
    BY <1>1, LenProperties, SeqDef DEF RunInv, Shaped
  <2> QED
    BY <1>1, <2>1, RunFrame DEF Places, Ends
<1>3. Sourced' /\ StreamsThere' /\ HandlerThere' /\ SignalHeard'
  BY <1>1 DEF RunInv, Sourced, StreamsThere, HandlerThere, SignalHeard, Pending
<1> QED
  BY <1>2, <1>3 DEF RunInv

LEMMA LaunchNextStep ==
  ASSUME RunInv, LaunchNext
  PROVE  RunInv'
<1>1. /\ UNCHANGED <<filters, connections, lastFilterConnected, catching, maxThreads, ready,
                     why, lost, edited, early>>
      /\ at = "launching" /\ i <= Len(streams) /\ streams[i] = "ready"
      /\ streams' = [streams EXCEPT ![i] = "flowing"]
      /\ sourcing' = [sourcing EXCEPT ![i] = 1]
      /\ \/ ThreadsFor(i) = 0 /\ at' = "inflow" /\ i' = i
         \/ ThreadsFor(i) # 0 /\ at' = "launching" /\ i' = i + 1
  BY DEF LaunchNext, graphVars, histVars
<1>2. /\ i \in Nat /\ streams \in [DOMAIN streams -> Stages] /\ sourcing \in [DOMAIN streams -> Int]
      /\ DOMAIN streams \subseteq Nat /\ DOMAIN sourcing = DOMAIN streams
      /\ catching \in BOOLEAN
  <2>1. DOMAIN sourcing = DOMAIN streams /\ DOMAIN streams \subseteq Nat
    BY Lengths DEF RunInv
  <2> QED
    BY <2>1, LenProperties, SeqDef DEF RunInv, Shaped
<1>3. /\ Shaped' /\ Marked' /\ LibraryObeyed'
      /\ DOMAIN streams' = DOMAIN streams
  <2>1. /\ ready' \in BOOLEAN /\ catching' \in BOOLEAN
        /\ lost' \in BOOLEAN /\ edited' \in BOOLEAN
    BY <1>1 DEF RunInv, Shaped
  <2>2. streams' \in [DOMAIN streams -> Stages]
    BY <1>1, <1>2 DEF Stages
  <2>3. sourcing' \in [DOMAIN sourcing -> Int]
    <3>1. sourcing \in [DOMAIN sourcing -> Int]
      BY <1>2
    <3>2. sourcing' = [s \in DOMAIN sourcing |-> IF s = i THEN 1 ELSE sourcing[s]]
      BY <1>1, <3>1
    <3>3. \A s \in DOMAIN sourcing : sourcing[s] \in Int
      BY <3>1
    <3> QED
      BY <3>2, <3>3
  <2>4. i' \in Nat
    BY <1>1, <1>2
  <2> QED
    BY <1>1, <2>1, <2>2, <2>3, <2>4, RunFrame DEF Places, Ends
<1>4. \A s \in DOMAIN streams : /\ s # i => streams'[s] = streams[s] /\ sourcing'[s] = sourcing[s]
                                /\ s = i => streams'[s] = "flowing" /\ sourcing'[s] = 1
                                /\ s \in Nat /\ ThreadsFor(s)' = ThreadsFor(s)
  BY <1>1, <1>2 DEF ThreadsFor
<1>5. Sourced'
  BY <1>1, <1>2, <1>3, <1>4 DEF RunInv, Sourced, Pending
<1>6. StreamsThere'
  BY <1>1, <1>2, <1>3, <1>4 DEF RunInv, StreamsThere, Pending
<1>7. HandlerThere'
  BY <1>1, <1>2, <1>3, <1>4 DEF RunInv, HandlerThere, Pending
<1>8. SignalHeard'
  <2>1. i \in DOMAIN streams => catching \/ lost
    BY <1>1, <1>2 DEF RunInv, HandlerThere, Pending
  <2> QED
    BY <1>1, <1>3, <1>4, <2>1 DEF RunInv, SignalHeard
<1> QED
  BY <1>3, <1>5, <1>6, <1>7, <1>8 DEF RunInv

LEMMA LaunchUnreadyStep ==
  ASSUME RunInv, LaunchUnready
  PROVE  RunInv'
<1>1. at = "launching" /\ i <= Len(streams) /\ streams[i] # "ready" /\ Broken("unready")
  BY DEF LaunchUnready
<1>2. i \in DOMAIN streams
  <2>1. i \in Nat \ {0}
    BY <1>1 DEF RunInv, StreamsThere, Shaped
  <2>2. Len(streams) \in Nat /\ DOMAIN streams = 1..Len(streams)
    BY Lengths DEF RunInv
  <2> QED
    BY <1>1, <2>1, <2>2
<1>3. Pending(i)
  BY <1>1 DEF RunInv, Shaped, Pending
<1>4. ~edited => streams[i] = "ready"
  BY <1>2, <1>3 DEF RunInv, StreamsThere
<1>5. edited
  BY <1>1, <1>4 DEF RunInv, Shaped
<1> QED
  BY <1>1, <1>5, BrokenStep

\* What the steps of the loops of --run have in common.
LEMMA LoopFrame ==
  ASSUME RunInv, at \in {"launching", "inflow", "waiting", "stopping"},
         UNCHANGED <<filters, connections, lastFilterConnected, sourcing, catching,
                     maxThreads, why, lost, edited, early>>,
         ready' \in BOOLEAN, at' \in Places \ {"broken", "adding"}, i' \in Nat,
         \/ streams' = streams
         \/ \E new \in Stages : streams' = [streams EXCEPT ![i] = new]
  PROVE  /\ Shaped' /\ Marked' /\ LibraryObeyed'
         /\ DOMAIN streams' = DOMAIN streams /\ DOMAIN streams \subseteq Nat \ {0}
         /\ \A s \in DOMAIN streams : ThreadsFor(s)' = ThreadsFor(s)
<1>1. /\ streams \in [DOMAIN streams -> Stages] /\ sourcing' \in [DOMAIN sourcing -> Int]
      /\ catching' \in BOOLEAN /\ lost' \in BOOLEAN /\ edited' \in BOOLEAN
  BY LenProperties, SeqDef DEF RunInv, Shaped
<1>2. streams' \in [DOMAIN streams -> Stages]
  BY <1>1
<1>3. /\ Shaped' /\ Marked' /\ LibraryObeyed'
      /\ DOMAIN streams' = DOMAIN streams
  BY <1>1, <1>2, RunFrame DEF Places, Ends
<1>4. DOMAIN streams \subseteq Nat \ {0}
  BY Lengths DEF RunInv
<1> QED
  BY <1>3, <1>4 DEF ThreadsFor

LEMMA FlowReturnsStep ==
  ASSUME RunInv, FlowReturns
  PROVE  RunInv'
<1>1. /\ UNCHANGED <<filters, connections, lastFilterConnected, sourcing, catching,
                     maxThreads, ready, why, lost, edited, early>>
      /\ at = "inflow" /\ at' = "launching" /\ i' = i + 1
      /\ streams' = [streams EXCEPT ![i] = "ended"]
  BY DEF FlowReturns, graphVars, histVars
<1>2. i \in Nat \ {0} /\ ready' \in BOOLEAN
  BY <1>1 DEF RunInv, Shaped, StreamsThere
<1>3. /\ Shaped' /\ Marked' /\ LibraryObeyed'
      /\ DOMAIN streams' = DOMAIN streams /\ DOMAIN streams \subseteq Nat \ {0}
      /\ \A s \in DOMAIN streams : ThreadsFor(s)' = ThreadsFor(s)
  BY <1>1, <1>2, LoopFrame DEF Places, Ends, Stages
<1>4. \A s \in DOMAIN streams : streams'[s] = IF s = i THEN "ended" ELSE streams[s]
  BY <1>1, <1>3
<1>5. Sourced'
  BY <1>1, <1>2, <1>3, <1>4 DEF RunInv, Sourced, Pending
<1>6. StreamsThere'
  BY <1>1, <1>2, <1>3, <1>4 DEF RunInv, StreamsThere, Pending
<1>7. HandlerThere' /\ SignalHeard'
  BY <1>1, <1>2, <1>3, <1>4 DEF RunInv, HandlerThere, SignalHeard, Pending
<1> QED
  BY <1>3, <1>5, <1>6, <1>7 DEF RunInv

\* A stream that has ended has no workers, so there is nothing to wait for.
LEMMA WaitNextStep ==
  ASSUME RunInv, WaitNext
  PROVE  RunInv'
<1>1. at = "waiting" /\ i <= Len(streams) /\ i \in DOMAIN streams
  <2>1. i \in Nat \ {0} /\ at = "waiting" /\ i <= Len(streams)
    BY DEF WaitNext, RunInv, Shaped, StreamsThere
  <2>2. Len(streams) \in Nat /\ DOMAIN streams = 1..Len(streams)
    BY Lengths DEF RunInv
  <2> QED
    BY <2>1, <2>2
<1>2. ~(Waits(i) /\ streams[i] = "ended")
  BY <1>1 DEF RunInv, StreamsThere, Waits, Shaped
<1>3. /\ UNCHANGED <<filters, connections, lastFilterConnected, sourcing, catching,
                     maxThreads, ready, at, why, lost, edited, early>>
      /\ i' = i + 1
      /\ streams' = IF Waits(i) THEN [streams EXCEPT ![i] = "ended"] ELSE streams
  BY <1>2 DEF WaitNext, graphVars, histVars
<1>4. i \in Nat \ {0} /\ ready' \in BOOLEAN
  BY <1>1, <1>3 DEF RunInv, Shaped, StreamsThere
<1>5. /\ Shaped' /\ Marked' /\ LibraryObeyed'
      /\ DOMAIN streams' = DOMAIN streams /\ DOMAIN streams \subseteq Nat \ {0}
      /\ \A s \in DOMAIN streams : ThreadsFor(s)' = ThreadsFor(s)
  BY <1>1, <1>3, <1>4, LoopFrame DEF Places, Ends, Stages
<1>6. \A s \in DOMAIN streams :
        streams'[s] = IF s = i /\ ThreadsFor(i) # 0 THEN "ended" ELSE streams[s]
  BY <1>3, <1>5 DEF Waits
<1>7. Sourced'
  BY <1>1, <1>3, <1>4, <1>5, <1>6 DEF RunInv, Sourced, Pending
<1>8. StreamsThere'
  BY <1>1, <1>3, <1>4, <1>5, <1>6 DEF RunInv, StreamsThere, Pending
<1>9. HandlerThere' /\ SignalHeard'
  BY <1>1, <1>3, <1>4, <1>5, <1>6 DEF RunInv, HandlerThere, SignalHeard, Pending
<1> QED
  BY <1>5, <1>7, <1>8, <1>9 DEF RunInv

LEMMA StopNextStep ==
  ASSUME RunInv, StopNext
  PROVE  RunInv'
<1>1. /\ UNCHANGED <<filters, connections, lastFilterConnected, sourcing, catching,
                     maxThreads, ready, at, why, lost, edited, early>>
      /\ at = "stopping" /\ i' = i + 1
      /\ streams' = [streams EXCEPT ![i] = "down"]
  BY DEF StopNext, graphVars, histVars
<1>2. i \in Nat \ {0} /\ ready' \in BOOLEAN
  BY <1>1 DEF RunInv, Shaped, StreamsThere
<1>3. /\ Shaped' /\ Marked' /\ LibraryObeyed'
      /\ DOMAIN streams' = DOMAIN streams /\ DOMAIN streams \subseteq Nat \ {0}
      /\ \A s \in DOMAIN streams : ThreadsFor(s)' = ThreadsFor(s)
  BY <1>1, <1>2, LoopFrame DEF Places, Ends, Stages
<1>4. \A s \in DOMAIN streams : streams'[s] = IF s = i THEN "down" ELSE streams[s]
  BY <1>1, <1>3
<1>5. Sourced'
  BY <1>1, <1>2, <1>3, <1>4 DEF RunInv, Sourced, Pending
<1>6. StreamsThere'
  BY <1>1, <1>2, <1>3, <1>4 DEF RunInv, StreamsThere, Pending
<1>7. HandlerThere' /\ SignalHeard'
  BY <1>1, <1>2, <1>3, <1>4 DEF RunInv, HandlerThere, SignalHeard, Pending
<1> QED
  BY <1>3, <1>5, <1>6, <1>7 DEF RunInv

\* When the loop over the waits is done no stream flows; when the one over
\* the stops is, all streams are down.
LEMMA LoopDoneStep ==
  ASSUME RunInv, LoopDone
  PROVE  RunInv'
<1>1. /\ UNCHANGED <<filters, connections, lastFilterConnected, streams, sourcing, catching,
                     maxThreads, why, lost, edited, early>>
      /\ at \in {"launching", "waiting", "stopping"} /\ i > Len(streams)
      /\ \/ at = "launching" /\ at' = "waiting" /\ i' = 1
         \/ at = "waiting" /\ at' = "stopping" /\ i' = 1
         \/ at = "stopping" /\ at' = "options" /\ i' = 0
      /\ ready' = (at # "stopping")
  BY DEF LoopDone, graphVars, histVars
<1>2. /\ Shaped' /\ Marked' /\ LibraryObeyed'
      /\ DOMAIN streams' = DOMAIN streams /\ DOMAIN streams \subseteq Nat \ {0}
      /\ \A s \in DOMAIN streams : ThreadsFor(s)' = ThreadsFor(s)
  BY <1>1, LoopFrame DEF Places, Ends
<1>3. \A s \in DOMAIN streams : s < i /\ s \in Nat /\ ~Pending(s) /\ ~Pending(s)'
  <2>1. /\ Len(streams) \in Nat /\ DOMAIN streams = 1..Len(streams) /\ i \in Nat
    BY Lengths DEF RunInv, Shaped
  <2> QED
    BY <1>1, <2>1 DEF Pending
<1>4. Sourced'
  BY <1>1, <1>2, <1>3 DEF RunInv, Sourced
<1>5. StreamsThere'
  <2>1. CASE at = "launching" /\ at' = "waiting" /\ i' = 1
    BY <1>1, <1>2, <1>3, <2>1 DEF RunInv, StreamsThere
  <2>2. CASE at = "waiting" /\ at' = "stopping" /\ i' = 1
    BY <1>1, <1>2, <1>3, <2>2 DEF RunInv, StreamsThere
  <2>3. CASE at = "stopping" /\ at' = "options" /\ i' = 0
    BY <1>1, <1>2, <1>3, <2>3 DEF RunInv, StreamsThere
  <2> QED
    BY <1>1, <2>1, <2>2, <2>3
<1>6. HandlerThere' /\ SignalHeard'
  BY <1>1, <1>2, <1>3 DEF RunInv, HandlerThere, SignalHeard
<1> QED
  BY <1>2, <1>4, <1>5, <1>6 DEF RunInv

LEMMA DestroyStep ==
  ASSUME RunInv, Destroy
  PROVE  RunInv'
<1>1. /\ UNCHANGED <<filters, connections, lastFilterConnected, sourcing, catching,
                     maxThreads, ready, i, why, lost, edited, early>>
      /\ at = "options" /\ at' = "destroyed"
      /\ streams' = [s \in DOMAIN streams |-> "destroyed"]
  BY DEF Destroy, graphVars, histVars
<1>2. /\ Shaped' /\ Marked' /\ LibraryObeyed'
      /\ DOMAIN streams' = DOMAIN streams
  <2>1. /\ streams' \in [DOMAIN streams -> Stages] /\ sourcing' \in [DOMAIN sourcing -> Int]
        /\ i' \in Nat /\ ready' \in BOOLEAN /\ catching' \in BOOLEAN
        /\ lost' \in BOOLEAN /\ edited' \in BOOLEAN
    BY <1>1, LenProperties, SeqDef DEF RunInv, Shaped, Stages
  <2> QED
    BY <1>1, <2>1, RunFrame DEF Places, Ends
<1>3. Sourced' /\ StreamsThere' /\ HandlerThere' /\ SignalHeard'
  BY <1>1, <1>2 DEF RunInv, Sourced, StreamsThere, HandlerThere, SignalHeard, Pending
<1> QED
  BY <1>2, <1>3 DEF RunInv

\* The one signal that is caught counts each isSourcing down.
LEMMA SignalStep ==
  ASSUME RunInv, Signal
  PROVE  RunInv'
<1>0. catching /\ at # "broken"
  BY DEF Signal
<1>1. CASE at = "adding" /\ Broken("unset")
  BY <1>0, <1>1, BrokenStep
<1>2. CASE at = "destroyed" /\ streams # <<>> /\ Broken("freed")
  BY <1>0, <1>2, BrokenStep
<1>3. CASE /\ sourcing' = [s \in DOMAIN sourcing |->
                             IF s \in SignalledStreams THEN sourcing[s] - 1 ELSE sourcing[s]]
           /\ catching' = FALSE
           /\ lost' = (lost \/ (at = "launching" /\ i <= Len(streams))
                            \/ (at = "inflow" /\ i < Len(streams)))
           /\ UNCHANGED <<graphVars, streams, runVars, edited, early>>
  <2>1. UNCHANGED <<filters, connections, lastFilterConnected, streams, maxThreads, ready, at,
                    i, why, edited, early>>
    BY <1>3 DEF graphVars, runVars
  <2>2. /\ Len(streams) \in Nat /\ DOMAIN streams = 1..Len(streams) /\ DOMAIN sourcing = DOMAIN streams
        /\ DOMAIN streams \subseteq SignalledStreams /\ i \in Nat
    <3>1. /\ Len(streams) \in Nat /\ DOMAIN streams = 1..Len(streams) /\ i \in Nat
          /\ DOMAIN sourcing = 1..Len(streams)
      BY Lengths DEF RunInv, Shaped
    <3> QED
      BY <3>1 DEF SignalledStreams, numStreams
  <2>3. \A s \in DOMAIN streams : sourcing[s] \in -2..1 /\ sourcing[s] >= (IF Pending(s) THEN -1 ELSE 0)
    BY <1>0 DEF RunInv, Sourced
  <2>4. \A s \in DOMAIN streams : sourcing'[s] = sourcing[s] - 1
    BY <1>3, <2>2
  <2>5. /\ Shaped' /\ Marked' /\ LibraryObeyed'
        /\ DOMAIN streams' = DOMAIN streams
    <3>1. /\ streams' \in [DOMAIN streams -> Stages]
          /\ i' \in Nat /\ ready' \in BOOLEAN /\ catching' \in BOOLEAN
          /\ lost' \in BOOLEAN /\ edited' \in BOOLEAN /\ at' \in Places
      BY <1>3, <2>1, LenProperties, SeqDef DEF RunInv, Shaped
    <3>2. sourcing' \in [DOMAIN sourcing -> Int]
      <4>1. \A s \in DOMAIN sourcing : sourcing[s] \in Int
        BY <2>2, <2>3
      <4> QED
        BY <1>3, <4>1
    <3> QED
      BY <1>0, <2>1, <3>1, <3>2, RunFrame
  <2>6. Sourced'
    BY <1>3, <2>1, <2>3, <2>4 DEF Sourced, Pending
  <2>7. StreamsThere'
    BY <2>1 DEF RunInv, StreamsThere, Pending, ThreadsFor
  <2>8. HandlerThere'
    <3>1. lost \in BOOLEAN
      BY DEF RunInv, Shaped
    <3>2. \A s \in DOMAIN streams' :
            Pending(s)' => \/ at = "launching" /\ i <= Len(streams)
                           \/ at = "inflow" /\ i < Len(streams)
      BY <2>1, <2>2 DEF Pending
    <3> QED
      BY <1>3, <3>1, <3>2 DEF HandlerThere
  <2>9. SignalHeard'
    BY <2>1, <2>3, <2>4 DEF SignalHeard
  <2> QED
    BY <2>5, <2>6, <2>7, <2>8, <2>9 DEF RunInv
<1> QED
  BY <1>1, <1>2, <1>3 DEF Signal

-----------------------------------------------------------------------------
(***************************************************************************)
(* The theorems.                                                           *)
(***************************************************************************)

LEMMA RunInit == Init => RunInv
<1> SUFFICES ASSUME Init PROVE RunInv
  OBVIOUS
<1>1. /\ <<>> \in Seq([stream : Nat \ {0}, loaded : BOOLEAN]) /\ <<>> \in Seq(Stages)
      /\ <<>> \in Seq(Int) /\ Len(<<>>) = 0 /\ DOMAIN <<>> = {}
  OBVIOUS
<1>2. <<DefaultThreads>> \in Seq(Nat) \ {<<>>}
  BY RunnerAssumption
<1>3. Shaped
  <2>1. MaxStreams \in Nat \ {0}
    BY RunnerAssumption
  <2>2. /\ filters = <<>> /\ connections = {} /\ lastFilterConnected = 1 /\ streams = <<>>
        /\ sourcing = <<>> /\ maxThreads = <<DefaultThreads>> /\ i = 0 /\ at = "options"
        /\ ~ready /\ ~catching /\ ~lost /\ ~edited /\ ~early /\ why = "none"
        /\ ready \in BOOLEAN /\ catching \in BOOLEAN
        /\ lost \in BOOLEAN /\ edited \in BOOLEAN /\ early \in BOOLEAN
    BY DEF Init
  <2>3. lastFilterConnected \in 1..(numFilters + 1)
    BY <1>1, <2>2 DEF numFilters
  <2> QED
    BY <1>1, <1>2, <2>1, <2>2, <2>3 DEF Shaped, Places
<1>4. Sourced /\ StreamsThere /\ HandlerThere /\ SignalHeard
  BY <1>1 DEF Init, Sourced, StreamsThere, HandlerThere, SignalHeard
<1>5. Marked /\ LibraryObeyed
  BY <1>1 DEF Init, Marked, LibraryObeyed, numFilters
<1> QED
  BY <1>3, <1>4, <1>5 DEF RunInv

LEMMA RunStep == RunInv /\ [Next]_vars => RunInv'
<1> SUFFICES ASSUME RunInv, [Next]_vars PROVE RunInv'
  OBVIOUS
<1>1. CASE UNCHANGED vars
  BY <1>1 DEF vars, graphVars, runVars, histVars, RunInv, Shaped, Sourced, StreamsThere,
     Marked, HandlerThere, LibraryObeyed, SignalHeard, Pending, ThreadsFor, Across, numFilters
<1>2. CASE Next
  BY <1>1, <1>2, LoadControllerStep, LoadFilterStep, ConnectInOrderStep, ConnectGivenStep,
     MisconnectStep, AddStreamStep, StreamAddedStep, FirstStreamAddedStep, SetThreadsStep,
     ReadyStep, RunOptionStep, RefuseStep, LaunchNextStep, LaunchUnreadyStep, FlowReturnsStep,
     WaitNextStep, StopNextStep, LoopDoneStep, DestroyStep, SignalStep DEF Next, Stopped
<1> QED
  BY <1>1, <1>2

\* The inductive invariant holds whatever options the program is given, in
\* whatever order, and whenever it is signalled.
THEOREM RunCorrect == Spec => []RunInv
BY RunInit, RunStep, PTL DEF Spec

\* Between options all streams are down, or all ready since --ready, however
\* often the program has run them.
THEOREM StreamsInStepHolds == Spec => []StreamsInStep
<1>1. RunInv => StreamsInStep
  <2> SUFFICES ASSUME RunInv PROVE StreamsInStep
    OBVIOUS
  <2>1. filters \in Seq([stream : 1..MaxStreams, loaded : BOOLEAN])
    <3>1. filters \in [1..Len(filters) -> [stream : Nat \ {0}, loaded : BOOLEAN]] /\ Len(filters) \in Nat
      BY LenProperties DEF RunInv, Shaped
    <3>2. ASSUME NEW f \in 1..Len(filters)
          PROVE  filters[f] \in [stream : 1..MaxStreams, loaded : BOOLEAN]
      <4>1. filters[f] \in [stream : Nat \ {0}, loaded : BOOLEAN] /\ f \in DOMAIN filters
        BY <3>1
      <4>2. filters[f].stream <= Len(streams) /\ Len(streams) <= MaxStreams
        BY <4>1 DEF RunInv, Shaped
      <4>3. filters[f].stream \in 1..MaxStreams
        BY <4>1, <4>2, RunnerAssumption, Lengths DEF RunInv
      <4> QED
        BY <4>1, <4>3
    <3>3. filters \in [1..Len(filters) -> [stream : 1..MaxStreams, loaded : BOOLEAN]]
      BY <3>1, <3>2
    <3>4. ASSUME NEW T, NEW n \in Nat, NEW s \in [1..n -> T] PROVE s \in Seq(T)
      BY SeqDef
    <3> QED
      BY <3>1, <3>3, <3>4
  <2>2. /\ connections \subseteq (DOMAIN filters) \X (DOMAIN filters)
        /\ lastFilterConnected \in 1..(numFilters + 1)
        /\ Len(sourcing) = Len(streams) /\ maxThreads \in Seq(Nat)
    BY DEF RunInv, Shaped
  <2>3. \A s \in DOMAIN sourcing : sourcing[s] \in -2..1
    BY Lengths DEF RunInv, Sourced
  <2>4. at = "options" =>
          /\ ~ready => \A s \in DOMAIN streams : streams[s] = "down"
          /\ ready /\ ~edited => \A s \in DOMAIN streams : streams[s] = "ready"
    BY DEF RunInv, StreamsThere
  <2> QED
    BY <2>1, <2>2, <2>3, <2>4 DEF StreamsInStep
<1> QED
  BY <1>1, RunCorrect, PTL

\* The loops of the program never fail an assertion of the library, unless
\* --connect came for a stream with no filter or streams were added between
\* --ready and --run.
THEOREM LibraryObeyedHolds == Spec => []LibraryObeyed
<1>1. RunInv => LibraryObeyed
  BY DEF RunInv
<1> QED
  BY <1>1, RunCorrect, PTL

\* No stream is stopped while it flows.
THEOREM StopsEndedHolds == Spec => []StopsEnded
<1>1. RunInv => StopsEnded
  BY DEF RunInv, StreamsThere, StopsEnded
<1> QED
  BY <1>1, RunCorrect, PTL

\* One signal that comes after the last launch stops the sources of every
\* stream.
THEOREM SignalHeardHolds == Spec => []SignalHeard
<1>1. RunInv => SignalHeard
  BY DEF RunInv
<1> QED
  BY <1>1, RunCorrect, PTL
=============================================================================
