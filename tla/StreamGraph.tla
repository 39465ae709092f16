---------------------------- MODULE StreamGraph ----------------------------
(***************************************************************************)
(* How an application's connections become the graph that flows:           *)
(* qsFiltersConnect() and the removal of a filter edit the connection list *)
(* (lib/stream.c), qsStreamReady() finds the sources, numbers the output   *)
(* and input ports and builds the outputs and readers (lib/streamReady.c), *)
(* qsStreamStop() frees them (lib/stream.h), and the cycle starts again    *)
(* with whatever the last one left behind.                                 *)
(*                                                                         *)
(* A reader is made for a connection, so it is known by the index of that  *)
(* connection.  The recursions over the graph visit every filter that can  *)
(* be reached from a source once, and what they do for a filter does not   *)
(* depend on the order, so they are sets here.                             *)
(***************************************************************************)
EXTENDS Integers, Sequences, FiniteSets, SequencesExt

CONSTANTS
  Filters,         \* the filters an application may load
  FromPorts,       \* the output port arguments of qsFiltersConnect()
  ToPorts,         \* the input port arguments of qsFiltersConnect()
  NextPort,        \* QS_NEXTPORT
  MaxConnections,  \* bound: connections of the stream
  NextOutputs,     \* bound: outputs of a filter connected with QS_NEXTPORT
  NoLayout         \* no layout to compare with

ASSUME StreamAssumption ==
  /\ FromPorts \subseteq Nat \cup {NextPort}
  /\ ToPorts \subseteq Nat \cup {NextPort}
  /\ NextPort \notin Nat
  /\ MaxConnections \in Nat
  /\ NextOutputs \in Nat

VARIABLES
  connections,  \* s->connections
  allowLoops,   \* s->flags & _QS_STREAM_ALLOWLOOPS
  isSource,     \* the filters with f->isSource set
  sources,      \* s->sources; empty when it is 0
  outputs,      \* f->outputs: for each port the connections it has readers for
  inputs,       \* f->readers: for each input port the connection that feeds it
  launched,     \* s->flags & _QS_STREAM_LAUNCHED
  ret,          \* what the last qsStreamReady() returned
  layout        \* history: what it built, until the connections change

runVars == <<sources, outputs, inputs>>
vars == <<connections, allowLoops, isSource, runVars, launched, ret, layout>>

Connection == [from : Filters, to : Filters, fromPort : FromPorts \cup Nat,
               toPort : ToPorts]
Free     == [f \in Filters |-> <<>>]   \* no outputs, or no inputs
Inactive == sources = <<>>

-----------------------------------------------------------------------------
(***************************************************************************)
(* Sources, and the filters that can be reached from them.                 *)
(***************************************************************************)
Writers(c) == {c[i].from : i \in DOMAIN c}
Fed(c)     == {c[i].to : i \in DOMAIN c}
Roots(c)   == Writers(c) \ Fed(c)

\* The members of a set of indices as a list goes through them.
InOrder(S) ==
  CHOOSE q \in [1..Cardinality(S) -> S] : \A i, j \in DOMAIN q : i < j => q[i] < q[j]

\* A plausible bug: a source with two connections is listed twice.
SourcesFoundRepeated(c, flagged) ==
  LET order == InOrder({i \in DOMAIN c : c[i].from \in flagged})
  IN [k \in DOMAIN order |-> c[order[k]].from]

\* The filters flagged as sources, in the order of their first connection.
SourcesFound(c, flagged) ==
  LET first == {i \in DOMAIN c : /\ c[i].from \in flagged
                                 /\ \A j \in 1..(i-1) : c[j].from # c[i].from}
      order == InOrder(first)
  IN [k \in DOMAIN order |-> c[order[k]].from]

\* What is in every set that has S and, with a filter, those it feeds.
Reached(c, S) ==
  {f \in Filters :
     \A X \in SUBSET Filters :
       S \subseteq X /\ (\A i \in DOMAIN c : c[i].from \in X => c[i].to \in X) => f \in X}

\* CountFilterPath(): the filters in the longest path, cut off at max + 1.
CountFilterPath(c, max) ==
  LET count[loopCount \in 0..(max+1)] ==
        [f \in Filters |->
           IF loopCount > max THEN loopCount
           ELSE LET below == {count[loopCount+1][c[i].to] :
                                i \in {j \in DOMAIN c : c[j].from = f}}
                IN Max(below \cup {loopCount+1})]
  IN count[0]

\* The check of qsStreamReady() for loops, from the sources S.
LoopFound(c, S) ==
  /\ ~allowLoops
  /\ \E f \in S : CountFilterPath(c, Len(c))[f] > Len(c) + 1

-----------------------------------------------------------------------------
(***************************************************************************)
(* AllocateFilterOutputsFrom(): the output ports of a filter.              *)
(***************************************************************************)

\* The outputs of f that the first i connections call for.
OutputsCounted(c, f) ==
  LET count[i \in 0..Len(c)] ==
        IF i = 0 THEN 0
        ELSE IF \/ c[i].from # f
                \/ c[i].fromPort # NextPort /\ c[i].fromPort < count[i-1]
             THEN count[i-1] ELSE count[i-1] + 1
  IN count

NumOutputs(c, f) == OutputsCounted(c, f)[Len(c)]

\* A port number beyond the next one is replaced by the next one.
InSequence(c) ==
  [i \in DOMAIN c |->
     LET next == OutputsCounted(c, c[i].from)[i-1]
     IN IF c[i].fromPort # NextPort /\ c[i].fromPort > next
        THEN [c[i] EXCEPT !.fromPort = next] ELSE c[i]]

\* A plausible bug: a second QS_NEXTPORT shares the port of the first.
NextPortsResolvedShared(c) ==
  [i \in DOMAIN c |-> IF c[i].fromPort # NextPort THEN c[i]
                      ELSE [c[i] EXCEPT !.fromPort = 0]]

\* All QS_NEXTPORTs are replaced while output port 0 is set up: by 0 if it
\* has no reader yet, else by 1.
NextPortsResolved(c) ==
  [i \in DOMAIN c |->
     IF c[i].fromPort # NextPort THEN c[i]
     ELSE IF \E j \in 1..(i-1) : /\ c[j].from = c[i].from
                                 /\ c[j].fromPort \in {0, NextPort}
          THEN [c[i] EXCEPT !.fromPort = 1]
          ELSE [c[i] EXCEPT !.fromPort = 0]]

\* The connections of the filters in R with their output ports set.
Numbered(c, R) ==
  LET n == NextPortsResolved(InSequence(c))
  IN [i \in DOMAIN c |-> IF c[i].from \in R THEN n[i] ELSE c[i]]

\* A plausible bug: the connections of other filters get readers too.
ReadersOfAny(n, f, p) == InOrder({i \in DOMAIN n : n[i].fromPort = p})

\* The readers of port p of f, in the order of the connections.
ReadersOf(n, f, p) ==
  InOrder({i \in DOMAIN n : n[i].from = f /\ n[i].fromPort = p})

\* c are the connections before the numbering n.
OutputsBuilt(c, n, R) ==
  [f \in Filters |->
     IF f \in R THEN [p \in 0..(NumOutputs(c, f) - 1) |-> ReadersOf(n, f, p)]
     ELSE <<>>]

-----------------------------------------------------------------------------
(***************************************************************************)
(* SetupInputPorts(): the input ports of a filter.                         *)
(***************************************************************************)
Feeding(n, out, f) ==
  {i \in DOMAIN n : n[i].to = f /\ n[i].fromPort \in DOMAIN out[n[i].from]}

\* The order in which the readers of a filter are met: by feeding filter in
\* the order of its first connection, by output port, by connection.
MetBefore(n, i, j) ==
  LET First(k) == CHOOSE m \in DOMAIN n :
                    /\ n[m].from = n[k].from
                    /\ \A x \in 1..(m-1) : n[x].from # n[k].from
  IN \/ First(i) < First(j)
     \/ First(i) = First(j) /\ n[i].fromPort < n[j].fromPort
     \/ First(i) = First(j) /\ n[i].fromPort = n[j].fromPort /\ i < j

\* reader->inputPortNum: as asked, or the number of readers met before.
InputPort(n, out, i) ==
  IF n[i].toPort # NextPort THEN n[i].toPort
  ELSE Cardinality({j \in Feeding(n, out, n[i].to) : MetBefore(n, j, i)})

PortsGotten(n, out, f) == {InputPort(n, out, i) : i \in Feeding(n, out, f)}

\* A plausible bug: nobody checks that every input port is written to.
InputsBadNever(n, out, f) == FALSE

\* Some input port number from 0 to numInputs-1 is not written to.
InputsBad(n, out, f) ==
  \E p \in 0..(Cardinality(Feeding(n, out, f)) - 1) : p \notin PortsGotten(n, out, f)

\* f->readers[p]: the first reader met for port p.
InputsBuilt(n, out, R) ==
  [f \in Filters |->
     IF f \in R
     THEN [p \in PortsGotten(n, out, f) |->
             CHOOSE i \in Feeding(n, out, f) :
               /\ InputPort(n, out, i) = p
               /\ \A j \in Feeding(n, out, f) :
                    InputPort(n, out, j) = p /\ j # i => MetBefore(n, i, j)]
     ELSE <<>>]

-----------------------------------------------------------------------------
Init ==
  /\ connections = <<>>
  /\ allowLoops = FALSE
  /\ isSource = {}
  /\ sources = <<>> /\ outputs = Free /\ inputs = Free
  /\ launched = FALSE
  /\ ret = 0
  /\ layout = NoLayout

Connect ==
  /\ Inactive
  /\ Len(connections) < MaxConnections
  /\ \E f, g \in Filters, fp \in FromPorts, tp \in ToPorts :
       /\ f # g
       /\ connections' = Append(connections,
            [from |-> f, to |-> g, fromPort |-> fp, toPort |-> tp])
       /\ NextPort \in {c.fromPort : c \in {x \in Range(connections') : x.from = f}}
            => NumOutputs(connections', f) <= NextOutputs
  /\ layout' = NoLayout
  /\ UNCHANGED <<allowLoops, isSource, runVars, launched, ret>>

\* DestroyFilter() and StreamRemoveFilterConnections().
RemoveFilter(f) ==
  /\ Inactive
  /\ f \in Writers(connections) \cup Fed(connections)
  /\ LET kept  == {i \in DOMAIN connections :
                    connections[i].from # f /\ connections[i].to # f}
         order == InOrder(kept)
     IN connections' = [k \in DOMAIN order |-> connections[order[k]]]
  /\ isSource' = isSource \ {f}
  /\ layout' = NoLayout
  /\ UNCHANGED <<allowLoops, runVars, launched, ret>>

AllowLoops ==
  /\ Inactive
  /\ allowLoops' = ~allowLoops
  /\ layout' = NoLayout
  /\ UNCHANGED <<connections, isSource, runVars, launched, ret>>

\* A plausible bug: the source flags survive the run.
FlagsAfterFreeKept(flagged, out) == flagged

\* FreeFilterRunResources() clears f->isSource of the filters with outputs.
FlagsAfterFree(flagged, out) == {f \in flagged : out[f] = <<>>}

\* What qsStreamReady() leaves when it gives up, or when it goes on.
GiveUp(code, flagged, out) ==
  /\ ret' = code
  /\ isSource' = FlagsAfterFree(flagged, out)
  /\ UNCHANGED runVars
  /\ layout' = runVars

Build(code, flagged, out, in) ==
  /\ ret' = code
  /\ isSource' = flagged
  /\ sources' = SourcesFound(connections, flagged)
  /\ outputs' = out
  /\ inputs' = in
  /\ layout' = <<sources', out, in>>

(***************************************************************************)
(* qsStreamReady().  A filter's start() may fail: nothing is freed then.   *)
(***************************************************************************)
Ready ==
  /\ Inactive
  /\ LET found   == Roots(connections) \ isSource
         flagged == isSource \cup found
         S       == Range(SourcesFound(connections, flagged))
         R       == Reached(connections, S)
         n       == Numbered(connections, R)
         out     == OutputsBuilt(connections, n, R)
         error   == IF found = {} THEN -1
                    ELSE IF LoopFound(connections, S) THEN -2
                    ELSE IF \E f \in R : InputsBad(n, out, f) THEN -4 ELSE 0
         ports   == error \notin {-1, -2}   \* were the ports set up?
     IN /\ connections' = IF ports THEN n ELSE connections
        /\ \/ error # 0 /\ GiveUp(error, flagged, IF ports THEN out ELSE Free)
           \/ error = 0 /\ \E code \in {0, -3} :
                Build(code, flagged, out, InputsBuilt(n, out, R))
  /\ UNCHANGED <<allowLoops, launched>>

\* qsStreamLaunch() asks for s->sources, and not to be launched already.
Launch ==
  /\ ~Inactive /\ ~launched
  /\ launched' = TRUE
  /\ UNCHANGED <<connections, allowLoops, isSource, runVars, ret, layout>>

\* A plausible bug: the outputs and readers survive the stop.
StopKeeps ==
  /\ ~Inactive
  /\ launched' = FALSE
  /\ isSource' = FlagsAfterFree(isSource, outputs)
  /\ sources' = <<>>
  /\ UNCHANGED <<connections, allowLoops, outputs, inputs, ret, layout>>

\* qsStreamStop() and FreeRunResources().
Stop ==
  /\ ~Inactive
  /\ launched' = FALSE
  /\ isSource' = FlagsAfterFree(isSource, outputs)
  /\ sources' = <<>> /\ outputs' = Free /\ inputs' = Free
  /\ UNCHANGED <<connections, allowLoops, ret, layout>>

Next ==
  \/ Connect \/ AllowLoops \/ Ready \/ Launch \/ Stop
  \/ \E f \in Filters : RemoveFilter(f)

Spec == Init /\ [][Next]_vars

-----------------------------------------------------------------------------
(***************************************************************************)
(* Properties.                                                             *)
(***************************************************************************)

\* Every variable has its type, and outputs and inputs name connections the
\* stream has: none outlives the connection it was made for.
TypeOK ==
  /\ connections \in Seq(Connection)
  /\ Len(connections) <= MaxConnections
  /\ allowLoops \in BOOLEAN /\ launched \in BOOLEAN
  /\ isSource \subseteq Filters
  /\ sources \in Seq(Filters)
  /\ DOMAIN outputs = Filters /\ DOMAIN inputs = Filters
  /\ \A f \in Filters :
       /\ \A p \in DOMAIN outputs[f] : Range(outputs[f][p]) \subseteq DOMAIN connections
       /\ \A p \in DOMAIN inputs[f] : inputs[f][p] \in DOMAIN connections
  /\ ret \in {0, -1, -2, -3, -4}

Flowing == Reached(connections, Range(sources))

\* The sources of a ready stream are the filters that nothing feeds, once
\* each, whatever was connected, run, stopped and removed before
\* (streamReady.c:622-666).
SourcesExact ==
  ~Inactive =>
    /\ Range(sources) = Roots(connections)
    /\ Cardinality(Range(sources)) = Len(sources)

\* Every output port of a filter that flows has somebody to read it, as
\* streamReady.c:157 asserts and the sizing of the buffers relies on.
EveryOutputRead ==
  \A f \in Filters : \A p \in DOMAIN outputs[f] : outputs[f][p] # <<>>

\* Each connection of a filter that flows gets exactly one reader, at one
\* output port of the filter it comes from (streamReady.c:135-188).
EachConnectionOnce ==
  ~Inactive =>
    \A i \in DOMAIN connections :
      connections[i].from \in Flowing =>
        \E p \in DOMAIN outputs[connections[i].from] :
          /\ i \in Range(outputs[connections[i].from][p])
          /\ \A f \in Filters : \A q \in DOMAIN outputs[f] :
               i \in Range(outputs[f][q]) => f = connections[i].from /\ q = p

\* The input ports of a filter that flows are 0 to numInputs-1, each read by
\* one connection into it, all of them different, and a connection that asked
\* for a port number got it (streamReady.c:212-359).
InputPortsExact ==
  ~Inactive =>
    \A f \in Flowing :
      LET feeding == {i \in DOMAIN connections :
                        connections[i].to = f /\ connections[i].from \in Flowing}
      IN /\ DOMAIN inputs[f] = 0..(Cardinality(feeding) - 1)
         /\ {inputs[f][p] : p \in DOMAIN inputs[f]} = feeding
         /\ \A p \in DOMAIN inputs[f] :
              connections[inputs[f][p]].toPort \in {p, NextPort}

\* Stopping a stream and making it ready again without touching the
\* connections gives the same sources, the same ports and the same readers.
RestartSame ==
  [][layout # NoLayout => layout' \in {layout, NoLayout}]_vars
=============================================================================
