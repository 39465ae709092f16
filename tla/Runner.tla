------------------------------- MODULE Runner -------------------------------
(***************************************************************************)
(* The program quickstream (bin/quickstream.c): options are carried out    *)
(* one by one as they are read, each by calls of the library, while a      *)
(* signal may stop the sources of all streams.  Streams are here what      *)
(* these calls may be made on; what happens inside is in StreamGraph,      *)
(* FilterList and StreamLife.                                              *)
(*                                                                         *)
(* Filters and streams are numbered from 1, so lastFilterConnected is one  *)
(* more than in the code.                                                  *)
(***************************************************************************)
EXTENDS Integers, Sequences, FiniteSets

CONSTANTS
  MaxFilters,     \* bound: filters loaded
  MaxStreams,     \* bound: streams created
  ThreadLists,    \* the arguments of --threads
  DefaultThreads  \* DEFAULT_MAXTHREADS

ASSUME RunnerAssumption ==
  /\ MaxFilters \in Nat /\ MaxStreams \in Nat \ {0}
  /\ ThreadLists \subseteq Seq(Nat) \ {<<>>}
  /\ DefaultThreads \in Nat

VARIABLES
  filters,       \* for each --filter the stream it is in, and if it is loaded
  connections,   \* the pairs of filters that were connected
  lastFilterConnected,
  app,           \* is there an app?
  streams,       \* each "down", "ready", "flowing" or "ended"
  sourcing,      \* isSourcing of each stream
  maxThreads,
  ready,
  catching,      \* term_catcher() is installed
  at,            \* where the program is
  i,             \* the stream the loops of --run are at
  why,           \* what the program was ended by
  lost,          \* history: this run had a signal before its last launch
  edited,        \* history: streams were added since --ready
  early          \* history: a bare --connect came for a stream with no filter

graphVars == <<filters, connections, lastFilterConnected, app>>
runVars   == <<maxThreads, ready, at, i, why>>
histVars  == <<lost, edited, early>>
vars == <<graphVars, streams, sourcing, catching, runVars, histVars>>

numFilters == Len(filters)
numStreams == IF at = "adding" THEN Len(streams) + 1 ELSE Len(streams)

\* Where no option is read any more.
Ends == {"returned", "broken", "destroyed"}

Init ==
  /\ filters = <<>> /\ connections = {}
  /\ lastFilterConnected = 1
  /\ app = FALSE /\ streams = <<>> /\ sourcing = <<>>
  /\ maxThreads = <<DefaultThreads>>
  /\ ready = FALSE /\ catching = FALSE
  /\ at = "options" /\ i = 0 /\ why = "none"
  /\ lost = FALSE /\ edited = FALSE /\ early = FALSE

\* The library ends the program, or the program follows a bad pointer.
Broken(reason) ==
  /\ at' = "broken" /\ why' = reason
  /\ UNCHANGED <<graphVars, streams, sourcing, catching, maxThreads, ready, i, histVars>>

-----------------------------------------------------------------------------
(***************************************************************************)
(* Building the streams.                                                   *)
(***************************************************************************)

\* --controller: there is an app afterwards.
LoadController ==
  /\ at = "options"
  /\ app' = TRUE
  /\ UNCHANGED <<filters, connections, lastFilterConnected, streams, sourcing,
                 catching, runVars, histVars>>

\* --filter: in the last stream, or in a first one; construct() may have the
\* filter unloaded again.
LoadFilter ==
  /\ at = "options"
  /\ numFilters < MaxFilters
  /\ app' = TRUE
  /\ IF streams = <<>> THEN streams' = <<"down">> /\ sourcing' = <<0>>
     ELSE UNCHANGED <<streams, sourcing>>
  /\ \E loaded \in BOOLEAN :
       filters' = Append(filters, [stream |-> Len(streams'), loaded |-> loaded])
  /\ edited' = (edited \/ (ready /\ streams = <<>>))
  /\ UNCHANGED <<connections, lastFilterConnected, catching, runVars, lost, early>>

\* A plausible bug: the loop begins with the filter connected last.
InOrderAgain ==
  {p \in (1..numFilters) \X (1..numFilters) :
     /\ p[2] = p[1] + 1 /\ p[2] >= lastFilterConnected
     /\ filters[p[1]].loaded /\ filters[p[2]].loaded}

\* The connections of the loop over the filters that come after the last
\* connected one.
InOrder ==
  {p \in (1..numFilters) \X (1..numFilters) :
     /\ p[2] = p[1] + 1 /\ p[2] > lastFilterConnected
     /\ filters[p[1]].loaded /\ filters[p[2]].loaded}

Across(p) == filters[p[1]].stream # filters[p[2]].stream
Down(p)   == streams[filters[p[1]].stream] = "down"

\* What qsFiltersConnect() asserts for each pair of P.
Legal(P) == \A p \in P : ~Across(p) /\ Down(p)

\* --connect without an argument.
ConnectInOrder ==
  /\ at = "options"
  /\ numFilters >= 2
  /\ Legal(InOrder)
  /\ connections' = connections \cup InOrder
  /\ lastFilterConnected' = numFilters
  /\ early' = (early \/ \A f \in 1..numFilters : filters[f].stream # Len(streams))
  /\ UNCHANGED <<filters, app, streams, sourcing, catching, runVars, lost, edited>>

\* --connect or --plug with the numbers of two filters of one stream.
ConnectGiven ==
  /\ at = "options"
  /\ \E p \in (1..numFilters) \X (1..numFilters) :
       /\ p[1] # p[2] /\ filters[p[1]].loaded /\ filters[p[2]].loaded
       /\ ~Across(p) /\ Down(p)
       /\ connections' = connections \cup {p}
       /\ lastFilterConnected' =
            CHOOSE m \in {lastFilterConnected, p[1], p[2]} :
              \A x \in {lastFilterConnected, p[1], p[2]} : x <= m
  /\ UNCHANGED <<filters, app, streams, sourcing, catching, runVars, histVars>>

\* The first pair that the library does not take ends the program.
Misconnect ==
  /\ at = "options"
  /\ \E p \in InOrder :
       /\ ~Legal({p})
       /\ Legal({q \in InOrder : q[1] < p[1]})
       /\ Broken(IF Across(p) THEN "across" ELSE "mode")

\* --stream: the filters so far are connected, the streams are counted.
AddStream ==
  /\ at = "options"
  /\ Len(streams) < MaxStreams
  /\ Legal(InOrder)
  /\ connections' = connections \cup InOrder
  /\ lastFilterConnected' = numFilters + 1
  /\ at' = "adding"
  /\ app' = TRUE
  /\ edited' = (edited \/ ready)
  /\ UNCHANGED <<filters, streams, sourcing, catching, maxThreads, ready, i, why,
                 lost, early>>

\* Its second half; there is no array to put the first stream in.
StreamAdded ==
  /\ at = "adding"
  /\ streams # <<>>
  /\ at' = "options"
  /\ streams' = Append(streams, "down")
  /\ sourcing' = Append(sourcing, 0)
  /\ UNCHANGED <<graphVars, catching, maxThreads, ready, i, why, histVars>>

FirstStreamAdded == at = "adding" /\ streams = <<>> /\ Broken("null")

\* --threads: the numbers given replace the first ones.
SetThreads ==
  /\ at = "options"
  /\ \E list \in ThreadLists :
       LET n == IF Len(list) > Len(maxThreads) THEN Len(list) ELSE Len(maxThreads)
       IN maxThreads' = [k \in 1..n |-> IF k <= Len(list) THEN list[k] ELSE maxThreads[k]]
  /\ UNCHANGED <<graphVars, streams, sourcing, catching, ready, at, i, why, histVars>>

-----------------------------------------------------------------------------
(***************************************************************************)
(* --ready and --run.                                                      *)
(***************************************************************************)
HasSource(s) == \E p \in connections : filters[p[1]].stream = s

\* qsStreamReady() for all streams; it needs a source in each.
AllReadied ==
  /\ \A s \in DOMAIN streams : HasSource(s)
  /\ streams' = [s \in DOMAIN streams |-> "ready"]

Ready ==
  /\ at = "options"
  /\ app /\ ~ready
  /\ AllReadied
  /\ ready' = TRUE
  /\ edited' = FALSE
  /\ UNCHANGED <<graphVars, sourcing, catching, maxThreads, at, i, why, lost, early>>

\* --run up to the first launch; the handler stays after the run.
Run ==
  /\ at = "options"
  /\ app
  /\ IF ready THEN UNCHANGED <<streams, edited>> ELSE AllReadied /\ edited' = FALSE
  /\ ready' = TRUE
  /\ catching' = TRUE
  /\ at' = "launching" /\ i' = 1
  /\ lost' = FALSE
  /\ UNCHANGED <<graphVars, sourcing, maxThreads, why, early>>

\* An option that is refused, or a stream that does not get ready, ends the
\* program; the app is not destroyed.
Refuse ==
  /\ at = "options"
  /\ at' = "returned"
  /\ UNCHANGED <<graphVars, streams, sourcing, catching, maxThreads, ready, i, why, histVars>>

\* max_threads in the loops of --run.
ThreadsFor(s) == IF s <= Len(maxThreads) THEN maxThreads[s] ELSE maxThreads[Len(maxThreads)]

\* qsStreamLaunch(); without workers it returns when the flow has ended.
LaunchNext ==
  /\ at = "launching" /\ i <= Len(streams)
  /\ streams[i] = "ready"
  /\ streams' = [streams EXCEPT ![i] = "flowing"]
  /\ sourcing' = [sourcing EXCEPT ![i] = 1]
  /\ IF ThreadsFor(i) = 0 THEN at' = "inflow" /\ i' = i ELSE at' = at /\ i' = i + 1
  /\ UNCHANGED <<graphVars, catching, maxThreads, ready, why, histVars>>

LaunchUnready ==
  at = "launching" /\ i <= Len(streams) /\ streams[i] # "ready" /\ Broken("unready")

FlowReturns ==
  /\ at = "inflow"
  /\ streams' = [streams EXCEPT ![i] = "ended"]
  /\ at' = "launching" /\ i' = i + 1
  /\ UNCHANGED <<graphVars, sourcing, catching, maxThreads, ready, why, histVars>>

\* A plausible bug: the wait is asked for by the first number of --threads.
WaitsByFirst(s) == maxThreads[1] # 0

Waits(s) == ThreadsFor(s) # 0

\* qsStreamWait(); a stream without workers has none to join, and its slots
\* are gone.
WaitNext ==
  /\ at = "waiting" /\ i <= Len(streams)
  /\ IF Waits(i) /\ streams[i] = "ended" THEN Broken("noWorkers")
     ELSE /\ streams' = IF Waits(i) THEN [streams EXCEPT ![i] = "ended"] ELSE streams
          /\ i' = i + 1
          /\ UNCHANGED <<graphVars, sourcing, catching, maxThreads, ready, at, why, histVars>>

StopNext ==
  /\ at = "stopping" /\ i <= Len(streams)
  /\ streams' = [streams EXCEPT ![i] = "down"]
  /\ i' = i + 1
  /\ UNCHANGED <<graphVars, sourcing, catching, maxThreads, ready, at, why, histVars>>

\* A plausible bug: the streams are taken for ready after the run.
LoopDoneReady ==
  /\ at \in {"launching", "waiting", "stopping"} /\ i > Len(streams)
  /\ at' = CASE at = "launching" -> "waiting"
             [] at = "waiting"   -> "stopping"
             [] OTHER            -> "options"
  /\ i' = IF at = "stopping" THEN 0 ELSE 1
  /\ UNCHANGED <<graphVars, streams, sourcing, catching, maxThreads, ready, why, histVars>>

\* From one loop to the next, and out of the last.
LoopDone ==
  /\ at \in {"launching", "waiting", "stopping"} /\ i > Len(streams)
  /\ at' = CASE at = "launching" -> "waiting"
             [] at = "waiting"   -> "stopping"
             [] OTHER            -> "options"
  /\ i' = IF at = "stopping" THEN 0 ELSE 1
  /\ ready' = (at # "stopping")
  /\ UNCHANGED <<graphVars, streams, sourcing, catching, maxThreads, why, histVars>>

-----------------------------------------------------------------------------
\* The end of main(), or a module that could not be loaded: qsAppDestroy()
\* destroys the streams.
Destroy ==
  /\ at = "options"
  /\ at' = "destroyed"
  /\ streams' = [s \in DOMAIN streams |-> "destroyed"]
  /\ UNCHANGED <<graphVars, sourcing, catching, maxThreads, ready, i, why, histVars>>

\* A plausible bug: the handler leaves out the last stream.
SignalledButLast == 1..(numStreams - 1)

SignalledStreams == 1..numStreams

(***************************************************************************)
(* term_catcher(), once: qsStreamStopSources() for the streams counted.    *)
(* A signal that comes when it is not installed ends the program and is    *)
(* not modelled.                                                           *)
(***************************************************************************)
Signal ==
  /\ catching /\ at \notin {"broken"}
  /\ \/ /\ SignalledStreams \subseteq {s \in DOMAIN streams : streams[s] # "destroyed"}
        /\ sourcing' = [s \in DOMAIN sourcing |->
                          IF s \in SignalledStreams THEN sourcing[s] - 1 ELSE sourcing[s]]
        /\ catching' = FALSE
        /\ lost' = (lost \/ (at = "launching" /\ i <= Len(streams))
                         \/ (at = "inflow" /\ i < Len(streams)))
        /\ UNCHANGED <<graphVars, streams, runVars, edited, early>>
     \/ at = "adding" /\ Broken("unset")
     \/ at = "destroyed" /\ streams # <<>> /\ Broken("freed")

Stopped == at \in Ends /\ UNCHANGED vars

Next ==
  \/ LoadController \/ LoadFilter \/ ConnectInOrder \/ ConnectGiven \/ Misconnect
  \/ AddStream \/ StreamAdded \/ FirstStreamAdded \/ SetThreads
  \/ Ready \/ Run \/ Refuse \/ LaunchNext \/ LaunchUnready \/ FlowReturns
  \/ WaitNext \/ StopNext \/ LoopDone \/ Destroy \/ Signal \/ Stopped

Spec == Init /\ [][Next]_vars

-----------------------------------------------------------------------------
(***************************************************************************)
(* Properties.                                                             *)
(***************************************************************************)

\* Every variable has its type; while options are read the streams are all
\* ready or all down, whatever runs there were, except those that were added
\* since --ready (quickstream.c:633-651, 764, 798).
StreamsInStep ==
  /\ filters \in Seq([stream : 1..MaxStreams, loaded : BOOLEAN])
  /\ connections \subseteq (DOMAIN filters) \X (DOMAIN filters)
  /\ lastFilterConnected \in 1..(numFilters + 1)
  /\ Len(sourcing) = Len(streams)
  /\ \A s \in DOMAIN sourcing : sourcing[s] \in -2..1
  /\ maxThreads \in Seq(Nat)
  /\ at = "options" =>
       /\ ~ready => \A s \in DOMAIN streams : streams[s] = "down"
       /\ ready /\ ~edited => \A s \in DOMAIN streams : streams[s] = "ready"

\* Filters that are connected without being named are of one stream, the
\* program's own loops never fail an assertion of the library, and it waits
\* for workers only where there are some; unless --connect came before the
\* first filter of a new stream, or the streams were changed between --ready
\* and --run (quickstream.c:263-277, 717-729, 771-788).
LibraryObeyed ==
  /\ ~early => why # "across"
  /\ \A p \in connections : ~Across(p)
  /\ ~edited => why # "unready"
  /\ why = "mode" => ready
  /\ why # "noWorkers"

\* No stream is stopped, which frees its jobs, before its flow has ended and
\* its workers are joined (quickstream.c:783-792, streamLaunch.c:240).
StopsEnded ==
  at = "stopping" => \A s \in DOMAIN streams : streams[s] # "flowing"

\* One signal stops every flow of a run, if it comes when all streams have
\* been launched: as long as a stream flows, its sources were stopped or a
\* signal is still caught (quickstream.c:66-77, 764-778).
SignalHeard ==
  \A s \in DOMAIN streams :
    streams[s] = "flowing" /\ ~lost => sourcing[s] <= 0 \/ catching
=============================================================================
