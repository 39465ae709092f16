--------------------------- MODULE StreamBuffers ---------------------------
(***************************************************************************)
(* The buffers of a stream, over its restarts.  While qsStreamReady()      *)
(* calls the filters' start(), a filter may ask that an output of its own  *)
(* uses the buffer of the output that feeds one of its inputs              *)
(* (qsCreatePassThroughBuffer(), lib/filterAPI.c).  Then AllocateBuffer()  *)
(* makes a buffer for every other output and MapRingBuffers() maps them,   *)
(* both from filter to filter (lib/buffer.c), and qsStreamStop() frees     *)
(* them again with FreeBuffers().                                          *)
(*                                                                         *)
(* An output is a filter and a port.  A buffer is known by the output it   *)
(* was made for.  The order of the start() calls only decides which of two *)
(* filters gets an output that both ask for, so what is chosen here is     *)
(* what they end up with; a refused request leaves nothing behind.         *)
(***************************************************************************)
EXTENDS StreamGraph

VARIABLES
  prev,    \* output->prev, of the pass-through outputs
  buffer,  \* output->buffer, where it is not null
  mapped,  \* the outputs whose pointers are in mapped memory
  made,    \* for every output the buffers made for it and not freed yet
  hung     \* qsStreamReady() walks a ring of pass-through outputs for ever

bufVars == <<prev, buffer, mapped, made, hung>>

\* A filter has no more outputs than it has connections.
Outputs        == Filters \X (0..(MaxConnections - 1))
OutputsOf(out) == {o \in Outputs : o[2] \in DOMAIN out[o[1]]}

-----------------------------------------------------------------------------
\* FindFeedOutput(): the outputs that feed the inputs of f.
FeedOutputs(c, in, f) == {<<c[i].from, c[i].fromPort>> : i \in Range(in[f])}

\* The pass-through requests that can be granted in one start: an output has
\* one output above it and one below.
Links(c, out, in) ==
  {l \in UNION {[D -> OutputsOf(out)] : D \in SUBSET OutputsOf(out)} :
     /\ \A o \in DOMAIN l : l[o] \in FeedOutputs(c, in, o[1])
     /\ IsInjective(l)}

\* The output at the top of the list of o; one of l if the list is a ring.
Top(l, o) ==
  LET n == Cardinality(DOMAIN l)
      up[k \in 0..n] == IF k > 0 /\ up[k-1] \in DOMAIN l THEN l[up[k-1]]
                        ELSE IF k > 0 THEN up[k-1] ELSE o
  IN up[n]

(***************************************************************************)
(* The filters in the order in which AllocateBuffer() and MapRingBuffers() *)
(* come to them: a filter before those that read it, port by port, and     *)
(* nobody twice.  todo are the calls that the recursion has still to make. *)
(***************************************************************************)
ReadBy(c, out, f) ==
  LET order == FlattenSeq([k \in 1..Cardinality(DOMAIN out[f]) |-> out[f][k-1]])
  IN [j \in DOMAIN order |-> c[order[j]].to]

MeetNext(c, out, w) ==
  IF w.todo = <<>> THEN w
  ELSE IF Head(w.todo) \in Range(w.met) THEN [w EXCEPT !.todo = Tail(@)]
  ELSE [met  |-> Append(w.met, Head(w.todo)),
        todo |-> ReadBy(c, out, Head(w.todo)) \o Tail(w.todo)]

FiltersMet(c, out, from) ==
  LET walk[n \in 0..(Len(from) + Len(c))] ==
        IF n = 0 THEN [met |-> <<>>, todo |-> from] ELSE MeetNext(c, out, walk[n-1])
  IN walk[Len(from) + Len(c)].met

Ports(out, f) == [k \in 1..Cardinality(DOMAIN out[f]) |-> <<f, k-1>>]

\* A plausible bug: the recursion comes before the filter's own outputs.
OutputsMetUpwards(c, out, from) ==
  LET met == Reverse(FiltersMet(c, out, from))
  IN FlattenSeq([k \in DOMAIN met |-> Ports(out, met[k])])

OutputsMet(c, out, from) ==
  LET met == FiltersMet(c, out, from)
  IN FlattenSeq([k \in DOMAIN met |-> Ports(out, met[k])])

\* AllocateBuffer(): the outputs that get a buffer of their own.
AllocateBuffer(l, met) == Range(met) \ DOMAIN l

\* A plausible bug: an output has the buffer of the one it was linked to.
BufferFoundNext(l, met, o) == IF o \in DOMAIN l THEN l[o] ELSE o

\* output->buffer, found at the top of the list.
BufferFound(l, met, o) == Top(l, o)

(***************************************************************************)
(* MapRingBuffers(): an owner is mapped when it is met, and an output's    *)
(* pointers are set from its buffer when that output is met.               *)
(***************************************************************************)
MapRingBuffers(l, met) ==
  {met[k] : k \in {i \in DOMAIN met : \E j \in 1..i : met[j] = Top(l, met[i])}}

\* A plausible bug: pass-through outputs free the buffer they use.
FreeBuffersAll(f) == {o \in OutputsOf(outputs) : o[1] = f}

\* FreeBuffers(): the outputs of f whose buffer is freed.
FreeBuffers(f) ==
  {o \in OutputsOf(outputs) : o[1] = f /\ <<f, 0>> \in DOMAIN buffer /\ o \notin DOMAIN prev}

-----------------------------------------------------------------------------
BuffersInit ==
  /\ Init
  /\ prev = <<>> /\ buffer = <<>> /\ mapped = {}
  /\ made = [o \in Outputs |-> 0]
  /\ hung = FALSE

\* What the calls of start() leave, and what is made of it.
Linked(l) ==
  LET met == OutputsMet(connections', outputs', sources')
  IN IF \E o \in Range(met) : Top(l, o) \in DOMAIN l
     THEN hung' = TRUE /\ UNCHANGED <<buffer, mapped, made>>
     ELSE /\ made' = [o \in Outputs |->
                        IF o \in AllocateBuffer(l, met) THEN made[o] + 1 ELSE made[o]]
          /\ buffer' = [o \in Range(met) |-> BufferFound(l, met, o)]
          /\ mapped' = MapRingBuffers(l, met)
          /\ UNCHANGED hung

\* qsStreamReady(): it gives up before any start(), or a start() fails
\* (ret' = -3), or the buffers are made.
BuffersReady ==
  /\ ~hung
  /\ Ready
  /\ \/ sources' = <<>> /\ UNCHANGED bufVars
     \/ /\ sources' # <<>>
        /\ \E l \in Links(connections', outputs', inputs') :
             /\ prev' = l
             /\ \/ ret' = -3 /\ UNCHANGED <<buffer, mapped, made, hung>>
                \/ ret' = 0 /\ Linked(l)

BuffersStop ==
  /\ ~hung
  /\ Stop
  /\ LET freed == UNION {FreeBuffers(f) : f \in Writers(connections) \cup Fed(connections)}
     IN made' = [b \in Outputs |-> made[b] -
                  Cardinality({o \in freed : o \in DOMAIN buffer /\ buffer[o] = b})]
  /\ prev' = <<>> /\ buffer' = <<>> /\ mapped' = {}
  /\ UNCHANGED hung

\* The calls that touch no buffer.
Others ==
  /\ ~hung
  /\ Connect \/ AllowLoops \/ Launch \/ (\E f \in Filters : RemoveFilter(f))
  /\ UNCHANGED bufVars

Hangs == hung /\ UNCHANGED <<vars, bufVars>>

BuffersNext == BuffersReady \/ BuffersStop \/ Others \/ Hangs

BuffersSpec == BuffersInit /\ [][BuffersNext]_<<vars, bufVars>>

-----------------------------------------------------------------------------
(***************************************************************************)
(* Properties.                                                             *)
(***************************************************************************)
Buffered == ~Inactive /\ ret = 0 /\ ~hung

\* Every output of a ready stream has the buffer of the output it passes on
\* or one of its own, made once; a stop frees each once, also after a failed
\* start() or a removed link, and nothing is left for the next start
\* (buffer.c:44-61, 79-130, stream.h:100-105).
BuffersOwned ==
  /\ DOMAIN buffer = IF Buffered THEN OutputsOf(outputs) ELSE {}
  /\ \A o \in DOMAIN buffer :
       IF o \in DOMAIN prev THEN buffer[o] = buffer[prev[o]] ELSE buffer[o] = o
  /\ \A o \in Outputs :
       made[o] = IF Buffered /\ o \in OutputsOf(outputs) \ DOMAIN prev THEN 1 ELSE 0

\* If every filter that passes a buffer on is fed by one filter only, the
\* outputs are met from the top down, whatever the order of sources, ports
\* and connections: all pointers are in mapped memory, and no list of
\* outputs is a ring.  Else neither is so (buffer.c:51-57, 223-227).
ChainsMapped ==
  /\ ~Inactive /\ ret = 0
  /\ \A o \in DOMAIN prev :
       Cardinality({g[1] : g \in FeedOutputs(connections, inputs, o[1])}) = 1
  => ~hung /\ mapped = OutputsOf(outputs)
=============================================================================
