----------------------------- MODULE FlowGraph -----------------------------
(***************************************************************************)
(* The filter graph of one stream as qsStreamReady() leaves it: filters,   *)
(* the output ports they write, the readers attached to each output, and   *)
(* the write and read promises that size the ring buffers.  The graph does *)
(* not change while the stream flows, so it is all constants here.         *)
(*                                                                         *)
(* One byte of data is one unit of length.  Every filter has exactly one   *)
(* job: filter.c sets maxThreads to 1, and RunInput(), qsOutput(),         *)
(* qsGetOutputBuffer() and qsAdvanceInput() all assert that it still is.   *)
(***************************************************************************)
EXTENDS Integers, Sequences, FiniteSets

CONSTANTS
  Filters,     \* the filters that appear in a connection of the stream
  Outputs,     \* the output ports (struct QsOutput)
  Readers,     \* the readers of those outputs (struct QsReader)
  writer,      \* the filter that owns an output
  output,      \* the output a reader reads
  reader,      \* the filter that reads with a reader
  maxWrite,    \* the write promise of an output
  maxRead,     \* the read promise of a reader
  threshold,   \* the length at which a reader makes its filter callable
  maxLength,   \* the level length GetMappingLengths() gives an output
  sources,     \* the source filters, in the order they were found
  visits,      \* the neighbours of a filter, in the order RunInput() looks
  generators   \* filters that may write without having consumed input

\* A filter's input readers and its output readers.
Inputs(f)   == {r \in Readers : reader[r] = f}
Feeds(f)    == {r \in Readers : writer[output[r]] = f}
OutputsOf(f) == {o \in Outputs : writer[o] = f}

IsSource(f) == Inputs(f) = {}
Sources     == {f \in Filters : IsSource(f)}

\* The filters RunInput() of f may queue: those it feeds and those feeding it.
Neighbours(f) == {reader[r] : r \in Feeds(f)} \cup
                 {writer[output[r]] : r \in Inputs(f)}

LastFirst(L) == [i \in 1..Len(L) |-> L[Len(L) + 1 - i]]

\* q lists the elements of S once each, in the order of the sequence L.
ListedInOrder(q, S, L) ==
  /\ \A g \in S : \E i \in DOMAIN q : q[i] = g
  /\ \A i, j \in DOMAIN q : i < j =>
       \E a, b \in DOMAIN L : a < b /\ L[a] = q[i] /\ L[b] = q[j]

\* The sequences that list S in the order of L: one, when L covers S.
Listings(S, L) ==
  {q \in [1..Cardinality(S) -> S] : ListedInOrder(q, S, L)}

Listed(L, S) ==
  /\ L \in Seq(S)
  /\ \A g \in S : \E i \in DOMAIN L : L[i] = g
  /\ \A i, j \in DOMAIN L : L[i] = L[j] => i = j

ASSUME GraphAssumption ==
  /\ IsFiniteSet(Filters) /\ IsFiniteSet(Outputs) /\ IsFiniteSet(Readers)
  /\ writer \in [Outputs -> Filters]
  /\ output \in [Readers -> Outputs]
  /\ reader \in [Readers -> Filters]
  /\ \A r \in Readers : reader[r] # writer[output[r]]   \* stream.c:114
  /\ \A o \in Outputs : \E r \in Readers : output[r] = o
  /\ \A f \in Filters : \E r \in Readers : f \in {reader[r], writer[output[r]]}

ASSUME PromiseAssumption ==
  /\ maxWrite \in [Outputs -> Nat \ {0}]
  /\ maxRead \in [Readers -> Nat \ {0}]
  /\ threshold \in [Readers -> Nat \ {0}]
  /\ maxLength \in [Outputs -> Nat \ {0}]
  /\ \A r \in Readers : threshold[r] <= maxRead[r]
  /\ \A o \in Outputs : maxWrite[o] <= maxLength[o]
  /\ \A r \in Readers : maxRead[r] <= maxLength[output[r]]
  /\ \A o \in Outputs :
       maxLength[o] \in {maxWrite[o]} \cup
                        {maxRead[r] : r \in {x \in Readers : output[x] = o}}

ASSUME OrderAssumption ==
  /\ Sources # {}
  /\ Listed(sources, Sources)
  /\ DOMAIN visits = Filters
  /\ \A f \in Filters : Listed(visits[f], Neighbours(f))
  /\ generators \subseteq Filters

\* A plausible bug: a full level taken for room for one more write.
OutputsHungryAtLevel(f, readLength) ==
  \A r \in Feeds(f) : readLength[r] <= maxLength[output[r]]

(***************************************************************************)
(* No reader of f is clogged: each has less than its output's maxLength to *)
(* read, so f may write maxWrite to every output.                          *)
(***************************************************************************)
OutputsHungry(f, readLength) ==
  \A r \in Feeds(f) : readLength[r] < maxLength[output[r]]

\* Some input of f has reached its threshold.
InputsFeeding(f, readLength) ==
  \E r \in Inputs(f) : readLength[r] >= threshold[r]

(***************************************************************************)
(* What one call of f's input() may do when it is given lens[r] to read on *)
(* each reader r: consume some of it, write up to the write promise, and   *)
(* return zero or not.  A filter given its whole read promise consumes     *)
(* some of it: RunInput() asserts that it does.                            *)
(***************************************************************************)
Calls(f, lens) ==
  {c \in [advance : [Inputs(f) -> UNION {0..lens[r] : r \in Inputs(f)}],
          wrote   : [OutputsOf(f) -> UNION {0..maxWrite[o] : o \in OutputsOf(f)}],
          done    : BOOLEAN] :
     /\ \A r \in Inputs(f) : c.advance[r] <= lens[r]
     /\ \A r \in Inputs(f) : lens[r] >= maxRead[r] => c.advance[r] > 0
     /\ \A o \in OutputsOf(f) : c.wrote[o] <= maxWrite[o]
     /\ \/ f \in generators \cup Sources
        \/ \E r \in Inputs(f) : c.advance[r] > 0
        \/ \A o \in OutputsOf(f) : c.wrote[o] = 0}

\* The read lengths after call c of f.
LengthsAfter(f, c, readLength) ==
  [r \in Readers |->
     readLength[r] + (IF r \in Feeds(f) THEN c.wrote[output[r]] ELSE 0)
                   - (IF r \in Inputs(f) THEN c.advance[r] ELSE 0)]
=============================================================================
