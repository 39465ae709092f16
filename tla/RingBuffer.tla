----------------------------- MODULE RingBuffer -----------------------------
(***************************************************************************)
(* The ring buffers under the flow: their sizes (lib/buffer.c,             *)
(* lib/makeRingBuffer.c), the write and read pointers RunInput() moves     *)
(* (lib/flow.c) and the memory a filter may touch in input(), with the     *)
(* "pass-through" outputs that share the buffer of the output above        *)
(* (qsCreatePassThroughBuffer()).                                          *)
(*                                                                         *)
(* It adds pointers to the steps of Dataflow.tla, which the scheduler      *)
(* implements.  Pointers are offsets in the buffer.  No lock protects the  *)
(* memory: that two filters do not touch the same bytes at the same time   *)
(* rests on the sizes alone.                                               *)
(***************************************************************************)
EXTENDS Dataflow, FiniteSetsExt

CONSTANTS
  prev,      \* the output whose buffer a pass-through output writes in, or NoOutput
  via,       \* the reader a pass-through output's filter reads that buffer with
  NoOutput,
  PageSize   \* getpagesize()

Through == {o \in Outputs : prev[o] # NoOutput}

\* With an output, S has those that pass its buffer on.
ClosedBelow(S) == \A p \in Through : prev[p] \in S => p \in S

\* The outputs that use the buffer of o, from o down the "next" list.
Below(o) == {p \in Outputs : \A S \in SUBSET Outputs : o \in S /\ ClosedBelow(S) => p \in S}

\* The output that owns the buffer of o.
Owner(o) == CHOOSE p \in Outputs \ Through : o \in Below(p)

ReadersOf(o) == {r \in Readers : output[r] = o}

ASSUME BufferAssumption ==
  /\ PageSize \in Nat \ {0}
  /\ NoOutput \notin Outputs
  /\ prev \in [Outputs -> Outputs \cup {NoOutput}]
  /\ \A o, p \in Through : prev[o] = prev[p] => o = p      \* filterAPI.c:293
  /\ \A o \in Through : via[o] \in Inputs(writer[o]) /\ output[via[o]] = prev[o]

\* MapRingBuffers() does not come to the end of a ring of pass-through outputs,
\* so no stream that has one flows.
ASSUME OwnerAssumption == \A o \in Outputs : \E p \in Outputs \ Through : o \in Below(p)

-----------------------------------------------------------------------------
(***************************************************************************)
(* GetMappingLengths() and bumpSize().                                     *)
(***************************************************************************)

\* The longest write or read promised at one output.
LevelLength(o) == Max({maxWrite[o]} \cup {maxRead[r] : r \in ReadersOf(o)})

ASSUME LevelAssumption == \A o \in Outputs : maxLength[o] = LevelLength(o)

\* A whole number of pages, at least one.
Bumped(len) == Max({1, (len + PageSize - 1) \div PageSize}) * PageSize

\* A plausible bug: the outputs further down the list are not counted.
MapLengthTop(o) == Bumped(2 * LevelLength(Owner(o)))

MapLength(o) == Bumped(MapThenSumSet(LAMBDA p : 2 * LevelLength(p), Below(Owner(o))))

Overhang(o) == Bumped(Max({LevelLength(p) : p \in Below(Owner(o))}))

-----------------------------------------------------------------------------
VARIABLES
  writePtr,  \* output->writePtr, from the start of the mapping
  readPtr    \* reader->readPtr, from the start of the mapping

ringVars == <<vars, writePtr, readPtr>>

RingInit ==
  /\ Init
  /\ writePtr = [o \in Outputs |-> 0]
  /\ readPtr = [r \in Readers |-> 0]

\* A plausible bug: a pointer at the end of the bulk mapping is not wrapped.
AdvancedPast(ptr, len, o) ==
  IF ptr + len > MapLength(o) THEN ptr + len - MapLength(o) ELSE ptr + len

\* A plausible bug: a pointer beyond the end goes back to the start.
AdvancedToStart(ptr, len, o) == IF ptr + len >= MapLength(o) THEN 0 ELSE ptr + len

\* The pointer moves on and wraps once at the end of the bulk mapping.
Advanced(ptr, len, o) ==
  IF ptr + len >= MapLength(o) THEN ptr + len - MapLength(o) ELSE ptr + len

\* A pass-through filter changes its input in place: what it passes on is
\* what it has consumed (filter.h:400-405).
InPlace(f, c) == \A o \in Through \cap OutputsOf(f) : c.wrote[o] = c.advance[via[o]]

RingBegin(f) == Begin(f) /\ UNCHANGED <<writePtr, readPtr>>

RingEnd(f) ==
  /\ f \in inCall
  /\ \E c \in Calls(f, given) :
       /\ InPlace(f, c)
       /\ Return(f, c)
       /\ writePtr' = [o \in Outputs |->
            IF writer[o] = f THEN Advanced(writePtr[o], c.wrote[o], o)
            ELSE writePtr[o]]
       /\ readPtr' = [r \in Readers |->
            IF reader[r] = f THEN Advanced(readPtr[r], c.advance[r], output[r])
            ELSE readPtr[r]]

RingNext == \E f \in Filters : RingBegin(f) \/ RingEnd(f)

RingSpec == RingInit /\ [][RingNext]_ringVars

-----------------------------------------------------------------------------
(***************************************************************************)
(* Properties.                                                             *)
(***************************************************************************)

\* The bytes of the buffer of o that a run of len bytes from ptr occupies.
Bytes(ptr, len, o) == {(ptr + i) % MapLength(o) : i \in 0..(len - 1)}

Unread(r) == Bytes(readPtr[r], readLength[r], output[r])

\* What a filter may write to o while input() runs: the space
\* qsGetOutputBuffer() returns, which for a pass-through output is the input.
Writable(o) ==
  Bytes(writePtr[o],
        IF o \in Through THEN Min({maxWrite[o], given[via[o]]}) ELSE maxWrite[o], o)

\* Every pointer is in the bulk mapping: one wrap is enough.
PointersMapped ==
  /\ \A o \in Outputs : writePtr[o] \in 0..(MapLength(o) - 1)
  /\ \A r \in Readers : readPtr[r] \in 0..(MapLength(output[r]) - 1)

\* A reader's length ends where its output's write pointer is, after any
\* number of wraps of either, and a pass-through filter writes exactly where
\* it reads (flow.c:297-313, 381-392).
LengthsReachWriter ==
  /\ \A r \in Readers :
       (readPtr[r] + readLength[r]) % MapLength(output[r]) = writePtr[output[r]]
  /\ \A o \in Through : writePtr[o] = readPtr[via[o]]

\* While a filter writes, it touches no byte that a reader of that output,
\* or of a pass-through output below it, has not read yet: the filters share
\* the buffer without a lock (buffer.c:136-142).
NoOverwrite ==
  \A o \in Outputs :
    writer[o] \in inCall =>
      \A p \in Below(o) : \A r \in ReadersOf(p) : Writable(o) \cap Unread(r) = {}

\* All that a filter is given to read stays in it: the overhang is "the
\* maximum length that is accessed in a single action" (makeRingBuffer.c:53).
AccessMapped ==
  \A r \in Readers :
    reader[r] \in inCall =>
      readPtr[r] + given[r] <= MapLength(output[r]) + Overhang(output[r])
=============================================================================
