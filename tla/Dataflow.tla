------------------------------ MODULE Dataflow ------------------------------
(***************************************************************************)
(* What the scheduler promises a filter writer, with no threads, no queue  *)
(* and no mutex: a filter's input() is called by one thread at a time,     *)
(* only when every reader of its outputs has room for a full write and     *)
(* some input has reached its threshold, it is given what was there to     *)
(* read when the call began, and once it returns non-zero it is never      *)
(* called again in this flow.  Scheduler.tla implements this module.       *)
(***************************************************************************)
EXTENDS FlowGraph

VARIABLES
  readLength,  \* what each reader has left to read
  inCall,      \* the filters whose input() is being called
  given,       \* the input lengths that call was given
  finished     \* the filters that returned non-zero

vars == <<readLength, inCall, given, finished>>

Init ==
  /\ readLength = [r \in Readers |-> 0]
  /\ inCall = {}
  /\ given = [r \in Readers |-> 0]
  /\ finished = {}

MayBeCalled(f, lengths) ==
  /\ OutputsHungry(f, lengths)
  /\ IsSource(f) \/ InputsFeeding(f, lengths)

\* A call begins: it is given all there is to read at this moment.
Begin(f) ==
  /\ f \notin inCall \cup finished
  /\ MayBeCalled(f, readLength)
  /\ inCall' = inCall \cup {f}
  /\ given' = [r \in Readers |->
                 IF r \in Inputs(f) THEN readLength[r] ELSE given[r]]
  /\ UNCHANGED <<readLength, finished>>

\* Call c of f ends, and f is called again at once only if it may be.
Return(f, c) ==
  /\ readLength' = LengthsAfter(f, c, readLength)
  /\ \/ /\ inCall' = inCall \ {f}
        /\ finished' = IF c.done THEN finished \cup {f} ELSE finished
        /\ given' = [r \in Readers |->
                       IF r \in Inputs(f) THEN 0 ELSE given[r]]
     \/ /\ ~c.done
        /\ MayBeCalled(f, readLength')
        /\ given' = [r \in Readers |->
                       IF r \in Inputs(f) THEN readLength'[r] ELSE given[r]]
        /\ UNCHANGED <<inCall, finished>>

End(f) ==
  /\ f \in inCall
  /\ \E c \in Calls(f, given) : Return(f, c)

Next == \E f \in Filters : Begin(f) \/ End(f)

Spec == Init /\ [][Next]_vars
=============================================================================
