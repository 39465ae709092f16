----------------------------- MODULE StreamLife -----------------------------
(***************************************************************************)
(* The life of a stream around its flows: qsStreamReady(),                 *)
(* qsStreamLaunch(), qsStreamWait() and qsStreamStop() as an application   *)
(* may call them, over and over, with what one run leaves behind for the   *)
(* next.  While the stream is launched its steps are those of Scheduler.   *)
(*                                                                         *)
(* Two calls that the code accepts leave defined behaviour: a stop frees   *)
(* the jobs, the slots and the mutex whether or not workers are alive, and *)
(* a launch asks only for sources, which a stream whose start() failed has *)
(* too, but no buffers.  The life ends there ("freed", "unmapped").        *)
(***************************************************************************)
EXTENDS SchedulerInvariants

VARIABLE stage   \* where the stream is in its life

lifeVars == <<vars, stage>>

(***************************************************************************)
(* "down": s->sources is 0.  "ready": buffers are mapped.  "failed": some  *)
(* start() failed.  "prepared": in qsStreamLaunch(), before s->flow().     *)
(***************************************************************************)
Stages == {"down", "ready", "failed", "prepared", "launched", "freed", "unmapped"}
Ended  == {"freed", "unmapped"}

LifeInit == Init /\ stage = "down"

\* qsStreamReady(): new readers; a filter's start() may fail.
StreamReady ==
  /\ stage = "down"
  /\ stage' \in {"ready", "failed"}
  /\ readLength' = [r \in Readers |-> 0]
  /\ UNCHANGED <<mutex, pc, inputLens, marked, declined, jobVars, isSourcing,
                 countVars, master, joinAt>>

\* A plausible bug: the marks of the last flow are not taken back.
PrepareMarked ==
  /\ stage = "ready"
  /\ stage' = "prepared"
  /\ mutex' = Free
  /\ pc' = [t \in Threads |-> "none"]
  /\ unused' = Filters
  /\ inputLens' = [r \in Readers |-> 0]
  /\ UNCHANGED <<readLength, marked, declined, job, queue, isSourcing, countVars,
                 master, joinAt>>

(***************************************************************************)
(* qsStreamLaunch(): the thread slots, the mutex, every filter's job, and  *)
(* the marks, before any of it is used.  The queue and the counters are    *)
(* what the last stop left.                                                *)
(***************************************************************************)
Prepare ==
  /\ stage = "ready"
  /\ stage' = "prepared"
  /\ mutex' = Free
  /\ pc' = [t \in Threads |-> "none"]
  /\ unused' = Filters
  /\ inputLens' = [r \in Readers |-> 0]
  /\ marked' = {} /\ declined' = {}
  /\ UNCHANGED <<readLength, job, queue, isSourcing, countVars, master, joinAt>>

\* The same call after a failed start(): its sources are set, so it goes on,
\* to a flow that writes through null pointers.
LaunchUnmapped ==
  /\ stage = "failed"
  /\ stage' = "unmapped"
  /\ UNCHANGED vars

\* nThreadFlow().
LaunchFlow == stage = "prepared" /\ Launch /\ stage' = "launched"

\* The workers, and qsStreamWait() in the main thread.
Flow == stage = "launched" /\ Next /\ UNCHANGED stage

\* qsStreamWait() once more: no worker is left to wait for, the slots are
\* looked at again.
WaitAgain ==
  /\ stage = "launched"
  /\ master = "joined"
  /\ numThreads = 0
  /\ master' = "joining" /\ joinAt' = maxThreads
  /\ UNCHANGED <<mutex, pc, dataVars, jobVars, isSourcing, countVars, stage>>

\* qsStreamStopSources() while the stream does not flow.
StopSourcesEarly == stage \notin Ended \cup {"launched"} /\ StopSources /\ UNCHANGED stage

\* The main thread is in no call of the library.
MayCall == stage \in {"ready", "failed", "launched"} /\ master \in {"ready", "launched", "joined"}

(***************************************************************************)
(* qsStreamStop() and FreeRunResources(), once the workers have left: the  *)
(* queue and two counters are set back, numWorkerThreads and isSourcing    *)
(* are not.                                                                *)
(***************************************************************************)
Stop ==
  /\ MayCall /\ Live = {}
  /\ stage' = "down"
  /\ queue' = <<>>
  /\ numThreads' = 0 /\ numIdleThreads' = 0
  /\ master' = "ready" /\ joinAt' = 0
  /\ UNCHANGED <<mutex, pc, dataVars, unused, job, isSourcing, numWorkerThreads>>

\* The same call while workers live: they go on with freed memory.
StopUnderWorkers ==
  /\ MayCall /\ Live # {}
  /\ stage' = "freed"
  /\ UNCHANGED vars

\* Undefined from here.
Halted == stage \in Ended /\ UNCHANGED lifeVars

LifeNext ==
  \/ StreamReady \/ Prepare \/ LaunchUnmapped \/ LaunchFlow \/ Flow
  \/ WaitAgain \/ StopSourcesEarly \/ Stop \/ StopUnderWorkers \/ Halted

LifeSpec == LifeInit /\ [][LifeNext]_lifeVars

-----------------------------------------------------------------------------
(***************************************************************************)
(* Properties.                                                             *)
(***************************************************************************)

\* Every launch starts from nothing: no queued job, no worker, no count, no
\* mark and no byte of an earlier flow, although a stop sets only part of
\* that back and a launch another part (stream.h:153, streamLaunch.c:301).
FreshLaunch ==
  stage = "prepared" =>
    /\ master = "ready" /\ NotStarted
    /\ joinAt = 0
    /\ \A r \in Readers : inputLens[r] = 0
=============================================================================
