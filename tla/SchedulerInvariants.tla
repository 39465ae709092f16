------------------------ MODULE SchedulerInvariants ------------------------
(***************************************************************************)
(* The inductive strengthening of the properties of Scheduler.tla.  The    *)
(* properties themselves do not survive a step from an arbitrary state     *)
(* that satisfies them; together with the parts below they do.  TLC checks *)
(* every part on the runs, the proof modules prove them for all streams.   *)
(***************************************************************************)
EXTENDS Scheduler

\* The mutex is held by the worker whose place says so, and only by it.
MutexHeld == \A t \in Threads : mutex = t <=> pc[t] \in Holding

\* A worker has a job exactly while it calls input() or gives the job back.
JobHeld == \A t \in Threads : job[t] # NoJob <=> pc[t] \in {"input", "done"}

\* While input() runs only the feeding filters change the read lengths.
LensBounded ==
  \A t \in In({"input"}) : \A r \in Inputs(job[t]) : inputLens[r] <= readLength[r]

\* Before qsStreamLaunch() nothing has happened.
NotStarted ==
  master = "ready" =>
    /\ mutex = Free
    /\ \A t \in Threads : pc[t] = "none" /\ job[t] = NoJob
    /\ queue = <<>> /\ unused = Filters /\ marked = {} /\ declined = {}
    /\ \A r \in Readers : readLength[r] = 0
    /\ numThreads = 0 /\ numWorkerThreads = 0 /\ numIdleThreads = 0

\* Jobs and lengths.
JobInv ==
  /\ TypeOK /\ MutexHeld /\ JobHeld /\ OneJobEach
  /\ ReadyWhenCalled /\ LensBounded /\ BoundedBacklog /\ NotStarted

\* A filter that RunInput() has finished with cannot be called again, or has
\* refused its input.
LeftUncallable ==
  \A t \in In({"done"}) :
    Callable(job[t], Filters, marked, readLength) => job[t] \in declined

\* A filter that refused its input had less than it promised to read.
DeclinedShort ==
  \A f \in declined :
    /\ ~IsSource(f)
    /\ \A r \in Inputs(f) : readLength[r] < maxRead[r]

WorkInv == JobInv /\ NothingForgotten /\ LeftUncallable /\ DeclinedShort

\* Until a worker has left, the slots in use are the first numThreads.
SlotsInOrder ==
  In({"dead"}) = {} => \A t \in Threads : pc[t] = "none" <=> t > numThreads

\* Queued jobs have a worker that is awake: at worst the one that queued them.
WorkHasWorker ==
  queue # <<>> => In({"launched", "getwork", "input", "done"}) # {}

\* The flow has workers until the last of them has left.
StartedOnce ==
  master # "ready" => In({"none"}) # Threads

\* A waiting master is woken only by the last worker (when
\* pthread_cond_wait() does not return early).
MasterKnows ==
  SpuriousMasterWakeup \/ (master \in {"woken", "joining", "joined"} => Live = {})

\* JoinThreads() looks at slots only.
JoinsSlots == master = "joining" => joinAt \in Threads

ThreadInv ==
  /\ JobInv
  /\ CountersExact /\ SlotsInOrder /\ LeavesOnlyWhenIdle /\ WorkHasWorker
  /\ NoLostWakeup /\ StartedOnce /\ MasterKnows /\ JoinsSlots
=============================================================================
