----------------------------- MODULE Scheduler -----------------------------
(***************************************************************************)
(* The run of one stream (lib/flow.c, lib/flowJobLists.h,                  *)
(* lib/streamLaunch.c): worker threads take filter jobs from the stream's  *)
(* job queue, call input(), account for what was read and written, queue   *)
(* the neighbours that became callable, wake or launch other workers, wait *)
(* on the stream's condition when there is nothing to do, and all leave    *)
(* when the last of them finds no work.  The master thread launches the    *)
(* flow, waits for it and joins the workers.                               *)
(*                                                                         *)
(* Each action is what one thread does between two points at which another *)
(* thread can act.  "mutex" is the stream mutex: the actions that take it  *)
(* in the code need it free, and RunInput() that returns false, GetWork()  *)
(* and the exit of a worker hold it from one action to the next.           *)
(***************************************************************************)
EXTENDS FlowGraph

CONSTANTS
  maxThreads,           \* the worker limit given to qsStreamLaunch()
  NoJob,                \* a worker's place for a job when it has none
  SpuriousMasterWakeup  \* may pthread_cond_wait(&masterCond) return early?

ASSUME ThreadAssumption ==
  /\ maxThreads \in Nat \ {0}
  /\ NoJob \notin Filters
  /\ SpuriousMasterWakeup \in BOOLEAN

Threads == 1..maxThreads    \* a worker is its slot in s->threads
Free    == 0                \* nobody holds the mutex

VARIABLES
  mutex,             \* the worker holding the stream mutex, or Free
  pc,                \* where each worker is
  job,               \* the filter whose job a worker works on
  queue,             \* the stream job queue, jobFirst to jobLast
  unused,            \* the filters whose job is on their unused stack
  marked,            \* the filters that are done (f->mark)
  readLength,        \* r->readLength
  inputLens,         \* the inputLens of the job of the filter reading r
  isSourcing,        \* s->isSourcing > 0
  numThreads, numWorkerThreads, numIdleThreads,
  master,            \* where the master thread is
  joinAt,            \* the next slot JoinThreads() looks at
  declined           \* history: filters that left their input untouched

dataVars  == <<readLength, inputLens, marked, declined>>
jobVars   == <<queue, unused, job>>
countVars == <<numThreads, numWorkerThreads, numIdleThreads>>
vars == <<mutex, pc, dataVars, jobVars, isSourcing, countVars, master, joinAt>>

(***************************************************************************)
(* Worker places.  "launched": pthread_create() done, has not had the      *)
(* mutex.  "getwork": in GetWork() with the mutex.  "input": calling       *)
(* input().  "done": RunInput() returned false.  "idle": blocked in        *)
(* pthread_cond_wait(&cond).  "woken": no longer blocked, wants the mutex. *)
(* "exit": GetWork() returned 0.                                           *)
(***************************************************************************)
Places  == {"none", "launched", "getwork", "input", "done", "idle", "woken",
            "exit", "dead"}
Holding == {"getwork", "done", "exit"}
Waiting == {"idle", "woken"}

In(P) == {t \in Threads : pc[t] \in P}
MasterPlaces == {"ready", "launched", "waiting", "woken", "joining", "joined"}

-----------------------------------------------------------------------------
\* A plausible bug: the unused stack is not looked at.
CallableTwice(f, free, done, lengths) ==
  /\ f \notin done
  /\ OutputsHungry(f, lengths)
  /\ InputsFeeding(f, lengths) \/ (IsSource(f) /\ isSourcing)

(***************************************************************************)
(* CheckFilterInputCallable(): f has its job to give, is not done, can     *)
(* write a full write to every output, and has input or is a source that   *)
(* was not told to stop.                                                   *)
(***************************************************************************)
Callable(f, free, done, lengths) ==
  /\ f \in free
  /\ f \notin done
  /\ OutputsHungry(f, lengths)
  /\ \/ InputsFeeding(f, lengths)
     \/ IsSource(f) /\ isSourcing

\* LaunchWorkerThread() n times: the ids are the next values of numThreads.
NewSlots(n) == {t \in Threads : t > numThreads /\ t <= numThreads + n}

AtMost(a, b) == IF a <= b THEN a ELSE b
Beyond(a, b) == IF a > b THEN a - b ELSE 0

-----------------------------------------------------------------------------
Init ==
  /\ mutex = Free
  /\ pc = [t \in Threads |-> "none"]
  /\ job = [t \in Threads |-> NoJob]
  /\ queue = <<>>
  /\ unused = Filters
  /\ marked = {}
  /\ readLength = [r \in Readers |-> 0]
  /\ inputLens = [r \in Readers |-> 0]
  /\ isSourcing = FALSE
  /\ numThreads = 0 /\ numWorkerThreads = 0 /\ numIdleThreads = 0
  /\ master = "ready"
  /\ joinAt = 0
  /\ declined = {}

(***************************************************************************)
(* qsStreamLaunch() and nThreadFlow(): queue every source, launch a worker *)
(* for each up to maxThreads.                                              *)
(***************************************************************************)
Launch ==
  /\ master = "ready"
  /\ mutex = Free
  /\ isSourcing' = TRUE
  /\ queue' = sources
  /\ unused' = unused \ Sources
  /\ LET n == AtMost(Len(sources), maxThreads) IN
       /\ pc' = [t \in Threads |->
                   IF t \in NewSlots(n) THEN "launched" ELSE pc[t]]
       /\ numThreads' = numThreads + n
  /\ master' = "launched"
  /\ UNCHANGED <<mutex, job, dataVars, numWorkerThreads, numIdleThreads, joinAt>>

\* A plausible bug: a started worker is not counted.
StartUncounted(t) ==
  /\ pc[t] = "launched"
  /\ mutex = Free
  /\ mutex' = t
  /\ pc' = [pc EXCEPT ![t] = "getwork"]
  /\ UNCHANGED <<dataVars, jobVars, isSourcing, countVars, master, joinAt>>

\* RunningWorkerThread(): the first lock.
Start(t) ==
  /\ pc[t] = "launched"
  /\ mutex = Free
  /\ mutex' = t
  /\ pc' = [pc EXCEPT ![t] = "getwork"]
  /\ numWorkerThreads' = numWorkerThreads + 1
  /\ UNCHANGED <<dataVars, jobVars, isSourcing, numThreads, numIdleThreads,
                 master, joinAt>>

(***************************************************************************)
(* GetWork() finds a job: StreamQToFilterWorker(), then the caller sets    *)
(* the input lengths and unlocks.                                          *)
(***************************************************************************)
TakeJob(t) ==
  /\ pc[t] = "getwork"
  /\ queue # <<>>
  /\ job' = [job EXCEPT ![t] = Head(queue)]
  /\ queue' = Tail(queue)
  /\ inputLens' = [r \in Readers |->
                     IF r \in Inputs(Head(queue)) THEN readLength[r]
                                                  ELSE inputLens[r]]
  /\ pc' = [pc EXCEPT ![t] = "input"]
  /\ mutex' = Free
  /\ UNCHANGED <<readLength, marked, declined, unused, isSourcing, countVars,
                 master, joinAt>>

\* A plausible bug: one busy thread is overlooked.
OthersIdleButOne(idle, threads) == idle + 2 >= threads

\* GetWork(): are all the other threads idle?
OthersIdle(idle, threads) == idle = threads - 1

\* GetWork() finds no job: the last worker awake leaves, another one waits.
GiveUp(t) ==
  /\ pc[t] = "getwork"
  /\ queue = <<>>
  /\ OthersIdle(numIdleThreads, numThreads)
  /\ pc' = [pc EXCEPT ![t] = "exit"]
  /\ UNCHANGED <<mutex, dataVars, jobVars, isSourcing, countVars, master, joinAt>>

Wait(t) ==
  /\ pc[t] = "getwork"
  /\ queue = <<>>
  /\ ~OthersIdle(numIdleThreads, numThreads)
  /\ numIdleThreads' = numIdleThreads + 1
  /\ pc' = [pc EXCEPT ![t] = "idle"]
  /\ mutex' = Free
  /\ UNCHANGED <<dataVars, jobVars, isSourcing, numThreads, numWorkerThreads,
                 master, joinAt>>

\* pthread_cond_wait() may return without a signal.
SpuriousWakeup(t) ==
  /\ pc[t] = "idle"
  /\ pc' = [pc EXCEPT ![t] = "woken"]
  /\ UNCHANGED <<mutex, dataVars, jobVars, isSourcing, countVars, master, joinAt>>

\* A plausible bug: a woken worker still counts as idle.
WakeStillIdle(t) ==
  /\ pc[t] = "woken"
  /\ mutex = Free
  /\ mutex' = t
  /\ pc' = [pc EXCEPT ![t] = IF OthersIdle(numIdleThreads, numThreads)
                             THEN "exit" ELSE "getwork"]
  /\ UNCHANGED <<dataVars, jobVars, isSourcing, countVars, master, joinAt>>

\* GetWork() after the wait: leave if all others are idle, or look again.
Wake(t) ==
  /\ pc[t] = "woken"
  /\ mutex = Free
  /\ mutex' = t
  /\ numIdleThreads' = numIdleThreads - 1
  /\ pc' = [pc EXCEPT ![t] = IF OthersIdle(numIdleThreads', numThreads)
                             THEN "exit" ELSE "getwork"]
  /\ UNCHANGED <<dataVars, jobVars, isSourcing, numThreads, numWorkerThreads,
                 master, joinAt>>

-----------------------------------------------------------------------------
(***************************************************************************)
(* RunInput(), after input() returned c: the thread has the mutex.         *)
(***************************************************************************)

\* The bug flow.c:334-357 describes: input that arrived meanwhile is ignored.
InputAdvancedByCall(f, c) ==
  IsSource(f) \/ \E r \in Inputs(f) : c.advance[r] > 0

\* Was any input consumed, or did more arrive while input() ran?
InputAdvanced(f, c) ==
  \/ IsSource(f)
  \/ \E r \in Inputs(f) : c.advance[r] > 0 \/ readLength[r] > inputLens[r]

\* A plausible bug: the outputs are not checked again.
CallAgainClogged(f, c, lengths) ==
  /\ ~c.done /\ f \notin marked
  /\ IsSource(f) \/ InputsFeeding(f, lengths)
  /\ InputAdvanced(f, c)

\* Will this thread call input() again at once?
CallAgain(f, c, lengths) ==
  /\ ~c.done /\ f \notin marked
  /\ OutputsHungry(f, lengths)
  /\ IsSource(f) \/ InputsFeeding(f, lengths)
  /\ InputAdvanced(f, c)

\* The lengths, marks and history after the call.
Account(f, c) ==
  /\ readLength' = LengthsAfter(f, c, readLength)
  /\ marked' = IF c.done THEN marked \cup {f} ELSE marked
  /\ declined' = {g \in declined \ {f} :
                    \A r \in Inputs(g) \cap Feeds(f) : c.wrote[output[r]] = 0}
                 \cup (IF InputAdvanced(f, c) THEN {} ELSE {f})

\* A plausible bug: the filters that feed f are not looked at.
NeighboursDownstream(f) ==
  {g \in {reader[r] : r \in Feeds(f)} : Callable(g, unused, marked', readLength')}

\* A plausible bug: the filters that f feeds are not looked at.
NeighboursUpstream(f) ==
  {g \in {writer[output[r]] : r \in Inputs(f)} : Callable(g, unused, marked', readLength')}

\* The neighbours of f that get queued (with the lengths and marks after the
\* call) ...
NeighboursToQueue(f) ==
  {g \in Neighbours(f) : Callable(g, unused, marked', readLength')}

\* ... and then the sources, if threads are to spare or the queue is empty.
LookAtSources(again, first) ==
  \/ Cardinality(first) <
       maxThreads - numThreads + numIdleThreads + (IF again THEN 0 ELSE 1)
  \/ again /\ queue = <<>> /\ first = {}

SourcesToQueue(again, first) ==
  {g \in Sources \ first : /\ LookAtSources(again, first)
                           /\ Callable(g, unused, marked', readLength')}

\* FilterUnusedToStreamQ() for the filters of "first", then of "second", which
\* the code looks at from the last source to the first.
Enqueue(f, first, second) ==
  /\ \E p \in Listings(first, visits[f]), q \in Listings(second, LastFirst(sources)) :
       queue' = queue \o p \o q
  /\ unused' = unused \ (first \cup second)

\* A plausible bug: the lengths of the next call not refreshed.
SetLensStale(f, again, queued) ==
  inputLens' = [r \in Readers |-> IF reader[r] \in queued THEN 0 ELSE inputLens[r]]

\* The input lengths of f's job for its next call, and those of the jobs
\* that FilterUnusedToStreamQ() cleans.
SetLens(f, again, queued) ==
  inputLens' = [r \in Readers |->
                  IF r \in Inputs(f) /\ again THEN readLength'[r]
                  ELSE IF reader[r] \in queued THEN 0
                  ELSE inputLens[r]]

\* How many workers the new jobs call for, beyond this thread and the
\* launched ones that have not had the mutex yet.
WorkersWanted(again, added) ==
  Beyond(IF again THEN added ELSE Beyond(added, 1), numThreads - numWorkerThreads)

\* pthread_cond_signal() n times, or pthread_cond_broadcast().
WokenBy(n) ==
  IF n >= numIdleThreads
  THEN {In({"idle"})}
  ELSE {W \in SUBSET In({"idle"}) :
          Cardinality(W) = AtMost(n, Cardinality(In({"idle"})))}

WorkersToLaunch(n) ==
  AtMost(Beyond(n, numIdleThreads), maxThreads - numThreads)

\* Wake W and launch n workers; the thread itself goes on to "next".
Employ(t, W, n, next) ==
  /\ pc' = [u \in Threads |->
              IF u = t THEN next
              ELSE IF u \in W THEN "woken"
              ELSE IF u \in NewSlots(n) THEN "launched"
              ELSE pc[u]]
  /\ numThreads' = numThreads + n

\* Everything after the read and write lengths: queue the filters that
\* became callable, see to it that there are workers for them, and keep the
\* mutex if this thread is not going to call input() again.
Reschedule(t, f, again) ==
  LET first  == NeighboursToQueue(f)
      second == SourcesToQueue(again, first)
      wanted == WorkersWanted(again, Cardinality(first) + Cardinality(second))
  IN /\ Enqueue(f, first, second)
     /\ SetLens(f, again, first \cup second)
     /\ \E W \in WokenBy(wanted) :
          Employ(t, W, WorkersToLaunch(wanted), IF again THEN "input" ELSE "done")
     /\ mutex' = IF again THEN Free ELSE t

RunInput(t) ==
  /\ pc[t] = "input"
  /\ mutex = Free
  /\ \E c \in Calls(job[t], inputLens) :
       /\ Account(job[t], c)
       /\ Reschedule(t, job[t], CallAgain(job[t], c, readLength'))
  /\ UNCHANGED <<job, isSourcing, numWorkerThreads, numIdleThreads, master, joinAt>>

\* FilterWorkingToFilterUnused(), still under the mutex.
PutBack(t) ==
  /\ pc[t] = "done"
  /\ unused' = unused \cup {job[t]}
  /\ job' = [job EXCEPT ![t] = NoJob]
  /\ pc' = [pc EXCEPT ![t] = "getwork"]
  /\ UNCHANGED <<mutex, dataVars, queue, isSourcing, countVars, master, joinAt>>

\* A plausible bug: a leaving worker does not wake the idle ones.
LeavingWakesNobody == {}

(***************************************************************************)
(* The end of RunningWorkerThread(): leave, wake the idle workers so that  *)
(* they leave too, and tell a waiting master if this was the last one.     *)
(***************************************************************************)
LeavingWakes ==
  IF numThreads' # 0 /\ numIdleThreads = numThreads' THEN In({"idle"}) ELSE {}

\* A plausible bug: the last worker to leave does not signal the master.
ExitSilent(t) ==
  /\ pc[t] = "exit"
  /\ numThreads' = numThreads - 1
  /\ numWorkerThreads' = numWorkerThreads - 1
  /\ pc' = [u \in Threads |-> IF u = t THEN "dead"
                             ELSE IF u \in LeavingWakes THEN "woken" ELSE pc[u]]
  /\ mutex' = Free
  /\ UNCHANGED <<dataVars, jobVars, isSourcing, numIdleThreads, master, joinAt>>

Exit(t) ==
  /\ pc[t] = "exit"
  /\ numThreads' = numThreads - 1
  /\ numWorkerThreads' = numWorkerThreads - 1
  /\ pc' = [u \in Threads |->
              IF u = t THEN "dead"
              ELSE IF u \in LeavingWakes THEN "woken"
              ELSE pc[u]]
  /\ master' = IF numThreads' = 0 /\ master = "waiting" THEN "woken" ELSE master
  /\ mutex' = Free
  /\ UNCHANGED <<dataVars, jobVars, isSourcing, numIdleThreads, joinAt>>

-----------------------------------------------------------------------------
\* A plausible bug: an early return when no worker has begun yet.
MasterWaitReturns ==
  /\ master = "launched"
  /\ mutex = Free
  /\ master' = IF numWorkerThreads = 0 THEN "joined" ELSE "waiting"
  /\ UNCHANGED <<mutex, pc, dataVars, jobVars, isSourcing, countVars, joinAt>>

\* qsStreamWait(): join at once if no worker is left, else wait for a signal.
MasterWait ==
  /\ master = "launched"
  /\ mutex = Free
  /\ IF numThreads = 0
     THEN master' = "joining" /\ joinAt' = maxThreads
     ELSE master' = "waiting" /\ UNCHANGED joinAt
  /\ UNCHANGED <<mutex, pc, dataVars, jobVars, isSourcing, countVars>>

SpuriousMaster ==
  /\ SpuriousMasterWakeup
  /\ master = "waiting"
  /\ master' = "woken"
  /\ UNCHANGED <<mutex, pc, dataVars, jobVars, isSourcing, countVars, joinAt>>

MasterWake ==
  /\ master = "woken"
  /\ mutex = Free
  /\ master' = "joining"
  /\ joinAt' = maxThreads
  /\ UNCHANGED <<mutex, pc, dataVars, jobVars, isSourcing, countVars>>

\* JoinThreads(): from the last slot down, without the mutex; a slot that
\* has not been launched is passed over.
Join ==
  /\ master = "joining"
  /\ pc[joinAt] \in {"none", "dead"}
  /\ joinAt' = joinAt - 1
  /\ master' = IF joinAt = 1 THEN "joined" ELSE master
  /\ UNCHANGED <<mutex, pc, dataVars, jobVars, isSourcing, countVars>>

\* qsStreamStopSources(), called by any thread or signal handler.
StopSources ==
  /\ isSourcing
  /\ isSourcing' = FALSE
  /\ UNCHANGED <<mutex, pc, dataVars, jobVars, countVars, master, joinAt>>

\* The flow is over and joined: nothing more happens.
Over ==
  /\ master = "joined"
  /\ In({"none", "dead"}) = Threads
  /\ UNCHANGED vars

Worker(t) ==
  \/ Start(t) \/ TakeJob(t) \/ GiveUp(t) \/ Wait(t) \/ SpuriousWakeup(t)
  \/ Wake(t) \/ RunInput(t) \/ PutBack(t) \/ Exit(t)

Master == Launch \/ MasterWait \/ SpuriousMaster \/ MasterWake \/ Join

Next == (\E t \in Threads : Worker(t)) \/ Master \/ StopSources \/ Over

Spec == Init /\ [][Next]_vars

(***************************************************************************)
(* Fairness: a thread that can run does run, a thread that wants the mutex *)
(* gets it (the kernel starves nobody), input() always returns, and the    *)
(* application calls qsStreamWait() after qsStreamLaunch().                *)
(***************************************************************************)
Fairness ==
  /\ \A t \in Threads :
       /\ SF_vars(Start(t)) /\ SF_vars(Wake(t)) /\ SF_vars(RunInput(t))
       /\ WF_vars(TakeJob(t) \/ GiveUp(t) \/ Wait(t) \/ PutBack(t) \/ Exit(t))
  /\ SF_vars(MasterWait) /\ SF_vars(MasterWake) /\ WF_vars(Join)

FairSpec == Spec /\ Fairness

-----------------------------------------------------------------------------
(***************************************************************************)
(* Properties.                                                             *)
(***************************************************************************)

\* Every variable has its type; the mutex is held exactly where it should be.
TypeOK ==
  /\ mutex \in Threads \cup {Free}
  /\ pc \in [Threads -> Places]
  /\ job \in [Threads -> Filters \cup {NoJob}]
  /\ queue \in Seq(Filters)
  /\ unused \in SUBSET Filters
  /\ marked \in SUBSET Filters
  /\ declined \in SUBSET Filters
  /\ readLength \in [Readers -> Nat]
  /\ inputLens \in [Readers -> Nat]
  /\ isSourcing \in BOOLEAN
  /\ numThreads \in 0..maxThreads
  /\ numWorkerThreads \in 0..maxThreads
  /\ numIdleThreads \in 0..maxThreads
  /\ master \in MasterPlaces
  /\ joinAt \in 0..maxThreads

Queued(f)  == \E i \in DOMAIN queue : queue[i] = f
Working(f) == \E t \in Threads : job[t] = f

\* The job of a filter is in exactly one place, its unused stack, the stream
\* queue or one worker's hands, so no filter's input() is ever run by two
\* workers at once and no job is lost (flowJobLists.h).
OneJobEach ==
  /\ \A f \in Filters : f \in unused \/ Queued(f) \/ Working(f)
  /\ \A f \in unused : ~Queued(f) /\ ~Working(f)
  /\ \A i, j \in DOMAIN queue : queue[i] = queue[j] => i = j
  /\ \A i \in DOMAIN queue : ~Working(queue[i])
  /\ \A t, u \in Threads : job[t] = job[u] /\ job[t] # NoJob => t = u

\* The three thread counters agree with where the threads really are; the
\* decisions to exit, wake and launch are all taken on them (qs.h, flow.c).
Live    == Threads \ In({"none", "dead"})
Counted == Live \ In({"launched"})

CountersExact ==
  /\ numThreads = Cardinality(Live)
  /\ numWorkerThreads = Cardinality(Counted)
  /\ numIdleThreads = Cardinality(In(Waiting))

\* A job that is queued or being worked on still satisfies the conditions it
\* was queued under, although they were read before the mutex was released:
\* its filter is not done, every reader of its outputs has room, and it has
\* input or is a source (CheckFilterInputCallable()).
ReadyWhenCalled ==
  \A f \in Filters :
    Queued(f) \/ (\E t \in In({"input"}) : job[t] = f) =>
      /\ f \notin marked
      /\ OutputsHungry(f, readLength)
      /\ IsSource(f) \/ InputsFeeding(f, readLength)

\* No reader ever has more to read than its output's level can hold: a
\* filter is only called when it can write its promise (flow.c:286).
BoundedBacklog ==
  \A r \in Readers :
    readLength[r] < maxLength[output[r]] + maxWrite[output[r]]

\* Whenever the mutex is free and workers are alive, one of them is on its
\* way: nobody is left asleep with all the others (GetWork()).
NoLostWakeup ==
  mutex = Free /\ Live # {} => In({"launched", "woken", "input"}) # {}

\* A worker leaves only when there is nothing left to do: no job queued, no
\* input() running, and nobody still starting (flow.c:638).
LeavesOnlyWhenIdle ==
  In({"exit", "dead"}) # {} =>
    queue = <<>> /\ In({"launched", "getwork", "input", "done"}) = {}

\* No filter that could be called is forgotten: while the flow runs, a filter
\* whose job is not queued and not in a worker's hands is not callable, except
\* one that has just refused exactly what it has to read (flow.c:461-497).
NothingForgotten ==
  master # "ready" =>
    \A f \in Filters : Callable(f, unused, marked, readLength) => f \in declined

\* When the flow has ended every filter is done, or blocked by a reader that
\* is done, or short of what it promised it could read; no source is left
\* that could still have been read from.
EndsDrained ==
  master # "ready" /\ numThreads = 0 =>
    \A f \in Filters \ marked :
      OutputsHungry(f, readLength) =>
        /\ IsSource(f) => ~isSourcing
        /\ \A r \in Inputs(f) : readLength[r] < maxRead[r]

\* When qsStreamWait() returns, every worker that was launched has been
\* joined: no worker touches the stream after it.
JoinedAll == master = "joined" => Live = {}

\* A thread slot is given to one worker only, so no pthread_t that is still
\* to be joined is overwritten (LaunchWorkerThread() in qs.h).
SlotsUsedOnce ==
  [][\A t \in Threads : pc'[t] = "launched" /\ pc[t] # "launched" => pc[t] = "none"]_vars

\* Once every source is done the flow runs out of work, all workers leave
\* and the waiting master returns.
FlowEnds == (Sources \subseteq marked) ~> (master = "joined" /\ Live = {})

\* What the abstract flow sees: the calls in progress, and what they were given.
InCall == {job[t] : t \in In({"input"})}
Given  == [r \in Readers |-> IF reader[r] \in InCall THEN inputLens[r] ELSE 0]

Promise == INSTANCE Dataflow WITH inCall <- InCall, given <- Given, finished <- marked

\* The threads, the queue and the counters implement the abstract flow: a
\* filter is called by one thread at a time, only when it may be, with what
\* there is to read at that moment, and not again once it returned non-zero.
KeepsPromise == Promise!Spec
=============================================================================
