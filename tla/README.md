# Verification of quickstream

quickstream runs a graph of *filters*.  Filters exchange bytes through
lock-less ring buffers, and a pool of worker threads migrates between the
filters: no filter owns a thread.  This directory holds TLA+ modules that model
the library and the program that runs it, TLC configurations that check them on
small instances, and theorems proved by TLAPS: about the scheduler, the life of
a stream and the ring buffers for every graph and every number of threads, about
the building of the graph and its buffers for all connections and restarts, and about
controllers, filters and the program for every sequence of calls and options.

Paths below are relative to `src/`.  "The code" is the C library in `lib/` with
its headers in `include/quickstream/`, built without `DEBUG`: `DASSERT()` is
nothing, `ASSERT()` is kept.

## 1. The system

| Component | Sources | State | Operations |
|---|---|---|---|
| flow scheduler | `lib/flow.c`, `flowJobLists.h`, `streamLaunch.c`, parts of `qs.h` | the job queue and the unused jobs, read lengths, marked (finished) filters, three thread counters, one mutex, two condition variables, `isSourcing` | launch, worker loop, `RunInput()`, wait, join, stop sources |
| ring buffers | `lib/buffer.c`, `makeRingBuffer.c`, pointer moves in `flow.c` | which outputs share a buffer; write and read pointers, mapped lengths | allocate, size, map, free; advance |
| stream graph | `lib/stream.c`, `stream.h`, `streamReady.c` | connections, sources, output and input ports, readers | connect, disconnect a filter, ready, stop |
| dictionary | `lib/Dictionary.c` | a compressed trie | insert, find, remove, iterate |
| parameters | `lib/parameter.c` | one dictionary per filter, an array of get callbacks per parameter | create, destroy, get, set, push, squeeze at a restart |
| controllers | `lib/controller.c`, `prePostInputCallbacks.c`, the hook passes of `streamReady.c` | a list and a dictionary of modules, a thread-specific key, marks, hooks, callbacks after `input()` | load, unload, call hooks, add and run callbacks |
| filter API | `lib/filterAPI.c` | promises, pass-through links | `qsOutput()`, `qsAdvanceInput()`, promises and pass-through requests in `start()` |
| filter loading | `lib/filter.c`, `filterList.h`, `LoadDSOFromTmpFile.h`, `stream.c` | per stream a list and a dictionary of filters; module handles; a thread-specific key | load, unload a filter; create, destroy a stream |
| application | `lib/app.c` | lists of streams, filters, controllers | create, destroy, print |
| command line | `bin/quickstream.c` | the streams and filters made so far, the filter connected last, thread numbers, whether the streams are ready, the signal handler | one per option; the loops of `--run`; `term_catcher()` |
| logging, device utilities, plugins | `lib/debug.c`, `share/`, `plugins/` | | |

**How they interact.**  `qsStreamReady()` turns the connection list into
outputs and readers, calls the controllers' `preStart` hooks, the filters'
`start()` (where promises are set and buffers are asked for), maps the buffers
and calls `postStart`.  `qsStreamLaunch()` queues the sources' jobs and starts
one worker; workers start further workers.  A worker in `RunInput()` calls
`input()` without the mutex, then takes it to move lengths and pointers and to
queue the neighbours that its call made callable, then calls the controllers'
callbacks after `input()`.  `qsStreamWait()` sleeps until the last worker left
and joins them all.  `qsStreamStop()` calls `preStop`, the filters' `stop()`,
frees the run's data and calls `postStop`.  Parameters are pushed from
`input()`, so by workers, and got from anywhere.  The program calls all of this
option by option, for several streams one after the other, and a signal handler
calls `qsStreamStopSources()` for all of them in the middle of it.

**What is hard.**  (1) A job is judged runnable under the mutex and run later,
while other workers move the lengths it was judged on.  (2) Filters that cannot
run are not polled: whoever changes what they wait for must queue them.  (3)
Sleeping, waking, launching and leaving are all decided on three counters that
threads update at different moments.  (4) The buffers' memory has no lock: two
filters are kept apart by the arithmetic of lengths alone.  (5) Ports are
numbered in several passes over the connections that must agree, and the
structures are rebuilt at each start from whatever the last stop left: a launch
sets back one part of a stream's state and a stop another.  (6) The trie splits
and merges nodes at digits within characters.  (7) Modules call back into the
library from their own loading and from hooks.  (8) The program and its signal
handler share an array of streams that options make longer.

`PROJECT.json` lists these as hazards at the lines where they bite, each with
the properties that would catch it going wrong.

## 2. Modules

```
FlowGraph            the graph, promises and what one input() may do (constants)
 └─ Dataflow         abstract: what a flow promises to a filter
     ├─ RingBuffer   adds pointers and memory to the steps of Dataflow
     │    └─ RingBufferProofs
     └─(implemented by) Scheduler      threads, queue, mutex, counters
          └─ SchedulerInvariants       the inductive strengthening
               └─ StreamLife           flow after flow: ready, launch, wait, stop
                    └─ SchedulerProofs      with Scheduler => Dataflow
StreamGraph          connections -> ports and readers, over restarts
 └─ StreamBuffers    pass-through links, allocation, mapping, freeing
      └─ StreamGraphProofs
Dictionary           the trie, as operators
 └─ Parameters ──(implements)── ParameterBook   a plain book of names
      └─ ParametersProofs
Controllers          loading, hooks, callbacks after input()
 └─ ControllersProofs
FilterList           loading, naming, unloading filters; streams
 └─ FilterListProofs
DataLemmas           facts about lists and naturals that the proofs share
Runner               the program: options, --run, signals
 └─ RunnerProofs
MC*                  small instances of each
```

**FlowGraph, Dataflow.**  While a stream flows its graph does not change, so it
is constants with three assumptions: `GraphAssumption` (the shape
`qsStreamReady()` builds; no filter feeds itself, `stream.c:114`),
`PromiseAssumption` (promises are positive, a threshold is at most the read
promise, a level is the largest promise at its output, `buffer.c`), and
`OrderAssumption` (there is a source; the orders in which lists are walked).
`Calls(f, lens)` is everything an `input()` may do within its promises:
consume part of what it is given, write up to its write promises, return zero
or not.  `Dataflow` says what a filter writer may rely on: `input()` is called
by one thread at a time, only when there is room for a full write and (unless
the filter is a source) some input has reached its threshold, with all there
was to read when the call began, and never again once it returned non-zero.

**Scheduler.**  `pc` is where each worker is; a place ends where the code
releases the mutex or sleeps.

| Action | Code |
|---|---|
| `Launch` | `qsStreamLaunch()`: sources queued, first worker started |
| `Start` | `RunThread()` up to its first `GetWork()` |
| `TakeJob`, `GiveUp`, `Wait` | the three ways out of `GetWork()`: a job, leaving (all others idle, nothing queued), sleeping |
| `SpuriousWakeup`, `Wake` | `pthread_cond_wait()` returning, and taking the mutex again |
| `RunInput` | `input()` returns; the mutex is taken; lengths, marks, queueing of neighbours, waking or launching workers, and whether to call again at once |
| `PutBack` | the job returned to the unused stack |
| `Exit` | the worker leaves; the last one wakes the master |
| `MasterWait`, `SpuriousMaster`, `MasterWake`, `Join` | `qsStreamWait()` and `JoinThreads()` |
| `StopSources` | `qsStreamStopSources()`, at any moment |

`unused`, `queue` and `job` are the three places of a filter's one job.
`declined` is a history variable: filters that, at their last call, took less
than their threshold leaves callable.  It names the only filters that
`RunInput()` may leave callable and not queued (`flow.c:466`).

**StreamLife** composes flows into the life of a stream.  `Prepare` and
`LaunchFlow` are the two halves of `qsStreamLaunch()`: the first allocates jobs
and slots and takes the marks back, the second is the `Launch` of `Scheduler`.
`Flow` is any step of `Scheduler`; `WaitAgain` is a second `qsStreamWait()`;
`Stop` is `qsStreamStop()` with `FreeRunResources()`, which resets the queue and
two counters, and neither `isSourcing` nor `numWorkerThreads`.  The code asks
nothing of the application here, so neither does the model: a stop may come when
workers live (`StopUnderWorkers`, the stage is then `"freed"`), and a launch
after a `start()` that failed (`LaunchUnmapped`, `"unmapped"`).

**RingBuffer** adds `writePtr` and `readPtr`, as offsets, to the steps of
`Dataflow`; the memory a filter may touch is what it was given and what it may
write.  Pass-through outputs (`prev`, `via`) write in the buffer of the output
above.  **StreamGraph** has one action for each of `qsFiltersConnect()`,
filter removal, allowing loops, `qsStreamReady()` (up to the filters' `start()`),
launch and stop.  **StreamBuffers** adds to each of them what becomes of the
buffers: `Links` are the pass-through requests that the `start()` functions may
end up with, `FiltersMet` (step by step in `MeetNext`) the order in which `AllocateBuffer()` and
`MapRingBuffers()` walk the graph, `Top` the search up the list for the output
that owns the buffer, and `made` counts the buffers made and not freed.  A ring
of pass-through outputs, which nothing refuses, is walked for ever (`hung`).
**Dictionary** keeps a node by the digits that lead to it;
`Compress` writes groups of digits back as characters as the code does, with
the guess it makes at where a character starts.  **Parameters** is
`parameter.c` over it; **ParameterBook** is what its users see, a book of names
without trie or memory.  It says what `parameter.h` promises but for the promise at :386
(section 6), where it follows the code.  `broken` ends the behaviour where the code hands freed
memory to `realloc()` or `free()`, or follows a null pointer, as a set does of a
parameter whose name is not in `Settable`.  **Controllers**
keeps the stack of module functions in `frames`, since `construct()` and hooks
may load and unload others.  **FilterList** does the same for filters.  A name
is a sequence, so that a name that was made by counting (`copy-2`) can also be
asked for; `dlopen()` is external, one handle per file with a count of its
openings, and a second filter of a stream opens a copy of the file.  `walk` is
where `qsStreamDestroy()` is in its list while it calls a `destroy()`.

**Runner** has one action for each kind of option of `bin/quickstream.c` that
calls the library, in the order in which `main()` carries them out: `LoadFilter`,
`ConnectInOrder` (`--connect` without an argument), `ConnectGiven`, `AddStream`
and `StreamAdded` (the two halves of `--stream`, between which a signal finds the
array one short), `SetThreads`, `Ready`, `Run`, and `LaunchNext`, `WaitNext`,
`StopNext` for the loops of `--run`, with `at` and `i` for where they are.
`Signal` is `term_catcher()`, which may come at any of these places, once after
each `--run`.  `Misconnect`, `LaunchUnready` and `FirstStreamAdded` are where an
`ASSERT()` of the library or a null pointer ends the program; `why` says which.

## 3. Runs

| Run | Shows |
|---|---|
| `chain` | Source, filter, sink; two workers; a master that may wake early.  No job is duplicated or lost (`OneJobEach`); the reading a filter was queued on still holds when it is called (`ReadyWhenCalled`); backlogs stay under what the buffers are sized with (`BoundedBacklog`); nothing callable is forgotten (`NothingForgotten`); the scheduler implements `Dataflow` (`KeepsPromise`); when the source is done the flow ends and `qsStreamWait()` returns (`FlowEnds`). |
| `life` | Two sources, two sinks, one output read twice, one sink reading two sources; three workers; any number of flows.  Each launch finds what the first one found (`FreshLaunch`); in each flow counters, sleeping and leaving of workers, what is left when the flow ended (`EndsDrained`), joining and slot reuse. |
| `graph` | All ways to make, remove and number up to three connections of three filters, with restarts and with all pass-through requests: sources, ports and readers are exact, a restart rebuilds the same ones (`RestartSame`), each buffer is made and freed once and shared along its list (`BuffersOwned`), and all are mapped if a filter that passes a buffer on is fed by one filter only (`ChainsMapped`). |
| `ring` | A source, a pass-through filter, a sink and a tap, with a bulk mapping of exactly twice the promises: pointers stay in step with lengths over any wraps, and nobody writes over unread bytes. |
| `params` | Five names that share digits, three parameters, two kinds of callback: the trie keeps its shape, a pass sees what can be found and a search by regular expression what matches (`PassSeesAll`), a callback to be kept once is the first of its function (`OnceOnly`), and `Parameters` implements `ParameterBook` (`KeepsBook`). |
| `controllers` | Three controllers loading and unloading each other around a stream: key, marks, order of hooks, no hook skipped, no callback of a module that is gone. |
| `filters` | Four filters loaded in two streams, from `construct()` too, unloaded from `destroy()` too, and with their stream: one filter per name (`NamesExact`), the key and what is running (`RunningExact`), no module data shared in a stream and none left open (`ModulesApart`). |
| `runner` | All command lines with up to four filters and two streams, runs repeated, signals at any time: streams are in step between options (`StreamsInStep`), the program's own loops fail no assertion (`LibraryObeyed`), no stream is stopped while it flows (`StopsEnded`), one signal after the last launch reaches every stream (`SignalHeard`). |

Four runs show where the code does not do what its own text says:

| Run | Finding |
|---|---|
| `next_ports` | With three `QS_NEXTPORT` outputs of one filter the second and third both get port 1; port 2 is counted and has no reader (`streamReady.c:149`). |
| `ring_overhang` | The overhang covers one promise, but `input()` is handed all of `readLength`, which grows to almost twice that; a reader that uses it all reads past the mapping (`buffer.c:167`). |
| `prefix` | Looking up a common prefix of two names returns the node where they part; `qsParameterGet()` follows its null value (`Dictionary.c:898`). |
| `params_restart` | `getCallbacks` is freed and not cleared when a restart keeps no callback (`parameter.c:287`). |

**Bounds.**  No counter of the scheduler needs a bound: lengths are bounded by
`BoundedBacklog` itself, which TLC finds and the theorem `Backlog` proves.  The
chain has a level of two bytes, so a backlog can be at, below and above its
threshold and may exceed its level by a write; two workers are enough for a
decision to be overtaken, three (`life`) for "all others are idle" to be told
from "another is idle", for two to be launched at once, and for the cap on
slots to bite.  In `life` the number of flows is not bounded.  `ring` takes promises of three and pages of four, so that the
bulk mapping is exactly what the code asks for and the overhang is rounded up; its pass-through chain has
two readers at the top and one below.  `graph`
bounds connections (`MaxConnections`) and, in the passing run, the
`QS_NEXTPORT` outputs of one filter (`NextOutputs = 2`), because three of them
are the finding `next_ports`; its filters are symmetric.  Three filters and
three connections make chains of two pass-through outputs, a filter fed from two
places, and a ring.  `params` has three
digits per character instead of four (`Group`), with names of two and three
characters that part at the first digit of a character, inside one, and at its
end, which is where `Compress`, `Insert` and the merge after a removal take
their branches; it bounds entries (`MaxParameters`) and callbacks (`MaxGets`).
Where `params` gets a name that
only parts two others, the behaviour ends (`broken`): that is the finding
`prefix`.  Three controllers give a
nested load inside a nested load and a removal on either side of the pass.
Four filters of one file reach an original, two copies and one that is being
destroyed; the names asked for meet the ones made.  Filters and streams are
symmetric there.  `runner` has four filters (`MaxFilters`), so that each of two
streams (`MaxStreams`) can have a connection and one filter be left over, and
thread lists that give both streams no workers, or only the first none; its
filters and streams are only ever added, the number of runs and of signals is
not bounded.

**Fairness** (`FairSpec`, used by `chain` only).  A thread
that can run runs (weak fairness of the steps taken while a worker holds the
mutex).  A thread that wants the mutex gets it in time (strong fairness of
`Start`, `Wake`, `RunInput`, `MasterWait`, `MasterWake`, because others may take
the mutex between): the code relies on the kernel for it.  `RunInput` includes
that every `input()` returns.  `MasterWait` says the application calls
`qsStreamWait()`, as the manual asks.  `StopSources` and the spurious wakeups
have no fairness.  `generators = {}` in this run: a filter with inputs that
writes without ever reading could keep any flow alive.

**`CHECK_DEADLOCK FALSE`.**  `Dataflow` stops when every filter is finished
(`ring`, `ring_overhang`); `Parameters`, `Controllers` and `FilterList` stop when
the program was ended by a bad pointer or a failed `ASSERT()` (`broken`).  The
other runs are checked for deadlock.  Each of these models has one step that
changes nothing, possible only where nothing more can happen: `Over` when the
flow has ended and was joined, `Halted` and `Hangs` when the behaviour is
undefined or endless from there, `Stopped` when the program has ended.

Each property of a passing run has a mutant in `PROJECT.json`: a plausible bug
that TLC then reports by that property.

## 4. Proofs

**The scheduler.**  `SchedulerProofs` proves, from `GraphAssumption`, `PromiseAssumption`, `OrderAssumption` and
`ThreadAssumption` (`maxThreads` is a positive number) alone, so for every
graph and every number of workers:

| Theorem | Property |
|---|---|
| `Types` | `TypeOK` |
| `OneJobEverywhere` | `OneJobEach` |
| `StillReady` | `ReadyWhenCalled` |
| `Backlog` | `BoundedBacklog` |
| `Counters` | `CountersExact` |
| `NobodyOversleeps` | `NoLostWakeup` |
| `LeavesNoWork` | `LeavesOnlyWhenIdle` |
| `WaitJoinsAll` | `JoinedAll`, if `pthread_cond_wait()` does not return early |
| `SlotsOnce` | `SlotsUsedOnce` |
| `NoneForgotten` | `NothingForgotten` |
| `Drained` | `EndsDrained` |
| `Implements` | `KeepsPromise`: every behaviour of `Scheduler` is one of `Dataflow` |

None of the invariants is inductive as stated.  `ThreadInv` adds to them that
the mutex is held where `pc` says (`MutexHeld`), a worker has a job exactly
while it calls `input()` or gives the job back (`JobHeld`), lengths a call was
given are still there (`LensBounded`), slots in use are the first `numThreads`
until one leaves (`SlotsInOrder`), queued work has a worker that is awake
(`WorkHasWorker`) and the master is woken by the last worker only
(`MasterKnows`).  The key to `ReadyWhenCalled` is that only a filter itself
makes its own inputs and outputs worse, and that has one job
(`OthersUnharmed`); the key to `NoLostWakeup` is that counters are exact when
the mutex is free, so a worker that goes to sleep knows another that is not.
`WorkInv` adds for `NothingForgotten` what `RunInput()` leaves behind
(`LeftUncallable`, `DeclinedShort`): a filter becomes callable only through a
neighbour's call, and that call visits all neighbours.  The proofs have one
lemma per action, with facts about queues (`ListingOnceEach`, `AppendOnceEach`,
`TailOnceEach`) and about a call of `input()` (`CallFacts`, `LengthFacts`) stated
once before them.

`ThreadInv` and `WorkInv` are proved and are no properties of a run.

**The life of a stream** (`SchedulerProofs`, same assumptions):

| Theorem | Property |
|---|---|
| `LifeInductive` | the invariant `LifeInv` |
| `EveryFlow` | `ThreadInv` and `WorkInv` in every flow, not only in the first |
| `FreshEveryTime` | `FreshLaunch` |

`Clean` is what a launch must find; `Between` is what holds from a stop to the
next `Prepare`, which is less: jobs, marks and thread places are still those of
the last flow.  A stop is safe, and leads to `Between`, because `ThreadInv` says
that with no worker alive the counters are zero and no job is in a worker's hands
(`EndedFlow`); `Prepare` makes `Clean` of it (`PrepareStep`), and `Clean` gives
`ThreadInv` and `WorkInv` back (`CleanHolds`), so every lemma about a step of
`Scheduler` serves again.

**The ring buffers** (`RingBufferProofs`, from the assumptions on graph,
promises and buffers):

| Theorem | Property |
|---|---|
| `RingFlows` | every behaviour of `RingBuffer` is one of `Dataflow` |
| `PointersStay` | `PointersMapped` |
| `LengthsReach` | `LengthsReachWriter` |
| `NothingOverwritten` | `NoOverwrite` |

`OwnerAssumption` says that every output is below one that is not pass-through: a
ring of pass-through outputs makes `qsStreamReady()` walk for ever (`hung` in
`StreamBuffers`), so no stream that has one flows.  It follows that the outputs
on one buffer are a list without repetition (`BelowStep`, `NoneTwice`), with one
owner and one ring (`SameRing`).

The length of a ring is a sum over that list, which the code makes in a loop.  It
is proved to be the size of a set of units (`SumMeaning`: `Weight` satisfies the
equation of the sum), and sizes of sets can be added and compared without
induction over data.  `Room`, that the mapping has place for two operations on
each output that uses it, follows.

`DataInv` bounds lengths: under a level plus a write, and under the level while
the writer writes.  `RingInv` adds that a reader's pointer plus its length is the
write pointer or one turn of the ring beyond it (`InTurn`), which is what the
`%` of `LengthsReachWriter` comes to and is linear.

`NoOverwrite` follows from `RingInv` at each state.  A pass-through filter writes
where it reads, so each output down the list from `o` is behind `o` by what the
filters between have not read, `d` bytes.  While the writer of `o` writes, its own
reader lags by less than a level, and each one below by less than a level plus a
write: `d` plus one more operation on `o` fits in what the list between needs
(`Behind`, `BehindFacts`).  What a reader has not read and what is written do
not fill the ring together, and are apart (`RunsApart`).

**The program** (`RunnerProofs`, from `RunnerAssumption` on the bounds):

| Theorem | Property |
|---|---|
| `RunCorrect` | the invariant `RunInv` |
| `StreamsInStepHolds` | `StreamsInStep` |
| `LibraryObeyedHolds` | `LibraryObeyed` |
| `StopsEndedHolds` | `StopsEnded` |
| `SignalHeardHolds` | `SignalHeard` |

`RunInv` adds where each stream can be at each place of the loops
(`StreamsThere`: the launching and the waiting loop agree on the thread number),
that filters after the marker are of the last stream (`Marked`), how far
`isSourcing` can have been counted down (`Sourced`), and that a launch which is
still to come finds the handler installed or the signal already lost
(`HandlerThere`).

**The stream graph** (`StreamGraphProofs`, from `StreamAssumption`: the filters
and the requests for ports are any):

| Theorem | Property |
|---|---|
| `StreamGraphInv` | the invariant `Inv` |
| `BuffersImplement` | every behaviour of `StreamBuffers` is one of `StreamGraph` |
| `GraphTyped` | `TypeOK` |
| `SourcesAlwaysExact` | `SourcesExact` |
| `ConnectionsAlwaysOnce` | `EachConnectionOnce` |
| `InputPortsAlwaysExact` | `InputPortsExact` |
| `RestartAlwaysSame` | `RestartSame`, if `NextOutputs <= 2` |
| `OutputsAlwaysRead` | `EveryOutputRead`, if `NextOutputs <= 2` |
| `BuffersAlwaysOwned` | `BuffersOwned`, of `StreamBuffers` |
| `ChainsAlwaysMapped` | `ChainsMapped`, of `StreamBuffers` |

`Inv` says what a stream that is down has kept (`Down`: no filter is flagged as a
source, no ports) and, of one that is up, that the sources, the readers of each
output port and the inputs fit the connections as they have been numbered
(`SourcesUp`, `OutputsUp`, `InputsUp`).  Output ports are counted in a pass over
the connections, a recursive function here: the count goes up by one or not at
all (`UptoRecursion`), a number put in place of one that is out of order is
the next one, so every number a connection ends up with is under the count, and
so has its reader.  Input ports: the code refuses a start in which one of the
numbers below the count of the connections into a filter is not written to; as
many connections as numbers, and no number left out, is each once.
The loop check is shown never to fire
(`NoLoopFound`), whatever is connected: the count it compares is cut off
(`PathCutOff`).  `Settled` is the second inductive invariant, for restarts: what
is up is a function (`Outcome`) of the connections as a start left them, and a
start that finds its own numbers repeats them.  That needs that no port is left
without a reader, which is where a third `QS_NEXTPORT` output of a filter goes
wrong (run `next_ports`), so the bound is a hypothesis of the two theorems.

The buffers need `BuffersInv`: `BuffersOwned` and `ChainsMapped` with
`FirstOutputs`, since `FreeBuffers()` looks at the first output of a filter to
see whether any of them has a buffer.  That the recursion from the sources meets
every filter that flows, and ends, is `MetFacts`: each of its calls is made for
a source or for a connection of a filter met before, and each connection is
called for once (`Walked`, `WalkStep`), so the steps the model gives it are
enough.  It comes to a filter behind one that feeds it, so if only one filter
feeds it, behind that one (`LinksRise`): the place of a filter in the walk falls
along every pass-through link, the way up ends (`TopReached`), and it ends at an
output that was met and mapped before (`ChainsReached`).  The pass-through
requests are any that the code grants.

**Controllers** (`ControllersProofs`, from `ControllersAssumption`):

| Theorem | Property |
|---|---|
| `ControllersInv` | the invariant `Inv` |
| `KeyAlwaysCaller` | `KeyIsCaller` |
| `CallbacksAlwaysOwned` | `CallbackOwned` |
| `NeverSkipped` | `NoneSkipped` |
| `AlwaysLoadOrder` | `LoadOrder` |

The calls in progress are a chain (`FramesLinked`): each saved the key of the one
below, and all but the first, which may be a hook, are a `construct()`; marks say
so too.  A controller with a mark cannot be unloaded, so all of them are loaded.
A pass over the list follows the list as it is then, so loads and removals
during a hook matter: `DueAhead` says that what is still to be called lies
ahead of where the pass is.  A load goes to the end of the list, and so ahead of
a forward pass and behind a backward one, and a removal keeps the order of the
rest (`RemovedOrder`).  `LoadOrder` follows: one that is due is never behind.

**Filters** (`FilterListProofs`, from `FilesAssumption`):

| Theorem | Property |
|---|---|
| `FilterListInv` | the invariant `Inv` |
| `NamesAlwaysExact` | `NamesExact` |
| `RunningAlwaysExact` | `RunningExact` |
| `ModulesAlwaysApart` | `ModulesApart` |

`Inv` has one part per table (`Lists`, `Names`, `Modules`, `Opened`), the chain of
calls of `construct()` and `destroy()` (`CallsExact`), and `WalkFirst`: while
`qsStreamDestroy()` takes its stream down, it is at the first filter there is,
or at one that was freed under it.  A name that is made by counting is one that no filter of any stream has, and there
always is one, since numbers are tried for longer than there are filters.  The
copy of a module's file is made for one filter and used by no other, and the
original is taken only when no filter of the stream uses it: two filters of a
stream cannot share a handle.

**Parameters** (`ParametersProofs`, from `GroupAssumption`, two digits or more to
a character; `NamesAssumption`, a name is one or more whole characters;
`CallbacksAssumption`, `BoundsAssumption` and `ValueAssumption`, a parameter is
no null pointer):

| Theorem | Property |
|---|---|
| `ParametersInvariant` | the invariant `ParametersInv` |
| `ParametersTypeOK` | `TypeOK` |
| `ParametersWellShaped` | `WellShaped` |
| `ParametersOnceOnly` | `OnceOnly` |
| `ParametersPassSeesAll` | `PassSeesAll` |
| `ParametersKeepsBook` | `KeepsBook`: every behaviour of `Parameters` is one of `ParameterBook` |

`WellShaped` is not inductive.  A removal takes a node without an entry to have
two children or to be about to be merged, which is `NoIdleNode`, and merges a node
with its child without knowing how many digits are above the two; that the
result can still be found needs what `Trie` adds.  `Spelled`: a suffix begins at
the place of its node, an entry's key is what the suffix ends in, and there are
whole characters only where a character of a key begins.  `Laid`: a node on the
way to another ends above it, and the child it has there is a node.

The proof goes by what each step of the C code does to the nodes, whatever the
trie.  An insert is a cut of at most one node, which changes no entry (`CutHolds`),
and then a new leaf or an entry set (`LeafAdded`, `EntrySet`; `InsertedFacts`).  A
removal drops a leaf or clears an entry (`LeafDropped`, `EntryCleared`), which
leaves one node that may be idle, and `Prune`, called for it and for its parent,
puts that right (`Pruned`; `RemovedFacts`).  The guess of `Absorbed` is right
(`AbsorbedFacts`): when the merged node has a whole character or its child has an
entry, the distance to that tells where characters begin, and with neither
nothing is written back as a whole character.  So the trie is a map (`Pairs`, `Value`): two entries never have one
key, `FindEntry` finds exactly the keys of entries (`FindEntryFacts`), an insert
adds one pair if its key is new, a removal takes one away.

`ForEach` is the list of the entries in the order `Passes`, which is shown to be
total (`PassesOneWay`, `PassesOnward`, `PassesTotal`), so that the list exists and
has each entry once (`ForEachFacts`, from `OrderedList`).  Each action then does one
of five things to the map (`Effect`): `Removes`, `Adds`, `Subscribes`,
`Squeezes`, `Tells`; those are the steps of the book (`BookStep`), with `BookOf`
for the refinement mapping.  `ParametersInv` keeps in each list of callbacks that
one marked to be added once is the first of its function (`Once`); a squeeze
keeps it because it keeps the order (`KeptFacts`).

`FoundHasKey` and `ArrayIffGets` are not theorems: the runs `prefix` and
`params_restart` show them violated.

`DataLemmas` holds what several of these need: lists without repetition under
append, removal and pop, lists put one behind the other (`FlattenFacts`), finite
sets listed in any order that is total on them (`OrderedList`), recursion
up to `n`.  Induction over the naturals is cited there in its form for sets,
from the least element of what would be left out (`SetInduction`).

**Only model-checked:** `FlowEnds`, since liveness under fairness is out of the
prover's reach.  Every other property of a passing run is a theorem, under the
hypotheses named in the tables.  The properties of the four runs that end in a
violation are false of the code.

## 5. Abstractions

- `isSourcing` is volatile and read without synchronisation; `RunInput` takes
  one reading for the whole of its queueing.  A concurrent store then counts as
  before or after it.  Its type `int` and decrement are a Boolean here.
- `pthread_create()`, the counting in `numThreads` and `hasLaunched` are one step
  (`LaunchWorkerThread()`, `qs.h:1001`).  `RunInput()` does it under the mutex;
  `qsStreamLaunch()` does not, for its one worker.  `maxThreads == 0` (flow in the caller's thread)
  takes the steps of one worker.
- Callbacks after `input()` run under the mutex and touch no scheduler state;
  they are in `Controllers` and not in `Scheduler`.
- A filter decides in `input()` what it consumes.  `Calls` lets a filter
  decline what it is given below its read promise.  Two neighbours that both
  decline above their thresholds queue each other for ever (`flow.c:478`): that
  is a busy loop and no flow; the instances give a filter between two others no
  room to decline.
- Callbacks that return nothing are called through a cast to a type that
  returns an `int`; what is read as their result is undefined, so a pass may
  stop after any entry (`Passes`).
- Controllers are not loaded or unloaded while a stream flows, do not unload
  themselves, and `destroy()` calls nothing back.
- Filters are loaded and unloaded while no stream is ready or flowing; their
  `destroy()` loads nothing, and none is unloaded while its own function runs.
  A module without `construct()` or `destroy()` is one whose function does
  nothing.
- Visits of the filters in recursions over the graph are sets where the order
  makes no difference (`StreamGraph`).

## 6. Observed in the code, with no run of their own

- `qsStreamWait()` does not loop around `pthread_cond_wait()`
  (`streamLaunch.c:273`): a spurious wakeup joins a flow that has not ended.
  `SpuriousMaster` models it in `chain`; `JoinedAll` is checked and proved
  without it.
- A pass-through filter overwrites bytes that another reader of the same output
  may not have read (`filterAPI.c:307`; the documentation allows one writer).
- The loop check compares a path count that is cut off one below the number it
  asks for (`streamReady.c:676`), so loops are never reported.
- A hook is removed when it returns more than 2 (`streamReady.c:418`); the
  comment at :372 says 2 or more.
- `qsControllerUnload(0)` lets a controller unload itself while its hook and
  the walk over the list still use it (`controller.c:597`, against the
  `DASSERT` at :167); a `destroy()` that unloads another removes inside a
  removal (:162).
- A push keeps the array of callbacks while it calls them (`parameter.c:672`);
  nothing locks parameters against workers.
- `QS_FREE_USERDATA` is tested against `userData` (`parameter.c:117`); user data
  of callbacks dropped at a restart is not freed.
- `qsParameterForEach()` with a name tests `type != Any || type == p->type`
  (`parameter.c:831`): a search for any type finds nothing, and one for a type
  also finds a parameter of another, against `parameter.h:499` ("just parameters
  with this type").  `VisitedByName` follows the code, so `PassSeesAll` relates it
  to a search by regular expression in one direction only.  With no name at all
  nothing is called either (`parameter.c:802`).
- A get callback that returns non-zero is not removed: `parameter.c:674` does not
  look at the result, against `parameter.h:386` ("If the getCallback returns
  non-zero the callback will be removed").  `Push` of `ParameterBook` follows the
  code; `KeepsBook` says nothing of that promise.
- `qsParameterSet()` calls the null `setCallback` of a parameter that has none
  (`parameter.c:652`), where `parameter.h:54` says that such a parameter ignores
  the request.  (`Settable` in `Parameters`.)  `parameter.h:351` names `None` as
  the type that is ignored in a get; the code takes `Any` (`parameter.c:425`).
- A lookup with a character of 0x80 or more that no key has may end in a child
  that was never used (`Dictionary.c:861`); such names are left out.
- `qsAddPostFilterInput()` returns 0 where its comment says 1; a null callback
  does not remove the old one (`controller.h:148`) but is stored and called
  (`prePostInputCallbacks.c:83`).
- `qsStreamDestroy()` reads the next filter before it destroys one
  (`stream.c:254`), although a `destroy()` may unload that next one
  (`filterList.h:71`): `WalkFreed` in `FilterList`.
- Loading a module without `input()` ends the program: the filter is taken out
  of a dictionary it is not yet in (`LoadNoInput`).
- `qsStreamDestroy()` destroys the stream's filters (`stream.c:250`); `app.h.in:351`
  says "This will not unload the filters that are in the stream."
  (`StreamDestroy` in `FilterList` follows the code.)
- A filter whose `construct()` failed gets its `destroy()` called, against
  `app.h.in:209`.
- Filters of different streams share a module's data; only those of one stream
  get copies (`filter.c:139`).
- Out-of-order output ports are renumbered (`streamReady.c:114`); a bad input
  port is used as an index before it is reported (:317); a `start()` that fails
  leaves a stream that can be launched (:754).
- `qsStreamStop()` right after `qsStreamLaunch()` frees jobs and mutex under
  running workers (`streamLaunch.c:301`): `StopUnderWorkers`.  A launch after a
  `start()` that failed writes through null pointers: `LaunchUnmapped`.
- `isSourcing` is read only when a source is queued (`flow.c:151`).  A source
  that is being called goes on for as long as its outputs are hungry
  (`flow.c:442`), so the flow need not end after `qsStreamStopSources()`.
- A pass-through filter fed by two filters may be met before the one that owns
  its buffer: its pointers are then set in a mapping that is not there yet
  (`buffer.c:56`).  Pass-through outputs in a ring are accepted, and walked for
  ever (`buffer.c:53`).
- A filter's `mutex` is freed and not cleared (`stream.h:78`): unreachable while
  each filter has one thread.
- `--connect` without an argument, in a stream that has no filter yet, moves the
  marker back onto the last filter of the stream before; the next such loop then
  connects across the streams and fails an `ASSERT()` (`stream.c:118`), against
  the comment at `quickstream.c:729`.  (`early` in `LibraryObeyed`.)
- `--stream` as the first option that makes one writes through the null array of
  streams (`quickstream.c:745`); between counting and filling the array a signal
  finds an entry that is not set.
- `--ready`, then `--stream`, then `--run` launches a stream that is not ready
  (`streamLaunch.c:294`).  (`edited` in `LibraryObeyed`.)
- A signal that comes before the last launch of a run is lost for the streams
  launched after it, since the launch sets `isSourcing` again, and the handler
  is gone.  (`lost` in `SignalHeard`.)  The handler stays installed after a run,
  also when the streams have been destroyed.
- A job that is not at the head of the queue would be taken out with a `prev`
  that queueing never sets (`flowJobLists.h:83`): unreachable with one job per
  filter.  With fewer workers than filters, `RunInput()` may keep a worker on
  one filter while others wait (`flow.c:739`).

## 7. Not modelled

Finding module files, the printing and pictures of the graph, the reading of
the program's arguments, logging, device utilities, the plugins (every
`input()` they could have is a member of `Calls`), Python controllers, the
`mmap()` calls, the flows of several streams step by step at once (they share
nothing; `Runner` has them as wholes), user data and cleanup of
parameter callbacks, printing of tries.

## 8. Plan

Done: the scheduler and its refinement, the graph and its buffers, the life of a
stream, the ring buffers, parameters, controllers, filters, the program.

1. *Callbacks that call back*: post-input callbacks inside `Scheduler`'s
   `RunInput`, get callbacks that get, destroy or push parameters, removals
   from the dictionary inside removals.
2. *Job lists at the level of pointers* implementing the sets and the queue of
   `Scheduler`.
