CONSTANTS
  MaxFilters = 4
  MaxStreams = 2
  ThreadLists <- NoneOrSecond
  DefaultThreads = 7
SPECIFICATION Spec
INVARIANTS StreamsInStep LibraryObeyed StopsEnded SignalHeard
