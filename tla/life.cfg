CONSTANTS
  Filters <- CrossFilters
  Outputs <- CrossOutputs
  Readers <- CrossReaders
  writer <- CrossWriter
  output <- CrossOutput
  reader <- CrossReader
  sources <- CrossSources
  visits <- CrossVisits
  maxWrite <- OneByOne
  maxRead <- ReadSplit
  threshold <- ReadOne
  maxLength <- OneThenTwo
  generators <- NoGenerator
  NoJob = NoJob
  maxThreads = 3
  SpuriousMasterWakeup = FALSE
SPECIFICATION LifeSpec
INVARIANTS FreshLaunch CountersExact NoLostWakeup LeavesOnlyWhenIdle EndsDrained JoinedAll
PROPERTY SlotsUsedOnce
