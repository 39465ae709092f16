CONSTANTS
  Filters <- ChainFilters
  Outputs <- ChainOutputs
  Readers <- ChainReaders
  writer <- ChainWriter
  output <- ChainOutput
  reader <- ChainReader
  sources <- ChainSources
  visits <- ChainVisits
  maxWrite <- TwoThenOne
  maxRead <- ReadOne
  threshold <- ReadOne
  maxLength <- TwoThenOne
  generators <- NoGenerator
  NoJob = NoJob
  maxThreads = 2
  SpuriousMasterWakeup = TRUE
SPECIFICATION FairSpec
INVARIANTS TypeOK OneJobEach ReadyWhenCalled BoundedBacklog NothingForgotten
PROPERTY KeepsPromise FlowEnds
