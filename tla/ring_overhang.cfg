CONSTANTS
  Filters <- FanFilters
  Outputs <- FanOutputs
  Readers <- FanReaders
  writer <- FanWriter
  output <- FanOutput
  reader <- FanReader
  sources <- FromSource
  visits <- FanVisits
  maxWrite <- WriteFour
  maxRead <- ReadFour
  threshold <- ReadOne
  maxLength <- LevelFour
  generators <- NoGenerator
  prev <- NoPrev
  via <- NoVia
  NoOutput = "none"
  PageSize = 4
SPECIFICATION RingSpec
CHECK_DEADLOCK FALSE
INVARIANT AccessMapped
