CONSTANTS
  Filters <- TapFilters
  Outputs <- TapOutputs
  Readers <- TapReaders
  writer <- TapWriter
  output <- TapOutput
  reader <- TapReader
  sources <- FromSource
  visits <- TapVisits
  maxWrite <- WriteThree
  maxRead <- ReadTwo
  threshold <- ReadOne
  maxLength <- LevelThree
  generators <- NoGenerator
  prev <- TapPrev
  via <- TapVia
  NoOutput = "none"
  PageSize = 4
SPECIFICATION RingSpec
CHECK_DEADLOCK FALSE
INVARIANTS PointersMapped LengthsReachWriter NoOverwrite
