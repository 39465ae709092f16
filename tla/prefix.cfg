\* Two names of which a third name, of no parameter, is the common prefix.
CONSTANTS
  Group = 3
  NoValue = NoValue
  AnyType = Any
  f = f
  g = g
  Names <- PrefixNames
  Patterns = {}
  Types = {QsDouble}
  Callbacks <- OneCallback
  Settable <- PrefixNames
  MaxParameters = 2
  MaxGets = 1
SPECIFICATION Spec
INVARIANT FoundHasKey
CHECK_DEADLOCK FALSE
