\* Three parameters with names that share digits, two callbacks at a time.
CONSTANTS
  Group = 3
  NoValue = NoValue
  AnyType = Any
  f = f
  g = g
  Names <- SmallNames
  Patterns <- OnePattern
  Types = {QsDouble, QsUint64}
  Callbacks <- TwoCallbacks
  Settable <- AllButC
  MaxParameters = 3
  MaxGets = 2
SPECIFICATION Spec
INVARIANTS WellShaped OnceOnly PassSeesAll
PROPERTY KeepsBook
\* The program may have ended on freed memory.
CHECK_DEADLOCK FALSE
