\* Three controllers that load and unload each other around one stream.
CONSTANTS
  k1 = k1
  k2 = k2
  k3 = k3
  None = None
  Controllers = {k1, k2, k3}
  Filters = {f}
  NameOrder <- ByName
  Provides <- SomeProvide
SPECIFICATION Spec
INVARIANTS KeyIsCaller CallbackOwned NoneSkipped LoadOrder
\* The program may have ended on a null callback.
CHECK_DEADLOCK FALSE
