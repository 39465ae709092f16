\* Two streams, four filters, and names that are also made by counting.
CONSTANTS
  copy = copy
  silent = silent
  m1 = m1
  m2 = m2
  m3 = m3
  m4 = m4
  main = main
  side = side
  None = None
  Streams = {main, side}
  Filters = {m1, m2, m3, m4}
  Files = {copy, silent}
  NoInput = {silent}
  DerivedName <- FromFile
  LoadNames <- AskedNames
SYMMETRY Symmetry
SPECIFICATION Spec
INVARIANTS NamesExact RunningExact ModulesApart
\* The program may have ended on a failed assertion or a freed filter.
CHECK_DEADLOCK FALSE
