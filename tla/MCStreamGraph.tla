--------------------------- MODULE MCStreamGraph ---------------------------
(***************************************************************************)
(* Small instances of StreamBuffers.tla, and so of StreamGraph.tla.  The   *)
(* filters are interchangeable.                                            *)
(***************************************************************************)
EXTENDS StreamBuffers

CONSTANTS f1, f2, f3

Three    == {f1, f2, f3}
Symmetry == Permutations(Filters)

ToOne        == {1, NextPort}
FromAny      == {0, 1, NextPort}
OnlyNext     == {NextPort}
=============================================================================
