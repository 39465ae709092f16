---------------------------- MODULE MCFilterList ----------------------------
(* Two streams and four filters, of one module and of one with no input().*)
EXTENDS FilterList, TLC

CONSTANTS copy, silent, m1, m2, m3, m4, main, side
Named1 == <<"copy">>
FromFile == (copy :> Named1) @@ (silent :> <<"silent">>)
AskedNames == {Named1, Append(Named1, 2)}
Symmetry == Permutations(Filters) \cup Permutations(Streams)
=============================================================================
