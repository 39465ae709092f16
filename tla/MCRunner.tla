------------------------------ MODULE MCRunner ------------------------------
(***************************************************************************)
(* A small instance of Runner.tla.                                         *)
(***************************************************************************)
EXTENDS Runner

NoneOrSecond == {<<0>>, <<0, 1>>}
=============================================================================
