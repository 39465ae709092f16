---------------------------- MODULE MCStreamLife ----------------------------
(***************************************************************************)
(* The streams of MCScheduler.tla, over their whole lives.                 *)
(***************************************************************************)
EXTENDS MCScheduler, StreamLife
=============================================================================
