---------------------------- MODULE MCControllers ----------------------------
(* Three controllers, one of them without hooks at the start.              *)
EXTENDS Controllers, TLC

CONSTANTS k1, k2, k3
ByName == <<k2, k1, k3>>
SomeProvide == (k1 :> Phases) @@ (k2 :> {"postStart", "preStop"})
               @@ (k3 :> {"preStart", "preStop"})
=============================================================================
