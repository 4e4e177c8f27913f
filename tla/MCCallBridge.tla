---------------------------- MODULE MCCallBridge ----------------------------
(* Instances of CallBridge for model checking.  The queue holds 500         *)
(* messages in the code and two here.                                       *)
EXTENDS CallBridge, TLC

Symmetry == Permutations(Calls)
=============================================================================
