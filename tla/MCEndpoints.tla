---------------------------- MODULE MCEndpoints -----------------------------
(* Instances of Endpoints for model checking: extensions, passwords and    *)
(* tasks are model values; without symmetry, which temporal properties     *)
(* rule out.                                                               *)
EXTENDS Endpoints
=============================================================================
