----------------------------- MODULE MCParking ------------------------------
(* Instances of Parking for model checking: cameras, plates and tasks are  *)
(* model values.                                                           *)
EXTENDS Parking
=============================================================================
