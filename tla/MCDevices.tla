------------------------------ MODULE MCDevices ------------------------------
(* Instances of Devices for model checking.                                *)
EXTENDS Devices
=============================================================================
