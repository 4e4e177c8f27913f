---------------------------- MODULE MCCloudLink -----------------------------
(* Instances of CloudLink for model checking.  The queue holds 500          *)
(* messages in the code and two here; the longest backoff is 60 s and 4 s.  *)
EXTENDS CloudLink
=============================================================================
