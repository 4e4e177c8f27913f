----------------------------- MODULE MCDialplan -----------------------------
(* Instances of Dialplan for model checking: codes, extensions and tasks   *)
(* are model values, interchangeable among themselves.                     *)
EXTENDS Dialplan, TLC

Interchangeable == Permutations(Codes) \cup Permutations(Exts) \cup Permutations(Admins)

AnyRules == Codes \X Exts
=============================================================================
