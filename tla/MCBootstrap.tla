----------------------------- MODULE MCBootstrap -----------------------------
(* Instances of Bootstrap for model checking: entrances are interchangeable*)
(* and no temporal property is checked, so that symmetry is sound.         *)
EXTENDS Bootstrap, TLC

EntranceSymmetry == Permutations(Entrances)
=============================================================================
