--------------------------- MODULE MCCallTracking ---------------------------
(* Instances of CallTracking for TLC.                                      *)
EXTENDS CallTracking

CONSTANTS c1, c2

TwoCalls == {c1, c2}
None     == {}
OnlyC2   == {c2}

=============================================================================
