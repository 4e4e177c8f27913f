--------------------------- MODULE MCCallCommands ---------------------------
(* Instances of CallCommands for TLC: each call comes from a panel of its  *)
(* own.                                                                    *)
EXTENDS CallCommands

CONSTANTS c1, c2, d1, d2

TwoCalls  == {c1, c2}
TwoPanels == {d1, d2}
OwnPanel  == [c \in TwoCalls |-> IF c = c1 THEN d1 ELSE d2]

=============================================================================
