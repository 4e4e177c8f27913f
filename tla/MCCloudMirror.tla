--------------------------- MODULE MCCloudMirror ----------------------------
(* Instances of CloudMirror for model checking: rows, codes and tasks are  *)
(* model values; without symmetry, which temporal properties rule out.     *)
EXTENDS CloudMirror
=============================================================================
