------------------------- MODULE MCSurroundingText -------------------------
(* SurroundingText on small instances. *)
EXTENDS SurroundingText
=============================================================================
