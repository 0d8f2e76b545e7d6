------------------------ MODULE MCUinputReplacement ------------------------
(* Small instances of UinputReplacement for TLC: see the .cfg files. *)
EXTENDS UinputReplacement
============================================================================
