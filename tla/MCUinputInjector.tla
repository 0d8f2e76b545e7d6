------------------------- MODULE MCUinputInjector -------------------------
(* Small instances of UinputInjector for TLC: see the .cfg files. *)
EXTENDS UinputInjector
===========================================================================
