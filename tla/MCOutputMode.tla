---------------------------- MODULE MCOutputMode ----------------------------
(* OutputMode on small instances. *)
EXTENDS OutputMode

\* Auto; a general choice; Native in place of Uinput with the address bar left alone.
MCSettings ==
    {[mode |-> "Auto", native |-> FALSE, bar |-> "Auto"],
     [mode |-> "Preedit", native |-> FALSE, bar |-> "SurroundingText"],
     [mode |-> "Auto", native |-> TRUE, bar |-> "NoVietnamese"]}
=============================================================================
