-------------------------- MODULE MCA11yTextCache --------------------------
(* Two entries for the model checker; they are interchangeable. *)
EXTENDS A11yTextCache, TLC

EntrySymmetry == Permutations(Entries)
============================================================================
