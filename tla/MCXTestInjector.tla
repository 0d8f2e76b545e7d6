-------------------------- MODULE MCXTestInjector --------------------------
(* Small instances of XTestInjector for TLC: see the .cfg files. *)
EXTENDS XTestInjector

\* An Escape with two Backspaces, and a selection of one character.
MCShapes == {[count |-> 2, escape |-> TRUE, select |-> FALSE],
             [count |-> 1, escape |-> FALSE, select |-> TRUE]}
============================================================================
