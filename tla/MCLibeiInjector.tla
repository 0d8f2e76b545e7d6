-------------------------- MODULE MCLibeiInjector --------------------------
(* A small instance of LibeiInjector for TLC: see the .cfg file. *)
EXTENDS LibeiInjector
============================================================================
