--------------------------- MODULE MCSheetsCells ---------------------------
(* SheetsCells with one browser, whose two spreadsheets are interchangeable, and one *)
(* native application. *)
EXTENDS SheetsCells, TLC

CONSTANTS bar, s1, s2, note

MCElements == {bar, s1, s2, note}
MCBusOf == [e \in MCElements |-> IF e = note THEN "kate" ELSE "chrome"]
MCKindOf == (bar :> "vivaldi") @@ (s1 :> "sheet") @@ (s2 :> "sheet") @@ (note :> "native")
MCSymmetry == Permutations({s1, s2})
=============================================================================
