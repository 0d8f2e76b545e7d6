---------------------------- MODULE SheetsCells ----------------------------
(***************************************************************************)
(* The key handlers that rely on the accessibility monitor, composed with  *)
(* it: checkCellSelection() of src/engine.cpp, which ends a word when the  *)
(* cell of a spreadsheet changes under it or when it was begun in the      *)
(* address bar, and the readers of the monitor's flags.                    *)
(*                                                                         *)
(* The read of the cell asks the application on the key thread and takes   *)
(* up to 30 ms, in which the focus may move on.  The context is that of a  *)
(* browser with the addresses bar, pages and spreadsheets in one window.   *)
(*                                                                         *)
(* A word is the set of the cells its letters are known to have gone to.   *)
(***************************************************************************)
EXTENDS A11yFocus

CONSTANT Browser      \* the application of the context

ASSUME BrowserAssumption == Browser \in Buses

VARIABLE engine       \* the key thread: a record, see Engines

vars == <<desk, monitor, known, pub, engine>>

NoRead == [of |-> Nobody, cell |-> "none"]
Reads == {NoRead} \cup [of : Sheets, cell : Cells]

Engines ==
    [at : {"idle", "looked", "reading", "answered"},
     el : Maybe, gen : Nat,            \* the identity taken at the start
     changed : BOOLEAN,                \* changed
     cell : Cells \cup {"none"},       \* the cell that was read
     serial : Nat,                     \* cellSelectionSerial_
     base : Reads,                     \* sheetsCellSnapshot_
     inBar : BOOLEAN,                  \* wordStartedInAddrBar_
     letters : 0..2,                   \* viet_.getRawInput(): none, one, or more
     word : SUBSET Reads,              \* the cells its letters went to (history)
     bar : BOOLEAN,                    \* it has letters of the bar (history)
     cycle : {"no", "bar", "other"}]   \* a focus cycle of the context is due, from where

NewEngine ==
    [at |-> "idle", el |-> Nobody, gen |-> 0, changed |-> FALSE, cell |-> "none",
     serial |-> 0, base |-> NoRead, inBar |-> FALSE, letters |-> 0, word |-> {}, bar |-> FALSE,
     cycle |-> "no"]

Idle == engine.at = "idle" /\ pub.stop # "joining"

InBar(e) == e # Nobody /\ KindOf[e] \in {"toolbar", "vivaldi"}

\* a11yFocusRelevant(): a finished verdict about the context's own application.
Relevant == pub.fresh /\ pub.pid /\ BusOf[pub.ident] = Browser

\* addressBarModesAvailable(): the capability or the caret tell of the browser's own
\* bar; Vivaldi's needs the verdict.
BarModes ==
    \/ desk.focus # Nobody /\ KindOf[desk.focus] = "toolbar"
    \/ Relevant /\ KindOf[pub.ident] = "vivaldi" /\ pub.flags.ui
-----------------------------------------------------------------------------
(***************************************************************************)
(* A reader of the flags: first whose verdict it is, then the verdict.     *)
(***************************************************************************)
Look ==
    /\ Idle /\ Relevant
    /\ engine' = [engine EXCEPT !.at = "looked", !.el = pub.ident, !.gen = pub.gen]
    /\ UNCHANGED mvars

Use ==
    /\ engine.at = "looked"
    /\ engine' = [engine EXCEPT !.at = "idle", !.el = Nobody, !.gen = 0]
    /\ UNCHANGED mvars
-----------------------------------------------------------------------------
(***************************************************************************)
(* A key.                                                                  *)
(***************************************************************************)
ResetForCellChange(g) == [g EXCEPT !.word = {}, !.letters = 0, !.bar = FALSE]

\* mutant: a cell that could not be read erases the baseline
ObserveErasing(base, el, cell) ==
    IF cell = "none" THEN NoRead ELSE [of |-> el, cell |-> cell]

\* SheetsCellSnapshot::observe(): a cell that could not be read leaves the baseline.
Observe(base, el, cell) ==
    IF cell = "none" THEN base ELSE [of |-> el, cell |-> cell]

Changed(g) == g.cell # "none" /\ g.base # NoRead /\ g.base # [of |-> g.el, cell |-> g.cell]

\* mutant: the signals count beside the read
ChangedByEither(g) == Changed(g) \/ g.changed

\* The authoritative read replaces what the selection signals said.
ChangedByRead(g) == Changed(g)

\* The letter joins what is left of the word.
Typed(g, changed, place) ==
    LET h == IF changed THEN ResetForCellChange(g) ELSE g
    IN  [h EXCEPT !.at = "idle", !.el = Nobody, !.gen = 0, !.changed = FALSE,
                  !.cell = "none", !.letters = IF @ = 0 THEN 1 ELSE 2, !.word = @ \cup place,
                  !.bar = @ \/ (g.inBar /\ h.letters = 0)]

\* Where a word begins; and a word of the bar ends once the page has kept the focus.
BarMark(g) ==
    IF g.letters = 0 THEN [g EXCEPT !.inBar = BarModes /\ ~(Relevant /\ pub.flags.web)]
    ELSE g

\* mutant: the word of the bar waits for the focus cycle
LeftBarNever(g) == FALSE

LeftBar(g) == g.letters > 0 /\ g.inBar /\ Relevant /\ pub.flags.web /\ pub.settled

\* The selection signals since the last key.
Counted(g) == [g EXCEPT !.changed = pub.serial # g.serial, !.serial = pub.serial]

SheetsFocused(el) == pub.sheet /\ pub.fresh /\ pub.editor = el /\ pub.ident = el /\ el # Nobody

Typing ==
    /\ Idle /\ engine.cycle = "no"
    /\ desk.focus # Nobody /\ BusOf[desk.focus] = Browser

\* The word of the bar ends, and the letter begins another.
KeyAfterBar ==
    /\ Typing /\ LeftBar(BarMark(engine))
    /\ engine' = Typed([engine EXCEPT !.inBar = FALSE], TRUE, {})
    /\ UNCHANGED mvars

\* No cell to read, or no name box to read it from: then nothing has changed.
Key ==
    /\ Typing /\ ~LeftBar(BarMark(engine))
    /\ ~(SheetsFocused(pub.ident) /\ pub.box)
    /\ LET g == Counted(BarMark(engine))
       IN  engine' = Typed(g, g.changed /\ ~SheetsFocused(pub.ident), {})
    /\ UNCHANGED mvars

KeyReads ==
    /\ Typing /\ ~LeftBar(BarMark(engine))
    /\ SheetsFocused(pub.ident) /\ pub.box
    /\ engine' = [Counted(BarMark(engine)) EXCEPT
                    !.at = "reading", !.el = pub.ident, !.gen = pub.gen]
    /\ UNCHANGED mvars

\* The application's name box answers with the cell selected now, or not in time.
Answer ==
    /\ engine.at = "reading"
    /\ \/ /\ BusOf[engine.el] \in desk.alive
          /\ engine' = [engine EXCEPT !.at = "answered", !.cell = desk.cell[engine.el]]
          /\ UNCHANGED desk
       \/ /\ desk.faults < MaxFaults \/ BusOf[engine.el] \notin desk.alive
          /\ engine' = [engine EXCEPT !.at = "answered", !.cell = "none"]
          /\ desk' = [desk EXCEPT !.faults = IF @ < MaxFaults THEN @ + 1 ELSE @]
    /\ UNCHANGED <<monitor, known, pub>>

\* The identity of the start, with a verdict and in a spreadsheet.
SameFocus == pub.fresh /\ pub.ident # Nobody /\ pub.gen = engine.gen /\ pub.sheet

Current == SameFocus

\* The answer counts if the focus is still the one it was asked for.
KeyRead ==
    /\ engine.at = "answered" /\ Current
    /\ LET place == IF engine.cell = "none" THEN {}
                    ELSE {[of |-> engine.el, cell |-> engine.cell]}
       IN  engine' = [Typed(engine, ChangedByRead(engine), place) EXCEPT
                        !.base = Observe(@, engine.el, engine.cell)]
    /\ UNCHANGED mvars

KeyReadRefused ==
    /\ engine.at = "answered" /\ ~Current
    /\ engine' = Typed(engine, engine.changed, {})
    /\ UNCHANGED mvars

\* A space, a command: the word is done.
EndWord ==
    /\ Idle /\ engine.letters > 0
    /\ engine' = ResetForCellChange(engine)
    /\ UNCHANGED mvars
-----------------------------------------------------------------------------
(***************************************************************************)
(* The focus cycle of the context follows the move; it ends the word,      *)
(* unless the omnibox expects the browser to cycle by itself.              *)
(***************************************************************************)
Moving ==
    /\ MoveFocus
    /\ engine' = [engine EXCEPT !.cycle = IF InBar(desk.focus) THEN "bar" ELSE "other"]

Cycle ==
    /\ Idle /\ engine.cycle # "no"
    /\ engine' \in {[ResetForCellChange(engine) EXCEPT !.cycle = "no"]}
                    \cup (IF engine.cycle = "bar" THEN {[engine EXCEPT !.cycle = "no"]} ELSE {})
    /\ UNCHANGED mvars

Engine ==
    \/ Look \/ Use \/ KeyAfterBar \/ Key \/ KeyReads \/ Answer
    \/ KeyRead \/ KeyReadRefused \/ EndWord \/ Cycle

Init == MonitorInit /\ engine = NewEngine

Next ==
    \/ Engine
    \/ Moving
    \/ (MoveCell \/ (\E b \in Buses : Quit(b) \/ Deliver(b)) \/ Monitor) /\ UNCHANGED engine
    \/ Idle /\ (Stop \/ Start) /\ UNCHANGED engine
    \/ Join /\ UNCHANGED engine

Spec == Init /\ [][Next]_vars
-----------------------------------------------------------------------------
(***************************************************************************)
(* Properties.                                                             *)
(***************************************************************************)
TypeOK == MonitorTypeOK /\ engine \in Engines

\* A reader that found a finished verdict and then reads it, without a lock, never gets
\* the verdict of an accessible that had the focus earlier: it is the one it looked for,
\* a later one, or none (a11y_monitor.cpp:1054 "a consumer must not reuse the previous
\* editor").
NeverThePreviousEditor ==
    [][engine.at = "looked" /\ engine'.at = "idle" =>
        pub.flags.gen = 0 \/ pub.flags.gen >= engine.gen]_vars

\* The letters of a word whose cell was read are all of one cell of one spreadsheet,
\* however late the monitor learns of the moves and whichever reads fail in between.
WordInOneCell == Cardinality(engine.word) <= 1

\* A signal that arrives late, after the letters of the new cell, does not end the word
\* (engine.cpp:5310): the read decides.
LateEventsKeepTheWord ==
    [][engine.at = "answered" /\ engine'.at = "idle" /\ SameFocus
       /\ engine.word = {engine.base} /\ engine.base = [of |-> engine.el, cell |-> engine.cell]
        => engine'.word = engine.word /\ engine'.letters = 2]_vars

\* A cell is only taken from the spreadsheet that has the focus when the key goes on,
\* not from the one it was asked of.
CellReadIsCurrent ==
    [][engine'.base # engine.base => engine'.base.of = FocusIdentity(pub)]_vars

\* A consumer of the monitor uses nothing of an accessible that had the focus before:
\* neither its verdict nor its cell.
NothingOfAnEarlierFocus == NeverThePreviousEditor /\ CellReadIsCurrent

\* A word begun in the address bar gets no letter in the page once the page is known to
\* have kept the focus, also when the focus cycle of the click was taken for one of the
\* browser's own (engine.cpp:5281).
BarWordEnds ==
    [][(Key \/ KeyReads) /\ AtRest /\ pub.settled /\ pub.ident = desk.focus
       /\ Relevant /\ pub.flags.web
        => ~engine.bar]_vars
-----------------------------------------------------------------------------
(***************************************************************************)
(* The parts of the inductive invariant that speak of the key thread.      *)
(***************************************************************************)
\* The generation tells accessibles apart: while it is the one taken at the start, so is
\* the accessible; and the flags are withdrawn or as late as that.
LookInv ==
    /\ engine.at # "idle" =>
        engine.gen <= pub.gen /\ (engine.gen = pub.gen => pub.ident = engine.el)
    /\ engine.at = "looked" => pub.flags.gen = 0 \/ pub.flags.gen >= engine.gen
    /\ engine.at \in {"reading", "answered"} => engine.el \in Sheets

\* The letters that are known to have gone to a cell went to that of the baseline; only
\* a word that was begun in the bar has letters of the bar.
WordInv ==
    /\ engine.word \subseteq {engine.base} \ {NoRead}
    /\ engine.letters = 0 => engine.word = {} /\ ~engine.bar
    /\ engine.bar => engine.inBar

IInv == MonitorInv /\ engine \in Engines /\ LookInv /\ WordInv
=============================================================================
