----------------------------- MODULE AddressBar -----------------------------
(***************************************************************************)
(* The address bar of a Chromium browser, src/engine.cpp.  A letter goes   *)
(* to the bar as it is; a tone key replaces the end of the word, or all of *)
(* it: the engine has the bar take so many Backspaces and commits a text.  *)
(*                                                                         *)
(* The bar shows a suggestion after the caret, selected, and the first     *)
(* Backspace only removes that.  So the engine must know whether there is  *)
(* one, or whether one Backspace more does no harm because nothing stands  *)
(* before the word; and it does not always see the text.  This module is   *)
(* what it remembers of the bar, and how many Backspaces that comes to.    *)
(*                                                                         *)
(* A replacement is one step: keys wait for it (UinputReplacement).  The   *)
(* caret is at the end; positions and pixels are counted in characters.    *)
(* Macros, automatic restoring, the undoing of a tone, the return to an    *)
(* earlier word and the transports of Select and Preedit are left out.     *)
(***************************************************************************)
EXTENDS Integers, Sequences, FiniteSets, SequencesExt

CONSTANTS
    Platforms,   \* subset of {"wayland", "injected", "forwarded"}
    Existing,    \* texts the bar may hold when it takes the focus
    MaxText,     \* bound on its length
    MaxKeys,     \* bound on the keys of a word
    EdgeSlack,   \* 30 pixels
    JumpSlack,   \* kCaretJumpPx, 40 pixels
    Suggests     \* where a suggestion may appear: after a "first" word or "any"

\* A letter, a marked one, and anything else.
Glyphs == {"a", "A", "x"}

ASSUME BarAssumption ==
    /\ Existing \subseteq Seq(Glyphs)
    /\ Platforms \subseteq {"wayland", "injected", "forwarded"} /\ Platforms # {}
    /\ MaxText \in Nat /\ MaxKeys \in Nat
    /\ EdgeSlack \in Nat /\ JumpSlack \in Nat /\ Suggests \in {"none", "first", "any"}

VARIABLES
    platform,  \* the session, and the client's way of deleting
    bar,       \* the address bar: a record, see Bars
    eng,       \* the engine: a record, see Engines
    lost       \* what stands before the word cannot be known by counting (history)

vars == <<platform, bar, eng, lost>>

Bars ==
    [text : Seq(Glyphs),    \* up to the caret
     all : BOOLEAN,         \* all of it is selected
     hint : BOOLEAN,        \* a suggestion follows it, selected
     before : Nat]          \* how much of it is before the word being typed (history)

\* The keys of a word: a letter, a letter already marked, the mark of the i-th letter.
Letter == 0
Marked == -1
Keys == -1..MaxKeys

Engines ==
    [word : Seq(Keys),      \* viet_
     len : Nat \cup {-1},    \* committedLen_
     prev : Nat \cup {-1},   \* addrBarPrevCommittedLen_
     had : BOOLEAN,         \* addrBarHadFirstWord_
     space : BOOLEAN,       \* addrBarHadSpace_
     unknown : BOOLEAN,     \* addrBarContentUnknown_
     keep : BOOLEAN,        \* addrBarKeepState_
     cleared : BOOLEAN,     \* addrBarClearedByCtrlKey_
     prefix : Nat \cup {-1}, \* addrBarPrefixChars_
     sawBs : BOOLEAN,       \* addrBarSawBsInWord_
     start : Nat \cup {-1}, edge : Nat \cup {-1}]  \* addrBarWordStartCaretX_ and LeftEdge

Wayland == platform = "wayland"
Forwarded == platform = "forwarded"

Least(m, n) == IF m < n THEN m ELSE n
Drop(s, n) == SubSeq(s, 1, IF n < Len(s) THEN Len(s) - n ELSE 0)
-----------------------------------------------------------------------------
(***************************************************************************)
(* The bar.                                                                *)
(***************************************************************************)
\* n Backspaces: the first takes a selection only.
Deleted(b, n) ==
    IF n = 0 THEN b
    ELSE IF b.all THEN [b EXCEPT !.text = <<>>, !.all = FALSE]
    ELSE [b EXCEPT !.text = Drop(@, IF b.hint THEN n - 1 ELSE n), !.hint = FALSE]

\* Text takes the place of a selection.
Inserted(b, s) ==
    [b EXCEPT !.text = IF b.all THEN s ELSE @ \o s, !.all = FALSE, !.hint = FALSE]

\* A suggestion may follow what was typed.
Suggested(b, may) ==
    {b} \cup (IF may /\ b.text # <<>> THEN {[b EXCEPT !.hint = TRUE]} ELSE {})

FirstOrAny == Suggests = "any" \/ (Suggests = "first" /\ ~eng.space)

\* What is before the word: all that is left, once there is no word.
Settled(b, word) ==
    [b EXCEPT !.before = IF word = <<>> THEN Len(b.text) ELSE Least(@, Len(b.text))]

Room(n) == bar.all \/ Len(bar.text) + n <= MaxText
-----------------------------------------------------------------------------
(***************************************************************************)
(* The word.                                                               *)
(***************************************************************************)
\* The letters among the first j keys of a word.
LettersTo(word, j) == {k \in 1..j : word[k] \in {Letter, Marked}}

Size(word) == Cardinality(LettersTo(word, Len(word)))

\* Its n-th letter came marked, or a key marked it.
MarkedAt(word, n) ==
    \E j \in DOMAIN word :
        word[j] = n \/ (word[j] = Marked /\ Cardinality(LettersTo(word, j)) = n)

Composed(word) == [n \in 1..Size(word) |-> IF MarkedAt(word, n) THEN "A" ELSE "a"]

\* VietnameseEngine::backspace(): the last key goes.
Popped(word) == Drop(word, 1)

\* A Backspace of the bar takes a letter with its mark, so another key goes when the
\* last was a mark.
PoppedGlyph(word) ==
    IF Popped(word) # <<>> /\ Size(Popped(word)) = Size(word)
    THEN Popped(Popped(word)) ELSE Popped(word)

\* The word is as long on the screen as the engine has it.
InStep == Len(bar.text) - bar.before = Size(eng.word)

NoWord(e) == [e EXCEPT !.word = <<>>, !.len = 0]
-----------------------------------------------------------------------------
(***************************************************************************)
(* The focus.                                                              *)
(***************************************************************************)
FreshTracking(e) ==
    [e EXCEPT !.had = FALSE, !.space = FALSE, !.keep = FALSE, !.prev = 0,
              !.start = -1, !.edge = -1]

\* deactivate() forgets the word.
Deactivated(e) == NoWord(e)

\* activate() after half a second or more, or elsewhere.
Activated(e) ==
    [FreshTracking(NoWord(e)) EXCEPT
        !.unknown = e.len > 0, !.prefix = -1, !.cleared = FALSE]

\* activate() within half a second: a cycle of the browser's own.
Reactivated(e) ==
    IF ~Wayland /\ e.word = <<>> THEN [FreshTracking(e) EXCEPT !.unknown = FALSE] ELSE e

Focus ==
    \E s \in Existing, all \in BOOLEAN :
        /\ all => s # <<>>
        /\ bar' = [text |-> s, all |-> all, hint |-> FALSE, before |-> Len(s)]
        /\ eng' = Activated(Deactivated(eng))
        /\ lost' = TRUE
        /\ UNCHANGED platform

\* The guard that expects the cycle has run out before it begins, or within it.
Cycle ==
    /\ \/ eng' = Reactivated(Deactivated(eng))
       \/ ~Wayland /\ eng' = Reactivated(eng)
    /\ bar' = Settled(bar, eng'.word)
    /\ lost' = (lost \/ eng'.word # eng.word)
    /\ UNCHANGED platform
-----------------------------------------------------------------------------
(***************************************************************************)
(* Letters.                                                                *)
(***************************************************************************)
\* The first letter of a word: what is known of the bar before it.  On X11 the bar is
\* told by its caret, so that there is one; on Wayland nothing looks at it.
Started(e) ==
    LET s == [e EXCEPT !.prev = e.len]
        caret == Len(bar.text)
    IN  IF Wayland THEN s
        ELSE [s EXCEPT !.start = caret, !.edge = IF @ < 0 \/ caret < @ THEN caret ELSE @]

Appended(e) ==
    LET s == IF e.word = <<>> THEN Started(e) ELSE e
        w == Append(s.word, Letter)
    IN  [s EXCEPT !.word = w, !.len = Size(w)]

Holds(text, s) == \E i \in 0..Len(text) - Len(s) : SubSeq(text, i + 1, i + Len(s)) = s

\* The desync guard: after a Backspace, the text of the bar lacks the word.
Desynced ==
    /\ ~Wayland /\ eng.sawBs /\ eng.word # <<>>
    /\ bar.text # <<>> /\ ~Holds(bar.text, Composed(eng.word))

Forgotten(e) == [NoWord(e) EXCEPT !.len = -1, !.unknown = TRUE, !.sawBs = FALSE]

Type(e) ==
    /\ Room(1) /\ Len(e.word) < MaxKeys
    /\ eng' = Appended(e)
    /\ \E b \in Suggested(Inserted(bar, <<"a">>), FirstOrAny) :
        bar' = [b EXCEPT !.before = IF e.word # <<>> THEN @ ELSE Len(b.text) - 1]
    /\ UNCHANGED platform

TypeLetter == Type(eng) /\ UNCHANGED lost

\* Whatever key it is, the guard makes it the first of another word.
TypeDesynced == Desynced /\ Type(Forgotten(eng)) /\ lost' = TRUE
-----------------------------------------------------------------------------
(***************************************************************************)
(* Replacements.  What the engine sees of the bar when it plans one: its   *)
(* text by the client's surrounding text (caret before or behind the       *)
(* suggestion), or by the accessibility snapshot; that the focus is in a   *)
(* part of the browser; whether the caret was reported since the last key. *)
(***************************************************************************)
Evidence ==
    {ev \in [text : {"none", "start", "end"}, snap : {"none", "text", "selection"},
             ui : BOOLEAN, caret : BOOLEAN] :
        /\ ev.snap # "none" => ev.ui
        /\ ev.text = "end" => bar.hint
        /\ Wayland => ev.snap = "none" /\ ~ev.ui /\ ~ev.caret}

Sees(ev) == ev.text # "none"

\* A caret behind the suggestion is behind more than the text.
CaretBeyond(ev, n) == ev.text = "end" \/ Len(bar.text) > n

StartsWith(old) == IsPrefix(old, bar.text)

\* A plan: the Backspaces, whether all of the word goes, whether an Escape goes first,
\* and the engine after it.
Plan(n, whole, escape, e) == [n |-> n, whole |-> whole, escape |-> escape, e |-> e]

Ascii(old) == \A i \in DOMAIN old : old[i] = "a"

FirstWordDone(e, old) == [e EXCEPT !.had = TRUE, !.keep = Ascii(old) /\ Len(old) = 1]

\* Text before the word, by what is remembered and the caret.
Remembered(ev, e) ==
    IF e.prev < 0 THEN e.start > e.edge + EdgeSlack
    ELSE IF e.space \/ e.prev > 0 THEN TRUE
    ELSE e.unknown /\ ~(ev.caret /\ Len(bar.text) + JumpSlack < e.start)

\* mutant: one Backspace more, whether or not the caret stands alone
PlanAtStartMore(ev, old) == Plan(Len(old) + 1, TRUE, FALSE, FirstWordDone(eng, old))

\* The snapshot shows the word at the start of the bar: all of it goes, and the
\* suggestion unless the caret is known to stand alone.
PlanAtStart(ev, old) ==
    Plan(Len(old) + (IF ev.snap = "selection" /\ ~bar.hint THEN 0 ELSE 1), TRUE, FALSE,
         FirstWordDone(eng, old))

Recovered(ev, e) == ~Sees(ev) /\ e.sawBs /\ e.prefix = 0

\* mutant: a key that cleared the bar proves nothing
ProvedByCount(ev, e) == Recovered(ev, e)

\* A key that cleared the bar, or the Backspaces counted, leave nothing before the word.
Proved(ev, e) == e.cleared \/ Recovered(ev, e)

\* mutant: the count is not asked
CountedBeforeNot(e) == FALSE

CountedBefore(e) == e.prefix > 0

\* X11 without one.
PlanX11(ev, bs, old) ==
    LET e == IF eng.prev < 0 THEN [eng EXCEPT !.had = FALSE] ELSE eng
        exact == Sees(ev) /\ ~CaretBeyond(ev, Len(old)) /\ bar.text = old
        trusted == exact \/ Recovered(ev, e) \/ e.cleared \/ ev.ui
        eligible == trusted /\ ~e.had
        c == IF eligible /\ Proved(ev, e) THEN [e EXCEPT !.cleared = FALSE] ELSE e
        before == IF Sees(ev) THEN CaretBeyond(ev, Len(old)) ELSE Remembered(ev, e)
        alone == eligible /\ (Proved(ev, e) \/ ~(CountedBefore(e) \/ before))
        seen == IF ev.snap = "selection" /\ bar.hint THEN 1 ELSE 0
    IN  IF ~alone THEN Plan(bs + seen, FALSE, FALSE, c)
        ELSE IF ev.snap # "none" /\ bar.text # <<>>
        THEN Plan(bs + seen, FALSE, TRUE, [c EXCEPT !.had = TRUE, !.keep = FALSE])
        ELSE Plan(Len(old) + 1, TRUE, FALSE, FirstWordDone(c, old))

\* The client's text tells of the suggestion, and of what is before the word.
PlanWayland(ev, bs, old) ==
    IF ~eng.had /\ ~(Sees(ev) /\ Len(bar.text) > Len(old))
    THEN Plan(Len(old) + 1, TRUE, FALSE, FirstWordDone(eng, old))
    ELSE Plan(bs + (IF Sees(ev) /\ bar.hint THEN 1 ELSE 0), FALSE, FALSE, eng)

\* scheduleAddrBarReplacement()
Planned(ev, bs, old) ==
    IF Wayland THEN PlanWayland(ev, bs, old)
    ELSE IF ev.snap # "none" /\ ~eng.had /\ StartsWith(old) THEN PlanAtStart(ev, old)
    ELSE PlanX11(ev, bs, old)

\* An Escape may leave the suggestion selected.
Escaped(b, escape) == IF escape THEN {b, [b EXCEPT !.hint = FALSE]} ELSE {b}

\* What becomes of the bar.
Outcomes(plan, i, new) ==
    {LET gone == Deleted(b, plan.n)
     IN  [Inserted(gone, IF plan.whole THEN new ELSE SubSeq(new, i, Len(new)))
            EXCEPT !.before = Least(@, Len(gone.text))] : b \in Escaped(bar, plan.escape)}

Replaced(i, ev) ==
    LET old == Composed(eng.word)
        word == Append(eng.word, i)
        new == Composed(word)
        plan == Planned(ev, Len(old) - i + 1, old)
    IN  /\ eng' = [plan.e EXCEPT
                    !.word = word, !.len = Len(new), !.sawBs = FALSE,
                    !.prefix = IF plan.whole /\ Forwarded THEN 0 ELSE @]
        /\ \E b \in Outcomes(plan, i, new) : bar' \in Suggested(b, FirstOrAny)

\* The text before the word begins like it (history).
Coincides == bar.before > 0 /\ StartsWith(Composed(eng.word))

\* A tone key marks a letter.
Transform ==
    /\ eng.word # <<>> /\ Len(eng.word) < MaxKeys /\ Room(1)
    /\ \E i \in 1..Size(eng.word), ev \in Evidence : Replaced(i, ev)
    /\ lost' = (lost \/ Coincides \/ ~InStep')
    /\ UNCHANGED platform

\* No deletion could be sent: the word stays what it was on the screen.
TransformRefused ==
    /\ eng.word # <<>> /\ ~Forwarded
    /\ \E i \in 1..Size(eng.word), ev \in Evidence :
        LET old == Composed(eng.word)
            plan == Planned(ev, Len(old) - i + 1, old)
        IN  eng' = [plan.e EXCEPT
                    !.word = [j \in DOMAIN old |-> IF old[j] = "A" THEN Marked ELSE Letter],
                    !.len = Len(old), !.prefix = -1, !.had = eng.had, !.keep = eng.keep]
    /\ lost' = TRUE
    /\ UNCHANGED <<platform, bar>>
-----------------------------------------------------------------------------
(***************************************************************************)
(* The other keys.                                                         *)
(***************************************************************************)
\* The keys that end a word: what the bar has is not the engine's any more.
Done(e, b) ==
    /\ eng' = e
    /\ bar' = Settled(b, <<>>)
    /\ UNCHANGED platform

\* mutant: the word is not counted with its space
CountedSpace(e) == IF e.prefix < 0 THEN -1 ELSE e.prefix + 1

Counted(e) == IF e.prefix < 0 THEN -1 ELSE e.prefix + Size(e.word) + 1

Space ==
    /\ Room(1)
    /\ LET counted == Counted(eng)
       IN  Done([NoWord(eng) EXCEPT
                    !.prefix = Least(counted, MaxText),
                    !.had = @ \/ eng.word # <<>>, !.space = @ \/ eng.word # <<>>,
                    !.len = IF eng.word = <<>> THEN eng.len ELSE 0,
                    !.sawBs = @ /\ eng.word = <<>>, !.cleared = @ /\ eng.word = <<>>],
                Inserted(bar, <<"x">>))
    /\ lost' = (lost \/ (eng.word = <<>> /\ eng.cleared))

\* A digit, a slash, a dot.
NonLetter ==
    /\ Room(1)
    /\ Done(IF eng.word = <<>> THEN [eng EXCEPT !.prefix = -1]
            ELSE [NoWord(eng) EXCEPT !.prefix = -1, !.had = TRUE, !.sawBs = FALSE,
                                     !.cleared = FALSE],
            Inserted(bar, <<"x">>))
    /\ lost' = TRUE

\* The history of a word that is gone.
Emptied(e) ==
    [NoWord(e) EXCEPT !.len = -1, !.space = FALSE, !.had = FALSE, !.keep = FALSE,
                      !.unknown = TRUE]

\* Backspace in a word.
Shortened(e) ==
    LET s == [e EXCEPT !.sawBs = TRUE]
        kept == Popped(s.word)
        w == PoppedGlyph(s.word)
    IN  IF s.keep
        THEN IF Size(s.word) <= 1 THEN [NoWord(s) EXCEPT !.keep = FALSE, !.had = FALSE]
             ELSE [s EXCEPT !.keep = FALSE, !.word = kept, !.len = Size(s.word) - 1]
        ELSE IF w # <<>> THEN [s EXCEPT !.word = w, !.len = Size(w)]
        ELSE IF Wayland THEN NoWord(s) ELSE Emptied(s)

Backspace ==
    /\ eng.word # <<>>
    /\ eng' = Shortened(eng)
    /\ bar' = Settled(Deleted(bar, 1), eng'.word)
    /\ lost' = (lost \/ (IF eng'.word = <<>> THEN bar.hint
                         ELSE ~InStep'))
    /\ UNCHANGED platform

\* Backspace without one.
Erased(e) ==
    LET s == [e EXCEPT !.sawBs = TRUE, !.prefix = IF @ > 0 THEN @ - 1 ELSE @]
    IN  IF ~Wayland \/ (s.space /\ s.len <= 0) THEN Emptied(s)
        ELSE IF s.len = 0 THEN [s EXCEPT !.len = -1]
        ELSE [s EXCEPT !.unknown = TRUE]

IdleBackspace ==
    /\ eng.word = <<>>
    /\ Done(Erased(eng), Deleted(bar, 1))
    /\ lost' = (lost \/ bar.hint)

\* The reset of the keys with Ctrl.
CtrlTracking(e) == [NoWord(e) EXCEPT !.had = FALSE, !.keep = FALSE]

\* Ctrl+A, Ctrl+L, and Ctrl+U, which deletes.
CtrlClears ==
    /\ \E b \in {[bar EXCEPT !.all = bar.text # <<>>, !.hint = FALSE],
                 [bar EXCEPT !.text = <<>>, !.all = FALSE, !.hint = FALSE]} :
        Done(IF Wayland
             THEN [CtrlTracking(eng) EXCEPT !.unknown = TRUE, !.prefix = -1, !.cleared = FALSE]
             ELSE [CtrlTracking(eng) EXCEPT !.unknown = FALSE, !.prefix = 0, !.cleared = TRUE,
                                            !.space = FALSE, !.len = -1],
             b)
    /\ lost' = FALSE

\* Ctrl+V, and the keys with Ctrl that change nothing.
CtrlOther ==
    /\ \E b \in {bar} \cup (IF Room(1) THEN {Inserted(bar, <<"x">>)} ELSE {}) :
        Done([CtrlTracking(eng) EXCEPT !.unknown = TRUE, !.prefix = -1, !.cleared = FALSE], b)
    /\ lost' = TRUE

\* The keys the engine knows nothing of end the word.
OtherKey(e) ==
    LET s == IF e.word = <<>> THEN e ELSE [NoWord(e) EXCEPT !.sawBs = FALSE]
    IN  [s EXCEPT !.cleared = FALSE, !.prefix = -1]

\* End, which takes the suggestion.
EndKey ==
    /\ bar.hint => Room(1)
    /\ Done(OtherKey(eng),
            IF bar.hint THEN Inserted([bar EXCEPT !.hint = FALSE], <<"x">>)
            ELSE [bar EXCEPT !.all = FALSE])
    /\ lost' = TRUE

Delete ==
    /\ Done([OtherKey(eng) EXCEPT !.had = FALSE, !.keep = FALSE],
            IF bar.all THEN Deleted(bar, 1) ELSE [bar EXCEPT !.hint = FALSE])
    /\ lost' = TRUE

\* In a word Escape is the engine's; else the bar's.
Escape ==
    /\ IF eng.word # <<>> THEN Done(NoWord(eng), bar)
       ELSE Done(eng, [bar EXCEPT !.hint = FALSE])
    /\ lost' = (lost \/ eng.word # <<>>)
-----------------------------------------------------------------------------
Init ==
    /\ platform \in Platforms
    /\ bar = [text |-> <<>>, all |-> FALSE, hint |-> FALSE, before |-> 0]
    /\ eng = [word |-> <<>>, len |-> 0, prev |-> 0, had |-> FALSE, space |-> FALSE,
              unknown |-> FALSE, keep |-> FALSE, cleared |-> FALSE, prefix |-> -1,
              sawBs |-> FALSE, start |-> -1, edge |-> -1]
    /\ lost = TRUE

Next ==
    \/ Focus \/ Cycle
    \/ TypeLetter \/ TypeDesynced \/ Transform \/ TransformRefused
    \/ Space \/ NonLetter \/ Backspace \/ IdleBackspace
    \/ CtrlClears \/ CtrlOther \/ EndKey \/ Delete \/ Escape

Spec == Init /\ [][Next]_vars
-----------------------------------------------------------------------------
(***************************************************************************)
(* Properties.                                                             *)
(***************************************************************************)
TypeOK ==
    /\ platform \in Platforms /\ bar \in Bars /\ eng \in Engines /\ lost \in BOOLEAN
    /\ bar.before <= Len(bar.text) /\ Len(eng.word) <= MaxKeys

\* Whatever letter the next key marks, and whatever of E the engine sees of the bar.
WhateverNext(E, Good(_, _, _)) ==
    eng.word # <<>> /\ InStep =>
        \A i \in 1..Size(eng.word), ev \in E :
            LET old == Composed(eng.word)
            IN  Good(Planned(ev, Len(old) - i + 1, old), i, Composed(Append(eng.word, i)))

\* Who can see the text and its selection.
TextSeen == {ev \in Evidence : ev.snap = "selection" \/ (Wayland /\ Sees(ev))}

\* On Wayland the client's text is always there.
Dependable == {ev \in Evidence : Wayland => Sees(ev)}

\* With the text of the bar in sight, a replacement takes the word and nothing else, and
\* leaves nothing of it behind a suggestion: whatever was in the bar, however it came
\* there, and whatever the engine remembers (engine.cpp:7592).  The Escape that goes
\* first on a bar with other text is known to miscount with a suggestion.
ExactWithText ==
    WhateverNext(TextSeen, LAMBDA plan, i, new :
        ~(plan.escape /\ bar.hint) =>
            \A b \in Outcomes(plan, i, new) :
                b.before = bar.before /\ Len(b.text) = bar.before + Len(new))

\* From a key that clears the bar on, words may be typed, marked, erased and typed again,
\* and the browser may cycle the focus between them, without any view of the text: no
\* replacement takes a character before its word (engine.cpp:7692).  Unless the text
\* begins with that same word, and a snapshot without the selection says so.
PrefixKept ==
    ~lost /\ ~Coincides =>
        WhateverNext(Dependable, LAMBDA plan, i, new :
            \A b \in Outcomes(plan, i, new) : b.before = bar.before)

\* The first replacement of a word that stands alone leaves nothing of it either, with a
\* suggestion or without: in a bar the engine was told is part of the browser, and whose
\* caret it does not see behind the suggestion (engine.cpp:7779).
FirstWordWhole ==
    ~lost /\ ~eng.had /\ bar.text = Composed(eng.word) /\ Size(eng.word) = Len(eng.word) =>
        WhateverNext({ev \in Dependable : ev.text # "end" /\ (Wayland \/ ev.ui)},
            LAMBDA plan, i, new : \A b \in Outcomes(plan, i, new) : Len(b.text) = Len(new))

\* The number of characters before the word, while the engine claims to know it and does
\* not only believe so, is right at every key: after spaces, Backspaces in and between
\* words, and cycles of the focus (engine.cpp:7707).
PrefixCounted == ~lost /\ eng.prefix >= 0 /\ ~bar.all => eng.prefix = bar.before

\* What the code says of the keys that clear the bar: "A clear shortcut or our tracked
\* deletions prove that no text precedes this word" (engine.cpp:7694), so that a
\* replacement with no other evidence takes nothing but the word.
ClearedWordAlone ==
    eng.cleared =>
        WhateverNext({ev \in Evidence : ev.text = "none" /\ ev.snap = "none"},
            LAMBDA plan, i, new : \A b \in Outcomes(plan, i, new) : b.before = bar.before)
-----------------------------------------------------------------------------
(***************************************************************************)
(* Why they hold.                                                          *)
(***************************************************************************)
\* A word begins with a letter and has the bar's selection replaced; without one, all of
\* the bar is before the next word.
WordInv ==
    IF eng.word = <<>> THEN bar.before = Len(bar.text) /\ eng.len <= 0
    ELSE eng.word[1] \in {Letter, Marked} /\ ~bar.all

\* While it can be known, what is before the word is known on X11 and is never known on
\* Wayland; a mark of a key that clears the bar is only there with nothing before.
CountInv ==
    /\ Wayland => eng.prefix = -1
    /\ ~lost =>
        /\ eng.word # <<>> => InStep
        /\ ~Wayland =>
            /\ eng.prefix = IF bar.all THEN 0 ELSE bar.before
            /\ eng.cleared => eng.prefix = 0
            /\ bar.all => eng.cleared

\* Nothing makes the engine believe that there was text before the word.
Quiet ==
    /\ ~eng.space /\ ~eng.unknown
    /\ IF eng.word = <<>> THEN eng.edge = -1 ELSE eng.prev <= 0 /\ eng.start <= eng.edge

\* A word with no mark that may be the first, with nothing before it: it is known to stand
\* alone, by the key that cleared the bar or the Backspaces, or nothing says otherwise.
FirstInv ==
    ~lost /\ ~Wayland /\ ~eng.had /\ eng.prefix = 0 /\ Size(eng.word) = Len(eng.word) =>
        eng.cleared \/ eng.sawBs \/ Quiet

IInv == TypeOK /\ WordInv /\ CountInv /\ FirstInv
=============================================================================
