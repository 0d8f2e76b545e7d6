----------------------------- MODULE OutputMode -----------------------------
(***************************************************************************)
(* Which transport the words of a context take: effectiveMode() and        *)
(* detectAutoMode() in src/engine.cpp, with the caches they keep and the   *)
(* events that are meant to refresh them.                                  *)
(*                                                                         *)
(* The facts the decision rests on come from outside, each in its own      *)
(* time: the program's name, its capabilities, the accessible that has the *)
(* focus (perhaps another program's), the user's settings.  The decision   *)
(* is cached, must not change within a word, and must follow the facts at  *)
(* the next one.                                                           *)
(*                                                                         *)
(* Functions take the context s and the world w they look at.              *)
(***************************************************************************)
EXTENDS Naturals

CONSTANTS
    Programs,     \* the programs that take the focus
    Platforms,    \* of "wayland", "x11" (native) and "xwayland"
    CapSets,      \* the capabilities they report
    Kinds,        \* the kinds of accessibles that take the focus
    Settings,     \* the settings the user chooses among: outputMode, the mode
                  \* of the address bar, and Native in place of Uinput
    Choices,      \* what the user chooses for a program
    MaxChanges    \* events other than keys and the passing of time

BrowserApps == {"chrome", "brave"}
ChromiumApps == BrowserApps \cup {"electron"}
\* "none" is a name not resolved.
AllPrograms == ChromiumApps \cup {"firefox", "office", "terminal", "plain", "none"}
Explicit == {"SurroundingText", "Uinput", "Native", "Preedit"}
\* No surrounding text; surrounding text with no hint of the content, with a weak
\* one, with a strong one; of an address bar; of a terminal.
AllCapSets == {"nothing", "bare", "weak", "strong", "url", "terminal"}
\* An input of a page, a control that takes no text, a cell editor without and with
\* its id, a Google document, the browser's own field, the parts of an IDE.
AllKinds == {"editor", "widget", "grid", "sheets", "docs", "toolbar",
             "ide-terminal", "ide-code", "ide-chat"}

ASSUME OutputModeAssumption ==
    /\ Programs \subseteq AllPrograms
    /\ Platforms \subseteq {"wayland", "x11", "xwayland"}
    /\ CapSets \subseteq AllCapSets
    /\ Kinds \subseteq AllKinds
    /\ Settings \subseteq [mode : Explicit \cup {"Auto"}, native : BOOLEAN,
                           bar : {"Auto", "SurroundingText", "Preedit", "NoVietnamese"}]
    /\ Choices \subseteq Explicit \cup {"Auto", "Excluded"}
    /\ MaxChanges \in Nat

VARIABLES
    world,     \* [platform, program, caps, caret, focus, config, file]: the facts
    ctx,       \* the context, and the engine's sticky flag: a record, see Contexts
    changes    \* events so far

vars == <<world, ctx, changes>>

Worlds ==
    [platform : Platforms, program : Programs, caps : CapSets, caret : BOOLEAN,
     focus : [owner : Programs \cup {"nobody"}, kind : Kinds \cup {"widget"}, age : 0..2,
              gen : Nat],
     config : [mode : Explicit \cup {"Auto"}, native : BOOLEAN,
               bar : {"Auto", "SurroundingText", "Preedit", "NoVietnamese"}],
     file : [Programs -> Explicit \cup {"unset", "cleared", "Auto", "Excluded"}]]

Contexts ==
    [readFor : Programs \cup {"nobody"},     \* cachedProgram_
     override : Explicit \cup {"Auto", "unset"},  \* appModeOverride_
     excluded : BOOLEAN,                     \* appExcluded_
     valid : BOOLEAN,                        \* modeCacheValid_
     cached : Explicit,                      \* cachedMode_
     by : {"bar", "user", "auto"},           \* who decided it (history)
     chromium : {"unknown", "yes", "no"},    \* cachedIsChromium_
     owner : [gen : Nat, program : Programs \cup {"nobody"}, matches : BOOLEAN],
     sticky : BOOLEAN,                       \* chromiumBareCapsUinput_
     hints : BOOLEAN,                        \* focusSawContentHints_
     failed : BOOLEAN,                       \* surroundingTextFailed_
     invalid : 0..2,                         \* surroundingInvalidCount_
     pending : BOOLEAN,                      \* modeDecisionPending_
     deadline : BOOLEAN,                     \* modeDecisionDeadlineUsec_ has passed
     backoff : BOOLEAN,                      \* triggerBackoffUntilUsec_ is ahead
     young : BOOLEAN,                        \* activate() was less than 500 ms ago
     word : 0..2,                            \* letters of the word, two for more
     used : Explicit,                        \* the mode of its first letter (history)
     disturbed : BOOLEAN,                    \* its path had to change (history)
     stale : {"no", "cached", "read"},       \* what is older than the choice (history)
     patient : BOOLEAN,                      \* 2 s of this focus went by (history)
     had : BOOLEAN, hadBy : Programs \cup {"nobody"}]  \* engine: chromiumHadBareCaps_

NewContext ==
    [readFor |-> "nobody", override |-> "unset", excluded |-> FALSE, valid |-> FALSE,
     cached |-> "SurroundingText", by |-> "auto", chromium |-> "unknown",
     owner |-> [gen |-> 0, program |-> "nobody", matches |-> FALSE],
     sticky |-> FALSE, hints |-> FALSE, failed |-> FALSE, invalid |-> 0, pending |-> FALSE,
     deadline |-> FALSE, backoff |-> FALSE, young |-> FALSE, word |-> 0,
     used |-> "SurroundingText", disturbed |-> FALSE, stale |-> "no", patient |-> FALSE,
     had |-> FALSE, hadBy |-> "nobody"]

NativeX11(w) == w.platform = "x11"
Wayland(w) == w.platform = "wayland"
\* nativeModeEnabled(), replaceUinputWithNative
Replaces(w) == w.config.native
Injected(w) == IF NativeX11(w) THEN "Native" ELSE "Uinput"

HasSurrounding(w) == w.caps # "nothing"
Browser(w) == w.program \in BrowserApps

---------------------------------------------------------------------------
(* What is known of the focus.                                             *)

\* The cached answer to whether the accessible with the focus is of this program.
Owner(s, w) ==
    IF s.owner.gen = w.focus.gen /\ s.owner.program = w.program THEN s.owner
    ELSE [gen |-> w.focus.gen, program |-> w.program, matches |-> w.focus.owner = w.program]

\* a11yFocusRelevant(): ages are 0, up to 500 ms; 1, up to 5 s; 2, any.
Relevant(s, w, age) == w.focus.gen > 0 /\ w.focus.age <= age /\ Owner(s, w).matches
Sees(s, w, age, kinds) == Relevant(s, w, age) /\ w.focus.kind \in kinds

WebKinds == {"editor", "widget", "grid", "sheets", "docs"}
TextKinds == AllKinds \ {"widget"}

\* isChromiumCached()
Chromium(s, w) ==
    IF s.chromium # "unknown" THEN s.chromium = "yes"
    ELSE \/ w.program \in ChromiumApps
         \/ /\ w.program = "none" /\ Wayland(w)
            /\ w.focus.gen > 0 /\ w.focus.age <= 1 /\ w.focus.owner \in ChromiumApps

FreshEditor(s, w) == Chromium(s, w) /\ Browser(w) /\ Sees(s, w, 1, {"editor", "sheets"})
NonEntry(s, w) == Chromium(s, w) /\ Browser(w) /\ Sees(s, w, 1, {"widget", "grid"})
NonEntryNarrow(s, w) == Chromium(s, w) /\ Browser(w) /\ Sees(s, w, 1, {"grid"})
IdeTerminal(s, w) == Chromium(s, w) /\ ~Browser(w) /\ Sees(s, w, 2, {"ide-terminal"})
IdeCode(s, w) == Chromium(s, w) /\ ~Browser(w) /\ Sees(s, w, 2, {"ide-code"})
GoogleDocs(s, w) == Sees(s, w, 2, {"docs"})
Sheets(s, w) == Browser(w) /\ Sees(s, w, 1, {"sheets"})
Blind(s, w) == ~Relevant(s, w, 1) /\ ~Sees(s, w, 2, TextKinds)

\* inChromiumAddressBar() or inFirefoxAddressBar(); the caret's shape decides unless
\* the focus is seen to be in the page.
AddressBar(s, w) ==
    /\ w.program \in BrowserApps \cup {"firefox"}
    /\ \/ w.caps = "url"
       \/ w.caret /\ ~Sees(s, w, IF Wayland(w) THEN 0 ELSE 1, WebKinds)

---------------------------------------------------------------------------
(* The decision.                                                           *)

Decide(s, mode) == [s EXCEPT !.cached = mode]
AutoInject(s, w) == Decide(s, IF NativeX11(w) \/ Replaces(w) THEN "Native" ELSE "Uinput")
AutoSurrounding(s) == Decide(s, "SurroundingText")

\* clearEngineBareCapsSticky()
ForgetSticky(s) == [s EXCEPT !.had = FALSE, !.hadBy = "nobody"]
LockSticky(s, w) ==
    [s EXCEPT !.pending = FALSE, !.sticky = TRUE, !.had = TRUE, !.hadBy = w.program]

\* A passing focus of a control does not end surrounding text in an editor on X11.
Flicker(s, w) ==
    /\ s.valid /\ s.cached = "SurroundingText" /\ HasSurrounding(w) /\ ~Wayland(w)
    /\ Browser(w) /\ ~AddressBar(s, w) /\ ~NonEntryNarrow(s, w)

\* mutant: the cell editor is known by its lines alone
OtherEditorByLines(s, w) ==
    \/ IdeTerminal(s, w) \/ IdeCode(s, w)
    \/ w.program = "firefox" /\ GoogleDocs(s, w)

\* The focus is seen in an editor that loses surrounding-text requests.
OtherEditor(s, w) ==
    \/ IdeTerminal(s, w) \/ IdeCode(s, w) \/ Sheets(s, w)
    \/ w.program = "firefox" /\ GoogleDocs(s, w)

\* Capabilities without a hint may be stale: the decision is put off for 2 s.
BareCaps(s, w) ==
    IF ~Browser(w) /\ s.hints /\ ~Blind(s, w) THEN AutoSurrounding(s)
    ELSE IF FreshEditor(s, w) THEN AutoSurrounding(ForgetSticky([s EXCEPT !.pending = FALSE]))
    ELSE IF s.pending /\ s.deadline THEN AutoInject(LockSticky(s, w), w)
    ELSE AutoInject([s EXCEPT !.pending = TRUE, !.deadline = @ /\ s.pending], w)

\* A decision put off is taken by the hints that came.
HintedCaps(s, w) ==
    IF s.pending /\ w.caps # "strong" THEN AutoInject(LockSticky(s, w), w)
    ELSE IF s.pending THEN AutoSurrounding(ForgetSticky([s EXCEPT !.pending = FALSE]))
    ELSE IF w.program = "none" /\ w.caps = "bare" THEN AutoInject(s, w)
    ELSE AutoSurrounding(s)

ByCaps(s, w) ==
    CASE w.program = "office" -> AutoInject(s, w)
      [] w.program # "office" /\ ~HasSurrounding(w) ->
            IF Wayland(w) /\ ~Chromium(s, w) /\ w.program # "terminal"
            THEN AutoSurrounding(s) ELSE AutoInject(s, w)
      [] w.program # "office" /\ HasSurrounding(w) ->
            IF w.caps = "terminal" \/ w.program = "terminal"
               \/ (AddressBar(s, w) /\ Browser(w))
            THEN AutoInject(s, w)
            ELSE IF Chromium(s, w) /\ w.caps = "bare" THEN BareCaps(s, w)
            ELSE HintedCaps(
                    [s EXCEPT !.hints = @ \/ (Chromium(s, w) /\ w.caps \in {"weak", "strong"})],
                    w)

\* detectAutoMode()
DetectAuto(s, w) ==
    IF s.failed \/ (w.program = "none" /\ Chromium(s, w)) THEN AutoInject(s, w)
    ELSE IF NonEntry(s, w)
    THEN IF Flicker(s, w) THEN AutoSurrounding(s) ELSE AutoInject(s, w)
    ELSE IF OtherEditor(s, w) \/ (s.sticky /\ ~FreshEditor(s, w)) THEN AutoInject(s, w)
    ELSE ByCaps(IF s.sticky THEN ForgetSticky(s) ELSE s, w)

---------------------------------------------------------------------------
(* The user's choices.                                                     *)

\* What the file says of the program; "cleared" is the general setting of the time it
\* was read.
Override(choice, auto, w) ==
    CASE choice \in {"unset", "Excluded"} -> "unset"
      [] choice = "Auto" -> auto
      [] choice = "cleared" -> w.config.mode
      [] OTHER -> choice

\* refreshAppMode(): the file is read again for another program.  A choice of "Auto"
\* is read as the general setting here, and as "Auto" in activate().
RefreshAppMode(s, w) ==
    IF s.readFor = w.program THEN s
    ELSE [s EXCEPT !.readFor = w.program, !.excluded = w.file[w.program] = "Excluded",
                   !.override = Override(w.file[w.program], w.config.mode, w),
                   !.stale = IF @ = "read" THEN "cached" ELSE @]

\* An explicit mode, as far as the platform has it.
ModeOf(mode, w) ==
    CASE mode = "Native" -> IF NativeX11(w) \/ Replaces(w) THEN "Native" ELSE "Uinput"
      [] mode = "Uinput" -> IF Replaces(w) THEN "Native" ELSE "Uinput"
      [] OTHER -> mode

\* effectiveMode(): the setting for address bars, then the program's, then the general
\* one; what the evaluation learnt stays cached.
Evaluate(s, w) ==
    LET t == RefreshAppMode(s, w)
        mode == IF t.override # "unset" THEN t.override ELSE w.config.mode
        chosen ==
            IF AddressBar(t, w) /\ w.config.bar # "NoVietnamese"
            THEN [Decide(t, IF w.config.bar = "Auto" THEN Injected(w) ELSE w.config.bar)
                     EXCEPT !.by = "bar"]
            ELSE IF mode = "Auto" THEN [DetectAuto(t, w) EXCEPT !.by = "auto"]
            ELSE [Decide(t, ModeOf(mode, w)) EXCEPT !.by = "user"]
    IN  [chosen EXCEPT !.valid = TRUE, !.owner = Owner(t, w),
                       !.stale = IF @ = "read" THEN "read" ELSE "no",
                       !.chromium = IF Chromium(t, w) THEN "yes" ELSE "no"]

EffectiveMode(s, w) == IF s.valid THEN s ELSE Evaluate(s, w)

---------------------------------------------------------------------------
(* Keys.                                                                   *)

Injecting(s) == s.cached \in {"Uinput", "Native"}

\* Whether what is seen may ask for another decision.
Trigger(s, w) ==
    \/ s.pending \/ FreshEditor(s, w)
    \/ /\ ~s.valid \/ ~Injecting(s)
       /\ NonEntryNarrow(s, w) \/ IdeTerminal(s, w) \/ IdeCode(s, w) \/ GoogleDocs(s, w)

Stabilizing(s, w) == Wayland(w) /\ w.program \in BrowserApps \cup {"firefox"} /\ s.young

\* mutant: also within a word
ReEvaluateAlways(s, w) ==
    IF Trigger(s, w) /\ ~Stabilizing(s, w) /\ (s.pending \/ ~s.valid \/ ~s.backoff)
    THEN [s EXCEPT !.valid = FALSE, !.backoff = @ \/ ~s.pending]
    ELSE s

\* keyEvent() re-evaluates the mode at the beginning of a word.
ReEvaluate(s, w) ==
    IF s.word = 0 /\ Trigger(s, w) /\ ~Stabilizing(s, w)
       /\ (s.pending \/ ~s.valid \/ ~s.backoff)
    THEN [s EXCEPT !.valid = FALSE, !.backoff = @ \/ ~s.pending]
    ELSE s

\* Every key looks at the program's choice and at the focus first.
Looks(s, w) == ReEvaluate(RefreshAppMode(s, w), w)

\* The program takes the keys as they are.
Passes(s, w) == s.excluded \/ (w.config.bar = "NoVietnamese" /\ AddressBar(s, w))

Begin(s) ==
    IF s.word > 0 THEN s ELSE [s EXCEPT !.used = s.cached, !.disturbed = FALSE]

\* noteSurroundingFailure(): a replacement found that the program does not report.
NoteFailure(s, w) ==
    IF Chromium(s, w) \/ (Wayland(w) /\ s.invalid = 1)
    THEN [s EXCEPT !.failed = TRUE, !.valid = FALSE, !.disturbed = TRUE,
                   !.invalid = IF Chromium(s, w) THEN @ ELSE 2]
    ELSE [s EXCEPT !.invalid = IF Wayland(w) THEN 1 ELSE @]

\* A letter; its replacement may find the surrounding text invalid.
Letter(fails) ==
    LET s == Looks(ctx, world)
        t == EffectiveMode(s, world)
        u == [Begin(t) EXCEPT !.word = IF @ < 2 THEN @ + 1 ELSE 2]
    IN  /\ fails => ~Passes(s, world) /\ u.word = 2 /\ t.cached = "SurroundingText"
        /\ ctx' = CASE Passes(s, world) -> s
                    [] ~Passes(s, world) /\ fails -> NoteFailure(u, world)
                    [] OTHER -> u
        /\ UNCHANGED <<world, changes>>

Separator ==
    LET s == Looks(ctx, world)
    IN  /\ ctx' = IF Passes(s, world) THEN s ELSE [EffectiveMode(s, world) EXCEPT !.word = 0]
        /\ UNCHANGED <<world, changes>>

---------------------------------------------------------------------------
(* The context and the engine.                                             *)

\* Something the context has not noticed is older than the user's choice.
Older(s, what) == [s EXCEPT !.stale = IF @ = "read" THEN "read" ELSE what]

\* invalidateAppModeOverrideCache(): a word under way keeps its mode.
Invalidate(s) == [s EXCEPT !.readFor = "nobody", !.valid = @ /\ s.word > 0]

\* mutant: a decision put off in one focus is taken in the next
SettleDecisionLeft(s) == s

SettleDecision(s) == [s EXCEPT !.pending = FALSE, !.deadline = FALSE]

\* The engine's sticky flag holds for the next context of the program.
StickyAgain(s, w) ==
    /\ s.had /\ s.hadBy = w.program /\ w.program # "none" /\ Chromium(s, w)
    /\ ~FreshEditor(s, w) /\ w.caps # "strong" /\ (Browser(w) \/ w.caps \notin {"weak", "url"})

\* activate(), of the engine and of the context, where s is what is left of the word;
\* kept is a decision kept across churn.
Activated(s, w, kept) ==
    LET r == SettleDecision(
                 [Invalidate(s)
                     EXCEPT !.excluded = w.file[w.program] = "Excluded",
                            !.override = Override(w.file[w.program], "Auto", w),
                            !.hints = FALSE, !.valid = @ /\ kept, !.backoff = FALSE,
                            !.chromium = "unknown", !.young = TRUE, !.patient = FALSE])
    IN  EffectiveMode([r EXCEPT !.sticky = StickyAgain(r, w)], w)

Change(w) == changes < MaxChanges /\ changes' = changes + 1 /\ world' = w

WordLost(s) == [s EXCEPT !.word = 0, !.failed = FALSE, !.invalid = 0]

\* Another program takes the focus, or the same one again; its context is new, the one
\* that was left, or the one that X11 clients without a name share.  What the
\* accessibility bus says of it comes later.
Focus(p, caps, new) ==
    LET w == [world EXCEPT !.program = p, !.caps = caps, !.caret = FALSE]
        s == IF new THEN [NewContext EXCEPT !.had = ctx.had, !.hadBy = ctx.hadBy]
             ELSE WordLost(ctx)
    IN  /\ new \/ p = world.program \/ ~Wayland(world)
        /\ Change(w) /\ ctx' = Activated(s, w, FALSE)

\* A Chromium program gives up the focus and takes it again, in less than 500 ms: in
\* the address bar the word stays, and on X11 its mode.
Churn ==
    LET s == IF AddressBar(ctx, world) THEN ctx ELSE WordLost(ctx)
        t == Activated(s, world, ~Wayland(world))
    IN  /\ Change(world) /\ Chromium(ctx, world)
        /\ ctx' = [t EXCEPT !.disturbed = @ \/ (Wayland(world) /\ t.cached # ctx.cached)]

Activation ==
    \/ \E p \in Programs, caps \in CapSets, new \in BOOLEAN : Focus(p, caps, new)
    \/ Churn

\* The first reset after the focus came leaves the decision alone.
Preserved(w) == Wayland(w) /\ w.program \in BrowserApps \cup {"firefox"} /\ ctx.young

\* reset(): the word is gone, and the decision unless the focus is new.
Reset ==
    /\ Change(world)
    /\ ctx' = [ctx EXCEPT !.word = 0, !.chromium = "unknown",
                          !.valid = @ /\ Preserved(world)]

\* The program's capabilities and its caret's place change.
Report(caps, caret) ==
    /\ Change([world EXCEPT !.caps = caps, !.caret = caret])
    /\ UNCHANGED ctx

\* An accessible takes the focus, of this program or of another.
A11yFocus(owner, kind) ==
    /\ Change([world EXCEPT !.focus = [owner |-> owner, kind |-> kind, age |-> 0,
                                       gen |-> @.gen + 1]])
    /\ UNCHANGED ctx

\* The name of the program comes or goes while its context is in use.
Named(p) ==
    /\ Wayland(world) /\ p # world.program /\ "none" \in {p, world.program}
    /\ Change([world EXCEPT !.program = p])
    /\ ctx' = Older(ctx, "cached")

\* reloadConfig() after the settings program wrote its files.
Reload(config, choice) ==
    /\ Change([world EXCEPT !.config = config,
                            !.file = [@ EXCEPT ![world.program] = choice]])
    /\ ctx' = Invalidate(IF ctx.word > 0 THEN Older(ctx, "cached") ELSE ctx)

\* setOutputMode() from the tray's menu: the contexts do not hear of it.
Tray(mode) ==
    /\ Change([world EXCEPT !.config.mode = mode])
    /\ ctx' = Older(ctx, IF ctx.override = "unset" THEN "cached" ELSE "read")

---------------------------------------------------------------------------
(* The mode menu, which opens between words.                               *)

\* Its labels need a decision.
Menu == EffectiveMode(Looks(ctx, world), world)

Select(mode) ==
    /\ ctx.word = 0 /\ ~AddressBar(ctx, world)
    /\ Change([world EXCEPT !.file = [@ EXCEPT ![world.program] = mode]])
    /\ ctx' = [Menu EXCEPT !.excluded = FALSE, !.override = mode, !.valid = FALSE]

SelectBar(bar) ==
    /\ ctx.word = 0 /\ AddressBar(ctx, world)
    /\ Change([world EXCEPT !.config.bar = bar])
    /\ ctx' = [Menu EXCEPT !.valid = FALSE]

\* The program is excluded, or no longer: what was read of it before holds again.
Exclude ==
    LET excluded == ~Menu.excluded
    IN  /\ ctx.word = 0 /\ ~AddressBar(ctx, world)
        /\ Change([world EXCEPT !.file = [@ EXCEPT ![world.program] =
                                              IF excluded THEN "Excluded" ELSE "cleared"]])
        /\ ctx' = [Menu EXCEPT !.excluded = excluded,
                               !.stale = IF excluded THEN @ ELSE "read"]

\* Half a second, two seconds or ten go by.
Wait(time) ==
    /\ world' = [world EXCEPT !.focus.age =
                    IF time = "10s" THEN 2 ELSE IF @ = 0 THEN 1 ELSE @]
    /\ ctx' = [ctx EXCEPT !.young = FALSE,
                          !.deadline = @ \/ (time # "500ms" /\ ctx.pending),
                          !.patient = @ \/ time # "500ms",
                          !.backoff = @ /\ time # "10s"]
    /\ UNCHANGED changes

Init ==
    /\ \E p \in Programs, platform \in Platforms, config \in Settings, caps \in CapSets :
          /\ world = [platform |-> platform, program |-> p, caps |-> caps, caret |-> FALSE,
                      focus |-> [owner |-> "nobody", kind |-> "widget", age |-> 2, gen |-> 0],
                      config |-> config, file |-> [q \in Programs |-> "unset"]]
          /\ ctx = Activated(NewContext, world, FALSE)
    /\ changes = 0

Next ==
    \/ \E fails \in BOOLEAN : Letter(fails)
    \/ Separator
    \/ Activation
    \/ Reset
    \/ \E caps \in CapSets, caret \in BOOLEAN : Report(caps, caret)
    \/ \E owner \in Programs \ {"none"}, kind \in Kinds : A11yFocus(owner, kind)
    \/ \E p \in Programs : Named(p)
    \/ \E config \in Settings, choice \in Choices \cup {"unset"} : Reload(config, choice)
    \/ \E mode \in Choices \ {"Excluded"} : Select(mode)
    \/ \E bar \in {c.bar : c \in Settings} : SelectBar(bar)
    \/ Exclude
    \/ \E mode \in {c.mode : c \in Settings} : Tray(mode)
    \/ \E time \in {"500ms", "2s", "10s"} : Wait(time)

Spec == Init /\ [][Next]_vars

---------------------------------------------------------------------------
(* Properties.                                                             *)

\* The context as the next letter finds it.
NextLetter == EffectiveMode(Looks(ctx, world), world)

\* Every variable has its type.
TypeOK == world \in Worlds /\ ctx \in Contexts /\ changes \in 0..MaxChanges

\* A word is written to its end by the transport of its first letter, whatever happens
\* to the focus, the capabilities, the settings or the program's name, unless its own
\* replacement failed or the focus was lost and taken again on Wayland.
StableInWord == ctx.word > 0 /\ ~ctx.disturbed => NextLetter.cached = ctx.used

\* A program is written off as one that loses surrounding-text requests for what it
\* showed itself and in this focus: bare capabilities for two seconds, or weak hints
\* while the decision was put off; or because an earlier focus of it found so.  (A context
\* whose program is no longer known for a Chromium, since its name changed while the
\* decision was put off, is written off at once.)
StickyEarned ==
    [][ ctx'.sticky /\ ~ctx.sticky =>
        \/ ctx.had /\ ctx.hadBy = world'.program
        \/ ctx'.patient
        \/ ctx.pending /\ ~Activation /\ ~(Chromium(ctx, world) /\ world.caps = "bare") ]_vars

\* What the user chose for the program, or for all of them.
Choice(w) == IF w.file[w.program] \in {"unset", "cleared"} THEN w.config.mode
             ELSE w.file[w.program]

\* A program's choice of "Auto" against another general mode is lost when it is read.
AutoLost == world.file[world.program] = "Auto" /\ world.config.mode # "Auto"

\* A word outside the address bar is written by the transport the user chose, once the
\* context had the occasion to learn of the choice.
Chosen ==
    /\ ctx.word > 0 /\ ~ctx.disturbed /\ ctx.by # "bar" /\ ctx.stale = "no"
    /\ Choice(world) \notin {"Auto", "Excluded"}
    => ctx.used = ModeOf(Choice(world), world)

\* The two together: each word has one transport, and it is the one the user chose.
WordTransport == StableInWord /\ Chosen

\* An editor known to lose surrounding-text requests does not get a word written by
\* them, whichever capabilities it shows and however it was reached, when the key that
\* begins the word may ask for a new decision.
CellsAreInjected ==
    /\ ctx.word = 0 /\ ~ctx.backoff /\ ~Stabilizing(ctx, world)
    /\ Chromium(ctx, world) = (world.program \in ChromiumApps)
    /\ ctx.stale = "no" /\ Choice(world) = "Auto" /\ ~AutoLost /\ ~AddressBar(ctx, world)
    /\ \/ Browser(world) /\ Sees(ctx, world, 1, {"grid", "sheets"})
       \/ world.program = "electron" /\ Sees(ctx, world, 2, {"ide-terminal", "ide-code"})
       \/ world.program = "firefox" /\ Sees(ctx, world, 2, {"docs"})
    => Injecting(NextLetter)

---------------------------------------------------------------------------
(* What makes them hold: an inductive invariant.                           *)

\* Within a word the decision stands, and is the one its first letter went by.
Steady(s) == s.word > 0 /\ ~s.disturbed => s.valid /\ s.cached = s.used

\* What a context may hold for the choice that the file has for a program.
Holds(override, choice, w) ==
    CASE choice = "unset" -> override = "unset"
      [] choice = "cleared" -> override = w.config.mode
      [] choice = "Auto" -> override \in {"Auto", w.config.mode}
      [] choice = "Excluded" -> TRUE
      [] OTHER -> override = choice

\* What was read for a program is still what the file says.
Learnt(s, w) ==
    s.readFor # "nobody" /\ s.stale # "read" => Holds(s.override, w.file[s.readFor], w)

\* A decision that is not older than the choice follows it.
Follows(s, w) ==
    /\ s.valid /\ s.by # "bar" /\ s.stale = "no" /\ Choice(w) \notin {"Auto", "Excluded"}
    => s.cached = ModeOf(Choice(w), w)

\* The time to decide is over only for a focus that had it.
Timely(s) == s.deadline => s.patient

IInv == TypeOK /\ Steady(ctx) /\ Learnt(ctx, world) /\ Follows(ctx, world) /\ Timely(ctx)

=============================================================================
