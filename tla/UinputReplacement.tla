------------------------- MODULE UinputReplacement -------------------------
(***************************************************************************)
(* The replacement transaction of one input context, SKeyState in          *)
(* src/engine.cpp, over the uinput transport.                              *)
(*                                                                         *)
(* A letter that changes what is already on the screen is consumed, the    *)
(* changed suffix is deleted with injected Backspaces, one more Backspace  *)
(* (the anchor) proves by its return that the others were dispatched, and  *)
(* then the new suffix is committed.  The injected keys come back to       *)
(* keyEvent() through the same stream as the keys the user presses and     *)
(* look like any other Backspace.  The stream, the worker, the timers and  *)
(* the focus are free to interleave; a handler is one action, and a        *)
(* function from the state of the context to its next state.               *)
(*                                                                         *)
(* A Chromium browser may give up the focus and take it again at once,     *)
(* because its page rebuilds the editor that our Backspaces changed.  A    *)
(* replacement under way outlives such a cycle, for 500 ms: a genuine loss *)
(* of the focus looks the same at first.                                   *)
(*                                                                         *)
(* A glyph on the screen is the set of keys that made it, so that a text   *)
(* tells which keys are in it and in which order.                          *)
(***************************************************************************)
EXTENDS Integers, Sequences, SequencesExt, FiniteSets

CONSTANTS
    MaxKeys,        \* keys the user presses, Backspaces not counted
    MaxBackspaces,  \* Backspaces the user presses
    MaxDelete,      \* longest suffix a letter changes
    BufferCap,      \* maxBufferedUinputKeys: 32 in the code
    Apps,           \* kinds of applications
    MaxEaten,       \* Backspaces a dropdown of a blind browser eats
    MaxLost,        \* injected keys that never return
    MaxFails,       \* batches the worker fails
    MaxForced,      \* safety timeouts that commit
    MaxLeaves,      \* losses of the focus
    MaxRepeats,     \* keys that repeat, in time, the letter the guard is armed with
    Losses          \* genuine ones, or cycles that a browser performs on its own

ASSUME ReplacementAssumption ==
    /\ {MaxKeys, MaxDelete, BufferCap} \subseteq Nat \ {0}
    /\ {MaxBackspaces, MaxEaten, MaxLost, MaxFails, MaxForced, MaxLeaves, MaxRepeats}
           \subseteq Nat
    /\ Losses \subseteq {"genuine", "cycle"}
    /\ Apps # {}
    /\ Apps \subseteq {"plain", "ordered", "blind", "chromium", "page", "electron"}

Keys == 1..MaxKeys
Loopback == 0                \* an injected Backspace
Backspace == MaxKeys + 1     \* one the user pressed
IsBack(i) == i \in {Loopback, Backspace}

\* What a letter does to the word: 0 extends it, d > 0 changes its last d glyphs.
Separator == MaxDelete + 1
Effects == 0..Separator

VARIABLES
    app,      \* the application of the context
    ic,       \* the context: a record, see Context
    effect,   \* the effect of each key pressed
    again,    \* the keys that repeat, in time, the letter the guard is armed with
    pressed,  \* keys pressed
    wire,     \* what the desktop has yet to deliver, in order
    ready,    \* UinputInjector::ready()
    focus,    \* where the focus is: see Places
    used      \* how many of the bounded events have happened

world == <<app, effect, again, pressed, focus, used>>
vars == <<app, ic, effect, again, pressed, wire, ready, focus, used>>

\* useOrderedUinputReplay(), and blindBrowser: a browser without accessibility.
Ordered == app = "ordered"
Blind == app = "blind"

\* The applications whose focus cycles: a Chromium on X11, a page in one on Wayland, or an
\* Electron application on XWayland.
Browser == app \in {"chromium", "page", "electron"}

\* The applications whose timestamps do not tell the re-delivery guard a new press: a
\* browser on Wayland, which a blind one may be, and an Electron application on XWayland.
\* On X11, and in a browser on XWayland, it sees that the press is new.
Guarded == app \in {"blind", "page", "electron"}

\* The context has the focus, or is about to get it back, or something else has it.
Places == {"here", "cycle", "away"}

\* Glyphs made of the keys K.
Glyphs(K) == (SUBSET K) \ {{}}
\* The engine sees "Queued" until the batch is answered; "Running" tells that
\* the worker has taken it.
Tickets == {"none", "Queued", "Running", "Complete", "Failed"}

\* A context that has seen the keys K.
Context(K) ==
    [text : Seq(Glyphs(K)),    \* the field of the application
     viet : Seq(Glyphs(K)),    \* viet_: the word the engine is composing
     deleting : BOOLEAN,       \* uinputDeleting_
     settling : BOOLEAN,       \* uinputSettling_ and uinputCommitTimer_
     expected : 0..MaxDelete,  \* expectedUinputBackspaces_
     seen : 0..MaxDelete,      \* seenUinputBackspaces_
     outstanding : Nat,        \* uinputBsOutstanding_
     pending : Seq(Glyphs(K)), \* pendingUinputCommit_
     oldWord : Seq(Glyphs(K)), \* uinputDeletedWord_
     repairs : 0..3,           \* uinputRepairCount_
     buffered : Seq(K),        \* bufferedUinputKeys_
     settled : Seq(K \cup {Loopback, Backspace}), \* settledKeys_
     replayTimer : BOOLEAN,    \* settledReplayTimer_
     grace : BOOLEAN,          \* now is before uinputLateBsDeadlineUsec_
     safety : BOOLEAN,         \* uinputSafetyTimer_
     retried : BOOLEAN,        \* uinputSafetyRetried_
     ticket : Tickets,         \* uinputRequest_ and its state
     left : Nat,               \* keys of that batch the worker has yet to type
     tail : BOOLEAN,           \* a cancelled batch may type one more key
     cycle : BOOLEAN,          \* uinputCycleTimer_
     disabled : BOOLEAN,       \* the compositor drops what is committed
     armed : BOOLEAN,          \* addrBarLastTriggerKey_, where Guarded
     dropped : SUBSET K,       \* keys that the guard took for re-delivered ones (history)
     erased : SUBSET K,        \* keys of glyphs deleted outside a replacement (history)
     removed : Nat]            \* number of those glyphs (history)

Init ==
    /\ app \in Apps
    /\ ic = [text |-> <<>>, viet |-> <<>>, deleting |-> FALSE, settling |-> FALSE,
             expected |-> 0, seen |-> 0, outstanding |-> 0, pending |-> <<>>,
             oldWord |-> <<>>, repairs |-> 0, buffered |-> <<>>, settled |-> <<>>,
             replayTimer |-> FALSE, grace |-> FALSE, safety |-> FALSE, retried |-> FALSE,
             ticket |-> "none", left |-> 0, tail |-> FALSE, cycle |-> FALSE,
             disabled |-> FALSE, armed |-> FALSE, dropped |-> {}, erased |-> {},
             removed |-> 0]
    /\ effect = [k \in Keys |-> 0] /\ again = {}
    /\ pressed = 0 /\ wire = <<>> /\ ready = TRUE /\ focus = "here"
    /\ used = [backspaces |-> 0, eaten |-> 0, lost |-> 0, fails |-> 0, forced |-> 0,
               leaves |-> 0]

Use(event) == used' = [used EXCEPT ![event] = @ + 1]

---------------------------------------------------------------------------
(* Abandoning a replacement.                                               *)

\* mutant: no grace for what the kernel already has
CancelNoGrace(s) ==
    [s EXCEPT !.outstanding = IF s.ticket = "none" THEN @ ELSE 0,
              !.tail = @ \/ (s.ticket = "Running" /\ s.left > 0),
              !.left = 0, !.ticket = "none"]

\* cancelUinputRequest(): the worker drops what it has not started.  Keys it
\* typed may still return, and are swallowed until the grace is over.
Cancel(s) ==
    [s EXCEPT !.grace = @ \/ (s.ticket # "none" /\ s.outstanding > 0),
              !.outstanding = IF s.ticket = "none" THEN @ ELSE 0,
              !.tail = @ \/ (s.ticket = "Running" /\ s.left > 0),
              !.left = 0, !.ticket = "none"]

\* resetForCellChange()
Reset(s) ==
    [Cancel(s) EXCEPT !.viet = <<>>, !.buffered = <<>>, !.settled = <<>>,
         !.replayTimer = FALSE, !.settling = FALSE, !.safety = FALSE, !.deleting = FALSE,
         !.pending = <<>>, !.expected = 0, !.seen = 0, !.oldWord = <<>>, !.repairs = 0,
         !.cycle = FALSE, !.armed = FALSE]

\* abortFailedUinput()
Abort(s) == IF s.ticket = "Failed" THEN Reset(s) ELSE s

---------------------------------------------------------------------------
(* Text.                                                                   *)

Front1(q) == SubSeq(q, 1, Len(q) - 1)
LastN(q, n) == SubSeq(q, Len(q) - n + 1, Len(q))
DropN(q, n) == SubSeq(q, 1, Len(q) - n)
AtMost(a, b) == IF a < b THEN a ELSE b

\* A Backspace reaches the application outside a replacement.
Erase(s) ==
    IF s.text = <<>> THEN s
    ELSE [s EXCEPT !.text = Front1(@), !.erased = @ \cup Last(s.text), !.removed = @ + 1]

\* A key goes to the application unconsumed.
Raw(s, i) == IF IsBack(i) THEN Erase(s) ELSE [s EXCEPT !.text = Append(@, {i})]

\* Glyphs sent to the application.
Put(s, glyphs) == IF s.disabled THEN s ELSE [s EXCEPT !.text = @ \o glyphs]

\* commitText(): false, with nothing committed, when the batch has failed.
Commit(s, glyphs) == IF s.ticket = "Failed" THEN Reset(s) ELSE Put(s, glyphs)

\* How much of the word letter k replaces.
Depth(word, k) == AtMost(effect[k], Len(word))

\* viet_.processKey(): the key goes into the first glyph of the suffix it changes.
Compose(word, k) ==
    LET d == Depth(word, k)
        n == Len(word) - d + 1
    IN  IF d = 0 THEN Append(word, {k}) ELSE [word EXCEPT ![n] = @ \cup {k}]

---------------------------------------------------------------------------
(* Starting a replacement.                                                 *)

\* sendBackspaceUinput() turns a batch away.
Refused(s) == s.grace \/ ~ready

\* ... or hands it to the worker.
Send(s, n) == [s EXCEPT !.ticket = "Queued", !.left = n, !.outstanding = @ + n]

\* The replaced suffix and the anchor are sent, and the new suffix waits.
Replace(s, k) ==
    LET new == Compose(s.viet, k)
        d == Depth(s.viet, k)
    IN  [Send(s, d + 1) EXCEPT !.viet = new, !.expected = d, !.seen = 0,
             !.pending = LastN(new, d), !.deleting = TRUE, !.safety = TRUE]

\* A key that finds no replacement under way.  A letter arms the guard.  (In a browser on
\* Wayland only that of a replacement does; there the guard is asked only during one.)
Type(s, i) ==
    IF IsBack(i) THEN [Erase(s) EXCEPT !.viet = IF @ = <<>> THEN @ ELSE Front1(@)]
    ELSE IF effect[i] = Separator THEN [Raw(s, i) EXCEPT !.viet = <<>>]
    ELSE IF Depth(s.viet, i) = 0
    THEN [Raw(s, i) EXCEPT !.viet = Compose(@, i), !.armed = Guarded]
    ELSE IF Refused(s) THEN Raw(Reset(s), i)
    ELSE [Replace(s, i) EXCEPT !.oldWord = s.viet, !.repairs = 0, !.armed = Guarded]

---------------------------------------------------------------------------
(* Keys during a replacement.                                              *)

\* The re-delivery guard takes a new press of the letter that armed it for the same press,
\* sent once more by a browser that cycled its focus.
Repeats(s, i) == ~IsBack(i) /\ i \in again /\ s.armed

\* It consumes the key.
Drop(s, i) == [s EXCEPT !.dropped = @ \cup {i}]

\* mutant: one key short of the anchor
WhileDeletingShort(s, i, eaten) ==
    IF Repeats(s, i) THEN Drop(s, i)
    ELSE IF ~IsBack(i)
    THEN IF Len(s.buffered) < BufferCap THEN [s EXCEPT !.buffered = Append(@, i)] ELSE s
    ELSE IF s.seen + 1 < s.expected
    THEN [s EXCEPT !.seen = @ + 1, !.outstanding = IF @ > 0 THEN @ - 1 ELSE 0,
                   !.text = IF eaten \/ @ = <<>> THEN @ ELSE Front1(@)]
    ELSE [s EXCEPT !.safety = FALSE, !.retried = FALSE,
                   !.outstanding = IF @ > 0 THEN @ - 1 ELSE 0,
                   !.expected = 0, !.seen = 0, !.settling = TRUE]

\* handlePendingUinputBackspace(): other keys are buffered, but for what the guard drops;
\* the expected number of Backspaces, whosever they are, goes on to the application; the
\* next one is the anchor and starts the settle.
WhileDeleting(s, i, eaten) ==
    IF Repeats(s, i) THEN Drop(s, i)
    ELSE IF ~IsBack(i)
    THEN IF Len(s.buffered) < BufferCap THEN [s EXCEPT !.buffered = Append(@, i)] ELSE s
    ELSE IF s.seen < s.expected
    THEN [s EXCEPT !.seen = @ + 1, !.outstanding = IF @ > 0 THEN @ - 1 ELSE 0,
                   !.text = IF eaten \/ @ = <<>> THEN @ ELSE Front1(@)]
    ELSE [s EXCEPT !.safety = FALSE, !.retried = FALSE,
                   !.outstanding = IF @ > 0 THEN @ - 1 ELSE 0,
                   !.expected = 0, !.seen = 0, !.settling = TRUE]

\* The key may be the anchor that the queue of waiting keys waits for.
AwaitingAnchor(s, i) == s.deleting /\ ~s.settling /\ s.expected > 0 /\ IsBack(i)

\* mutant: keys are held back by the settle only
HoldsBackSettling(s) == s.settling

HoldsBack(s) ==
    (Ordered /\ s.deleting) \/ s.replayTimer \/ s.settling \/ s.settled # <<>>

\* keyEvent()'s own guard knows a new press in a browser by its timestamp.
RepeatsTyping(s, i) == app = "electron" /\ Repeats(s, i)

\* keyEvent(), after the batch has been looked at.
Dispatch(s, i, replaying, eaten) ==
    IF ~replaying /\ ~AwaitingAnchor(s, i) /\ HoldsBack(s)
    THEN [s EXCEPT !.settled = Append(@, i)]
    ELSE IF s.grace /\ IsBack(i) THEN s
    ELSE IF s.deleting THEN WhileDeleting(s, i, eaten)
    ELSE IF s.grace \/ ~ready THEN Raw(Reset(s), i)
    ELSE IF s.outstanding > 0 /\ IsBack(i) THEN [s EXCEPT !.outstanding = @ - 1]
    ELSE IF RepeatsTyping(s, i) THEN Drop(s, i)
    ELSE Type(s, i)

KeyEvent(s, i, replaying, eaten) == Dispatch(Abort(s), i, replaying, eaten)

---------------------------------------------------------------------------
(* Replaying the keys that waited.                                         *)

\* replaySettledKeys(): one key, then a pause for the frontend if more wait.
ReplaySettled(s) ==
    IF s.replayTimer \/ s.settled = <<>> \/ s.deleting \/ s.settling THEN s
    ELSE LET t == KeyEvent([s EXCEPT !.settled = Tail(@)], Head(s.settled), TRUE, FALSE)
         IN  IF ~t.deleting /\ ~t.replayTimer /\ Len(s.settled) > 1
             THEN [t EXCEPT !.replayTimer = TRUE] ELSE t

\* One key of replayBufferedUinputKeys(), through surroundingCommit().
ReplayKey(s, k) ==
    IF effect[k] = Separator THEN [Put(s, <<{k}>>) EXCEPT !.viet = <<>>]
    ELSE IF Depth(s.viet, k) = 0 THEN Commit([s EXCEPT !.viet = Compose(@, k)], <<{k}>>)
    ELSE IF Refused(s) THEN Reset(s)
    ELSE Replace(s, k)

\* ... until one of them starts a replacement: the rest waits again.
Rebuffer(s, k) ==
    IF ~s.deleting THEN ReplayKey(s, k)
    ELSE IF Len(s.buffered) < BufferCap THEN [s EXCEPT !.buffered = Append(@, k)] ELSE s

ReplayBuffered(s) ==
    LET t == FoldLeft(Rebuffer, [s EXCEPT !.buffered = <<>>], s.buffered)
    IN  IF t.deleting THEN t ELSE ReplaySettled(t)

---------------------------------------------------------------------------
(* Timers.                                                                 *)

\* mutant: the timers do not ask whether the worker is still typing
StillTypingNever(s) == FALSE

\* deferUinputTimer(): "A commit must never overtake deletions still being
\* emitted by our worker".
StillTyping(s) == s.ticket \in {"Queued", "Running"}

\* The end of finishUinputSettle().
SettleCommit(s) ==
    LET t == Commit([s EXCEPT !.pending = <<>>, !.settling = FALSE, !.deleting = FALSE],
                    s.pending)
    IN  IF Ordered THEN [t EXCEPT !.replayTimer = TRUE] ELSE ReplayBuffered(t)

\* The field still holds the old word, anywhere.
WordStillIntact(s) ==
    \E m \in 0..(Len(s.text) - Len(s.oldWord)) :
        SubSeq(s.text, m + 1, m + Len(s.oldWord)) = s.oldWord

\* The retry of a deletion that the application was seen to have eaten.
Repair(s) ==
    [s EXCEPT !.repairs = @ + 1, !.expected = 1, !.seen = 0, !.settling = FALSE]

\* The settle waits for the browser to come back: "a commit now would hit the disabled
\* text-input".
AwaitsReturn(s) == app = "page" /\ s.cycle

\* finishUinputSettle()
FinishSettle(s, missed) ==
    IF s.ticket = "Failed" THEN Reset(s)
    ELSE IF StillTyping(s) \/ AwaitsReturn(s) THEN s
    ELSE IF ~(Blind /\ missed /\ s.repairs < 3 /\ s.oldWord # <<>>) THEN SettleCommit(s)
    ELSE IF ~WordStillIntact(s) THEN SettleCommit([s EXCEPT !.repairs = @ + 1])
    ELSE IF Refused(s) THEN SettleCommit(Repair(s))
    ELSE Send(Repair(s), 2)

\* The second half of the callback of armUinputSafetyTimer().
ForceCommit(s) ==
    ReplayBuffered(
        Commit([s EXCEPT !.retried = FALSE, !.safety = FALSE, !.grace = TRUE, !.pending = <<>>,
                    !.expected = 0, !.seen = 0, !.outstanding = 0, !.deleting = FALSE],
               s.pending))

\* waylandBrowserChurn: nothing may be flushed into the text-input that was disabled.
HeldOnWayland(s) == app = "page" /\ s.deleting

\* deactivate(): a replacement whose anchor is back commits at once ...
Flush(s) ==
    IF s.deleting /\ s.expected = 0 /\ ~HeldOnWayland(s) /\ ~StillTyping(s)
    THEN ReplayBuffered(Commit([s EXCEPT !.deleting = FALSE, !.settling = FALSE,
                                         !.pending = <<>>], s.pending))
    ELSE s

\* mutant: the replacement is kept as after a spurious loss of the focus
AbandonNothing(s) == s

\* ... and everything else is abandoned ...
Abandon(s) ==
    [Cancel(s) EXCEPT !.viet = <<>>, !.buffered = <<>>, !.settled = <<>>,
         !.replayTimer = FALSE, !.settling = FALSE, !.safety = FALSE, !.deleting = FALSE,
         !.pending = <<>>, !.expected = 0, !.seen = 0]

\* mutant: a cycle of the focus is taken for a loss
HeldNever(s) == FALSE

\* ... but not a replacement in a browser, which may take the focus again within 500 ms.
Held(s) == Browser /\ s.deleting

Leave(s) == LET t == Flush(s) IN IF Held(t) THEN [t EXCEPT !.cycle = TRUE] ELSE Abandon(t)

\* activate() keeps the word only where it kept the replacement.
Return(s) ==
    [s EXCEPT !.viet = IF s.cycle THEN @ ELSE <<>>, !.cycle = FALSE, !.disabled = FALSE]

\* reset() "that follows the reactivation" on Wayland: it spares a replacement under way.
ResetPage(s) ==
    IF app = "page" /\ ~s.deleting
    THEN [Abandon(s) EXCEPT !.outstanding = 0, !.retried = FALSE] ELSE s

---------------------------------------------------------------------------
(* The user and the desktop.                                               *)

PressKey ==
    /\ focus = "here" /\ pressed < MaxKeys
    /\ pressed' = pressed + 1
    /\ \E f \in Effects : effect' = [effect EXCEPT ![pressed + 1] = f]
    /\ \/ again' = again
       \/ /\ Guarded /\ pressed > 0 /\ effect'[pressed + 1] # Separator
          /\ Cardinality(again) < MaxRepeats
          /\ again' = again \cup {pressed + 1}
    /\ wire' = Append(wire, pressed + 1)
    /\ UNCHANGED <<app, ic, ready, focus, used>>

PressBackspace ==
    /\ focus = "here" /\ used.backspaces < MaxBackspaces
    /\ Use("backspaces")
    /\ wire' = Append(wire, Backspace)
    /\ UNCHANGED <<app, ic, effect, again, pressed, ready, focus>>

\* The next key comes to keyEvent(); the application may eat a Backspace that
\* the engine lets through.
Deliver(eaten) ==
    /\ focus = "here" /\ wire # <<>>
    /\ eaten => Blind /\ used.eaten < MaxEaten
    /\ ic' = KeyEvent(ic, Head(wire), FALSE, eaten)
    /\ wire' = Tail(wire)
    /\ IF eaten THEN Use("eaten") ELSE UNCHANGED used
    /\ UNCHANGED <<app, effect, again, pressed, ready, focus>>

\* The desktop loses an injected key.
Lose ==
    /\ wire # <<>> /\ Head(wire) = Loopback
    /\ used.lost < MaxLost
    /\ Use("lost")
    /\ wire' = Tail(wire)
    /\ UNCHANGED <<app, ic, effect, again, pressed, ready, focus>>

\* A genuine loss of the focus; what comes after it is delivered elsewhere.
Deactivate ==
    /\ "genuine" \in Losses /\ focus = "here" /\ used.leaves < MaxLeaves
    /\ Use("leaves")
    /\ focus' = "away"
    /\ ic' = Leave([ic EXCEPT !.disabled = app = "page"])
    /\ UNCHANGED <<app, effect, again, pressed, wire, ready>>

DeliverElsewhere ==
    /\ focus = "away" /\ wire # <<>>
    /\ wire' = Tail(wire)
    /\ UNCHANGED <<ic, world, ready>>

Activate ==
    /\ focus = "away"
    /\ focus' = "here"
    /\ ic' = Return(ic)
    /\ UNCHANGED <<app, effect, again, pressed, wire, ready, used>>

\* A browser gives up the focus to take it again.  Keys wait for it meanwhile.  (A cycle
\* that finds, or leaves, keys that wait to be replayed with no replacement under way
\* loses them: left out.)
CycleBegins ==
    /\ "cycle" \in Losses /\ Browser /\ focus = "here" /\ used.leaves < MaxLeaves
    /\ LET t == Flush(ic) IN Held(t) \/ t.settled = <<>>
    /\ Use("leaves")
    /\ focus' = "cycle"
    /\ ic' = Leave([ic EXCEPT !.disabled = app = "page"])
    /\ UNCHANGED <<app, effect, again, pressed, wire, ready>>

CycleEnds ==
    /\ focus = "cycle"
    /\ focus' = "here"
    /\ ic' = ResetPage(Return(ic))
    /\ UNCHANGED <<app, effect, again, pressed, wire, ready, used>>

---------------------------------------------------------------------------
(* The injector: see UinputInjector for how it does this.                  *)

TakeBatch ==
    /\ ic.ticket = "Queued" /\ ~ic.tail
    /\ ic' = [ic EXCEPT !.ticket = "Running"]
    /\ UNCHANGED <<world, wire, ready>>

TypeKey ==
    /\ ic.ticket = "Running" /\ ic.left > 0
    /\ ic' = [ic EXCEPT !.left = @ - 1]
    /\ wire' = Append(wire, Loopback)
    /\ UNCHANGED <<world, ready>>

Complete ==
    /\ ic.ticket = "Running" /\ ic.left = 0
    /\ ic' = [ic EXCEPT !.ticket = "Complete"]
    /\ UNCHANGED <<world, wire, ready>>

\* The device is lost: whatever has not been typed never is.
Fail ==
    /\ StillTyping(ic) /\ used.fails < MaxFails
    /\ Use("fails")
    /\ ic' = [ic EXCEPT !.ticket = "Failed", !.left = 0]
    /\ ready' = FALSE
    /\ UNCHANGED <<app, effect, again, pressed, wire, focus>>

Recover ==
    /\ ~ready
    /\ ready' = TRUE
    /\ UNCHANGED <<ic, world, wire>>

\* The key that was being typed when the batch was cancelled, if any.
TypeTail ==
    /\ ic.tail
    /\ ic' = [ic EXCEPT !.tail = FALSE]
    /\ wire' \in {wire, Append(wire, Loopback)}
    /\ UNCHANGED <<world, ready>>

---------------------------------------------------------------------------
(* Timers of the context.                                                  *)

\* uinputRequestTimer_ notices a failed batch.
WatchRequest ==
    /\ ic.ticket = "Failed"
    /\ ic' = Abort(ic)
    /\ UNCHANGED <<world, wire, ready>>

SettleFires ==
    /\ ic.settling /\ ic.deleting
    /\ \E missed \in BOOLEAN : ic' = FinishSettle(ic, missed)
    /\ UNCHANGED <<world, wire, ready>>

\* The loopbacks may just be slow: the window is extended once.
SafetyExtends ==
    /\ ic.safety
    /\ \/ ic.ticket = "Failed" /\ ic' = Reset(ic)
       \/ ~StillTyping(ic) /\ ic.ticket # "Failed" /\ ic.outstanding > 0 /\ ~ic.retried
          /\ ic' = [ic EXCEPT !.retried = TRUE]
    /\ UNCHANGED <<world, wire, ready>>

\* mutant: the window is extended as long as a loopback is missing
SafetyForcesPatient ==
    /\ ic.safety /\ ~StillTyping(ic) /\ ic.ticket # "Failed"
    /\ ic.outstanding = 0
    /\ used.forced < MaxForced
    /\ Use("forced")
    /\ ic' = ForceCommit(ic)
    /\ UNCHANGED <<app, effect, again, pressed, wire, ready, focus>>

\* Then the engine commits without them.
SafetyForces ==
    /\ ic.safety /\ ~StillTyping(ic) /\ ic.ticket # "Failed"
    /\ ic.outstanding = 0 \/ ic.retried
    /\ used.forced < MaxForced
    /\ Use("forced")
    /\ ic' = ForceCommit(ic)
    /\ UNCHANGED <<app, effect, again, pressed, wire, ready, focus>>

ReplayFires ==
    /\ ic.replayTimer
    /\ ic' = ReplayBuffered([ic EXCEPT !.replayTimer = FALSE])
    /\ UNCHANGED <<world, wire, ready>>

\* 500 ms are over and nothing came back: the focus is lost.
CycleExpires ==
    /\ focus = "away" /\ ic.cycle
    /\ ic' = [Abandon(ic) EXCEPT !.outstanding = 0, !.retried = FALSE, !.cycle = FALSE]
    /\ UNCHANGED <<world, wire, ready>>

\* 400 ms are enough for every injected key on its way to arrive, and to be replayed where
\* it joined the keys that wait: those are replayed 20 ms apart at most.
GraceEnds ==
    /\ ic.grace /\ ~ic.tail
    /\ \A n \in DOMAIN wire : wire[n] # Loopback
    /\ \A n \in DOMAIN ic.settled : ic.settled[n] # Loopback
    /\ ic' = [ic EXCEPT !.grace = FALSE]
    /\ UNCHANGED <<world, wire, ready>>

Desktop ==
    \/ Lose \/ (\E eaten \in BOOLEAN : Deliver(eaten)) \/ DeliverElsewhere
    \/ CycleBegins \/ CycleEnds
User == PressKey \/ PressBackspace \/ Deactivate \/ Activate
Injector == TakeBatch \/ TypeKey \/ Complete \/ Fail \/ Recover \/ TypeTail
Timers ==
    \/ WatchRequest \/ SettleFires \/ SafetyExtends \/ SafetyForces
    \/ ReplayFires \/ GraceEnds \/ CycleExpires

Next == Desktop \/ User \/ Injector \/ Timers

\* The event loop serves its timers and the desktop delivers its keys; the
\* worker works.  The user owes nothing, and nothing has to fail.
Fairness ==
    /\ WF_vars(Deliver(FALSE)) /\ WF_vars(DeliverElsewhere)
    /\ WF_vars(TakeBatch) /\ WF_vars(TypeKey) /\ WF_vars(Complete)
    /\ WF_vars(Recover) /\ WF_vars(TypeTail)
    /\ WF_vars(WatchRequest) /\ WF_vars(SettleFires) /\ WF_vars(SafetyExtends)
    /\ WF_vars(SafetyForces) /\ WF_vars(ReplayFires) /\ WF_vars(GraceEnds)
    /\ WF_vars(CycleEnds) /\ WF_vars(CycleExpires)

Spec == Init /\ [][Next]_vars
FairSpec == Spec /\ Fairness

---------------------------------------------------------------------------
TypeOK ==
    /\ ic \in Context(Keys) /\ ic.seen <= ic.expected
    /\ effect \in [Keys -> Effects] /\ again \subseteq Keys /\ pressed \in 0..MaxKeys
    /\ wire \in Seq(0..Backspace)
    /\ ready \in BOOLEAN /\ focus \in Places /\ app \in Apps
    /\ used \in [backspaces : Nat, eaten : Nat, lost : Nat, fails : Nat, forced : Nat,
                 leaves : Nat]

KeysOf(q) == UNION {q[n] : n \in DOMAIN q}
KeysIn(q) == {q[n] : n \in DOMAIN q} \cap Keys

\* What waits somewhere for its turn, the oldest first: keys, and Backspaces among them.
Waiting == ic.buffered \o ic.settled \o wire

\* A queue holds its keys in the order in which they were pressed.
Rising(q) == \A m, n \in DOMAIN q : m < n /\ {q[m], q[n]} \subseteq Keys => q[m] < q[n]

\* A text shows them so; a letter that changed a glyph stands where that glyph was.
InOrder(q) ==
    \A m, n \in DOMAIN q : m < n =>
        \A k \in q[m], j \in q[n] : k < j \/ effect[k] \in 1..MaxDelete

\* While no Backspace is eaten the screen always converges to the word the engine
\* believes in: what it shows, less the glyphs that injected Backspaces have
\* yet to delete, plus the pending suffix, ends with viet_.
Shown(s) ==
    IF s.deleting THEN DropN(s.text, s.expected - s.seen) \o s.pending ELSE s.text

Tracks(s) == IsSuffix(s.viet, Shown(s))

Converges == used.eaten = 0 /\ used.forced = 0 => Tracks(ic)

\* So far every Backspace deleted, no batch failed, no commit was forced, the focus was not
\* lost for good and the buffer had room for every key.
Faultless ==
    /\ used.eaten = 0 /\ used.fails = 0 /\ used.forced = 0
    /\ "genuine" \in Losses => used.leaves = 0
    /\ pressed <= BufferCap

\* No key that the engine consumed disappears, whether it came while a deletion,
\* a settle or a replay was under way, and though loopbacks are lost and a browser cycles
\* its focus; and a stale report of a missed deletion deletes nothing as long as none was
\* missed.  Only the guard drops one, and only one that repeats in time the letter it is
\* armed with: no key of another letter, and no slower one.
NoKeyLost ==
    Faultless =>
        \A k \in 1..pressed :
            k \in KeysOf(ic.text) \cup KeysOf(ic.pending) \cup ic.erased
                  \cup (ic.dropped \cap again) \cup KeysIn(Waiting)

\* Keys take effect in the order in which they were pressed, though they wait
\* in two queues and are put back when a replay starts another replacement; and where
\* Backspaces delete and none is forced, the text shows them in that order.
KeysInOrder ==
    /\ Rising(Waiting)
    /\ \A k \in KeysOf(ic.text) \cup KeysOf(ic.pending), j \in KeysIn(Waiting) : k < j
    /\ used.eaten = 0 /\ used.forced = 0 => InOrder(ic.text)

\* The doc's "failed sends do not commit wrongly" and "a commit must never
\* overtake deletions still being emitted": the new suffix reaches the screen
\* only when the worker has typed the whole batch.
CommitAfterBatch ==
    [][ic.ticket # "Complete" =>
          KeysOf(ic'.text) \cap KeysOf(ic.pending) \subseteq KeysOf(ic.text)]_vars

\* An injected Backspace that was not awaited, because the replacement was
\* abandoned or forced or the focus went away and came back, deletes nothing:
\* outside a replacement the screen loses at most one glyph per user Backspace.
NoStrayDeletion == ic.removed <= used.backspaces

\* Nothing is committed into a field that no longer has the focus.  Only a Chromium on X11
\* or XWayland may, for the 500 ms in which its return is expected: there the settle does
\* not wait.
\* In a page on Wayland nothing is, but keys can leave in these 500 ms: the safety timer does
\* not ask for the focus, and replays the keys that wait by forwarding the oldest of them.
NothingWhileAway ==
    [][focus = "away" /\ ic'.text # ic.text =>
          /\ ic.cycle
          /\ \/ app \in {"chromium", "electron"}
             \/ ic.settled # <<>> /\ ic'.text = Raw(ic, Head(ic.settled)).text]_vars

\* A replacement ends.
ReplacementEnds == ic.deleting ~> ~ic.deleting

\* Keys that wait are served.
KeysServed == (KeysIn(Waiting) # {}) ~> (KeysIn(Waiting) = {})

\* Every replacement ends, however many of its injected keys are lost, and the keys that
\* waited for it are served in the end.
Progress == ReplacementEnds /\ KeysServed

---------------------------------------------------------------------------
(* The inductive invariant.                                                *)

\* A replacement has a batch, and no batch is at work without one; its keys that have not
\* returned are those the engine waits for.  Nothing is deleted while Backspaces are
\* swallowed, nor while a queue is being replayed.
BatchInv(s) ==
    /\ IF s.deleting THEN s.ticket # "none" ELSE s.ticket \in {"none", "Complete"}
    /\ s.ticket \notin {"Queued", "Running"} => s.left = 0
    /\ s.outstanding = IF s.deleting /\ ~s.settling THEN s.expected - s.seen + 1 ELSE 0
    /\ s.settling => s.deleting /\ s.expected = 0 /\ ~s.safety
    /\ s.deleting /\ ~s.settling => s.expected > 0
    /\ s.safety => s.deleting
    /\ s.deleting => ~s.grace /\ ~s.replayTimer
    /\ ~s.deleting => s.pending = <<>>

\* Nothing is under way and nothing waits.
Quiet(s) ==
    ~s.deleting /\ ~s.settling /\ ~s.safety /\ s.settled = <<>> /\ s.buffered = <<>>

\* What is held for a browser that may return, and what it cannot take meanwhile.
FocusInv ==
    /\ focus = "here" => ~ic.cycle
    /\ ic.cycle => Browser
    /\ app = "page" /\ focus # "here" => ic.disabled
    /\ focus = "away" /\ ~ic.cycle => Quiet(ic)

\* The keys that came, and those of them that the context has seen.
Coming == {wire[n] : n \in DOMAIN wire}
Arrived == (1..pressed) \ Coming

\* Each letter comes once.
KeyInv ==
    /\ ic \in Context(Arrived)
    /\ \A n \in DOMAIN wire : wire[n] \in Keys => wire[n] <= pressed
    /\ \A m, n \in DOMAIN wire : wire[m] \in Keys /\ wire[m] = wire[n] => m = n

Count(q, K) == Cardinality({n \in DOMAIN q : q[n] \in K})

\* The glyphs that Backspaces have deleted outside a replacement, with those that waiting
\* Backspaces may delete: of the user's; and of any that were or may still be typed.
Spent(s) == s.removed + Count(s.settled, {Backspace})
Owed(s) ==
    s.removed + Count(s.settled, {Loopback, Backspace}) + s.left + (IF s.tail THEN 1 ELSE 0)

\* The user's Backspaces that have come, b, pay for the glyphs.  An injected one that could
\* still be taken for a user's is one the engine waits for, or one it swallows.
Solvent(s, b, w) == Spent(s) <= b /\ (~s.grace => Owed(s) <= w + s.outstanding)

Came == used.backspaces - Count(wire, {Backspace})
Spare == used.backspaces - Count(wire, {Loopback, Backspace})
CountInv == Solvent(ic, Came, Spare)

IInv == TypeOK /\ BatchInv(ic) /\ FocusInv /\ KeyInv /\ CountInv

\* What the loss of the focus leaves in a page: a replacement that waits for its return, or
\* nothing.
Parked(s) ==
    IF s.cycle THEN s.deleting ELSE Quiet(s) /\ s.viet = <<>> /\ ~s.replayTimer

\* The keys that have had their effect in the context s, and what was its word.
Served(s) == KeysOf(s.text) \cup KeysOf(s.viet) \cup KeysOf(s.pending) \cup KeysOf(s.oldWord)

Before(A, B) == \A a \in A, b \in B : a < b

\* The keys served, those buffered, those of M that are being replayed, those settled and
\* those of C that are coming were pressed in this order.
Orderly(s, M, C) ==
    /\ Rising(s.buffered) /\ Rising(s.settled)
    /\ Before(Served(s), KeysIn(s.buffered) \cup M \cup KeysIn(s.settled) \cup C)
    /\ Before(KeysIn(s.buffered), M \cup KeysIn(s.settled) \cup C)
    /\ Before(M, KeysIn(s.settled) \cup C)
    /\ Before(KeysIn(s.settled), C)

\* A key waits in the buffer only for a replacement or for a replay.
Waits(s) == s.buffered # <<>> => s.deleting \/ s.replayTimer

OrderInv == Orderly(ic, {}, KeysIn(wire)) /\ Rising(wire) /\ Waits(ic)

\* A key is in one glyph.
Neat(q) == InOrder(q) /\ \A m, n \in DOMAIN q : m # n => q[m] \cap q[n] = {}

\* What a replacement deleted is not shown again: the old word is not intact.
Replaced(s) ==
    s.oldWord # <<>> =>
        \E n \in DOMAIN s.oldWord : \A m \in DOMAIN Shown(s) : Shown(s)[m] # s.oldWord[n]

\* No replacement is under way and no key waits for one.
Idle(s) == ~s.deleting /\ ~s.replayTimer /\ s.settled = <<>> /\ s.buffered = <<>>

Clean(s) == Neat(s.text) /\ Neat(Shown(s)) /\ (Replaced(s) \/ Idle(s))

\* The screen tracks the word where Backspaces delete and none is forced.  Nothing that the
\* compositor drops is missed: it drops only what comes while the page is away.
TrackInv ==
    used.eaten = 0 /\ used.forced = 0 =>
        /\ Tracks(ic)
        /\ Clean(ic)
        /\ ic.disabled => app = "page" /\ focus # "here"
        /\ app = "page" /\ focus # "here" => Parked(ic)

\* The keys that the context still has, those whose glyphs the user deleted, and those that
\* the guard dropped.
Kept(s) ==
    KeysOf(Shown(s)) \cup s.erased \cup (s.dropped \cap again)
        \cup KeysIn(s.buffered) \cup KeysIn(s.settled)

\* Nothing makes the context give up its keys: it has not failed, and swallows nothing; and
\* only where the replay is ordered does one timer wait for the buffer, too.
Sound(s) ==
    /\ ~s.grace /\ s.ticket # "Failed"
    /\ s.replayTimer /\ ~Ordered => s.buffered = <<>>

\* Every key that came is kept where nothing fails.
KeptInv == Faultless => ready /\ focus # "away" /\ Sound(ic) /\ Arrived \subseteq Kept(ic)

============================================================================
