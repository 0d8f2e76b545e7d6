-------------------------- MODULE SurroundingText --------------------------
(***************************************************************************)
(* A replacement over the surrounding-text protocol: SKeyState in          *)
(* src/engine.cpp, surroundingCommit() and what follows it.                *)
(*                                                                         *)
(* The engine asks the application to delete what a letter changes and     *)
(* commits the new suffix, at once or a little later.  The application     *)
(* takes requests in its own time, may drop a deletion without a word, and *)
(* reports its text when it likes; the engine acts on the last report it   *)
(* has, which may be old.  Backspaces forwarded as keys travel apart from  *)
(* the requests.  Handlers are functions from the state of the context to  *)
(* its next state, as in UinputReplacement, whose transaction is the       *)
(* fallback here and is taken in one piece (Inject, Anchored).             *)
(*                                                                         *)
(* A glyph is the set of the keys that made it; <<{0}>> is what the field  *)
(* held before.                                                            *)
(***************************************************************************)
EXTENDS Integers, Sequences, SequencesExt

CONSTANTS
    MaxKeys,      \* keys the user presses
    MaxDelete,    \* longest suffix a letter changes
    Apps,         \* kinds of applications
    MaxReports,   \* reports of the application in flight
    MaxDrops,     \* deletions an application on Wayland drops now and then
    Partial,      \* whether it may drop a part of one
    MaxLate,      \* reports that come after the 600 ms of the verification
    MaxBlank,     \* empty reports of an application that lost its reporting
    MaxResets,    \* reset() by the application while a commit is deferred
    MaxLeaves     \* losses of the focus, genuine or a browser's own

ASSUME SurroundingAssumption ==
    /\ {MaxKeys, MaxDelete, MaxReports} \subseteq Nat \ {0}
    /\ {MaxDrops, MaxLate, MaxBlank, MaxResets, MaxLeaves} \subseteq Nat
    /\ Partial \in BOOLEAN
    /\ Apps \subseteq {"firefox", "chromium", "wayland", "x11", "forward"}

Keys == 1..MaxKeys
Glyphs == SUBSET (0..MaxKeys) \ {{}}
\* What a letter does: 0 extends the word, d > 0 changes its last d glyphs.
Separator == MaxDelete + 1
Effects == 0..Separator

VARIABLES
    app,      \* [kind, deaf, warm]: the application, whether it drops every native
              \* deletion, and whether the injector was ready from the start
    ic,       \* the context and the application's text: a record, see Context
    pressed,  \* keys pressed
    used      \* how many of the bounded events have happened

vars == <<app, ic, pressed, used>>

Firefox == app.kind = "firefox"
Chromium == app.kind = "chromium"
Browser == Firefox \/ Chromium
\* "wayland": no browser, on Wayland.  "x11": no browser, on X11.  "forward": on
\* Wayland, with reports and without native deletion.
Wayland == app.kind # "x11"

\* The last five spoil the text only if a deletion was dropped.
Harms == {"eager", "prefix", "tail", "overtaken", "lost", "stuck", "blank",
          "verify", "part", "late", "raced", "merged", "stale", "unwatched"}
Requests == [op : {"delete", "back", "text"}, n : 0..(2 * MaxKeys), whole : BOOLEAN,
             glyphs : Seq(Glyphs)]
Verdict == [on : BOOLEAN, old : Seq(Glyphs), added : Seq(Glyphs), new : Seq(Glyphs),
            n : Nat]

Context ==
    [text : Seq(Glyphs),      \* the field of the application, up to the caret
     wire : Seq(Requests),    \* what it has yet to take
     backs : Nat,             \* forwarded Backspaces it has yet to take
     ahead : Nat,             \* requests sent before those
     dirty : BOOLEAN,         \* it changed since its last report
     reports : Seq(Seq(Glyphs)),  \* reports the engine has yet to take
     valid : BOOLEAN,         \* surroundingText().isValid()
     cache : Seq(Glyphs),     \* surroundingText().text()
     viet : Seq(Glyphs),      \* viet_: the word being composed
     first : BOOLEAN,         \* ~addrBarHadFirstWord_
     broken : BOOLEAN,        \* isSurrDeleteBrokenApp()
     deferred : Seq(Glyphs),  \* deferredCommitText_
     prefix : Seq(Glyphs),    \* deferredPrefix_
     suffix : Seq(Glyphs),    \* pendingFlushSuffix_
     nlen : Nat,              \* deferredNativeDeleteLen_
     tail : Seq(Glyphs),      \* deferredDeletedTail_
     attempt : 0..3,          \* nativeRepairAttempt_
     injecting : BOOLEAN,     \* uinputDeleting_
     inject : Seq(Glyphs),    \* pendingUinputCommit_
     buffered : Seq(Keys \X Effects),  \* bufferedUinputKeys_
     settled : Seq(Keys \X Effects),   \* settledKeys_
     gap : BOOLEAN,           \* settledReplayTimer_
     post : Verdict,          \* surrNativePostVerify_ and its fields
     forwarded : BOOLEAN,     \* uinputKeyForwarded_
     away : {"no", "held", "left"},  \* deactivated; "held": uinputCycleTimer_
     want : Seq(Glyphs),      \* the words finished, as the user meant them (history)
     dropped : Nat,           \* deletions the application dropped (history)
     harm : SUBSET Harms]     \* what has happened that may spoil the text (history)

Unarmed == [on |-> FALSE, old |-> <<>>, added |-> <<>>, new |-> <<>>, n |-> 0]

Init ==
    /\ app \in [kind : Apps, deaf : BOOLEAN, warm : BOOLEAN]
    /\ app.deaf => app.kind \in {"firefox", "chromium", "wayland"}
    /\ app.warm => Chromium
    /\ \E v \in BOOLEAN :
         ic = [text |-> <<{0}>>, wire |-> <<>>, backs |-> 0, ahead |-> 0, dirty |-> FALSE,
               reports |-> <<>>, valid |-> v, cache |-> IF v THEN <<{0}>> ELSE <<>>,
               viet |-> <<>>, first |-> TRUE, broken |-> FALSE, deferred |-> <<>>,
               prefix |-> <<>>, suffix |-> <<>>, nlen |-> 0, tail |-> <<>>, attempt |-> 0,
               injecting |-> FALSE, inject |-> <<>>, buffered |-> <<>>, settled |-> <<>>,
               gap |-> FALSE, post |-> Unarmed, forwarded |-> FALSE, away |-> "no",
               want |-> <<{0}>>, dropped |-> 0, harm |-> {}]
    /\ pressed = 0
    /\ used = [drops |-> 0, late |-> 0, blank |-> 0, resets |-> 0, leaves |-> 0]

Use(event) == used' = [used EXCEPT ![event] = @ + 1]

---------------------------------------------------------------------------
(* Text and requests.                                                      *)

AtMost(a, b) == IF a < b THEN a ELSE b
LastN(q, n) == SubSeq(q, Len(q) - n + 1, Len(q))
DropN(q, n) == SubSeq(q, 1, Len(q) - AtMost(n, Len(q)))
FirstN(q, n) == SubSeq(q, 1, n)

\* viet_.processKey(): the word after a letter.
Compose(word, k, d) ==
    IF d = 0 THEN Append(word, {k})
    ELSE FirstN(word, Len(word) - d) \o [j \in 1..d |-> LastN(word, d)[j] \cup {k}]

Depth(word, e) == AtMost(e, Len(word))

Ask(s, op, n, whole, glyphs) ==
    [s EXCEPT !.wire = Append(@, [op |-> op, n |-> n, whole |-> whole, glyphs |-> glyphs])]

\* commitText(): the text goes out on the protocol.
CommitText(s, glyphs) == IF glyphs = <<>> THEN s ELSE Ask(s, "text", 0, TRUE, glyphs)

\* surroundingCacheEndsWith(): the cursor is at the end of the text.
CacheEndsWith(s, glyphs) == s.valid /\ IsSuffix(glyphs, s.cache)

\* The application has taken everything and the engine has its last report.
Answered(s) == s.wire = <<>> /\ s.backs = 0 /\ ~s.dirty /\ s.reports = <<>>

Pending(s) == s.deferred # <<>>

Harm(s, what, when) == [s EXCEPT !.harm = IF when THEN @ \cup {what} ELSE @]

---------------------------------------------------------------------------
(* One replacement.                                                        *)

\* sendBackspaceUinput() and the fields that go with it: the injected keys follow
\* what was sent before, and the commit waits for their anchor.
Inject(s, n, glyphs) ==
    [Ask(s, "back", n, TRUE, <<>>) EXCEPT !.injecting = TRUE, !.inject = glyphs]

\* armSurrNativePostVerify()
Arm(s, old, new, d) ==
    [s EXCEPT !.post = [on |-> TRUE, old |-> old, added |-> LastN(new, d), new |-> new,
                        n |-> d]]

\* scheduleDeferredCommit()
Defer(s, new, d, native) ==
    [s EXCEPT !.deferred = LastN(new, d), !.prefix = DropN(new, d), !.suffix = <<>>,
              !.nlen = IF native THEN d ELSE 0, !.attempt = 0,
              !.tail = IF native THEN LastN(s.viet, d) ELSE <<>>]

\* A letter that finds a commit deferred changes what is deferred and nothing else.
Merge(s, new) ==
    IF s.prefix # <<>> /\ IsPrefix(s.prefix, new)
    THEN Harm([s EXCEPT !.deferred = SubSeq(new, Len(s.prefix) + 1, Len(new))],
              "stale", s.post.on)
    ELSE LET t == Harm([s EXCEPT !.deferred = new, !.prefix = <<>>], "stale", s.post.on)
         IN  Harm(Harm(t, "tail", s.viet = <<>>),
                  "prefix", s.viet # <<>> /\ s.prefix # <<>>)

\* deleteViaBackspace(): forwarded keys.  X delivers them in order with a commit.
ForwardBackspaces(s, new, d, defer) ==
    IF defer THEN Defer([s EXCEPT !.backs = @ + d, !.ahead = Len(s.wire)], new, d, FALSE)
    ELSE CommitText(Ask(s, "back", d, TRUE, <<>>), LastN(new, d))

Mirror(s, d) == IF s.valid THEN [s EXCEPT !.cache = DropN(@, d)] ELSE s

\* deleteSurroundingText(): one request for the suffix from a browser on Wayland,
\* and one for each character from the others.
DeleteNative(s, d) ==
    CASE Firefox -> Mirror(Ask(s, "delete", d, TRUE, <<>>), d)
      [] Chromium -> Ask(s, "delete", d, TRUE, <<>>)
      [] OTHER -> Mirror(FoldLeft(LAMBDA t, j : Ask(t, "delete", 1, d = 1, <<>>), s,
                                  [j \in 1..d |-> j]), d)

NativeReplace(s, new, d) ==
    LET t == DeleteNative(s, d)
    IN  IF Browser THEN Defer(Arm(t, s.viet, new, d), new, d, Firefox)
        ELSE IF Wayland THEN Arm(CommitText(t, LastN(new, d)), s.viet, new, d)
        ELSE CommitText(t, LastN(new, d))

\* surroundingCommit() when something is to be deleted.
Replace(s, new, d) ==
    CASE app.kind = "forward" -> ForwardBackspaces(s, new, d, TRUE)
      [] (Chromium /\ s.first /\ app.warm) \/ s.broken -> Inject(s, d, LastN(new, d))
      [] app.kind = "wayland" /\ (~s.valid \/ s.cache = <<>>) ->
            Arm(Inject(s, d, LastN(new, d)), s.viet, new, d)
      [] ~Wayland /\ ~(CacheEndsWith(s, s.viet) /\ Len(s.cache) >= d) ->
            ForwardBackspaces(s, new, d, s.valid)
      [] OTHER -> NativeReplace(s, new, d)

\* surroundingCommit()
SurroundingCommit(s, k, e) ==
    LET d == Depth(s.viet, e)
        new == Compose(s.viet, k, d)
    IN  [(IF Pending(s) THEN Merge(s, new)
          ELSE IF d = 0 THEN CommitText(s, <<{k}>>)
          ELSE Harm(Replace(s, new, d), "stale", s.post.on)) EXCEPT !.viet = new]

---------------------------------------------------------------------------
(* The verification after a commit.                                        *)

\* The old word is intact with the committed suffix behind it.
Evidence(s) == IsSuffix(s.post.old \o s.post.added, s.cache)

\* It is, with what later keys added behind it.
Merged(s) ==
    \E m \in 1..Len(s.cache) :
        IsPrefix(s.post.old \o s.post.added, SubSeq(s.cache, m, Len(s.cache)))

\* mutant: the committed text is not part of what the repair deletes
RepairDroppedShort(s) ==
    Harm([Inject(s, s.post.n, s.post.added) EXCEPT !.post = Unarmed, !.broken = TRUE],
         "raced", s.wire # <<>> \/ s.backs > 0 \/ s.dirty \/ Pending(s)
                    \/ s.injecting \/ s.viet # s.post.new)

\* The suffix and the old tail are deleted and the suffix is committed again.
RepairDropped(s) ==
    Harm([Inject(s, Len(s.post.added) + s.post.n, s.post.added)
             EXCEPT !.post = Unarmed, !.broken = TRUE],
         "raced", s.wire # <<>> \/ s.backs > 0 \/ s.dirty \/ Pending(s)
                    \/ s.injecting \/ s.viet # s.post.new)

\* surrNativeRepairIfDropped(), from a report or from a key.
RepairIfDropped(s, repair) ==
    CASE ~s.post.on \/ s.post.added = <<>> \/ ~s.valid -> s
      [] s.cache = <<>> /\ Browser -> [s EXCEPT !.post = Unarmed]
      [] s.cache = <<>> -> [s EXCEPT !.post = Unarmed, !.broken = TRUE]
      [] s.cache # <<>> /\ Evidence(s) ->
            IF repair THEN RepairDropped(s)
            ELSE Harm([s EXCEPT !.post = Unarmed, !.broken = TRUE], "late", TRUE)
      [] s.cache # <<>> /\ ~Evidence(s) /\ Merged(s) ->
            Harm([s EXCEPT !.post = Unarmed, !.broken = TRUE], "merged", TRUE)
      [] s.cache # <<>> /\ ~Evidence(s) /\ ~Merged(s) /\ IsSuffix(s.post.new, s.cache) ->
            [s EXCEPT !.post = Unarmed]
      [] OTHER -> s

\* The pre-commit state of an armed replacement is no evidence of a moved caret.
MidTransaction(s) == s.post.on /\ s.post.old # <<>> /\ IsSuffix(s.post.old, s.cache)

\* The word is not where it should be, after a quiet time: the model starts anew.
VerifyModel(s) ==
    IF Chromium \/ s.viet = <<>> \/ ~s.valid \/ CacheEndsWith(s, s.viet) THEN s
    ELSE LET t == RepairIfDropped(s, FALSE)
         IN  IF MidTransaction(s) \/ t.broken THEN t
             ELSE Harm([t EXCEPT !.want = @ \o t.viet, !.viet = <<>>], "verify", TRUE)

---------------------------------------------------------------------------
(* The deferred commit.                                                    *)

\* missingNativeDeleteChars(): the longest suffix of the deleted tail still there.
Missing(s) ==
    IF s.nlen = 0 \/ ~s.valid THEN 0
    ELSE LET still == {m \in 1..Len(s.tail) : CacheEndsWith(s, LastN(s.tail, m))}
         IN  IF still = {} THEN 0 ELSE CHOOSE m \in still : \A l \in still : l <= m

Redelete(s, n) == FoldLeft(LAMBDA t, j : Ask(t, "delete", 1, n = 1, <<>>), s,
                           [j \in 1..n |-> j])

Settled(s) ==
    [s EXCEPT !.deferred = <<>>, !.prefix = <<>>, !.suffix = <<>>, !.nlen = 0,
              !.tail = <<>>, !.attempt = 0]

\* mutant: deleted again at the first sight
RepairDeferredEager(s) == [Redelete(s, Missing(s)) EXCEPT !.attempt = @ + 1]

\* The first sight of a missing deletion only arms another look, 20 ms later.
RepairDeferred(s) ==
    [(IF s.attempt > 0 THEN Redelete(s, Missing(s)) ELSE s) EXCEPT !.attempt = @ + 1]

GivesUp(s) == s.attempt = 3

\* repairNativeDeletes(): the loop sleeps between its looks, and while it sleeps no
\* report is taken, so that what it sees the first time it sees three times.
RepairNow(s) ==
    LET n == Missing(s)
    IN  IF n = 0 THEN s ELSE Harm(Redelete(Redelete(s, n), n), "eager", TRUE)

\* forceFlushDeferredCommit()
ForceFlush(s) ==
    IF ~Pending(s) THEN s
    ELSE LET t == Harm(RepairNow(s), "overtaken", s.backs > 0)
         IN  Settled(CommitText(t, t.deferred \o t.suffix))

---------------------------------------------------------------------------
(* Keys.                                                                   *)

\* keyEvent() queues a key behind a native deletion yet to be verified.
HoldsBack(s) == s.gap \/ s.settled # <<>> \/ (s.nlen > 0 /\ Pending(s))

\* The first letter of a word goes raw to a browser on Wayland.
FirstRaw(s, k) ==
    Harm([CommitText(s, <<{k}>>) EXCEPT !.viet = <<{k}>>, !.forwarded = @ \/ Firefox],
         "tail", Pending(s))

Letter(s, k, e) ==
    IF Browser /\ s.viet = <<>> THEN FirstRaw(s, k) ELSE SurroundingCommit(s, k, e)

\* Space and punctuation: the deferred word is committed first, with the separator.
Separate(s, k) ==
    LET t == IF Pending(s) THEN ForceFlush([s EXCEPT !.suffix = Append(@, {k})])
             ELSE CommitText(s, <<{k}>>)
    IN  [t EXCEPT !.want = @ \o s.viet \o <<{k}>>, !.viet = <<>>,
                  !.first = FALSE]

\* keyEvent() in Surrounding Text mode; a replayed key is not held back.  A key that
\* cannot be merged flushes the deferred commit if that is due: the timer's own step.
KeyEvent(s, k, e, replaying) ==
    CASE ~replaying /\ HoldsBack(s) -> [s EXCEPT !.settled = Append(@, <<k, e>>)]
      [] s.injecting -> [s EXCEPT !.buffered = Append(@, <<k, e>>)]
      [] e = Separator -> Separate(s, k)
      [] OTHER -> Letter(s, k, e)

---------------------------------------------------------------------------
(* Replaying the keys that waited.                                         *)

\* replaySettledKeys(): one key, then a pause for the frontend if more wait.
ReplaySettled(s) ==
    IF s.settled = <<>> \/ s.gap \/ s.injecting \/ s.nlen > 0 THEN s
    ELSE LET t == KeyEvent([s EXCEPT !.settled = Tail(@)], Head(s.settled)[1],
                           Head(s.settled)[2], TRUE)
         IN  IF ~t.injecting /\ Len(s.settled) > 1 THEN [t EXCEPT !.gap = TRUE] ELSE t

\* One key of replayBufferedUinputKeys(): a separator is committed as it is.
ReplayKey(s, key) ==
    IF s.injecting \/ s.nlen > 0 THEN [s EXCEPT !.buffered = Append(@, key)]
    ELSE IF key[2] = Separator
    THEN Harm([CommitText(s, <<{key[1]}>>) EXCEPT
                  !.want = @ \o s.viet \o <<{key[1]}>>, !.viet = <<>>],
              "tail", Pending(s))
    ELSE SurroundingCommit(s, key[1], key[2])

\* mutant: the keys that waited for a verified deletion are left
ReplayBufferedAlone(s) == FoldLeft(ReplayKey, [s EXCEPT !.buffered = <<>>], s.buffered)

ReplayBuffered(s) ==
    LET t == FoldLeft(ReplayKey, [s EXCEPT !.buffered = <<>>], s.buffered)
    IN  IF t.buffered # <<>> THEN t ELSE ReplaySettled(t)

\* finishDeferredCommit()
FinishDeferred(s) ==
    IF s.nlen > 0 /\ ~GivesUp(s) /\ Missing(s) > 0 THEN RepairDeferred(s)
    ELSE ReplayBuffered(Settled(CommitText(s, s.deferred \o s.suffix)))

---------------------------------------------------------------------------
(* The application.                                                        *)

Alter(s, text) == [s EXCEPT !.text = text, !.dirty = @ \/ text # s.text]

\* The application takes a request; of a native deletion it applies m characters.
Apply(s, r, m) ==
    LET t == [s EXCEPT !.wire = Tail(@), !.ahead = IF @ > 0 THEN @ - 1 ELSE 0]
    IN  IF r.op = "text" THEN Alter(t, t.text \o r.glyphs)
        ELSE IF r.op = "back" THEN Alter(t, DropN(t.text, r.n))
        ELSE Harm([Alter(t, DropN(t.text, m)) EXCEPT !.dropped = @ + (r.n - m)],
                  "part", m # r.n /\ (m # 0 \/ ~r.whole) /\ ~app.deaf)

TakeRequest ==
    /\ ic.wire # <<>>
    /\ LET r == Head(ic.wire) IN
       \/ /\ r.op # "delete" \/ ~app.deaf
          /\ ic' = Apply(ic, r, r.n)
          /\ UNCHANGED used
       \/ /\ r.op = "delete" /\ app.deaf
          /\ ic' = Apply(ic, r, 0)
          /\ UNCHANGED used
       \/ /\ r.op = "delete" /\ ~app.deaf /\ Wayland /\ used.drops < MaxDrops
          /\ \E m \in 0..(r.n - 1) :
                /\ m > 0 => Partial
                /\ ic' = Apply(ic, r, m)
          /\ Use("drops")
    /\ UNCHANGED <<app, pressed>>

\* A forwarded Backspace arrives: not before what was sent a key earlier, but
\* perhaps after what was sent later.
TakeBackspace ==
    /\ ic.backs > 0 /\ ic.ahead = 0
    /\ ic' = [Alter(ic, DropN(ic.text, 1)) EXCEPT !.backs = @ - 1]
    /\ UNCHANGED <<app, pressed, used>>

Report ==
    /\ ic.dirty /\ Len(ic.reports) < MaxReports
    /\ ic' = [ic EXCEPT !.dirty = FALSE, !.reports = Append(@, ic.text)]
    /\ UNCHANGED <<app, pressed, used>>

\* An application that has lost its reporting reports an empty text.
ReportBlank ==
    /\ used.blank < MaxBlank /\ app.kind = "wayland" /\ Len(ic.reports) < MaxReports
    /\ ic.valid /\ ic' = Harm([ic EXCEPT !.reports = Append(@, <<>>)], "blank", TRUE)
    /\ Use("blank")
    /\ UNCHANGED <<app, pressed>>

\* surroundingTextChanged(); a report may come after the verification's deadline.
TakeReport(late) ==
    /\ ic.reports # <<>>
    /\ LET s == [ic EXCEPT !.reports = Tail(@), !.valid = TRUE, !.cache = Head(ic.reports)]
       IN  ic' = IF late THEN Harm(s, "late", s.dropped > 0) ELSE RepairIfDropped(s, TRUE)
    /\ IF late THEN used.late < MaxLate /\ ic.post.on /\ Use("late") ELSE UNCHANGED used
    /\ UNCHANGED <<app, pressed>>

---------------------------------------------------------------------------
(* The context.                                                            *)

\* The timer of scheduleDeferredCommit(), and its next looks.  The delay after
\* forwarded Backspaces, and the 20 ms between two looks, are taken to be long
\* enough for the application to answer.
CommitTimer ==
    /\ Pending(ic)
    /\ ic.backs = 0
    /\ ic.attempt > 0 => Answered(ic)
    /\ ic' = FinishDeferred(ic)
    /\ UNCHANGED <<app, pressed, used>>

\* The anchor of the injected Backspaces is back.  A replacement that is held waits.
Anchored ==
    /\ ic.injecting /\ ic.away # "held"
    /\ \A i \in DOMAIN ic.wire : ic.wire[i].op # "back"
    /\ ic' = ReplayBuffered([CommitText(ic, ic.inject) EXCEPT !.injecting = FALSE,
                                                              !.inject = <<>>])
    /\ UNCHANGED <<app, pressed, used>>

ReplayTimer ==
    /\ ic.gap
    /\ ic' = ReplaySettled([ic EXCEPT !.gap = FALSE])
    /\ UNCHANGED <<app, pressed, used>>

\* mutant: the word is verified whenever a letter comes
VerifiableAtOnce(e) == e # Separator /\ ~ic.injecting /\ ~HoldsBack(ic)

\* kSurrVerifyQuietUsec, 250 ms, have passed: all is answered.
Verifiable(e) ==
    e # Separator /\ ~ic.injecting /\ ~HoldsBack(ic) /\ Answered(ic) /\ ~Pending(ic)

\* A key of the user; after a quiet time the word is verified first.
Press(e, quiet) ==
    /\ pressed < MaxKeys /\ ic.away = "no"
    /\ pressed' = pressed + 1
    /\ quiet => Verifiable(e)
    /\ ic' = KeyEvent(IF quiet THEN VerifyModel(ic) ELSE ic, pressed + 1, e, FALSE)
    /\ UNCHANGED <<app, used>>

\* The word, what is injected and the keys that wait are given up.
GivenUp(s) ==
    Harm([s EXCEPT !.want = @ \o s.viet, !.viet = <<>>, !.injecting = FALSE,
                   !.inject = <<>>, !.buffered = <<>>, !.settled = <<>>, !.gap = FALSE],
         "lost", s.settled # <<>> \/ s.buffered # <<>> \/ s.injecting)

\* reset() while a commit is deferred: the commit stays.  A Chromium resets in the middle
\* of an injection, and Firefox after a key that went to it raw: ignored.
Reset ==
    /\ used.resets < MaxResets /\ Use("resets")
    /\ Pending(ic) /\ ic.away = "no"
    /\ ic' = IF Chromium /\ ic.injecting THEN ic
             ELSE IF Firefox /\ ic.forwarded THEN [ic EXCEPT !.forwarded = FALSE]
             ELSE GivenUp(ic)
    /\ UNCHANGED <<app, pressed>>

\* deactivate() on Wayland: what is deferred is committed and what is injected given up; but
\* a Chromium, which deactivates by itself when a page rebuilds its editor, has it held.
Deactivate ==
    /\ used.leaves < MaxLeaves /\ Use("leaves")
    /\ ic.away = "no" /\ (Pending(ic) \/ ic.injecting)
    /\ LET s == ForceFlush(ic)
       IN  ic' = IF Firefox /\ s.forwarded
                 THEN Harm([s EXCEPT !.forwarded = FALSE, !.away = "left"], "stuck",
                           s.settled # <<>> /\ ~s.gap /\ ~s.injecting)
                 ELSE IF Chromium /\ s.injecting THEN [s EXCEPT !.away = "held"]
                 ELSE [GivenUp(s) EXCEPT !.away = "left"]
    /\ UNCHANGED <<app, pressed>>

\* No reactivation within 500 ms: what was held is discarded.
CycleExpires ==
    /\ ic.away = "held"
    /\ ic' = [GivenUp(ic) EXCEPT !.away = "left"]
    /\ UNCHANGED <<app, pressed, used>>

\* activate(): nothing is verified any more, and what a key deferred meanwhile is
\* forgotten; without a replacement that is held so is the word.
Activate ==
    /\ ic.away # "no"
    /\ LET s == Harm(Harm([ic EXCEPT !.away = "no", !.post = Unarmed, !.deferred = <<>>,
                                     !.prefix = <<>>],
                          "unwatched", ic.post.on), "lost", Pending(ic))
       IN  ic' = IF ic.away = "held" THEN s
                 ELSE [s EXCEPT !.want = @ \o s.viet, !.viet = <<>>, !.first = TRUE]
    /\ UNCHANGED <<app, pressed, used>>

\* What the application and the event loop do by themselves.
Serve ==
    \/ TakeRequest \/ TakeBackspace \/ Report \/ TakeReport(FALSE)
    \/ CommitTimer \/ Anchored \/ ReplayTimer \/ CycleExpires

Next ==
    \/ Serve
    \/ ReportBlank
    \/ TakeReport(TRUE)
    \/ \E e \in Effects, quiet \in BOOLEAN : Press(e, quiet)
    \/ Reset
    \/ Deactivate
    \/ Activate

Spec == Init /\ [][Next]_vars

\* The application and the event loop do not stop while there is something to do.
FairSpec == Spec /\ WF_vars(Serve)

---------------------------------------------------------------------------
(* Properties.                                                             *)

\* The variables have their types.
TypeOK ==
    /\ ic \in Context
    /\ pressed \in 0..MaxKeys
    /\ app.kind \in Apps

\* Nothing is on its way and nobody waits.
Quiet(s) ==
    /\ Answered(s) /\ ~Pending(s) /\ ~s.injecting /\ ~s.gap
    /\ s.settled = <<>> /\ s.buffered = <<>>

Spoiled == ic.harm \cap {"eager", "prefix", "tail", "overtaken", "lost", "verify"} # {}
Excused == Spoiled \/ "blank" \in ic.harm \/ (ic.dropped > 0 /\ ic.harm # {})

\* When all is quiet the screen shows what the user meant, even where the application
\* dropped a deletion.  Excused are the ways in which the code is known to fail (see
\* the places that call Harm), each where it happened and not before.
Converges == Quiet(ic) /\ ~Excused => ic.text = ic.want \o ic.viet

\* What stood before the words of the user is never deleted: a deletion is not
\* repeated on an old report, and a repair deletes what the engine itself put there.  (The
\* repetition on the main thread always looks at an old report: "eager".)
BaseKept == ic.harm \cap {"eager", "overtaken", "raced"} = {} => IsPrefix(<<{0}>>, ic.text)

\* The verification of the word takes no lagging report for a moved caret: the model is
\* thrown away only when something else went wrong before.  (A report that lags for more
\* than the 250 ms of quiet which the verification waits for is not in the model.)
VerifySparesHealthy == "verify" \in ic.harm => ic.harm # {"verify"}

\* When the user stops typing everything settles: each deferred commit is made, also if
\* the application drops every deletion, and each key that waits is served.
Settles == <>[](Quiet(ic) \/ "stuck" \in ic.harm)

=============================================================================
