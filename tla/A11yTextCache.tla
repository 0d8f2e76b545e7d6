--------------------------- MODULE A11yTextCache ---------------------------
(***************************************************************************)
(* src/a11y_text_cache.h: the text of the focused browser entry, polled by *)
(* the accessibility monitor's thread while the engine's thread shows a    *)
(* demand for it, with the two threads that use it: the loop of            *)
(* A11yMonitor::run and the key handlers of engine.cpp.                    *)
(*                                                                         *)
(* One action is one hold of mutex_.  Each hold is given a monotonicUsec() *)
(* that its caller read before taking the mutex, so that the time it works *)
(* with may lie up to Skew behind the clock: Sample.                       *)
(*                                                                         *)
(* A text is not spelled out: it is the entry it was read from, the time   *)
(* at which the application answered and the edits made by then.  The      *)
(* monitor's poll(2) ends on a signal, on its eventfd or after             *)
(* waitMillis(), so it may end at any moment.  focusUsec_ only reaches the *)
(* log and is left out.                                                    *)
(***************************************************************************)
EXTENDS Integers

CONSTANTS
    Entries,       \* accessible text entries, a (bus, path) each
    NoEntry,       \* no entry has the focus: path_ is empty
    MinPoll,       \* minPollUsec: 15 ms
    Poll,          \* pollUsec: 150 ms
    Idle,          \* idleUsec: 500 ms without demand end the lease
    MaxBackoff,    \* 1 s between the polls of an application that fails
    MaxFailures,   \* failures_ stops at 3
    MaxAge,        \* kA11ySnapshotMaxAgeUsec: 400 ms
    GuardWait,     \* the desync guard waits 30 ms
    Skew,          \* how old a clock reading may be when the mutex is taken
    MaxTime,       \* bound on the clock
    MaxGeneration, \* bound on generation_
    MaxEdits       \* bound on the edits of an entry

ASSUME CacheAssumption ==
    /\ NoEntry \notin Entries
    /\ MinPoll \in Nat \ {0} /\ Poll \in Nat \ {0} /\ Idle \in Nat \ {0}
    /\ MaxBackoff \in Nat \ {0} /\ MaxFailures \in Nat \ {0}
    /\ MaxAge \in Nat /\ GuardWait \in Nat /\ Skew \in Nat
    /\ MaxTime \in Nat \ {0} /\ MaxGeneration \in Nat /\ MaxEdits \in Nat
    /\ \A n \in 0..MaxFailures : 2^n \in Nat

Never == 0
NoText == [entry |-> NoEntry, at |-> Never, edits |-> 0]
Texts == [entry : Entries \cup {NoEntry}, at : 0..MaxTime, edits : 0..MaxEdits]

VARIABLES
    now,         \* CLOCK_MONOTONIC
    edits,       \* the application's entries: how often each was edited
    pending,     \* entries whose TextChanged signal waits on the monitor's bus
    enabled,     \* enabled_
    demand,      \* demandUsec_
    entry,       \* bus_, path_
    generation,  \* generation_
    snapshot,    \* snapshotUsec_
    text,        \* text_, start_, end_
    lastPoll,    \* lastPoll_
    retryAt,     \* retryAt_
    failures,    \* failures_
    dirty,       \* dirty_
    mpc,         \* where the monitor's thread is
    clock,       \* its last clock reading
    walking,     \* the object whose ancestors it walks
    subscribed,  \* the entry whose text signals it listens to
    request,     \* the Request of its poll
    answer,      \* what the application answered; NoText: an error
    guard,       \* the engine thread's desync guard
    session,     \* when the present demand began (history)
    failed       \* the last failed poll, and how many failed in a row (history)

content == <<entry, snapshot, text, generation>>
pacing == <<lastPoll, retryAt, failures, dirty>>
lease == <<enabled, demand, session>>
monitor == <<mpc, clock, walking, subscribed, request, answer, failed>>
app == <<edits, pending>>
vars == <<now, app, lease, content, pacing, monitor, guard>>

Requests == [entry : Entries \cup {NoEntry}, generation : 0..MaxGeneration, started : 0..MaxTime]
NoRequest == [entry |-> NoEntry, generation |-> 0, started |-> Never]
NoGuard == [pc |-> "idle", before |-> Never, observed |-> Never, got |-> NoText,
            generation |-> 0, until |-> Never, since |-> Never]

Times == 0..MaxTime
MaybeEntry == Entries \cup {NoEntry}

ContentOK ==
    entry \in MaybeEntry /\ snapshot \in Times /\ text \in Texts /\ generation \in 0..MaxGeneration
PacingOK ==
    /\ lastPoll \in Times /\ retryAt \in 0..(MaxTime + MaxBackoff)
    /\ failures \in 0..MaxFailures /\ dirty \in BOOLEAN
LeaseOK == enabled \in BOOLEAN /\ demand \in Times /\ session \in Times
AppOK == edits \in [Entries -> 0..MaxEdits] /\ pending \subseteq Entries
MonitorOK ==
    /\ mpc \in {"wait", "events", "walk", "poll", "query", "answered"}
    /\ clock \in Times /\ walking \in MaybeEntry /\ subscribed \in MaybeEntry
    /\ request \in Requests /\ answer \in Texts
    /\ failed \in [generation : 0..MaxGeneration, at : Times, run : 0..(MaxFailures + 1)]
GuardOK ==
    guard \in [pc : {"idle", "stamp", "read", "wait", "verdict", "reset"},
               before : Times, observed : Times, got : Texts,
               generation : 0..MaxGeneration, until : Nat, since : Times]
TypeOK ==
    now \in 1..MaxTime /\ ContentOK /\ PacingOK /\ LeaseOK /\ AppOK /\ MonitorOK /\ GuardOK

Init ==
    /\ now = 1
    /\ edits = [e \in Entries |-> 0] /\ pending = {}
    /\ enabled = FALSE /\ demand = 0 /\ session = 0
    /\ entry = NoEntry /\ snapshot = Never /\ text = NoText /\ generation = 0
    /\ lastPoll = Never /\ retryAt = 0 /\ failures = 0 /\ dirty = FALSE
    /\ mpc = "events" /\ clock = 0 /\ walking = NoEntry /\ subscribed = NoEntry
    /\ request = NoRequest /\ answer = NoText
    /\ guard = NoGuard
    /\ failed = [generation |-> 0, at |-> Never, run |-> 0]

----------------------------------------------------------------------------
(* The cache, under its mutex. *)

\* A reading of the clock made after an earlier one of the same thread.
Sample(earlier) == {t \in 1..now : t >= earlier /\ now - t <= Skew}

Active(t) == enabled /\ t >= demand /\ t - demand < Idle

Invalidate ==
    /\ generation < MaxGeneration
    /\ generation' = generation + 1
    /\ snapshot' = Never /\ text' = NoText

PollAtOnce == dirty' = TRUE /\ lastPoll' = Never /\ retryAt' = 0 /\ failures' = 0

\* setEnabled() wakes the monitor, and starts afresh, when the demand begins,
\* ends, or comes back after its lease ran out.
SetEnabled(on, t) ==
    /\ IF on # enabled \/ (on /\ ~Active(t))
       THEN Invalidate /\ PollAtOnce /\ session' = t
       ELSE UNCHANGED <<snapshot, text, generation, pacing, session>>
    /\ enabled' = on /\ demand' = t
    /\ UNCHANGED entry

Focus(e) ==
    IF e # entry
    THEN Invalidate /\ PollAtOnce /\ entry' = e
    ELSE UNCHANGED <<content, pacing>>

Changed(e) ==
    /\ dirty' = (dirty \/ e = entry)
    /\ UNCHANGED <<content, lastPoll, retryAt, failures>>

Blur(e) ==
    /\ IF e = entry THEN Invalidate /\ entry' = NoEntry ELSE UNCHANGED content
    /\ UNCHANGED pacing

DueWhenDirty(t) ==
    /\ Active(t) /\ entry # NoEntry /\ (dirty \/ t >= retryAt)
    /\ lastPoll # Never => t - lastPoll >= MinPoll /\ (dirty \/ t - lastPoll >= Poll)

Due(t) ==
    /\ Active(t) /\ entry # NoEntry /\ t >= retryAt
    /\ lastPoll # Never =>
         /\ t - lastPoll >= MinPoll
         /\ dirty \/ t - lastPoll >= Poll

Backoff(n) == IF Poll * 2^n < MaxBackoff THEN Poll * 2^n ELSE MaxBackoff

AcceptsLate(t) == Active(t)

\* A reply to another generation's request, or after the lease, changes nothing.
Accepts(t) == request.generation = generation /\ Active(t)

Fail(t) ==
    /\ text' = NoText /\ snapshot' = Never
    /\ retryAt' = t + Backoff(failures)
    /\ failures' = IF failures < MaxFailures THEN failures + 1 ELSE failures

\* Dated from the request's start: a slow reply is not a fresh snapshot.
Publish ==
    /\ text' = answer /\ snapshot' = request.started
    /\ failures' = 0 /\ retryAt' = 0

ReadableAnyAge(t) == Active(t) /\ snapshot # Never /\ t >= snapshot

Readable(t) ==
    Active(t) /\ snapshot # Never /\ t >= snapshot /\ t - snapshot <= MaxAge

----------------------------------------------------------------------------
(* The application and the clock. *)

Tick == now < MaxTime /\ now' = now + 1 /\ UNCHANGED <<app, lease, content, pacing, monitor, guard>>

Edit(e) ==
    /\ edits[e] < MaxEdits
    /\ edits' = [edits EXCEPT ![e] = @ + 1]
    /\ pending' = IF subscribed = e THEN pending \cup {e} ELSE pending
    /\ UNCHANGED <<now, lease, content, pacing, monitor, guard>>

----------------------------------------------------------------------------
(* A11yMonitor::run: wait, drain the signals, renew the text subscription, *)
(* poll at most once, and again.  The queries are synchronous: no signal   *)
(* is handled between a request and its reply.                             *)

Goto(place) ==
    /\ mpc' = place
    /\ UNCHANGED <<now, edits, lease, guard>>

Wakes ==
    /\ mpc = "wait" /\ Goto("events")
    /\ UNCHANGED <<pending, content, pacing, clock, walking, subscribed, request, answer, failed>>

TextSignal(e) ==
    /\ mpc = "events" /\ e \in pending
    /\ Changed(e) /\ pending' = pending \ {e}
    /\ Goto("events")
    /\ UNCHANGED <<clock, walking, subscribed, request, answer, failed>>

FocusLost(e) ==
    /\ mpc = "events"
    /\ Blur(e) /\ Goto("events")
    /\ UNCHANGED <<pending, clock, walking, subscribed, request, answer, failed>>

\* The old text is gone before the slow walk over the new object's ancestors.
FocusGained(e) ==
    /\ mpc = "events"
    /\ Focus(NoEntry) /\ walking' = e /\ Goto("walk")
    /\ UNCHANGED <<pending, clock, subscribed, request, answer, failed>>

\* Only a text entry of the browser's own interface is polled.
Walked ==
    /\ mpc = "walk"
    /\ Focus(walking) \/ UNCHANGED <<content, pacing>>
    /\ walking' = NoEntry /\ Goto("events")
    /\ UNCHANGED <<pending, clock, subscribed, request, answer, failed>>

Subscribe ==
    /\ mpc = "events"
    /\ \E t \in Sample(clock) :
         /\ clock' = t
         /\ subscribed' = IF Active(t) THEN entry ELSE NoEntry
    /\ Goto("poll")
    /\ UNCHANGED <<pending, content, pacing, walking, request, answer, failed>>

BeginPoll ==
    /\ mpc = "poll"
    /\ \E t \in Sample(clock) :
         /\ clock' = t
         /\ IF Due(t)
            THEN /\ dirty' = FALSE /\ lastPoll' = t
                 /\ request' = [entry |-> entry, generation |-> generation, started |-> t]
                 /\ Goto("query")
            ELSE UNCHANGED <<dirty, lastPoll, request>> /\ Goto("wait")
    /\ UNCHANGED <<pending, content, retryAt, failures, walking, subscribed, answer, failed>>

Answer ==
    /\ mpc = "query"
    /\ answer' \in {NoText, [entry |-> request.entry, at |-> now, edits |-> edits[request.entry]]}
    /\ Goto("answered")
    /\ UNCHANGED <<pending, content, pacing, clock, walking, subscribed, request, failed>>

FailedRun == IF failed.generation = generation THEN failed.run ELSE 0

\* From then on one failure more makes the pause no longer.
OneMore(run) == IF run <= MaxFailures THEN run + 1 ELSE run

FinishPoll ==
    /\ mpc = "answered"
    /\ \E t \in Sample(clock) :
         /\ clock' = t
         /\ \/ /\ ~Accepts(t)
               /\ UNCHANGED <<snapshot, text, retryAt, failures, failed>>
            \/ /\ Accepts(t) /\ answer = NoText /\ Fail(t)
               /\ failed' = [generation |-> generation, at |-> t, run |-> OneMore(FailedRun)]
            \/ /\ Accepts(t) /\ answer # NoText /\ Publish
               /\ failed' = [failed EXCEPT !.run = 0]
    /\ request' = NoRequest /\ answer' = NoText /\ Goto("wait")
    /\ UNCHANGED <<pending, entry, generation, lastPoll, dirty, walking, subscribed>>

----------------------------------------------------------------------------
(* The engine's thread. *)

Engine == UNCHANGED <<now, app, monitor>>

\* Each key shows whether the text is wanted: it is in a browser's address bar.
KeyArrives(on) ==
    /\ guard.pc = "idle"
    /\ \E t \in Sample(demand) : SetEnabled(on, t)
    /\ Engine /\ UNCHANGED guard

\* The desync guard asks whether the bar still holds the composed word, and
\* only a text polled after this moment shall count.
GuardBegins ==
    /\ guard.pc = "idle" /\ enabled
    /\ guard' = [guard EXCEPT !.pc = "stamp", !.before = snapshot,
                              !.until = now + GuardWait, !.since = now]
    /\ Engine /\ UNCHANGED <<lease, content, pacing>>

GuardStamps ==
    /\ guard.pc = "stamp"
    /\ guard' = [guard EXCEPT !.pc = "read", !.observed = snapshot]
    /\ Engine /\ UNCHANGED <<lease, content, pacing>>

\* No text, or one that holds the word, ends the guard; else it waits for a
\* newer one until its time is over.  (The wait begins with the same hold.)
GuardReads ==
    /\ guard.pc = "read"
    /\ \E t \in Sample(demand) :
         \/ guard' = NoGuard
         \/ /\ Readable(t)
            /\ guard' = [guard EXCEPT !.pc = IF t >= guard.until THEN "verdict" ELSE "wait",
                                      !.got = text, !.generation = generation]
    /\ Engine /\ UNCHANGED <<lease, content, pacing>>

GuardWaits ==
    /\ guard.pc = "wait"
    /\ snapshot # guard.observed \/ generation # guard.generation \/ now >= guard.until
    /\ guard' = [guard EXCEPT !.pc = "stamp", !.observed = Never, !.got = NoText, !.generation = 0]
    /\ Engine /\ UNCHANGED <<lease, content, pacing>>

\* viet_.reset() when the stamp has moved on.
GuardJudges ==
    /\ guard.pc = "verdict"
    /\ guard' = IF snapshot > guard.before
                THEN [NoGuard EXCEPT !.pc = "reset", !.got = guard.got, !.since = guard.since]
                ELSE NoGuard
    /\ Engine /\ UNCHANGED <<lease, content, pacing>>

GuardEnds ==
    /\ guard.pc = "reset" /\ guard' = NoGuard
    /\ Engine /\ UNCHANGED <<lease, content, pacing>>

----------------------------------------------------------------------------
Monitor ==
    \/ Wakes \/ Walked \/ Subscribe \/ BeginPoll \/ Answer \/ FinishPoll
    \/ \E e \in Entries : TextSignal(e) \/ FocusLost(e) \/ FocusGained(e)

Guard == GuardBegins \/ GuardStamps \/ GuardReads \/ GuardWaits \/ GuardJudges \/ GuardEnds

Next ==
    \/ Tick \/ Monitor \/ Guard
    \/ \E e \in Entries : Edit(e)
    \/ \E on \in BOOLEAN : KeyArrives(on)

Spec == Init /\ [][Next]_vars

----------------------------------------------------------------------------
(* Properties. *)

\* "Late replies cannot resurrect a snapshot after focus loss or after the
\* engine disables polling": whatever the threads interleave, the stored text
\* was read from the entry that has the focus now, was asked for after the
\* present demand began, and is not younger than it is dated.
SnapshotBelongs ==
    snapshot # Never =>
        /\ entry # NoEntry /\ text.entry = entry
        /\ enabled /\ snapshot >= session
        /\ text.at >= snapshot

\* What a reader gets left the application at most MaxAge ago (and the age of
\* the reader's own clock reading), in a demand that has not lapsed.
ReadIsFresh ==
    [][guard'.got # guard.got /\ guard'.got # NoText =>
          /\ guard'.got.entry = entry
          /\ now - guard'.got.at <= MaxAge + Skew
          /\ now - demand < Idle + Skew]_vars

\* "Text events must not defeat backoff against an unresponsive app": after its
\* n-th failure in a row an entry is left alone for the n-th backoff, whatever
\* signals it sends, unless the focus or the demand changed in between.
BackoffHolds ==
    [][request'.generation = failed.generation /\ request' # request
          /\ request' # NoRequest /\ failed.run > 0
       => request'.started >= failed.at + Backoff(failed.run - 1)]_vars

----------------------------------------------------------------------------
(* The inductive invariant. *)

\* A request of the present generation is one for the focused entry, made in
\* the present demand; an answer is from its entry and no older than it.
RequestInv ==
    mpc \in {"query", "answered"} =>
        /\ request.entry \in Entries /\ request.generation <= generation
        /\ request.started <= now
        /\ request.generation = generation =>
              /\ enabled /\ request.entry = entry /\ request.started >= session
        /\ mpc = "answered" /\ answer # NoText =>
              /\ answer.entry = request.entry /\ answer.at >= request.started

DemandInv == session <= demand

\* The failures counted are those in a row since the focus or the demand changed, and the
\* pause is that of the last one; without a focused entry the old count is left behind.
BackoffInv ==
    /\ failed.generation <= generation
    /\ failed.generation # generation => entry = NoEntry \/ failures = 0
    /\ failed.generation = generation =>
          /\ failures = IF failed.run <= MaxFailures THEN failed.run ELSE MaxFailures
          /\ failed.run > 0 => retryAt = failed.at + Backoff(failed.run - 1)

IInv == TypeOK /\ SnapshotBelongs /\ RequestInv /\ DemandInv

============================================================================
