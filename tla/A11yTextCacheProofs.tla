------------------------ MODULE A11yTextCacheProofs ------------------------
(***************************************************************************)
(* The safety of A11yTextCache for every set of entries, every value of    *)
(* the code's delays, and clock readings as old as they may be.            *)
(***************************************************************************)
EXTENDS A11yTextCache, TLAPS

\* A clock reading is a time, and not one before the present by more than Skew.
LEMMA SampleFacts ==
    ASSUME now \in 1..MaxTime, NEW x \in Times, NEW t \in Sample(x)
    PROVE  t \in Times /\ t \in Nat /\ t # Never /\ t >= x /\ t <= now /\ now - t <= Skew
BY CacheAssumption DEF Sample, Times, Never

\* The constants that stand for nothing have their types.
LEMMA NoTextType == NoText \in Texts /\ NoRequest \in Requests /\ NoGuard.got \in Texts
BY CacheAssumption DEF NoText, Texts, NoRequest, Requests, NoGuard, Never, Times, MaybeEntry

\* A guard at rest is a guard.
LEMMA NoGuardType ==
    NoGuard \in [pc : {"idle", "stamp", "read", "wait", "verdict", "reset"},
                 before : Times, observed : Times, got : Texts,
                 generation : 0..MaxGeneration, until : Nat, since : Times]
BY NoTextType, CacheAssumption DEF NoGuard, Times, Never

\* The pause after any number of failures is bounded.
LEMMA BackoffType == ASSUME NEW n \in 0..MaxFailures PROVE Backoff(n) \in 0..MaxBackoff
BY CacheAssumption DEF Backoff

\* Forgetting the text keeps the types and makes every request outstanding one
\* of an earlier generation.
LEMMA InvalidateFacts ==
    ASSUME TypeOK, Invalidate
    PROVE  /\ snapshot' = Never /\ snapshot' \in Times /\ text' \in Texts
           /\ generation' \in 0..MaxGeneration /\ generation' > generation
BY NoTextType, CacheAssumption DEF TypeOK, ContentOK, Invalidate, Times, Never

\* A poll asked for at once keeps the bounds of the pacing.
LEMMA PollAtOnceFacts ==
    ASSUME TypeOK, PollAtOnce PROVE PacingOK'
BY CacheAssumption DEF PollAtOnce, PacingOK, Times, Never

\* The invariant holds at first.
LEMMA InitIInv == Init => IInv
<1> SUFFICES ASSUME Init PROVE IInv
  OBVIOUS
<1>1. now \in 1..MaxTime /\ ContentOK /\ PacingOK /\ LeaseOK /\ AppOK
  <2>4. enabled \in BOOLEAN /\ dirty \in BOOLEAN
    BY DEF Init
  <2>5. now \in 1..MaxTime /\ lastPoll \in Times /\ demand \in Times /\ session \in Times
        /\ retryAt \in 0..(MaxTime + MaxBackoff) /\ failures \in 0..MaxFailures
    BY CacheAssumption DEF Init, Times, Never
  <2>1. now \in 1..MaxTime /\ PacingOK /\ LeaseOK
    BY <2>4, <2>5 DEF PacingOK, LeaseOK
  <2>2. ContentOK
    BY NoTextType, CacheAssumption DEF Init, ContentOK, Times, MaybeEntry, Never
  <2>3. AppOK
    BY CacheAssumption DEF Init, AppOK
  <2> QED
    BY <2>1, <2>2, <2>3
<1>2. MonitorOK
  BY NoTextType, CacheAssumption DEF Init, MonitorOK, Times, MaybeEntry, Never
<1>3. GuardOK
  BY NoGuardType DEF Init, GuardOK
<1>4. SnapshotBelongs /\ RequestInv /\ DemandInv
  BY DEF Init, SnapshotBelongs, RequestInv, DemandInv
<1> QED
  BY <1>1, <1>2, <1>3, <1>4 DEF IInv, TypeOK
\* Outside a poll a step may only drop the text or leave it.
LEMMA OutsidePoll ==
    ASSUME IInv, UNCHANGED <<now, lease>>, mpc' \notin {"query", "answered"},
           UNCHANGED content \/ (Invalidate /\ entry' \in MaybeEntry)
    PROVE  ContentOK' /\ SnapshotBelongs' /\ RequestInv' /\ DemandInv'
<1>1. RequestInv' /\ DemandInv'
  BY DEF IInv, RequestInv, DemandInv, lease
<1>2. CASE UNCHANGED content
  <2>1. UNCHANGED <<entry, snapshot, text, generation, enabled, session>>
    BY <1>2 DEF content, lease
  <2>2. ContentOK'
    BY <2>1 DEF IInv, TypeOK, ContentOK
  <2>3. SnapshotBelongs'
    BY <2>1 DEF IInv, SnapshotBelongs
  <2> QED
    BY <1>1, <2>2, <2>3
<1>3. CASE Invalidate /\ entry' \in MaybeEntry
  BY <1>1, <1>3, InvalidateFacts DEF IInv, ContentOK, SnapshotBelongs
<1> QED
  BY <1>2, <1>3

\* The steps of the monitor that handle signals.
LEMMA SignalsIInv ==
    ASSUME IInv,
           \/ Walked
           \/ \E e \in Entries : TextSignal(e) \/ FocusLost(e) \/ FocusGained(e)
    PROVE  IInv'
<1>1. /\ UNCHANGED <<now, edits, lease, guard>> /\ pending' \subseteq Entries
      /\ mpc' \in {"events", "walk"} /\ walking' \in MaybeEntry
      /\ UNCHANGED <<clock, subscribed, request, answer, failed>>
  <2>1. CASE Walked
    BY <2>1 DEF Walked, Goto, IInv, TypeOK, AppOK, MaybeEntry
  <2>2. ASSUME NEW e \in Entries, TextSignal(e) \/ FocusLost(e) \/ FocusGained(e)
        PROVE  /\ UNCHANGED <<now, edits, lease, guard>> /\ pending' \subseteq Entries
               /\ mpc' \in {"events", "walk"} /\ walking' \in MaybeEntry
               /\ UNCHANGED <<clock, subscribed, request, answer, failed>>
    BY <2>2 DEF TextSignal, FocusLost, FocusGained, Goto, IInv, TypeOK, AppOK, MonitorOK, MaybeEntry
  <2> QED
    BY <2>1, <2>2
<1>2. /\ UNCHANGED content \/ (Invalidate /\ entry' \in MaybeEntry)
      /\ \/ PollAtOnce \/ UNCHANGED pacing
         \/ \E e \in Entries : Changed(e)
  <2>1. CASE Walked
    <3>1. walking \in MaybeEntry
      BY DEF IInv, TypeOK, MonitorOK
    <3> QED
      BY <2>1, <3>1 DEF Walked, Focus
  <2>2. ASSUME NEW e \in Entries, TextSignal(e) PROVE UNCHANGED content /\ Changed(e)
    BY <2>2 DEF TextSignal, Changed
  <2>3. ASSUME NEW e \in Entries, FocusLost(e) \/ FocusGained(e)
        PROVE  /\ UNCHANGED content \/ (Invalidate /\ entry' \in MaybeEntry)
               /\ PollAtOnce \/ UNCHANGED pacing
    BY <2>3 DEF FocusLost, FocusGained, Focus, Blur, MaybeEntry
  <2> QED
    BY <2>1, <2>2, <2>3
<1>3. PacingOK'
  <2>1. CASE UNCHANGED pacing
    BY <2>1 DEF pacing, PacingOK, IInv, TypeOK
  <2>2. CASE \E e \in Entries : Changed(e)
    <3>1. dirty' \in BOOLEAN
      BY <2>2 DEF Changed
    <3>2. UNCHANGED <<lastPoll, retryAt, failures>>
      BY <2>2 DEF Changed
    <3> QED
      BY <3>1, <3>2 DEF PacingOK, IInv, TypeOK
  <2> QED
    BY <1>2, <2>1, <2>2, PollAtOnceFacts DEF IInv
<1>4. ContentOK' /\ SnapshotBelongs' /\ RequestInv' /\ DemandInv'
  BY <1>1, <1>2, OutsidePoll
<1>5. LeaseOK' /\ AppOK' /\ GuardOK' /\ now' \in 1..MaxTime
  BY <1>1 DEF IInv, TypeOK, LeaseOK, AppOK, GuardOK, lease
<1>6. MonitorOK'
  BY <1>1 DEF IInv, TypeOK, MonitorOK
<1> QED
  BY <1>3, <1>4, <1>5, <1>6 DEF IInv, TypeOK

\* The invariant is kept by a wake-up and by a subscription.
LEMMA WaitsIInv == ASSUME IInv, Wakes \/ Subscribe PROVE IInv'
<1>1. /\ UNCHANGED <<now, edits, pending, lease, guard, content, pacing>>
      /\ UNCHANGED <<walking, request, answer, failed>>
      /\ mpc' \in {"events", "poll"} /\ clock' \in Times /\ subscribed' \in MaybeEntry
  <2>1. CASE Wakes
    BY <2>1 DEF Wakes, Goto, IInv, TypeOK, MonitorOK
  <2>2. CASE Subscribe
    BY <2>2, SampleFacts
       DEF Subscribe, Goto, IInv, TypeOK, MonitorOK, ContentOK, MaybeEntry
  <2> QED
    BY <2>1, <2>2
<1>2. ContentOK' /\ SnapshotBelongs' /\ RequestInv' /\ DemandInv'
  BY <1>1, OutsidePoll
<1>3. LeaseOK' /\ AppOK' /\ GuardOK' /\ now' \in 1..MaxTime /\ PacingOK'
  BY <1>1 DEF IInv, TypeOK, LeaseOK, AppOK, GuardOK, PacingOK, lease, pacing
<1>4. MonitorOK'
  BY <1>1 DEF IInv, TypeOK, MonitorOK
<1> QED
  BY <1>2, <1>3, <1>4 DEF IInv, TypeOK

\* A request carries the entry and the generation it was made under.
LEMMA BeginPollIInv == ASSUME IInv, BeginPoll PROVE IInv'
<1>1. PICK t \in Sample(clock) :
        /\ clock' = t
        /\ \/ /\ Due(t) /\ dirty' = FALSE /\ lastPoll' = t /\ mpc' = "query"
              /\ request' = [entry |-> entry, generation |-> generation, started |-> t]
           \/ UNCHANGED <<dirty, lastPoll, request>> /\ mpc' = "wait"
  BY DEF BeginPoll, Goto
<1>2. /\ UNCHANGED <<now, edits, pending, lease, guard, content>>
      /\ UNCHANGED <<retryAt, failures, walking, subscribed, answer, failed>>
  BY DEF BeginPoll, Goto
<1>3. t \in Times /\ t \in Nat /\ t <= now
  BY SampleFacts DEF IInv, TypeOK, MonitorOK
<1>4. LeaseOK' /\ AppOK' /\ GuardOK' /\ now' \in 1..MaxTime /\ ContentOK'
      /\ SnapshotBelongs' /\ DemandInv'
  BY <1>2 DEF IInv, TypeOK, LeaseOK, AppOK, GuardOK, ContentOK, SnapshotBelongs, DemandInv,
              lease, content
<1>5. dirty' \in BOOLEAN
  BY <1>1 DEF IInv, TypeOK, PacingOK
<1>6. PacingOK'
  BY <1>1, <1>2, <1>3, <1>5 DEF IInv, TypeOK, PacingOK
<1>7. request' \in Requests
  BY <1>1, <1>3 DEF IInv, TypeOK, MonitorOK, ContentOK, Requests, Times, MaybeEntry
<1>8. MonitorOK'
  BY <1>1, <1>2, <1>3, <1>7 DEF IInv, TypeOK, MonitorOK
<1>9. RequestInv'
  <2>1. CASE mpc' = "wait"
    BY <2>1 DEF RequestInv
  <2>2. CASE mpc' = "query"
    <3>1. /\ Due(t)
          /\ request' = [entry |-> entry, generation |-> generation, started |-> t]
      BY <1>1, <2>2
    <3>2. enabled /\ t >= demand /\ entry # NoEntry
      BY <3>1 DEF Due, Active
    <3>3. t >= session
      BY <1>3, <3>2 DEF IInv, TypeOK, LeaseOK, DemandInv, Times
    <3>4. UNCHANGED <<enabled, session, entry, generation, now>>
      BY <1>2 DEF lease, content
    <3> QED
      BY <1>3, <2>2, <3>1, <3>2, <3>3, <3>4
         DEF RequestInv, IInv, TypeOK, ContentOK, MaybeEntry
  <2> QED
    BY <1>1, <2>1, <2>2
<1> QED
  BY <1>4, <1>6, <1>8, <1>9 DEF IInv, TypeOK
\* The application answers from the entry that was asked, now.
LEMMA AnswerIInv == ASSUME IInv, Answer PROVE IInv'
<1>1. /\ UNCHANGED <<now, edits, pending, lease, guard, content, pacing>>
      /\ UNCHANGED <<clock, walking, subscribed, request, failed>>
      /\ mpc = "query" /\ mpc' = "answered"
      /\ answer' \in {NoText,
                      [entry |-> request.entry, at |-> now, edits |-> edits[request.entry]]}
  BY DEF Answer, Goto
<1>2. /\ request.entry \in Entries /\ request.started <= now /\ request.generation <= generation
      /\ request.generation = generation =>
            enabled /\ request.entry = entry /\ request.started >= session
  BY <1>1 DEF IInv, RequestInv
<1>3. answer' \in Texts
  <2>1. now \in Times /\ edits[request.entry] \in 0..MaxEdits
    BY <1>2, CacheAssumption DEF IInv, TypeOK, AppOK, Times
  <2> QED
    BY <1>1, <1>2, <2>1, NoTextType DEF Texts, MaybeEntry, Times
<1>4. LeaseOK' /\ AppOK' /\ GuardOK' /\ now' \in 1..MaxTime /\ PacingOK' /\ DemandInv'
  BY <1>1 DEF IInv, TypeOK, LeaseOK, AppOK, GuardOK, PacingOK, DemandInv, lease, pacing
<1>5. ContentOK' /\ SnapshotBelongs'
  <2>1. UNCHANGED <<entry, snapshot, text, generation, enabled, session>>
    BY <1>1 DEF content, lease
  <2> QED
    BY <2>1 DEF IInv, TypeOK, ContentOK, SnapshotBelongs
<1>6. MonitorOK'
  BY <1>1, <1>3 DEF IInv, TypeOK, MonitorOK
<1>7. RequestInv'
  <2>1. UNCHANGED <<entry, generation, enabled, session, now, request>>
    BY <1>1 DEF content, lease
  <2>2. answer' # NoText => answer'.entry = request.entry /\ answer'.at = now
    BY <1>1
  <2> QED
    BY <1>1, <1>2, <2>1, <2>2 DEF RequestInv, IInv, TypeOK, MonitorOK, Requests, Times
<1> QED
  BY <1>4, <1>5, <1>6, <1>7 DEF IInv, TypeOK

\* Only an answer to a request of the present generation becomes the snapshot.
LEMMA FinishPollIInv == ASSUME IInv, FinishPoll PROVE IInv'
<1>1. PICK t \in Sample(clock) :
        /\ clock' = t
        /\ \/ /\ ~Accepts(t)
              /\ UNCHANGED <<snapshot, text, retryAt, failures, failed>>
           \/ /\ Accepts(t) /\ answer = NoText /\ Fail(t)
              /\ failed' = [generation |-> generation, at |-> t, run |-> OneMore(FailedRun)]
           \/ /\ Accepts(t) /\ answer # NoText /\ Publish
              /\ failed' = [failed EXCEPT !.run = 0]
  BY DEF FinishPoll
<1>2. /\ mpc = "answered" /\ mpc' = "wait" /\ request' = NoRequest /\ answer' = NoText
      /\ UNCHANGED <<now, edits, pending, lease, guard, entry, generation, lastPoll, dirty>>
      /\ UNCHANGED <<walking, subscribed>>
  BY DEF FinishPoll, Goto
<1>3. t \in Times /\ t \in Nat /\ t <= now /\ t <= MaxTime
  BY SampleFacts DEF IInv, TypeOK, MonitorOK, Times
<1>4. LeaseOK' /\ AppOK' /\ GuardOK' /\ now' \in 1..MaxTime /\ DemandInv' /\ RequestInv'
  BY <1>2 DEF IInv, TypeOK, LeaseOK, AppOK, GuardOK, DemandInv, RequestInv, lease
<1>5. PacingOK'
  <2>1. UNCHANGED <<lastPoll, dirty>>
    BY <1>2
  <2>2. retryAt' \in 0..(MaxTime + MaxBackoff) /\ failures' \in 0..MaxFailures
    <3>1. CASE UNCHANGED <<retryAt, failures>>
      BY <3>1 DEF IInv, TypeOK, PacingOK
    <3>2. CASE Publish
      BY <3>2, CacheAssumption DEF Publish
    <3>3. CASE Fail(t)
      <4>1. failures \in 0..MaxFailures
        BY DEF IInv, TypeOK, PacingOK
      <4>2. Backoff(failures) \in 0..MaxBackoff
        BY <4>1, BackoffType
      <4> QED
        BY <1>3, <3>3, <4>1, <4>2, CacheAssumption DEF Fail
    <3> QED
      BY <1>1, <3>1, <3>2, <3>3
  <2> QED
    BY <2>1, <2>2 DEF IInv, TypeOK, PacingOK
<1>6. failed' \in [generation : 0..MaxGeneration, at : Times, run : 0..(MaxFailures + 1)]
  <2>1. /\ failed \in [generation : 0..MaxGeneration, at : Times, run : 0..(MaxFailures + 1)]
        /\ generation \in 0..MaxGeneration
    BY DEF IInv, TypeOK, MonitorOK, ContentOK
  <2>2. OneMore(FailedRun) \in 0..(MaxFailures + 1)
    BY <2>1, CacheAssumption DEF FailedRun, OneMore
  <2> QED
    BY <1>1, <1>3, <2>1, <2>2, CacheAssumption
<1>7. MonitorOK'
  BY <1>1, <1>2, <1>3, <1>6, NoTextType DEF IInv, TypeOK, MonitorOK
<1>8. ContentOK' /\ SnapshotBelongs'
  <2>1. UNCHANGED <<entry, generation, enabled, session>>
    BY <1>2 DEF lease
  <2>2. CASE UNCHANGED <<snapshot, text>>
    BY <2>1, <2>2 DEF IInv, TypeOK, ContentOK, SnapshotBelongs
  <2>3. CASE Fail(t)
    BY <2>1, <2>3, NoTextType, CacheAssumption
       DEF Fail, IInv, TypeOK, ContentOK, SnapshotBelongs, Times, Never
  <2>4. CASE Accepts(t) /\ answer # NoText /\ Publish
    <3>1. /\ request.generation = generation /\ text' = answer /\ snapshot' = request.started
      BY <2>4 DEF Accepts, Publish
    <3>2. /\ request.entry \in Entries /\ enabled /\ request.entry = entry
          /\ request.started >= session
          /\ answer.entry = request.entry /\ answer.at >= request.started
      BY <1>2, <2>4, <3>1 DEF IInv, RequestInv
    <3>3. answer \in Texts /\ request.started \in Times
      BY DEF IInv, TypeOK, MonitorOK, Requests, Times
    <3>4. ContentOK'
      BY <2>1, <3>1, <3>3 DEF IInv, TypeOK, ContentOK
    <3>5. entry # NoEntry
      BY <3>2, CacheAssumption
    <3> QED
      BY <2>1, <3>1, <3>2, <3>4, <3>5 DEF SnapshotBelongs
  <2> QED
    BY <1>1, <2>2, <2>3, <2>4
<1> QED
  BY <1>4, <1>5, <1>7, <1>8 DEF IInv, TypeOK

\* A change of the demand leaves the text only when the lease goes on.
LEMMA KeyIInv == ASSUME IInv, NEW on \in BOOLEAN, KeyArrives(on) PROVE IInv'
<1>1. PICK t \in Sample(demand) : SetEnabled(on, t)
  BY DEF KeyArrives
<1>2. UNCHANGED <<now, edits, pending, monitor, guard, entry>>
  BY <1>1 DEF KeyArrives, Engine, SetEnabled, app
<1>3. t \in Times /\ t >= demand /\ t \in Nat
  BY SampleFacts DEF IInv, TypeOK, LeaseOK
<1>4. enabled' = on /\ demand' = t
  BY <1>1 DEF SetEnabled
<1>5. AppOK' /\ GuardOK' /\ now' \in 1..MaxTime
  BY <1>2 DEF IInv, TypeOK, AppOK, GuardOK
<1>6. MonitorOK'
  BY <1>2 DEF IInv, TypeOK, MonitorOK, monitor
<1>7. CASE Invalidate /\ PollAtOnce /\ session' = t
  <2>1. PacingOK'
    BY <1>7, PollAtOnceFacts DEF IInv
  <2>2. ContentOK' /\ SnapshotBelongs'
    BY <1>2, <1>7, InvalidateFacts DEF IInv, TypeOK, ContentOK, SnapshotBelongs
  <2>3. LeaseOK' /\ DemandInv'
    BY <1>3, <1>4, <1>7 DEF LeaseOK, DemandInv, Times
  <2>4. RequestInv'
    <3>1. generation' > generation
      BY <1>7, InvalidateFacts DEF IInv
    <3>2. UNCHANGED <<mpc, request, answer, now>>
      BY <1>2 DEF monitor
    <3>3. request.generation \in Nat /\ generation \in Nat /\ generation' \in Nat
      BY <1>7, InvalidateFacts DEF IInv, TypeOK, MonitorOK, ContentOK, Requests
    <3> QED
      BY <3>1, <3>2, <3>3 DEF IInv, RequestInv
  <2> QED
    BY <1>5, <1>6, <2>1, <2>2, <2>3, <2>4 DEF IInv, TypeOK
<1>8. CASE on = enabled /\ UNCHANGED <<snapshot, text, generation, pacing, session>>
  <2>1. UNCHANGED <<enabled, session, entry, snapshot, text, generation, mpc, request, answer, now>>
    BY <1>2, <1>4, <1>8 DEF monitor
  <2>2. PacingOK'
    BY <1>8 DEF IInv, TypeOK, PacingOK, pacing
  <2>3. ContentOK' /\ SnapshotBelongs'
    BY <2>1 DEF IInv, TypeOK, ContentOK, SnapshotBelongs
  <2>4. RequestInv'
    BY <2>1 DEF IInv, RequestInv
  <2>5. LeaseOK'
    BY <1>3, <1>4, <2>1 DEF IInv, TypeOK, LeaseOK
  <2>6. DemandInv'
    BY <1>3, <1>4, <2>1 DEF IInv, TypeOK, LeaseOK, DemandInv, Times
  <2> QED
    BY <1>5, <1>6, <2>2, <2>3, <2>4, <2>5, <2>6 DEF IInv, TypeOK
<1>9. \/ Invalidate /\ PollAtOnce /\ session' = t
      \/ on = enabled /\ UNCHANGED <<snapshot, text, generation, pacing, session>>
  BY <1>1 DEF SetEnabled
<1> QED
  BY <1>7, <1>8, <1>9
\* Time and the application leave the cache alone.
LEMMA WorldIInv ==
    ASSUME IInv, Tick \/ \E e \in Entries : Edit(e) PROVE IInv'
<1>1. /\ UNCHANGED <<lease, content, pacing, monitor, guard>>
      /\ now' \in {now, now + 1} /\ now' <= MaxTime
      /\ edits' \in [Entries -> 0..MaxEdits] /\ pending' \subseteq Entries
  <2>1. CASE Tick
    <3>1. now' = now + 1 /\ now < MaxTime
          /\ UNCHANGED <<edits, pending, lease, content, pacing, monitor, guard>>
      BY <2>1 DEF Tick, app
    <3> QED
      BY <3>1, CacheAssumption DEF IInv, TypeOK, AppOK
  <2>2. ASSUME NEW e \in Entries, Edit(e)
        PROVE  /\ UNCHANGED <<now, lease, content, pacing, monitor, guard>>
               /\ edits' \in [Entries -> 0..MaxEdits] /\ pending' \subseteq Entries
    BY <2>2, CacheAssumption DEF Edit, IInv, TypeOK, AppOK
  <2>3. now <= MaxTime
    BY CacheAssumption DEF IInv, TypeOK
  <2> QED
    BY <2>1, <2>2, <2>3
<1>2. now' \in 1..MaxTime /\ now' >= now
  BY <1>1, CacheAssumption DEF IInv, TypeOK
<1>3. ContentOK' /\ SnapshotBelongs' /\ DemandInv'
  <2>1. UNCHANGED <<entry, snapshot, text, generation, enabled, demand, session>>
    BY <1>1 DEF content, lease
  <2> QED
    BY <2>1 DEF IInv, TypeOK, ContentOK, SnapshotBelongs, DemandInv
<1>4. LeaseOK' /\ PacingOK' /\ AppOK' /\ GuardOK'
  BY <1>1 DEF IInv, TypeOK, LeaseOK, PacingOK, AppOK, GuardOK, lease, pacing
<1>5. MonitorOK'
  BY <1>1 DEF IInv, TypeOK, MonitorOK, monitor
<1>6. RequestInv'
  <2>1. UNCHANGED <<entry, generation, enabled, session, mpc, request, answer>>
    BY <1>1 DEF content, lease, monitor
  <2>2. request.started \in Nat /\ now \in Nat /\ now' \in Nat
    BY <1>2, CacheAssumption DEF IInv, TypeOK, MonitorOK, Requests, Times
  <2> QED
    BY <1>2, <2>1, <2>2 DEF IInv, RequestInv
<1> QED
  BY <1>2, <1>3, <1>4, <1>5, <1>6 DEF IInv, TypeOK

\* The desync guard only reads.
LEMMA GuardIInv == ASSUME IInv, Guard PROVE IInv'
<1>1. UNCHANGED <<now, app, monitor, lease, content, pacing>>
  BY DEF Guard, GuardBegins, GuardStamps, GuardReads, GuardWaits, GuardJudges, GuardEnds, Engine
<1>2. GuardOK'
  <2>1. /\ guard \in [pc : {"idle", "stamp", "read", "wait", "verdict", "reset"},
                      before : Times, observed : Times, got : Texts,
                      generation : 0..MaxGeneration, until : Nat, since : Times]
        /\ snapshot \in Times /\ text \in Texts /\ generation \in 0..MaxGeneration
        /\ now \in Times /\ now + GuardWait \in Nat /\ Never \in Times
        /\ 0 \in 0..MaxGeneration
    BY CacheAssumption DEF IInv, TypeOK, GuardOK, ContentOK, Times, Never
  <2>2. CASE GuardBegins
    BY <2>1, <2>2 DEF GuardBegins, GuardOK
  <2>3. CASE GuardStamps
    BY <2>1, <2>3 DEF GuardStamps, GuardOK
  <2>4. CASE GuardReads
    BY <2>1, <2>4, NoGuardType DEF GuardReads, GuardOK
  <2>5. CASE GuardWaits
    BY <2>1, <2>5, NoTextType DEF GuardWaits, GuardOK
  <2>6. CASE GuardJudges \/ GuardEnds
    BY <2>1, <2>6, NoGuardType DEF GuardJudges, GuardEnds, GuardOK
  <2> QED
    BY <2>2, <2>3, <2>4, <2>5, <2>6 DEF Guard
<1>3. ContentOK' /\ SnapshotBelongs' /\ DemandInv'
  <2>1. UNCHANGED <<entry, snapshot, text, generation, enabled, demand, session>>
    BY <1>1 DEF content, lease
  <2> QED
    BY <2>1 DEF IInv, TypeOK, ContentOK, SnapshotBelongs, DemandInv
<1>4. LeaseOK' /\ PacingOK' /\ AppOK' /\ now' \in 1..MaxTime
  BY <1>1 DEF IInv, TypeOK, LeaseOK, PacingOK, AppOK, lease, pacing, app
<1>5. MonitorOK'
  BY <1>1 DEF IInv, TypeOK, MonitorOK, monitor
<1>6. RequestInv'
  <2>1. UNCHANGED <<entry, generation, enabled, session, mpc, request, answer, now>>
    BY <1>1 DEF content, lease, monitor
  <2> QED
    BY <2>1 DEF IInv, RequestInv
<1> QED
  BY <1>2, <1>3, <1>4, <1>5, <1>6 DEF IInv, TypeOK

\* The invariant is kept by a step that changes nothing.
LEMMA StutterIInv == ASSUME IInv, UNCHANGED vars PROVE IInv'
<1>1. UNCHANGED <<now, app, lease, content, pacing, monitor, guard>>
  BY DEF vars
<1>2. /\ UNCHANGED <<now, edits, pending, enabled, demand, session, entry, snapshot, text>>
      /\ UNCHANGED <<generation, lastPoll, retryAt, failures, dirty, guard>>
      /\ UNCHANGED <<mpc, clock, walking, subscribed, request, answer, failed>>
  BY <1>1 DEF app, lease, content, pacing, monitor
<1>3. TypeOK'
  BY <1>2 DEF IInv, TypeOK, ContentOK, PacingOK, LeaseOK, AppOK, MonitorOK, GuardOK
<1> QED
  BY <1>2, <1>3 DEF IInv, SnapshotBelongs, RequestInv, DemandInv

\* The invariant holds in every behaviour.
THEOREM Invariance == Spec => []IInv
<1>1. IInv /\ [Next]_vars => IInv'
  BY WorldIInv, GuardIInv, StutterIInv, SignalsIInv, WaitsIInv, BeginPollIInv, AnswerIInv,
     FinishPollIInv, KeyIInv DEF Next, Monitor
<1> QED
  BY InitIInv, <1>1, PTL DEF Spec

\* The cache, the monitor and the guard keep their types.
THEOREM TypeCorrect == Spec => []TypeOK
<1>1. IInv => TypeOK
  BY DEF IInv
<1> QED
  BY <1>1, Invariance, PTL

\* A stored text is the focused entry's, was asked for in the present demand and
\* is no older than it is dated, however late the replies come.
THEOREM SnapshotOwned == Spec => []SnapshotBelongs
<1>1. IInv => SnapshotBelongs
  BY DEF IInv
<1> QED
  BY <1>1, Invariance, PTL

\* No reader is handed a text older than MaxAge, one of another entry, or one of
\* a demand that has lapsed.
THEOREM ReadsFresh == Spec => ReadIsFresh
<1> DEFINE Fresh ==
      guard'.got # guard.got /\ guard'.got # NoText =>
          /\ guard'.got.entry = entry
          /\ now - guard'.got.at <= MaxAge + Skew
          /\ now - demand < Idle + Skew
<1>1. IInv /\ [Next]_vars => [Fresh]_vars
  <2> SUFFICES ASSUME IInv, [Next]_vars, guard'.got # guard.got, guard'.got # NoText
               PROVE  /\ guard'.got.entry = entry
                      /\ now - guard'.got.at <= MaxAge + Skew
                      /\ now - demand < Idle + Skew
    OBVIOUS
  <2>1. guard' # guard
    OBVIOUS
  <2>2. Guard
    BY <2>1 DEF Next, vars, Tick, Edit, Monitor, Wakes, Walked, Subscribe, BeginPoll, Answer,
                FinishPoll, TextSignal, FocusLost, FocusGained, Goto, KeyArrives
  <2>3. /\ guard \in [pc : {"idle", "stamp", "read", "wait", "verdict", "reset"},
                      before : Times, observed : Times, got : Texts,
                      generation : 0..MaxGeneration, until : Nat, since : Times]
        /\ NoGuard.got = NoText
    BY DEF IInv, TypeOK, GuardOK, NoGuard
  <2>4. GuardReads
    <3>1. CASE GuardBegins \/ GuardStamps
      BY <2>3, <3>1 DEF GuardBegins, GuardStamps
    <3>2. CASE GuardWaits
      BY <2>3, <3>2 DEF GuardWaits
    <3>3. CASE GuardJudges \/ GuardEnds
      BY <2>3, <3>3 DEF GuardJudges, GuardEnds, NoGuard
    <3> QED
      BY <2>2, <3>1, <3>2, <3>3 DEF Guard
  <2>5. PICK t \in Sample(demand) : Readable(t) /\ guard'.got = text
    BY <2>3, <2>4 DEF GuardReads
  <2>6. t \in Nat /\ t >= demand /\ t <= now /\ now - t <= Skew
    BY SampleFacts DEF IInv, TypeOK, LeaseOK
  <2>7. snapshot # Never /\ t - snapshot <= MaxAge /\ t - demand < Idle
    BY <2>5 DEF Readable, Active
  <2>8. text.entry = entry /\ text.at >= snapshot
    BY <2>7 DEF IInv, SnapshotBelongs
  <2>9. /\ now \in Nat /\ demand \in Nat /\ snapshot \in Nat /\ text.at \in Nat
    BY CacheAssumption DEF IInv, TypeOK, LeaseOK, ContentOK, Texts, Times
  <2> QED
    BY <2>5, <2>6, <2>7, <2>8, <2>9, CacheAssumption
<1> QED
  BY <1>1, Invariance, PTL DEF ReadIsFresh, Spec

---------------------------------------------------------------------------
(* The backoff.                                                            *)

\* Only the end of a poll counts failures, and what moves the generation starts the count
\* afresh, except a blur, after which nothing is polled.
LEMMA NextBackoffInv ==
    ASSUME IInv, BackoffInv, [Next]_vars
    PROVE  BackoffInv'
<1> USE CacheAssumption DEF BackoffInv
<1>0. /\ failed \in [generation : 0..MaxGeneration, at : Times, run : 0..(MaxFailures + 1)]
      /\ generation \in Nat /\ failures \in 0..MaxFailures
  BY DEF IInv, TypeOK, MonitorOK, ContentOK, PacingOK
<1>1. ASSUME UNCHANGED <<entry, generation, failures, retryAt, failed>> PROVE BackoffInv'
  BY <1>1
<1>2. ASSUME Invalidate, PollAtOnce, UNCHANGED failed PROVE BackoffInv'
  BY <1>0, <1>2 DEF Invalidate, PollAtOnce
<1>3. ASSUME NEW e \in MaybeEntry, Focus(e), UNCHANGED failed PROVE BackoffInv'
  BY <1>1, <1>2, <1>3 DEF Focus, content, pacing
<1>4. ASSUME NEW e \in Entries, FocusLost(e) PROVE BackoffInv'
  BY <1>0, <1>1, <1>4 DEF FocusLost, Blur, Invalidate, content, pacing
<1>5. ASSUME NEW e \in Entries, FocusGained(e) PROVE BackoffInv'
  BY <1>3, <1>5 DEF FocusGained, MaybeEntry
<1>6. ASSUME Walked PROVE BackoffInv'
  BY <1>1, <1>3, <1>6 DEF Walked, content, pacing, IInv, TypeOK, MonitorOK
<1>7. ASSUME NEW on \in BOOLEAN, KeyArrives(on) PROVE BackoffInv'
  BY <1>1, <1>2, <1>7 DEF KeyArrives, SetEnabled, pacing, Engine, monitor
<1>8. ASSUME FinishPoll PROVE BackoffInv'
  <2>1. entry' = entry /\ generation' = generation
    BY <1>8 DEF FinishPoll
  <2>2. PICK t \in Sample(clock) :
           \/ UNCHANGED <<retryAt, failures, failed>>
           \/ /\ Accepts(t) /\ Fail(t)
              /\ failed' = [generation |-> generation, at |-> t, run |-> OneMore(FailedRun)]
           \/ Publish /\ failed' = [failed EXCEPT !.run = 0]
    BY <1>8 DEF FinishPoll
  <2>3. CASE UNCHANGED <<retryAt, failures, failed>>
    BY <1>1, <2>1, <2>3
  <2>4. CASE /\ Accepts(t) /\ Fail(t)
             /\ failed' = [generation |-> generation, at |-> t, run |-> OneMore(FailedRun)]
    <3>1. entry \in Entries
      BY <1>8, <2>4 DEF IInv, RequestInv, FinishPoll, Accepts
    <3>2. failures = IF FailedRun <= MaxFailures THEN FailedRun ELSE MaxFailures
      BY <1>0, <3>1 DEF FailedRun
    <3>3. /\ failures' = IF OneMore(FailedRun) <= MaxFailures
                          THEN OneMore(FailedRun) ELSE MaxFailures
          /\ failures = OneMore(FailedRun) - 1
      BY <1>0, <2>4, <3>2 DEF Fail, OneMore, FailedRun
    <3> QED
      BY <1>0, <2>1, <2>4, <3>3 DEF Fail
  <2>5. CASE Publish /\ failed' = [failed EXCEPT !.run = 0]
    BY <1>0, <2>1, <2>5 DEF Publish
  <2> QED
    BY <2>2, <2>3, <2>4, <2>5
<1> QED
  BY <1>1, <1>3, <1>4, <1>5, <1>6, <1>7, <1>8
  DEF Next, Monitor, Guard, vars, Tick, Edit, Wakes, Subscribe, BeginPoll, Answer, TextSignal,
      Changed, Goto, GuardBegins, GuardStamps, GuardReads, GuardWaits, GuardJudges, GuardEnds,
      Engine, monitor, content, pacing

\* After its n-th failure in a row an entry is left alone for the n-th backoff, however
\* many text signals it sends.
THEOREM BackoffKept == Spec => BackoffHolds
<1> DEFINE Rests ==
      request'.generation = failed.generation /\ request' # request
        /\ request' # NoRequest /\ failed.run > 0
      => request'.started >= failed.at + Backoff(failed.run - 1)
<1>1. IInv /\ BackoffInv /\ [Next]_vars => [Rests]_vars
  <2> SUFFICES ASSUME IInv, BackoffInv, [Next]_vars,
                      request'.generation = failed.generation, request' # request,
                      request' # NoRequest, failed.run > 0
               PROVE  request'.started >= failed.at + Backoff(failed.run - 1)
    OBVIOUS
  <2>1. BeginPoll
    BY DEF Next, Monitor, Guard, vars, Tick, Edit, Wakes, Walked, Subscribe, Answer, FinishPoll,
           TextSignal, FocusLost, FocusGained, KeyArrives, GuardBegins, GuardStamps,
           GuardReads, GuardWaits, GuardJudges, GuardEnds, Engine, monitor
  <2>2. PICK t \in Sample(clock) :
           Due(t) /\ request' = [entry |-> entry, generation |-> generation, started |-> t]
    BY <2>1 DEF BeginPoll
  <2>3. failed.generation = generation
    BY <2>2
  <2> QED
    BY <2>2, <2>3 DEF BackoffInv, Due
<1>2. Init => BackoffInv
  BY CacheAssumption DEF Init, BackoffInv
<1>3. IInv /\ BackoffInv /\ [Next]_vars => BackoffInv'
  BY NextBackoffInv
<1> QED
  BY <1>1, <1>2, <1>3, Invariance, PTL DEF Spec, BackoffHolds
============================================================================
