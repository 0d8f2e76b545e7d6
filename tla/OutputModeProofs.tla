-------------------------- MODULE OutputModeProofs --------------------------
(***************************************************************************)
(* Proofs about OutputMode: what a decision may change in the context, the *)
(* inductive invariant, and the properties of the words and of the         *)
(* decision that follow from it.                                           *)
(***************************************************************************)
EXTENDS OutputMode, TLAPS

---------------------------------------------------------------------------
(* What a decision may change.                                             *)

\* What no decision touches.
Kept(t, s) ==
    /\ t.readFor = s.readFor /\ t.override = s.override /\ t.excluded = s.excluded
    /\ t.valid = s.valid /\ t.by = s.by /\ t.chromium = s.chromium /\ t.owner = s.owner
    /\ t.failed = s.failed /\ t.invalid = s.invalid /\ t.backoff = s.backoff
    /\ t.young = s.young /\ t.word = s.word /\ t.used = s.used
    /\ t.disturbed = s.disturbed /\ t.stale = s.stale /\ t.patient = s.patient

\* A program is written off when a decision that was put off is due, or when the
\* program is not known for a Chromium with bare capabilities.
Earned(s, w) == s.pending /\ (s.deadline \/ ~(Chromium(s, w) /\ w.caps = "bare"))

\* What any automatic decision t, taken in the context s, satisfies.
Sound(t, s, w) ==
    /\ t \in Contexts /\ Kept(t, s)
    /\ t.deadline => s.deadline
    /\ t.sticky => s.sticky \/ Earned(s, w)

\* Native or Uinput, which are injected.
LEMMA Injects ==
    ASSUME NEW s \in Contexts, NEW w \in Worlds
    PROVE  /\ AutoInject(s, w) \in Contexts /\ Injecting(AutoInject(s, w))
           /\ Kept(AutoInject(s, w), s)
           /\ AutoInject(s, w).deadline = s.deadline
           /\ AutoInject(s, w).sticky = s.sticky
  BY DEF AutoInject, Decide, Contexts, Injecting, Kept, Explicit

\* Surrounding text.
LEMMA Surrounds ==
    ASSUME NEW s \in Contexts
    PROVE  /\ AutoSurrounding(s) \in Contexts /\ Kept(AutoSurrounding(s), s)
           /\ AutoSurrounding(s).deadline = s.deadline
           /\ AutoSurrounding(s).sticky = s.sticky
  BY DEF AutoSurrounding, Decide, Contexts, Kept, Explicit

\* The engine forgets, or learns, that a program is written off.
LEMMA Locks ==
    ASSUME NEW s \in Contexts, NEW w \in Worlds
    PROVE  /\ LockSticky(s, w) \in Contexts /\ Kept(LockSticky(s, w), s)
           /\ LockSticky(s, w).deadline = s.deadline
           /\ ForgetSticky(s) \in Contexts /\ Kept(ForgetSticky(s), s)
           /\ ForgetSticky(s).deadline = s.deadline
           /\ ForgetSticky(s).sticky = s.sticky
           /\ ForgetSticky(s).pending = s.pending
  <1>1. w.program \in Programs
    BY DEF Worlds
  <1>2. LockSticky(s, w) \in Contexts
    BY <1>1 DEF LockSticky, Contexts
  <1>3. ForgetSticky(s) \in Contexts
    BY DEF ForgetSticky, Contexts
  <1>4. Kept(LockSticky(s, w), s) /\ LockSticky(s, w).deadline = s.deadline
    BY DEF LockSticky, Contexts, Kept
  <1>5. /\ Kept(ForgetSticky(s), s) /\ ForgetSticky(s).deadline = s.deadline
        /\ ForgetSticky(s).sticky = s.sticky /\ ForgetSticky(s).pending = s.pending
    BY DEF ForgetSticky, Contexts, Kept
  <1> QED
    BY <1>2, <1>3, <1>4, <1>5


\* A decision may be taken in a context that differs in nothing that matters here.
LEMMA Likewise ==
    ASSUME NEW s \in Contexts, NEW r \in Contexts, NEW w \in Worlds, NEW t,
           Kept(r, s), r.deadline = s.deadline, r.sticky => s.sticky,
           r.pending => s.pending, Sound(t, r, w)
    PROVE  Sound(t, s, w)
  <1>1. Chromium(r, w) <=> Chromium(s, w)
    BY DEF Kept, Chromium
  <1>2. Earned(r, w) => Earned(s, w)
    BY <1>1 DEF Earned
  <1>3. Kept(t, s)
    BY DEF Sound, Kept
  <1> QED
    BY <1>2, <1>3 DEF Sound

\* Whatever the capabilities, surrounding text and injection are sound.
LEMMA Plain ==
    ASSUME NEW s \in Contexts, NEW w \in Worlds
    PROVE  Sound(AutoInject(s, w), s, w) /\ Sound(AutoSurrounding(s), s, w)
  BY Injects, Surrounds DEF Sound

\* The engine locks what was earned.
LEMMA Locked ==
    ASSUME NEW s \in Contexts, NEW w \in Worlds, Earned(s, w)
    PROVE  Sound(AutoInject(LockSticky(s, w), w), s, w)
  <1> DEFINE r == LockSticky(s, w)
  <1>1. r \in Contexts /\ Kept(r, s) /\ r.deadline = s.deadline
    BY Locks
  <1> HIDE DEF r
  <1>2. /\ AutoInject(r, w) \in Contexts /\ Kept(AutoInject(r, w), r)
        /\ AutoInject(r, w).deadline = r.deadline
    BY <1>1, Injects
  <1>3. Kept(AutoInject(r, w), s)
    BY <1>1, <1>2 DEF Kept
  <1>4. Sound(AutoInject(r, w), s, w)
    BY <1>1, <1>2, <1>3 DEF Sound
  <1> QED
    BY <1>4 DEF r

\* A decision that was put off is taken for surrounding text.
LEMMA Released ==
    ASSUME NEW s \in Contexts, NEW w \in Worlds
    PROVE  Sound(AutoSurrounding(ForgetSticky([s EXCEPT !.pending = FALSE])), s, w)
  <1> DEFINE q == [s EXCEPT !.pending = FALSE]
             r == ForgetSticky(q)
  <1>1. q \in Contexts /\ Kept(q, s) /\ q.deadline = s.deadline /\ q.sticky = s.sticky
        /\ q.pending = FALSE
    BY DEF Contexts, Kept
  <1> HIDE DEF q
  <1>2. r \in Contexts /\ Kept(r, q) /\ r.deadline = q.deadline /\ r.sticky = q.sticky
        /\ r.pending = q.pending
    BY <1>1, Locks
  <1>3. Kept(r, s)
    BY <1>1, <1>2 DEF Kept
  <1> HIDE DEF r
  <1>4. Sound(AutoSurrounding(r), r, w)
    BY <1>2, Plain
  <1>5. r.deadline = s.deadline /\ (r.sticky => s.sticky) /\ (r.pending => s.pending)
    BY <1>1, <1>2
  <1>6. Sound(AutoSurrounding(r), s, w)
    BY <1>2, <1>3, <1>4, <1>5, Likewise
  <1> QED
    BY <1>6 DEF r, q

\* Bare capabilities: a decision is put off, and taken when its time is over.
LEMMA BareSound ==
    ASSUME NEW s \in Contexts, NEW w \in Worlds
    PROVE  Sound(BareCaps(s, w), s, w)
  <1> DEFINE d == s.deadline /\ s.pending
             r == [s EXCEPT !.pending = TRUE, !.deadline = d]
  <1>d. d \in BOOLEAN /\ (d => s.deadline)
    BY DEF Contexts
  <1> HIDE DEF d
  <1>r. r \in Contexts
    BY <1>d DEF Contexts
  <1>s. r.deadline = d
    BY DEF Contexts
  <1>t. r.sticky = s.sticky
    BY DEF Contexts
  <1>k. Kept(r, s)
    BY DEF Contexts, Kept
  <1>1. r \in Contexts /\ Kept(r, s) /\ (r.deadline => s.deadline) /\ r.sticky = s.sticky
    BY <1>d, <1>r, <1>s, <1>t, <1>k
  <1>2. BareCaps(s, w) =
          IF ~Browser(w) /\ s.hints /\ ~Blind(s, w) THEN AutoSurrounding(s)
          ELSE IF FreshEditor(s, w)
          THEN AutoSurrounding(ForgetSticky([s EXCEPT !.pending = FALSE]))
          ELSE IF s.pending /\ s.deadline THEN AutoInject(LockSticky(s, w), w)
          ELSE AutoInject(r, w)
    BY DEF BareCaps, d
  <1> HIDE DEF r
  <1>3. AutoInject(r, w) \in Contexts /\ Kept(AutoInject(r, w), r)
        /\ AutoInject(r, w).deadline = r.deadline /\ AutoInject(r, w).sticky = r.sticky
    BY <1>1, Injects
  <1>4. Kept(AutoInject(r, w), s)
    BY <1>1, <1>3 DEF Kept
  <1>5. Sound(AutoInject(r, w), s, w)
    BY <1>1, <1>3, <1>4 DEF Sound
  <1>6. ASSUME s.pending, s.deadline PROVE Sound(AutoInject(LockSticky(s, w), w), s, w)
    BY <1>6, Locked DEF Earned
  <1> QED
    BY <1>2, <1>5, <1>6, Plain, Released

\* Capabilities with a hint take a decision that was put off at once.
LEMMA HintedSound ==
    ASSUME NEW s \in Contexts, NEW w \in Worlds, ~(Chromium(s, w) /\ w.caps = "bare")
    PROVE  Sound(HintedCaps(s, w), s, w)
  <1>1. ASSUME s.pending PROVE Sound(AutoInject(LockSticky(s, w), w), s, w)
    BY <1>1, Locked DEF Earned
  <1> QED
    BY <1>1, Plain, Released DEF HintedCaps

\* The decision by the capabilities is sound.
LEMMA CapsSound ==
    ASSUME NEW s \in Contexts, NEW w \in Worlds
    PROVE  Sound(ByCaps(s, w), s, w)
  <1> DEFINE r == [s EXCEPT !.hints = s.hints \/ (Chromium(s, w) /\ w.caps \in {"weak", "strong"})]
  <1>1. r \in Contexts /\ Kept(r, s) /\ r.deadline = s.deadline /\ r.sticky = s.sticky
        /\ r.pending = s.pending
    BY DEF Contexts, Kept
  <1> HIDE DEF r
  <1>2. CASE w.program = "office"
    <2>1. ByCaps(s, w) = AutoInject(s, w)
      BY <1>2, Zenon DEF ByCaps
    <2> QED
      BY <2>1, Plain
  <1>3. CASE w.program # "office" /\ ~HasSurrounding(w)
    <2>1. ByCaps(s, w) = IF Wayland(w) /\ ~Chromium(s, w) /\ w.program # "terminal"
                         THEN AutoSurrounding(s) ELSE AutoInject(s, w)
      BY <1>3, Zenon DEF ByCaps
    <2> QED
      BY <2>1, Plain
  <1>4. CASE w.program # "office" /\ HasSurrounding(w)
    <2>1. ByCaps(s, w) = IF w.caps = "terminal" \/ w.program = "terminal"
                            \/ (AddressBar(s, w) /\ Browser(w))
                         THEN AutoInject(s, w)
                         ELSE IF Chromium(s, w) /\ w.caps = "bare" THEN BareCaps(s, w)
                         ELSE HintedCaps(r, w)
      BY <1>4, Zenon DEF ByCaps, r
    <2>2. ASSUME ~(Chromium(s, w) /\ w.caps = "bare") PROVE Sound(HintedCaps(r, w), s, w)
      <3>1. Chromium(r, w) <=> Chromium(s, w)
        BY <1>1 DEF Kept, Chromium
      <3>2. Sound(HintedCaps(r, w), r, w)
        BY <1>1, <3>1, <2>2, HintedSound
      <3>3. r.deadline = s.deadline /\ (r.sticky => s.sticky) /\ (r.pending => s.pending)
        BY <1>1
      <3> QED
        BY <1>1, <3>2, <3>3, Likewise
    <2> QED
      BY <2>1, <2>2, Plain, BareSound
  <1> QED
    BY <1>2, <1>3, <1>4

\* The automatic decision is sound.
LEMMA AutoSound ==
    ASSUME NEW s \in Contexts, NEW w \in Worlds
    PROVE  Sound(DetectAuto(s, w), s, w)
  <1> DEFINE r == IF s.sticky THEN ForgetSticky(s) ELSE s
  <1>1. r \in Contexts /\ Kept(r, s) /\ r.deadline = s.deadline /\ r.sticky = s.sticky
        /\ r.pending = s.pending
    BY Locks DEF Kept
  <1>2. DetectAuto(s, w) \in {AutoInject(s, w), AutoSurrounding(s), ByCaps(r, w)}
    BY DEF DetectAuto
  <1> HIDE DEF r
  <1>3. Sound(ByCaps(r, w), r, w)
    BY <1>1, CapsSound
  <1>4. r.deadline = s.deadline /\ (r.sticky => s.sticky) /\ (r.pending => s.pending)
    BY <1>1
  <1>5. Sound(ByCaps(r, w), s, w)
    BY <1>1, <1>3, <1>4, Likewise
  <1> QED
    BY <1>2, <1>5, Plain

---------------------------------------------------------------------------
(* What was read of the user's choice.                                     *)

\* The facts have their types.
LEMMA Facts ==
    ASSUME NEW w \in Worlds
    PROVE  /\ w.program \in Programs /\ w.program # "nobody"
           /\ w.config.mode \in Explicit \cup {"Auto"} /\ w.config.native \in BOOLEAN
           /\ w.config.bar \in {"Auto", "SurroundingText", "Preedit", "NoVietnamese"}
           /\ w.file \in [Programs -> Explicit \cup {"unset", "cleared", "Auto", "Excluded"}]
           /\ w.file[w.program] \in Explicit \cup {"unset", "cleared", "Auto", "Excluded"}
           /\ w.focus.gen \in Nat /\ w.caps \in CapSets
  <1>1. w.program \in Programs /\ w.caps \in CapSets /\ w.config.native \in BOOLEAN
        /\ w.config.mode \in Explicit \cup {"Auto"}
        /\ w.config.bar \in {"Auto", "SurroundingText", "Preedit", "NoVietnamese"}
        /\ w.focus.gen \in Nat
    BY DEF Worlds
  <1>2. w.file \in [Programs -> Explicit \cup {"unset", "cleared", "Auto", "Excluded"}]
    BY DEF Worlds
  <1>3. w.program # "nobody"
    BY <1>1, OutputModeAssumption DEF AllPrograms, ChromiumApps, BrowserApps
  <1> QED
    BY <1>1, <1>2, <1>3

\* An explicit mode is one that the platform has.
LEMMA Modes ==
    ASSUME NEW w \in Worlds, NEW mode \in Explicit
    PROVE  ModeOf(mode, w) \in Explicit
  <1>1. CASE mode = "Native"
    BY <1>1 DEF ModeOf, Explicit
  <1>2. CASE mode = "Uinput"
    BY <1>2 DEF ModeOf, Explicit
  <1>3. CASE mode \notin {"Native", "Uinput"}
    BY <1>3 DEF ModeOf, Explicit
  <1> QED
    BY <1>1, <1>2, <1>3

\* What a file says of a program is read as it should be.
LEMMA Reads ==
    ASSUME NEW w \in Worlds, NEW auto \in {"Auto", w.config.mode},
           NEW choice \in Explicit \cup {"unset", "cleared", "Auto", "Excluded"}
    PROVE  /\ Override(choice, auto, w) \in Explicit \cup {"Auto", "unset"}
           /\ Holds(Override(choice, auto, w), choice, w)
  <1>1. w.config.mode \in Explicit \cup {"Auto"}
    BY Facts
  <1>2. CASE choice \in {"unset", "Excluded"}
    BY <1>2 DEF Override, Holds, Explicit
  <1>3. CASE choice = "Auto"
    BY <1>1, <1>3 DEF Override, Holds, Explicit
  <1>4. CASE choice = "cleared"
    BY <1>1, <1>4 DEF Override, Holds, Explicit
  <1>5. CASE choice \in Explicit
    BY <1>5 DEF Override, Holds, Explicit
  <1> QED
    BY <1>2, <1>3, <1>4, <1>5

\* refreshAppMode() touches what it read, and what that makes older.
Refreshed(t, s) ==
    /\ t.valid = s.valid /\ t.cached = s.cached /\ t.by = s.by /\ t.chromium = s.chromium
    /\ t.owner = s.owner /\ t.sticky = s.sticky /\ t.failed = s.failed
    /\ t.invalid = s.invalid /\ t.pending = s.pending /\ t.deadline = s.deadline
    /\ t.backoff = s.backoff /\ t.young = s.young /\ t.word = s.word /\ t.used = s.used
    /\ t.disturbed = s.disturbed /\ t.patient = s.patient
    /\ t.had = s.had /\ t.hadBy = s.hadBy
    /\ t.stale = "no" <=> s.stale = "no"

\* A context stays one when a choice is read.
LEMMA ReadTyped ==
    ASSUME NEW s \in Contexts, NEW p \in Programs \cup {"nobody"}, NEW x \in BOOLEAN,
           NEW o \in Explicit \cup {"Auto", "unset"}, NEW a \in {"no", "cached", "read"}
    PROVE  [s EXCEPT !.readFor = p, !.excluded = x, !.override = o, !.stale = a] \in Contexts
  <1> DEFINE s1 == [s EXCEPT !.readFor = p]
             s2 == [s1 EXCEPT !.excluded = x]
             s3 == [s2 EXCEPT !.override = o]
  <1>1. s1 \in Contexts
    BY DEF Contexts
  <1> HIDE DEF s1
  <1>2. s2 \in Contexts
    BY <1>1 DEF Contexts
  <1> HIDE DEF s2
  <1>3. s3 \in Contexts
    BY <1>2 DEF Contexts
  <1> HIDE DEF s3
  <1>4. [s3 EXCEPT !.stale = a] \in Contexts
    BY <1>3 DEF Contexts
  <1> QED
    BY <1>4 DEF s1, s2, s3

\* After it the context holds what the file says of the program.
LEMMA Refresh ==
    ASSUME NEW s \in Contexts, NEW w \in Worlds, Learnt(s, w)
    PROVE  LET t == RefreshAppMode(s, w)
           IN  /\ t \in Contexts /\ Refreshed(t, s) /\ t.readFor = w.program
               /\ t.stale # "read" => Holds(t.override, w.file[w.program], w)
               /\ Learnt(t, w)
  <1> DEFINE o == Override(w.file[w.program], w.config.mode, w)
             x == w.file[w.program] = "Excluded"
             a == IF s.stale = "read" THEN "cached" ELSE s.stale
             t == [s EXCEPT !.readFor = w.program, !.excluded = x, !.override = o,
                            !.stale = a]
  <1>1. w.program \in Programs /\ w.program # "nobody"
        /\ w.file[w.program] \in Explicit \cup {"unset", "cleared", "Auto", "Excluded"}
    BY Facts
  <1>2. o \in Explicit \cup {"Auto", "unset"} /\ Holds(o, w.file[w.program], w)
    BY <1>1, Reads
  <1>3. x \in BOOLEAN /\ a \in {"no", "cached", "read"} /\ (a = "no" <=> s.stale = "no")
    BY DEF Contexts
  <1>4. RefreshAppMode(s, w) = IF s.readFor = w.program THEN s ELSE t
    BY DEF RefreshAppMode
  <1>5. CASE s.readFor = w.program
    BY <1>1, <1>4, <1>5 DEF Refreshed, Learnt
  <1>6. CASE s.readFor # w.program
    <2> HIDE DEF o, x, a
    <2>0. /\ w.program \in Programs \cup {"nobody"} /\ o \in Explicit \cup {"Auto", "unset"}
          /\ x \in BOOLEAN /\ a \in {"no", "cached", "read"}
      BY <1>1, <1>2, <1>3
    <2>1. t \in Contexts
      BY <2>0, ReadTyped
    <2>2. t.readFor = w.program /\ t.override = o /\ t.stale = a
      BY DEF Contexts
    <2>3. Refreshed(t, s)
      BY <1>3 DEF Contexts, Refreshed
    <2> HIDE DEF t
    <2> QED
      BY <1>2, <1>4, <1>6, <2>1, <2>2, <2>3 DEF Learnt
  <1> QED
    BY <1>5, <1>6

---------------------------------------------------------------------------
(* The decision.                                                           *)

\* What effectiveMode() never touches.
Spared(t, s) ==
    /\ t.word = s.word /\ t.used = s.used /\ t.disturbed = s.disturbed
    /\ t.patient = s.patient /\ t.backoff = s.backoff /\ t.young = s.young
    /\ t.failed = s.failed /\ t.invalid = s.invalid

\* What the mode is asked of: the program's choice, or the general one.
Mode(t, w) == IF t.override # "unset" THEN t.override ELSE w.config.mode

\* The mode is the choice, when the context holds what the file says.
LEMMA ModeIsChoice ==
    ASSUME NEW t \in Contexts, NEW w \in Worlds,
           Holds(t.override, w.file[w.program], w)
    PROVE  /\ Choice(w) \notin {"Auto", "Excluded"} => Mode(t, w) = Choice(w)
           /\ Choice(w) = "Auto" /\ w.config.mode = "Auto" => Mode(t, w) = "Auto"
           /\ Choice(w) = "Auto" /\ w.file[w.program] # "Auto" => Mode(t, w) = "Auto"
  <1> DEFINE f == w.file[w.program]
  <1>1. w.config.mode \in Explicit \cup {"Auto"}
        /\ f \in Explicit \cup {"unset", "cleared", "Auto", "Excluded"}
    BY Facts
  <1> HIDE DEF f
  <1>2. Holds(t.override, f, w)
    BY DEF f
  <1>3. Choice(w) = IF f \in {"unset", "cleared"} THEN w.config.mode ELSE f
    BY DEF Choice, f
  <1>4. CASE f = "unset"
    BY <1>1, <1>2, <1>3, <1>4 DEF Holds, Mode, Explicit
  <1>5. CASE f = "cleared"
    BY <1>1, <1>2, <1>3, <1>5 DEF Holds, Mode, Explicit
  <1>6. CASE f = "Auto"
    <2>1. t.override \in {"Auto", w.config.mode} /\ Choice(w) = "Auto"
      BY <1>2, <1>3, <1>6 DEF Holds
    <2>2. w.config.mode = "Auto" => Mode(t, w) = "Auto"
      BY <2>1 DEF Mode
    <2> QED
      BY <1>6, <2>1, <2>2 DEF f
  <1>7. CASE f = "Excluded"
    BY <1>3, <1>7
  <1>8. CASE f \in Explicit
    BY <1>1, <1>2, <1>3, <1>8 DEF Holds, Mode, Explicit
  <1> QED
    BY <1>1, <1>4, <1>5, <1>6, <1>7, <1>8 DEF f

\* A decision in the address bar, an automatic one, and one that the user made.
Taken(t, w) ==
    IF AddressBar(t, w) /\ w.config.bar # "NoVietnamese"
    THEN [Decide(t, IF w.config.bar = "Auto" THEN Injected(w) ELSE w.config.bar)
             EXCEPT !.by = "bar"]
    ELSE IF Mode(t, w) = "Auto" THEN [DetectAuto(t, w) EXCEPT !.by = "auto"]
    ELSE [Decide(t, ModeOf(Mode(t, w), w)) EXCEPT !.by = "user"]

\* Each is sound, and follows the mode that was asked.
LEMMA TakenSound ==
    ASSUME NEW t \in Contexts, NEW w \in Worlds
    PROVE  /\ Taken(t, w) \in Contexts /\ Spared(Taken(t, w), t)
           /\ Taken(t, w).readFor = t.readFor
           /\ Taken(t, w).override = t.override /\ Taken(t, w).stale = t.stale
           /\ Taken(t, w).deadline => t.deadline
           /\ Taken(t, w).sticky => t.sticky \/ Earned(t, w)
           /\ Taken(t, w).by # "bar" /\ Mode(t, w) # "Auto"
              => Taken(t, w).cached = ModeOf(Mode(t, w), w)
           /\ ~AddressBar(t, w) /\ Mode(t, w) = "Auto"
              => Taken(t, w).cached = DetectAuto(t, w).cached
  <1> DEFINE c == Taken(t, w)
  <1>0. /\ w.config.mode \in Explicit \cup {"Auto"}
        /\ w.config.bar \in {"Auto", "SurroundingText", "Preedit", "NoVietnamese"}
    BY Facts
  <1>1. CASE AddressBar(t, w) /\ w.config.bar # "NoVietnamese"
    <2> DEFINE m == IF w.config.bar = "Auto" THEN Injected(w) ELSE w.config.bar
    <2>1. m \in Explicit
      BY <1>0, <1>1 DEF Explicit, Injected
    <2> HIDE DEF m
    <2>2. c = [[t EXCEPT !.cached = m] EXCEPT !.by = "bar"]
      BY <1>1 DEF Decide, m, Taken
    <2> DEFINE q == [t EXCEPT !.cached = m]
    <2>q. q \in Contexts
      BY <2>1 DEF Contexts
    <2>r. c = [q EXCEPT !.by = "bar"]
      BY <2>2
    <2> HIDE DEF q
    <2>3. c \in Contexts /\ c.by = "bar"
      BY <2>r, <2>q DEF Contexts
    <2> USE DEF q
    <2>4. Spared(c, t) /\ c.readFor = t.readFor /\ c.override = t.override
          /\ c.stale = t.stale /\ c.deadline = t.deadline /\ c.sticky = t.sticky
      BY <2>2 DEF Contexts, Spared
    <2> QED
      BY <1>1, <2>3, <2>4
  <1>2. CASE ~(AddressBar(t, w) /\ w.config.bar # "NoVietnamese") /\ Mode(t, w) = "Auto"
    <2> DEFINE d == DetectAuto(t, w)
    <2>1. Sound(d, t, w)
      BY AutoSound
    <2>2. c = [d EXCEPT !.by = "auto"]
      BY <1>2 DEF Taken
    <2> HIDE DEF d
    <2>3. d \in Contexts /\ Kept(d, t)
      BY <2>1 DEF Sound
    <2>4. c \in Contexts /\ c.cached = d.cached
      BY <2>2, <2>3 DEF Contexts
    <2>5. Spared(c, d) /\ c.readFor = d.readFor /\ c.override = d.override
          /\ c.stale = d.stale /\ c.deadline = d.deadline /\ c.sticky = d.sticky
      BY <2>2, <2>3 DEF Contexts, Spared
    <2>6. Spared(c, t) /\ c.readFor = t.readFor /\ c.override = t.override
          /\ c.stale = t.stale
      BY <2>3, <2>5 DEF Spared, Kept
    <2> QED
      BY <1>2, <2>1, <2>4, <2>5, <2>6 DEF Sound, d
  <1>3. CASE ~(AddressBar(t, w) /\ w.config.bar # "NoVietnamese") /\ Mode(t, w) # "Auto"
    <2> DEFINE m == ModeOf(Mode(t, w), w)
    <2>0. Mode(t, w) \in Explicit
      BY <1>0, <1>3 DEF Mode, Contexts
    <2>1. m \in Explicit
      BY <2>0, Modes
    <2> HIDE DEF m
    <2>2. c = [[t EXCEPT !.cached = m] EXCEPT !.by = "user"]
      BY <1>3 DEF Decide, m, Taken
    <2>3. c \in Contexts /\ c.cached = m
      BY <2>1, <2>2 DEF Contexts
    <2>4. Spared(c, t) /\ c.readFor = t.readFor /\ c.override = t.override
          /\ c.stale = t.stale /\ c.deadline = t.deadline /\ c.sticky = t.sticky
      BY <2>2 DEF Contexts, Spared
    <2> QED
      BY <1>3, <2>3, <2>4 DEF m
  <1> QED
    BY <1>1, <1>2, <1>3

Stales == {"no", "cached", "read"}
Answers == {"unknown", "yes", "no"}
Owners == [gen : Nat, program : Programs \cup {"nobody"}, matches : BOOLEAN]

\* What is known of the owner of the focus has its type.
LEMMA OwnerTyped ==
    ASSUME NEW s \in Contexts, NEW w \in Worlds
    PROVE  Owner(s, w) \in Owners
  <1>1. w.program \in Programs \cup {"nobody"} /\ w.focus.gen \in Nat
    BY Facts
  <1>2. s.owner \in Owners
    BY DEF Contexts, Owners
  <1> DEFINE m == w.focus.owner = w.program
  <1>3. [gen |-> w.focus.gen, program |-> w.program, matches |-> m] \in Owners
    BY <1>1 DEF Owners
  <1> QED
    BY <1>2, <1>3 DEF Owner

\* What the evaluation learnt is cached with the decision.
Recorded(c, o, a, h) == [c EXCEPT !.valid = TRUE, !.owner = o, !.stale = a, !.chromium = h]

\* A context stays one then.
LEMMA RecordedTyped ==
    ASSUME NEW c \in Contexts, NEW a \in Stales,
           NEW o \in Owners,
           NEW h \in Answers
    PROVE  LET e == Recorded(c, o, a, h)
           IN  /\ e \in Contexts /\ e.valid /\ e.stale = a /\ e.owner = o
               /\ Spared(e, c) /\ e.readFor = c.readFor /\ e.override = c.override
               /\ e.deadline = c.deadline /\ e.sticky = c.sticky /\ e.by = c.by
               /\ e.cached = c.cached
  <1> DEFINE e == Recorded(c, o, a, h)
  <1>1. e \in Contexts
    BY DEF Recorded, Contexts, Owners, Stales, Answers
  <1>2. e.valid /\ e.stale = a /\ e.owner = o
    BY DEF Recorded, Contexts, Owners, Stales, Answers
  <1>3. /\ Spared(e, c) /\ e.readFor = c.readFor /\ e.override = c.override
        /\ e.deadline = c.deadline /\ e.sticky = c.sticky /\ e.by = c.by
        /\ e.cached = c.cached
    BY DEF Recorded, Contexts, Owners, Stales, Answers, Spared
  <1> QED
    BY <1>1, <1>2, <1>3

\* An evaluation makes a decision that stands and follows the choice.
LEMMA Evaluated ==
    ASSUME NEW s \in Contexts, NEW w \in Worlds, Learnt(s, w)
    PROVE  LET e == Evaluate(s, w)
               t == RefreshAppMode(s, w)
           IN  /\ e \in Contexts /\ e.valid /\ Spared(e, s) /\ e.readFor = w.program
               /\ e.deadline => s.deadline
               /\ e.sticky => s.sticky \/ Earned(s, w)
               /\ Learnt(e, w) /\ Follows(e, w)
               /\ ~AddressBar(t, w) /\ Mode(t, w) = "Auto"
                  => e.cached = DetectAuto(t, w).cached
  <1> DEFINE t == RefreshAppMode(s, w)
             c == Taken(t, w)
             a == IF c.stale = "read" THEN "read" ELSE "no"
             h == IF Chromium(t, w) THEN "yes" ELSE "no"
             o == Owner(t, w)
             e == Recorded(c, o, a, h)
  <1>1. /\ t \in Contexts /\ Refreshed(t, s) /\ t.readFor = w.program
        /\ t.stale # "read" => Holds(t.override, w.file[w.program], w)
    BY Refresh
  <1>2. Evaluate(s, w) = e
    BY DEF Evaluate, Mode, Taken, Recorded
  <1> HIDE DEF t
  <1>3. /\ c \in Contexts /\ Spared(c, t) /\ c.readFor = t.readFor
        /\ c.override = t.override /\ c.stale = t.stale
        /\ c.deadline => t.deadline
        /\ c.sticky => t.sticky \/ Earned(t, w)
        /\ c.by # "bar" /\ Mode(t, w) # "Auto" => c.cached = ModeOf(Mode(t, w), w)
        /\ ~AddressBar(t, w) /\ Mode(t, w) = "Auto"
           => c.cached = DetectAuto(t, w).cached
    BY <1>1, TakenSound
  <1> HIDE DEF c
  <1>4. /\ a \in Stales /\ h \in Answers
        /\ a = IF t.stale = "read" THEN "read" ELSE "no"
        /\ c \in Contexts
    BY <1>3 DEF Stales, Answers
  <1>5. o \in Owners
    BY <1>1, OwnerTyped
  <1> HIDE DEF a, h, o
  <1>6. /\ e \in Contexts /\ e.valid /\ e.stale = a /\ e.owner = o
        /\ Spared(e, c) /\ e.readFor = c.readFor /\ e.override = c.override
        /\ e.deadline = c.deadline /\ e.sticky = c.sticky /\ e.by = c.by
        /\ e.cached = c.cached
    BY <1>4, <1>5, RecordedTyped
  <1> HIDE DEF e
  <1>7. Earned(t, w) => Earned(s, w)
    BY <1>1 DEF Earned, Refreshed, Chromium
  <1>8. Spared(e, s)
    BY <1>1, <1>3, <1>6 DEF Spared, Refreshed
  <1>9. /\ e.deadline => s.deadline
        /\ e.sticky => s.sticky \/ Earned(s, w)
    BY <1>1, <1>3, <1>6, <1>7 DEF Refreshed
  <1>10. Learnt(e, w)
    BY <1>1, <1>3, <1>4, <1>6 DEF Learnt
  <1>11. Follows(e, w)
    <2> SUFFICES ASSUME e.by # "bar", e.stale = "no", Choice(w) \notin {"Auto", "Excluded"}
                 PROVE  e.cached = ModeOf(Choice(w), w)
      BY DEF Follows
    <2>1. t.stale # "read"
      BY <1>4, <1>6
    <2>2. Mode(t, w) = Choice(w)
      BY <1>1, <2>1, ModeIsChoice
    <2> QED
      BY <1>3, <1>6, <2>2
  <1>12. ~AddressBar(t, w) /\ Mode(t, w) = "Auto" => e.cached = DetectAuto(t, w).cached
    BY <1>3, <1>6
  <1> QED
    BY <1>1, <1>2, <1>3, <1>6, <1>8, <1>9, <1>10, <1>11, <1>12 DEF t

\* What the invariant says of a context.
Good(s, w) == Steady(s) /\ Learnt(s, w) /\ Follows(s, w) /\ Timely(s)

\* Asking for the mode leaves a decision that stands alone, and makes one otherwise.
LEMMA Effective ==
    ASSUME NEW s \in Contexts, NEW w \in Worlds,
           Learnt(s, w), Follows(s, w), Timely(s)
    PROVE  LET t == EffectiveMode(s, w)
           IN  /\ t \in Contexts /\ t.valid /\ Spared(t, s)
               /\ t.sticky => s.sticky \/ Earned(s, w)
               /\ Learnt(t, w) /\ Follows(t, w) /\ Timely(t)
               /\ s.valid => t = s
               /\ t.readFor \in {s.readFor, w.program}
               /\ Steady(s) => Steady(t)
  <1> DEFINE t == EffectiveMode(s, w)
  <1>1. CASE s.valid
    <2>1. t = s
      BY <1>1 DEF EffectiveMode
    <2> QED
      BY <1>1, <2>1 DEF Spared
  <1>2. CASE ~s.valid
    <2> DEFINE e == Evaluate(s, w)
    <2>1. t = e
      BY <1>2 DEF EffectiveMode
    <2>2. /\ e \in Contexts /\ e.valid /\ Spared(e, s)
          /\ e.deadline => s.deadline
          /\ e.sticky => s.sticky \/ Earned(s, w)
          /\ Learnt(e, w) /\ Follows(e, w) /\ e.readFor = w.program
      BY Evaluated
    <2> HIDE DEF e, t
    <2>3. Timely(e)
      BY <2>2 DEF Timely, Spared
    <2>4. Steady(s) => Steady(e)
      BY <1>2, <2>2 DEF Steady, Spared
    <2> QED
      BY <1>2, <2>1, <2>2, <2>3, <2>4 DEF t
  <1> QED
    BY <1>1, <1>2

\* A key that begins a word may ask for another decision, and nothing else.
LEMMA ReEvaluated ==
    ASSUME NEW s \in Contexts, NEW w \in Worlds
    PROVE  LET t == ReEvaluate(s, w)
           IN  /\ t \in Contexts
               /\ t.readFor = s.readFor /\ t.override = s.override /\ t.stale = s.stale
               /\ t.cached = s.cached /\ t.by = s.by /\ t.chromium = s.chromium
               /\ t.owner = s.owner /\ t.sticky = s.sticky /\ t.pending = s.pending
               /\ t.deadline = s.deadline /\ t.word = s.word /\ t.used = s.used
               /\ t.disturbed = s.disturbed /\ t.patient = s.patient
               /\ t.valid => s.valid
               /\ s.word > 0 => t = s
  <1> DEFINE b == s.backoff \/ ~s.pending
             r == [s EXCEPT !.valid = FALSE, !.backoff = b]
  <1>1. b \in BOOLEAN
    BY DEF Contexts
  <1> DEFINE q == /\ s.word = 0 /\ Trigger(s, w) /\ ~Stabilizing(s, w)
                  /\ (s.pending \/ ~s.valid \/ ~s.backoff)
  <1>2. ReEvaluate(s, w) = s \/ (ReEvaluate(s, w) = r /\ s.word = 0)
    <2>1. ReEvaluate(s, w) = IF q THEN r ELSE s
      BY Zenon DEF ReEvaluate
    <2> HIDE DEF r
    <2> QED
      BY <2>1
  <1> HIDE DEF b
  <1>3. r \in Contexts
    BY <1>1 DEF Contexts
  <1>4. /\ r.readFor = s.readFor /\ r.override = s.override /\ r.stale = s.stale
        /\ r.cached = s.cached /\ r.by = s.by /\ r.chromium = s.chromium
        /\ r.owner = s.owner /\ r.sticky = s.sticky /\ r.pending = s.pending
        /\ r.deadline = s.deadline /\ r.word = s.word /\ r.used = s.used
        /\ r.disturbed = s.disturbed /\ r.patient = s.patient
        /\ ~r.valid
    BY DEF Contexts
  <1> HIDE DEF r
  <1>5. s.word = 0 => ~(s.word > 0)
    OBVIOUS
  <1> QED
    BY <1>2, <1>3, <1>4, <1>5

\* Looking at the choice and at the focus keeps what is good.
LEMMA Looking ==
    ASSUME NEW s \in Contexts, NEW w \in Worlds, Good(s, w)
    PROVE  LET t == Looks(s, w)
           IN  /\ t \in Contexts /\ Good(t, w) /\ t.readFor = w.program
               /\ t.stale # "read" => Holds(t.override, w.file[w.program], w)
               /\ t.sticky = s.sticky /\ t.patient = s.patient
               /\ t.word = s.word /\ t.used = s.used /\ t.disturbed = s.disturbed
               /\ t.cached = s.cached /\ t.owner = s.owner /\ t.chromium = s.chromium
               /\ t.valid => s.valid
               /\ t.stale = "no" <=> s.stale = "no"
               /\ Earned(t, w) <=> Earned(s, w)
  <1> DEFINE r == RefreshAppMode(s, w)
             t == ReEvaluate(r, w)
  <1>0. Looks(s, w) = t
    BY DEF Looks
  <1>1. /\ r \in Contexts /\ Refreshed(r, s) /\ r.readFor = w.program
        /\ r.stale # "read" => Holds(r.override, w.file[w.program], w)
        /\ Learnt(r, w)
    BY Refresh DEF Good
  <1> HIDE DEF r
  <1>2. /\ t \in Contexts
        /\ t.readFor = r.readFor /\ t.override = r.override /\ t.stale = r.stale
        /\ t.cached = r.cached /\ t.by = r.by /\ t.chromium = r.chromium
        /\ t.owner = r.owner /\ t.sticky = r.sticky /\ t.pending = r.pending
        /\ t.deadline = r.deadline /\ t.word = r.word /\ t.used = r.used
        /\ t.disturbed = r.disturbed /\ t.patient = r.patient
        /\ t.valid => r.valid
        /\ r.word > 0 => t = r
    BY <1>1, ReEvaluated
  <1> HIDE DEF t
  <1>3. Steady(t)
    BY <1>1, <1>2 DEF Good, Steady, Refreshed
  <1>4. Learnt(t, w)
    BY <1>1, <1>2 DEF Learnt
  <1>5. Follows(t, w)
    BY <1>1, <1>2 DEF Good, Follows, Refreshed
  <1>6. Timely(t)
    BY <1>1, <1>2 DEF Good, Timely, Refreshed
  <1>7. Earned(t, w) <=> Earned(s, w)
    BY <1>1, <1>2 DEF Earned, Refreshed, Chromium
  <1> QED
    BY <1>0, <1>1, <1>2, <1>3, <1>4, <1>5, <1>6, <1>7 DEF Good, Refreshed

---------------------------------------------------------------------------
(* Keys.                                                                   *)

\* What a key, or the menu, makes of a context: it stays good, and is written off only
\* for what it earned in this focus.
Served(t, s, w) ==
    /\ t \in Contexts /\ Good(t, w)
    /\ t.sticky => s.sticky \/ Earned(s, w)
    /\ t.patient = s.patient

\* The context as a key finds it, looked at and with a decision.
LEMMA Found ==
    ASSUME NEW s \in Contexts, NEW w \in Worlds, Good(s, w)
    PROVE  LET t == EffectiveMode(Looks(s, w), w)
           IN  /\ Served(t, s, w) /\ t.valid /\ t.readFor = w.program
               /\ t.word = s.word /\ t.used = s.used /\ t.disturbed = s.disturbed
  <1> DEFINE r == Looks(s, w)
             t == EffectiveMode(r, w)
  <1>1. /\ r \in Contexts /\ Good(r, w) /\ r.sticky = s.sticky /\ r.patient = s.patient
        /\ r.word = s.word /\ r.used = s.used /\ r.disturbed = s.disturbed
        /\ r.readFor = w.program
        /\ Earned(r, w) <=> Earned(s, w)
    BY Looking
  <1> HIDE DEF r
  <1>2. /\ t \in Contexts /\ t.valid /\ Spared(t, r)
        /\ t.sticky => r.sticky \/ Earned(r, w)
        /\ Learnt(t, w) /\ Follows(t, w) /\ Timely(t)
        /\ t.readFor \in {r.readFor, w.program}
        /\ Steady(r) => Steady(t)
    BY <1>1, Effective DEF Good
  <1> HIDE DEF t
  <1>3. Good(t, w)
    BY <1>1, <1>2 DEF Good
  <1>4. Served(t, s, w)
    BY <1>1, <1>2, <1>3 DEF Served, Spared
  <1>5. t.word = s.word /\ t.used = s.used /\ t.disturbed = s.disturbed
    BY <1>1, <1>2 DEF Spared
  <1> QED
    BY <1>1, <1>2, <1>4, <1>5 DEF r, t

\* The first letter fixes the mode of its word.
LEMMA Begun ==
    ASSUME NEW t \in Contexts, NEW w \in Worlds, NEW n \in 1..2, Good(t, w), t.valid
    PROVE  LET u == [Begin(t) EXCEPT !.word = n]
           IN  Served(u, t, w) /\ u.sticky = t.sticky
  <1> DEFINE b == Begin(t)
             u == [b EXCEPT !.word = n]
  <1>1. /\ b \in Contexts /\ b.valid /\ b.sticky = t.sticky /\ b.patient = t.patient
        /\ b.cached = t.cached /\ b.readFor = t.readFor /\ b.override = t.override
        /\ b.stale = t.stale /\ b.by = t.by /\ b.deadline = t.deadline
        /\ ~b.disturbed => b.cached = b.used
    <2>1. CASE t.word > 0
      BY <2>1 DEF Begin, Good, Steady
    <2>2. CASE ~(t.word > 0)
      <3>1. b = [t EXCEPT !.used = t.cached, !.disturbed = FALSE]
        BY <2>2 DEF Begin
      <3> DEFINE m == t.cached
      <3>m. m \in Explicit
        BY DEF Contexts
      <3> HIDE DEF m
      <3>n. [t EXCEPT !.used = m, !.disturbed = FALSE] \in Contexts
        BY <3>m DEF Contexts
      <3>2. b \in Contexts
        BY <3>1, <3>n DEF m
      <3>3. /\ b.valid = t.valid /\ b.sticky = t.sticky /\ b.patient = t.patient
            /\ b.cached = t.cached /\ b.readFor = t.readFor /\ b.override = t.override
            /\ b.stale = t.stale /\ b.by = t.by /\ b.deadline = t.deadline
            /\ b.used = t.cached
        BY <3>1 DEF Contexts
      <3> QED
        BY <3>2, <3>3
    <2> QED
      BY <2>1, <2>2
  <1> HIDE DEF b
  <1>2. u \in Contexts
    BY <1>1 DEF Contexts
  <1>3. /\ u.valid = b.valid /\ u.sticky = b.sticky /\ u.patient = b.patient
        /\ u.cached = b.cached /\ u.readFor = b.readFor /\ u.override = b.override
        /\ u.stale = b.stale /\ u.by = b.by /\ u.deadline = b.deadline
        /\ u.disturbed = b.disturbed /\ u.used = b.used
    BY <1>1 DEF Contexts
  <1> HIDE DEF u
  <1>4. Good(u, w)
    <2>1. Steady(u)
      BY <1>1, <1>3 DEF Steady
    <2>2. Learnt(u, w)
      BY <1>1, <1>3 DEF Good, Learnt
    <2>3. Follows(u, w)
      BY <1>1, <1>3 DEF Good, Follows
    <2>4. Timely(u)
      BY <1>1, <1>3 DEF Good, Timely
    <2> QED
      BY <2>1, <2>2, <2>3, <2>4 DEF Good
  <1>5. Served(u, t, w)
    BY <1>1, <1>2, <1>3, <1>4 DEF Served
  <1> QED
    BY <1>1, <1>3, <1>5 DEF u, b

\* A context in which only the decision was dropped, or nothing that matters.
LEMMA Dropped ==
    ASSUME NEW t \in Contexts, NEW u \in Contexts, NEW w \in Worlds, Good(t, w),
           u.readFor = t.readFor, u.override = t.override, u.stale = t.stale,
           u.deadline => t.deadline, u.patient = t.patient,
           u.valid => t.valid /\ u.cached = t.cached /\ u.by = t.by,
           Steady(u)
    PROVE  Good(u, w)
  <1>1. Learnt(u, w)
    BY DEF Good, Learnt
  <1>2. Follows(u, w)
    BY DEF Good, Follows
  <1>3. Timely(u)
    BY DEF Good, Timely
  <1> QED
    BY <1>1, <1>2, <1>3 DEF Good

\* A replacement that failed drops the decision and disturbs its word.
LEMMA Failure ==
    ASSUME NEW u \in Contexts, NEW w \in Worlds, Good(u, w)
    PROVE  Served(NoteFailure(u, w), u, w) /\ NoteFailure(u, w).sticky = u.sticky
  <1> DEFINE c == Chromium(u, w) \/ (Wayland(w) /\ u.invalid = 1)
             i == IF Chromium(u, w) THEN u.invalid ELSE 2
             j == IF Wayland(w) THEN 1 ELSE u.invalid
             x == [u EXCEPT !.failed = TRUE, !.valid = FALSE, !.disturbed = TRUE,
                            !.invalid = i]
             y == [u EXCEPT !.invalid = j]
  <1>1. NoteFailure(u, w) = IF c THEN x ELSE y
    BY DEF NoteFailure
  <1>2. i \in 0..2 /\ j \in 0..2
    BY DEF Contexts
  <1> HIDE DEF c, i, j
  <1>3. x \in Contexts /\ y \in Contexts
    <2> DEFINE x1 == [u EXCEPT !.failed = TRUE]
               x2 == [x1 EXCEPT !.valid = FALSE]
               x3 == [x2 EXCEPT !.disturbed = TRUE]
    <2>1. x1 \in Contexts
      BY DEF Contexts
    <2>2. x2 \in Contexts
      <3> HIDE DEF x1
      <3> QED
        BY <2>1 DEF Contexts
    <2>3. x3 \in Contexts
      <3> HIDE DEF x2
      <3> QED
        BY <2>2 DEF Contexts
    <2>4. [x3 EXCEPT !.invalid = i] \in Contexts
      <3> HIDE DEF x3
      <3> QED
        BY <1>2, <2>3 DEF Contexts
    <2>5. y \in Contexts
      BY <1>2 DEF Contexts
    <2> QED
      BY <2>4, <2>5
  <1>4. /\ x.readFor = u.readFor /\ x.override = u.override /\ x.stale = u.stale
        /\ x.deadline = u.deadline /\ x.patient = u.patient /\ x.sticky = u.sticky
        /\ ~x.valid /\ x.disturbed
    BY DEF Contexts
  <1>5. /\ y.readFor = u.readFor /\ y.override = u.override /\ y.stale = u.stale
        /\ y.deadline = u.deadline /\ y.patient = u.patient /\ y.sticky = u.sticky
        /\ y.valid = u.valid /\ y.cached = u.cached /\ y.by = u.by
        /\ y.word = u.word /\ y.used = u.used /\ y.disturbed = u.disturbed
    BY DEF Contexts
  <1> HIDE DEF x, y
  <1>6. Steady(x) /\ Steady(y)
    BY <1>4, <1>5 DEF Steady, Good
  <1>7. Good(x, w)
    BY <1>3, <1>4, <1>6, Dropped
  <1>8. Good(y, w)
    BY <1>3, <1>5, <1>6, Dropped
  <1> QED
    BY <1>1, <1>3, <1>4, <1>5, <1>7, <1>8 DEF Served

\* A letter.
LEMMA LetterServed ==
    ASSUME IInv, NEW fails \in BOOLEAN, Letter(fails)
    PROVE  Served(ctx', ctx, world) /\ UNCHANGED <<world, changes>>
  <1> DEFINE s == Looks(ctx, world)
             t == EffectiveMode(s, world)
             n == IF t.word < 2 THEN t.word + 1 ELSE 2
             u == [Begin(t) EXCEPT !.word = n]
  <1>1. ctx \in Contexts /\ world \in Worlds /\ Good(ctx, world)
    BY DEF IInv, TypeOK, Good
  <1>2. Served(s, ctx, world)
    BY <1>1, Looking DEF Served
  <1>3. Served(t, ctx, world) /\ t.valid
    BY <1>1, Found
  <1>4. [Begin(t) EXCEPT !.word = IF @ < 2 THEN @ + 1 ELSE 2] = u
    <2>1. Begin(t).word = t.word
      BY <1>3 DEF Begin, Served, Contexts
    <2> QED
      BY <2>1
  <1>5. /\ ctx' \in {s, NoteFailure(u, world), u}
        /\ UNCHANGED <<world, changes>>
    <2>1. /\ ctx' = CASE Passes(s, world) -> s
                      [] ~Passes(s, world) /\ fails -> NoteFailure(u, world)
                      [] OTHER -> u
          /\ UNCHANGED <<world, changes>>
      BY <1>4 DEF Letter
    <2> HIDE DEF s, t, n, u
    <2> QED
      BY <2>1
  <1>6. n \in 1..2
    <2>1. t.word \in 0..2
      BY <1>3 DEF Served, Contexts
    <2> QED
      BY <2>1
  <1> HIDE DEF s, t, n
  <1>7. Served(u, t, world) /\ u.sticky = t.sticky
    BY <1>1, <1>3, <1>6, Begun DEF Served
  <1> HIDE DEF u
  <1>8. /\ Served(NoteFailure(u, world), u, world)
        /\ NoteFailure(u, world).sticky = u.sticky
    BY <1>1, <1>7, Failure DEF Served
  <1> QED
    BY <1>2, <1>3, <1>5, <1>7, <1>8 DEF Served

\* A separator ends the word.
LEMMA SeparatorServed ==
    ASSUME IInv, Separator
    PROVE  Served(ctx', ctx, world) /\ UNCHANGED <<world, changes>>
  <1> DEFINE s == Looks(ctx, world)
             t == EffectiveMode(s, world)
             u == [t EXCEPT !.word = 0]
  <1>1. ctx \in Contexts /\ world \in Worlds /\ Good(ctx, world)
    BY DEF IInv, TypeOK, Good
  <1>2. Served(s, ctx, world)
    BY <1>1, Looking DEF Served
  <1>3. Served(t, ctx, world) /\ t.valid
    BY <1>1, Found
  <1>4. ctx' \in {s, u} /\ UNCHANGED <<world, changes>>
    BY DEF Separator
  <1> HIDE DEF s, t
  <1>5. u \in Contexts
    BY <1>3 DEF Served, Contexts
  <1>6. /\ u.readFor = t.readFor /\ u.override = t.override /\ u.stale = t.stale
        /\ u.deadline = t.deadline /\ u.patient = t.patient /\ u.sticky = t.sticky
        /\ u.valid = t.valid /\ u.cached = t.cached /\ u.by = t.by /\ u.word = 0
    BY <1>3 DEF Served, Contexts
  <1> HIDE DEF u
  <1>7. Steady(u)
    BY <1>6 DEF Steady
  <1>8. Good(u, world)
    BY <1>1, <1>3, <1>5, <1>6, <1>7, Dropped DEF Served
  <1> QED
    BY <1>2, <1>3, <1>4, <1>5, <1>6, <1>8 DEF Served

---------------------------------------------------------------------------
(* The menu, the settings and the facts.                                   *)

\* What every step but an activation does.
Outcome ==
    /\ TypeOK' /\ Good(ctx', world')
    /\ ctx'.sticky => ctx.sticky \/ (Earned(ctx, world) /\ ctx'.patient = ctx.patient)

\* An event is counted.
LEMMA Counted ==
    ASSUME TypeOK, NEW w \in Worlds, Change(w)
    PROVE  changes' \in 0..MaxChanges /\ world' \in Worlds /\ changes' # changes
  BY OutputModeAssumption DEF TypeOK, Change

ChoicesInFile == Explicit \cup {"unset", "cleared", "Auto", "Excluded"}

\* A choice is written to the file.
Written(w, choice) == [w EXCEPT !.file = [@ EXCEPT ![w.program] = choice]]

\* The world with a choice written is one of the worlds.
LEMMA WrittenTyped ==
    ASSUME NEW w \in Worlds, NEW choice \in ChoicesInFile
    PROVE  LET v == Written(w, choice)
           IN  /\ v \in Worlds /\ v.program = w.program /\ v.config = w.config
               /\ v.file[w.program] = choice
  <1> DEFINE f == [w.file EXCEPT ![w.program] = choice]
             v == [w EXCEPT !.file = f]
  <1>1. w.program \in Programs /\ w.file \in [Programs -> ChoicesInFile]
    BY Facts DEF ChoicesInFile
  <1>2. f \in [Programs -> ChoicesInFile] /\ f[w.program] = choice
    BY <1>1
  <1>3. Written(w, choice) = v
    BY DEF Written
  <1> HIDE DEF f
  <1>4. v \in Worlds
    BY <1>2 DEF Worlds, ChoicesInFile
  <1>5. v.program = w.program /\ v.config = w.config /\ v.file = f
    BY DEF Worlds
  <1> QED
    BY <1>2, <1>3, <1>4, <1>5

\* A mode is chosen for the program.
LEMMA Selected ==
    ASSUME IInv, NEW mode \in Choices \ {"Excluded"}, Select(mode)
    PROVE  Outcome
  <1> DEFINE t == Menu
             u == [t EXCEPT !.excluded = FALSE, !.override = mode, !.valid = FALSE]
             v == Written(world, mode)
  <1>1. TypeOK /\ ctx \in Contexts /\ world \in Worlds /\ Good(ctx, world)
    BY DEF IInv, TypeOK, Good
  <1>2. Served(t, ctx, world) /\ t.word = ctx.word /\ t.readFor = world.program
    BY <1>1, Found DEF Menu
  <1>3. ctx.word = 0 /\ Change(v) /\ ctx' = u
    BY DEF Select, Written
  <1>4. mode \in Explicit \cup {"Auto"} /\ mode \in ChoicesInFile
    BY OutputModeAssumption DEF ChoicesInFile
  <1>5. v \in Worlds /\ v.file[world.program] = mode
    BY <1>1, <1>4, WrittenTyped
  <1> HIDE DEF t, v
  <1>6. u \in Contexts
    BY <1>2, <1>4 DEF Served, Contexts
  <1>7. /\ ~u.valid /\ u.word = 0 /\ u.readFor = world.program /\ u.override = mode
        /\ u.deadline = t.deadline /\ u.patient = t.patient /\ u.sticky = t.sticky
    BY <1>2, <1>3, <1>4 DEF Served, Contexts
  <1> HIDE DEF u
  <1>8. Holds(mode, mode, v)
    BY <1>4 DEF Holds, Explicit
  <1>9. Good(u, v)
    BY <1>2, <1>5, <1>7, <1>8 DEF Good, Served, Steady, Learnt, Follows, Timely
  <1>10. TypeOK' /\ world' = v
    BY <1>1, <1>3, <1>5, <1>6, Counted DEF TypeOK, Change
  <1> QED
    BY <1>2, <1>3, <1>7, <1>9, <1>10 DEF Outcome, Served

\* The program is excluded, or no longer.
LEMMA Excluded ==
    ASSUME IInv, Exclude
    PROVE  Outcome
  <1> DEFINE t == Menu
             x == ~t.excluded
             a == IF x THEN t.stale ELSE "read"
             choice == IF x THEN "Excluded" ELSE "cleared"
             u == [t EXCEPT !.excluded = x, !.stale = a]
             v == Written(world, choice)
  <1>1. TypeOK /\ ctx \in Contexts /\ world \in Worlds /\ Good(ctx, world)
    BY DEF IInv, TypeOK, Good
  <1>2. Served(t, ctx, world) /\ t.word = ctx.word /\ t.readFor = world.program
    BY <1>1, Found DEF Menu
  <1>3. ctx.word = 0 /\ Change(v) /\ ctx' = u
    BY DEF Exclude, Written
  <1>4. choice \in ChoicesInFile
    BY DEF ChoicesInFile
  <1>5. v \in Worlds /\ v.file[world.program] = choice /\ v.program = world.program
    BY <1>1, <1>4, WrittenTyped
  <1> HIDE DEF t, v
  <1>6. a \in {"no", "cached", "read"} /\ x \in BOOLEAN
    BY <1>2 DEF Served, Contexts
  <1>7. (x => choice = "Excluded") /\ (~x => a = "read")
    OBVIOUS
  <1> HIDE DEF x, a, choice
  <1>8. u \in Contexts
    BY <1>2, <1>6 DEF Served, Contexts
  <1>9. /\ u.readFor = world.program /\ u.stale = a /\ u.word = 0
        /\ u.deadline = t.deadline /\ u.patient = t.patient /\ u.sticky = t.sticky
    BY <1>2, <1>3 DEF Served, Contexts
  <1> HIDE DEF u
  <1>10. Learnt(u, v)
    BY <1>5, <1>7, <1>9 DEF Learnt, Holds
  <1>11. Follows(u, v)
    BY <1>5, <1>7, <1>9 DEF Follows, Choice
  <1>12. Good(u, v)
    BY <1>2, <1>9, <1>10, <1>11 DEF Good, Served, Steady, Timely
  <1>13. TypeOK' /\ world' = v
    BY <1>1, <1>3, <1>5, <1>8, Counted DEF TypeOK, Change
  <1> QED
    BY <1>2, <1>3, <1>9, <1>12, <1>13 DEF Outcome, Served

\* A mode is chosen for the address bars.
LEMMA BarSelected ==
    ASSUME IInv, NEW bar \in {c.bar : c \in Settings}, SelectBar(bar)
    PROVE  Outcome
  <1> DEFINE t == Menu
             u == [t EXCEPT !.valid = FALSE]
             v == [world EXCEPT !.config.bar = bar]
  <1>1. TypeOK /\ ctx \in Contexts /\ world \in Worlds /\ Good(ctx, world)
    BY DEF IInv, TypeOK, Good
  <1>2. Served(t, ctx, world) /\ t.word = ctx.word
    BY <1>1, Found DEF Menu
  <1>3. ctx.word = 0 /\ Change(v) /\ ctx' = u
    BY DEF SelectBar
  <1>4. bar \in {"Auto", "SurroundingText", "Preedit", "NoVietnamese"}
    BY OutputModeAssumption
  <1>5. v \in Worlds
    BY <1>1, <1>4 DEF Worlds
  <1>6. v.config.mode = world.config.mode /\ v.file = world.file
    BY <1>1 DEF Worlds
  <1> HIDE DEF t, v
  <1>7. u \in Contexts
    BY <1>2 DEF Served, Contexts
  <1>8. /\ ~u.valid /\ u.word = 0 /\ u.readFor = t.readFor /\ u.override = t.override
        /\ u.deadline = t.deadline /\ u.patient = t.patient /\ u.sticky = t.sticky
        /\ u.stale = t.stale
    BY <1>2, <1>3 DEF Served, Contexts
  <1> HIDE DEF u
  <1>9. Learnt(u, v)
    BY <1>2, <1>6, <1>8 DEF Served, Good, Learnt, Holds
  <1>10. Good(u, v)
    BY <1>2, <1>8, <1>9 DEF Good, Served, Steady, Follows, Timely
  <1>11. TypeOK' /\ world' = v
    BY <1>1, <1>3, <1>5, <1>7, Counted DEF TypeOK, Change
  <1> QED
    BY <1>2, <1>3, <1>8, <1>10, <1>11 DEF Outcome, Served

\* What is older than the choice is known to be.
LEMMA OlderTyped ==
    ASSUME NEW s \in Contexts, NEW what \in {"cached", "read"}
    PROVE  LET u == Older(s, what)
           IN  /\ u \in Contexts /\ u.stale # "no"
               /\ u.stale = IF s.stale = "read" THEN "read" ELSE what
               /\ u.readFor = s.readFor /\ u.override = s.override /\ u.valid = s.valid
               /\ u.cached = s.cached /\ u.used = s.used /\ u.word = s.word
               /\ u.disturbed = s.disturbed /\ u.deadline = s.deadline
               /\ u.patient = s.patient /\ u.sticky = s.sticky
  <1> DEFINE a == IF s.stale = "read" THEN "read" ELSE what
             u == [s EXCEPT !.stale = a]
  <1>1. Older(s, what) = u
    BY DEF Older
  <1>2. a \in {"no", "cached", "read"} /\ a # "no"
    OBVIOUS
  <1>a. a = IF s.stale = "read" THEN "read" ELSE what
    OBVIOUS
  <1> HIDE DEF a
  <1>3. u \in Contexts
    BY <1>2 DEF Contexts
  <1>4. /\ u.stale = a
        /\ u.readFor = s.readFor /\ u.override = s.override /\ u.valid = s.valid
        /\ u.cached = s.cached /\ u.used = s.used /\ u.word = s.word
        /\ u.disturbed = s.disturbed /\ u.deadline = s.deadline
        /\ u.patient = s.patient /\ u.sticky = s.sticky
    BY DEF Contexts
  <1> HIDE DEF u
  <1> QED
    BY <1>1, <1>2, <1>a, <1>3, <1>4

\* The settings are read again; a word under way keeps its mode.
LEMMA Reloaded ==
    ASSUME IInv, NEW config \in Settings, NEW choice \in Choices \cup {"unset"},
           Reload(config, choice)
    PROVE  Outcome
  <1> DEFINE v0 == Written(world, choice)
             v == [v0 EXCEPT !.config = config]
             o == Older(ctx, "cached")
             s == IF ctx.word > 0 THEN o ELSE ctx
             b == s.valid /\ s.word > 0
             u == [s EXCEPT !.readFor = "nobody", !.valid = b]
  <1>1. TypeOK /\ ctx \in Contexts /\ world \in Worlds /\ Good(ctx, world)
    BY DEF IInv, TypeOK, Good
  <1>2. choice \in ChoicesInFile
    BY OutputModeAssumption DEF ChoicesInFile
  <1>3. v0 \in Worlds
    BY <1>1, <1>2, WrittenTyped
  <1>4. [world EXCEPT !.config = config,
                      !.file = [@ EXCEPT ![world.program] = choice]] = v
    BY <1>1 DEF Worlds, Written
  <1>5. Change(v) /\ ctx' = Invalidate(s)
    BY <1>4 DEF Reload
  <1>6. config \in [mode : Explicit \cup {"Auto"}, native : BOOLEAN,
                    bar : {"Auto", "SurroundingText", "Preedit", "NoVietnamese"}]
    BY OutputModeAssumption
  <1> HIDE DEF v0
  <1>7. v \in Worlds
    BY <1>3, <1>6 DEF Worlds
  <1> HIDE DEF v
  <1>8. /\ s \in Contexts /\ s.word = ctx.word /\ s.disturbed = ctx.disturbed
        /\ s.valid = ctx.valid /\ s.cached = ctx.cached /\ s.used = ctx.used
        /\ s.deadline = ctx.deadline /\ s.patient = ctx.patient
        /\ s.sticky = ctx.sticky
        /\ ctx.word > 0 => s.stale # "no"
    BY <1>1, OlderTyped
  <1> HIDE DEF s
  <1>9. Invalidate(s) = u
    BY DEF Invalidate
  <1>10. b \in BOOLEAN /\ (b <=> ctx.valid /\ ctx.word > 0)
    BY <1>8
  <1> HIDE DEF b
  <1>11. u \in Contexts
    BY <1>8, <1>10 DEF Contexts
  <1>12. /\ u.readFor = "nobody" /\ u.word = s.word /\ u.disturbed = s.disturbed
         /\ u.valid <=> b
         /\ u.cached = s.cached /\ u.used = s.used /\ u.stale = s.stale
         /\ u.deadline = s.deadline /\ u.patient = s.patient /\ u.sticky = s.sticky
    BY <1>8, <1>10 DEF Contexts
  <1> HIDE DEF u
  <1>13. Steady(u)
    BY <1>1, <1>8, <1>10, <1>12 DEF Good, Steady
  <1>14. Learnt(u, v)
    BY <1>12 DEF Learnt
  <1>15. Follows(u, v)
    BY <1>8, <1>10, <1>12 DEF Follows
  <1>16. Timely(u)
    BY <1>1, <1>8, <1>12 DEF Good, Timely
  <1>17. TypeOK' /\ world' = v
    BY <1>1, <1>5, <1>7, <1>9, <1>11, Counted DEF TypeOK, Change
  <1> QED
    BY <1>5, <1>8, <1>9, <1>12, <1>13, <1>14, <1>15, <1>16, <1>17 DEF Outcome, Good

\* The general mode is chosen from the tray, and the context does not hear of it.
LEMMA TrayUsed ==
    ASSUME IInv, NEW mode \in {c.mode : c \in Settings}, Tray(mode)
    PROVE  Outcome
  <1> DEFINE v == [world EXCEPT !.config.mode = mode]
             a == IF ctx.override = "unset" THEN "cached" ELSE "read"
             u == Older(ctx, a)
  <1>1. TypeOK /\ ctx \in Contexts /\ world \in Worlds /\ Good(ctx, world)
    BY DEF IInv, TypeOK, Good
  <1>2. Change(v) /\ ctx' = u
    BY DEF Tray
  <1>3. mode \in Explicit \cup {"Auto"}
    BY OutputModeAssumption
  <1>4. v \in Worlds
    BY <1>1, <1>3 DEF Worlds
  <1>5. v.file = world.file /\ v.config.mode = mode
    BY <1>1 DEF Worlds
  <1> HIDE DEF v
  <1>6. /\ u \in Contexts /\ u.stale # "no"
        /\ u.stale = IF ctx.stale = "read" THEN "read" ELSE a
        /\ u.readFor = ctx.readFor /\ u.override = ctx.override /\ u.valid = ctx.valid
        /\ u.cached = ctx.cached /\ u.used = ctx.used /\ u.word = ctx.word
        /\ u.disturbed = ctx.disturbed /\ u.deadline = ctx.deadline
        /\ u.patient = ctx.patient /\ u.sticky = ctx.sticky
    BY <1>1, OlderTyped
  <1> HIDE DEF u
  <1>7. Learnt(u, v)
    <2> SUFFICES ASSUME u.readFor # "nobody", u.stale # "read"
                 PROVE  Holds(u.override, v.file[u.readFor], v)
      BY DEF Learnt
    <2>1. ctx.override = "unset" /\ ctx.stale # "read"
      BY <1>6
    <2>2. Holds("unset", world.file[ctx.readFor], world)
      BY <1>1, <1>6, <2>1 DEF Good, Learnt
    <2>3. world.config.mode \in Explicit \cup {"Auto"}
      BY <1>1, Facts
    <2>4. world.file[ctx.readFor] \in {"unset", "Excluded"}
      <3>1. world.file[ctx.readFor] \in ChoicesInFile
        <4>1. ctx.readFor \in Programs
          BY <1>1, <1>6 DEF Contexts
        <4> QED
          BY <1>1, <4>1, Facts DEF ChoicesInFile
      <3> QED
        BY <2>2, <2>3, <3>1 DEF Holds, ChoicesInFile, Explicit
    <2> QED
      BY <1>5, <1>6, <2>1, <2>4 DEF Holds
  <1>8. Good(u, v)
    BY <1>1, <1>6, <1>7 DEF Good, Steady, Follows, Timely
  <1>9. TypeOK' /\ world' = v
    BY <1>1, <1>2, <1>4, <1>6, Counted DEF TypeOK, Change
  <1> QED
    BY <1>2, <1>6, <1>8, <1>9 DEF Outcome

\* The program's name comes or goes.
LEMMA NameChanged ==
    ASSUME IInv, NEW p \in Programs, Named(p)
    PROVE  Outcome
  <1> DEFINE v == [world EXCEPT !.program = p]
             u == Older(ctx, "cached")
  <1>1. TypeOK /\ ctx \in Contexts /\ world \in Worlds /\ Good(ctx, world)
    BY DEF IInv, TypeOK, Good
  <1>2. Change(v) /\ ctx' = u
    BY DEF Named
  <1>3. v \in Worlds
    BY <1>1 DEF Worlds
  <1>4. v.file = world.file /\ v.config = world.config
    BY <1>1 DEF Worlds
  <1> HIDE DEF v
  <1>5. /\ u \in Contexts /\ u.stale # "no"
        /\ u.stale = IF ctx.stale = "read" THEN "read" ELSE "cached"
        /\ u.readFor = ctx.readFor /\ u.override = ctx.override /\ u.valid = ctx.valid
        /\ u.cached = ctx.cached /\ u.used = ctx.used /\ u.word = ctx.word
        /\ u.disturbed = ctx.disturbed /\ u.deadline = ctx.deadline
        /\ u.patient = ctx.patient /\ u.sticky = ctx.sticky
    BY <1>1, OlderTyped
  <1> HIDE DEF u
  <1>6. Learnt(u, v)
    BY <1>1, <1>4, <1>5 DEF Good, Learnt, Holds
  <1>7. Good(u, v)
    BY <1>1, <1>5, <1>6 DEF Good, Steady, Follows, Timely
  <1>8. TypeOK' /\ world' = v
    BY <1>1, <1>2, <1>3, <1>5, Counted DEF TypeOK, Change
  <1> QED
    BY <1>2, <1>5, <1>7, <1>8 DEF Outcome

\* What is good does not depend on the capabilities, the caret or the focus.
LEMMA Unmoved ==
    ASSUME NEW s, NEW w, NEW v, Good(s, w), v.config = w.config, v.file = w.file,
           v.program = w.program, v.platform = w.platform
    PROVE  Good(s, v)
  <1>1. Learnt(s, v)
    BY DEF Good, Learnt, Holds
  <1>2. Follows(s, v)
    BY DEF Good, Follows, Choice, ModeOf, NativeX11, Replaces
  <1> QED
    BY <1>1, <1>2 DEF Good

\* The capabilities and the caret's place change.
LEMMA Reported ==
    ASSUME IInv, NEW caps \in CapSets, NEW caret \in BOOLEAN, Report(caps, caret)
    PROVE  Outcome
  <1> DEFINE v == [world EXCEPT !.caps = caps, !.caret = caret]
  <1>1. TypeOK /\ ctx \in Contexts /\ world \in Worlds /\ Good(ctx, world)
    BY DEF IInv, TypeOK, Good
  <1>2. Change(v) /\ ctx' = ctx
    BY DEF Report
  <1>3. v \in Worlds
    BY <1>1 DEF Worlds
  <1>4. v.file = world.file /\ v.config = world.config /\ v.program = world.program
        /\ v.platform = world.platform
    BY <1>1 DEF Worlds
  <1> HIDE DEF v
  <1>5. Good(ctx, v)
    BY <1>1, <1>4, Unmoved
  <1>6. TypeOK' /\ world' = v
    BY <1>1, <1>2, <1>3, Counted DEF TypeOK, Change
  <1> QED
    BY <1>2, <1>5, <1>6 DEF Outcome

\* An accessible takes the focus.
LEMMA A11yFocused ==
    ASSUME IInv, NEW owner \in Programs \ {"none"}, NEW kind \in Kinds,
           A11yFocus(owner, kind)
    PROVE  Outcome
  <1> DEFINE g == world.focus.gen + 1
             f == [owner |-> owner, kind |-> kind, age |-> 0, gen |-> g]
             v == [world EXCEPT !.focus = f]
  <1>1. TypeOK /\ ctx \in Contexts /\ world \in Worlds /\ Good(ctx, world)
    BY DEF IInv, TypeOK, Good
  <1>2. Change(v) /\ ctx' = ctx
    BY <1>1 DEF A11yFocus, Worlds
  <1>3. g \in Nat
    BY <1>1, Facts
  <1> HIDE DEF g
  <1>4. f \in [owner : Programs \cup {"nobody"}, kind : Kinds \cup {"widget"}, age : 0..2,
               gen : Nat]
    BY <1>3
  <1> HIDE DEF f
  <1>5. v \in Worlds
    BY <1>1, <1>4 DEF Worlds
  <1>6. v.file = world.file /\ v.config = world.config /\ v.program = world.program
        /\ v.platform = world.platform
    BY <1>1 DEF Worlds
  <1> HIDE DEF v
  <1>7. Good(ctx, v)
    BY <1>1, <1>6, Unmoved
  <1>8. TypeOK' /\ world' = v
    BY <1>1, <1>2, <1>5, Counted DEF TypeOK, Change
  <1> QED
    BY <1>2, <1>7, <1>8 DEF Outcome

\* A context stays one when its word is dropped.
LEMMA ResetTyped ==
    ASSUME NEW s \in Contexts, NEW b \in BOOLEAN
    PROVE  [s EXCEPT !.word = 0, !.chromium = "unknown", !.valid = b] \in Contexts
  <1> DEFINE r == [s EXCEPT !.word = 0]
             q == [r EXCEPT !.chromium = "unknown"]
  <1>1. r \in Contexts
    BY DEF Contexts
  <1> HIDE DEF r
  <1>2. q \in Contexts
    BY <1>1 DEF Contexts
  <1> HIDE DEF q
  <1>3. [q EXCEPT !.valid = b] \in Contexts
    BY <1>2 DEF Contexts
  <1> QED
    BY <1>3 DEF q, r

\* The word is gone, and the decision unless the focus is new.
LEMMA ResetDone ==
    ASSUME IInv, Reset
    PROVE  Outcome
  <1> DEFINE b == ctx.valid /\ Preserved(world)
             u == [ctx EXCEPT !.word = 0, !.chromium = "unknown", !.valid = b]
  <1>1. TypeOK /\ ctx \in Contexts /\ world \in Worlds /\ Good(ctx, world)
    BY DEF IInv, TypeOK, Good
  <1>2. Change(world) /\ ctx' = u
    BY DEF Reset
  <1>3. b \in BOOLEAN /\ (b => ctx.valid)
    BY <1>1 DEF Contexts
  <1> HIDE DEF b
  <1>4. u \in Contexts
    BY <1>1, <1>3, ResetTyped
  <1>5. /\ u.word = 0 /\ u.readFor = ctx.readFor /\ u.override = ctx.override
        /\ u.stale = ctx.stale /\ u.cached = ctx.cached /\ u.by = ctx.by
        /\ u.deadline = ctx.deadline /\ u.patient = ctx.patient
        /\ u.sticky = ctx.sticky
        /\ u.valid = b
    BY <1>1 DEF Contexts
  <1>6. u.valid => ctx.valid
    BY <1>3, <1>5
  <1> HIDE DEF u
  <1>7. Steady(u)
    BY <1>5 DEF Steady
  <1>8. Good(u, world)
    BY <1>1, <1>4, <1>5, <1>6, <1>7, Dropped
  <1>9. TypeOK' /\ world' = world
    BY <1>1, <1>2, <1>4, Counted DEF TypeOK, Change
  <1> QED
    BY <1>2, <1>5, <1>8, <1>9 DEF Outcome

\* Time goes by.
LEMMA Waited ==
    ASSUME IInv, NEW time \in {"500ms", "2s", "10s"}, Wait(time)
    PROVE  Outcome
  <1> DEFINE g == IF time = "10s" THEN 2
                  ELSE IF world.focus.age = 0 THEN 1 ELSE world.focus.age
             v == [world EXCEPT !.focus.age = g]
             d == ctx.deadline \/ (time # "500ms" /\ ctx.pending)
             x == ctx.patient \/ time # "500ms"
             b == ctx.backoff /\ time # "10s"
             u == [ctx EXCEPT !.young = FALSE, !.deadline = d, !.patient = x, !.backoff = b]
  <1>1. TypeOK /\ ctx \in Contexts /\ world \in Worlds /\ Good(ctx, world)
    BY DEF IInv, TypeOK, Good
  <1>2. world' = v /\ changes' = changes
    BY <1>1 DEF Wait, Worlds
  <1>3. ctx' = u
    BY DEF Wait
  <1>4. g \in 0..2
    <2>1. world.focus.age \in 0..2
      BY <1>1 DEF Worlds
    <2> QED
      BY <2>1
  <1>5. d \in BOOLEAN /\ x \in BOOLEAN /\ b \in BOOLEAN /\ (d => x)
    BY <1>1 DEF Contexts, Good, Timely
  <1> HIDE DEF g, d, x, b
  <1>6. v \in Worlds
    BY <1>1, <1>4 DEF Worlds
  <1>7. v.file = world.file /\ v.config = world.config /\ v.program = world.program
        /\ v.platform = world.platform
    BY <1>1 DEF Worlds
  <1> HIDE DEF v
  <1>8. u \in Contexts
    BY <1>1, <1>5 DEF Contexts
  <1>9. /\ u.readFor = ctx.readFor /\ u.override = ctx.override /\ u.valid = ctx.valid
        /\ u.stale = ctx.stale /\ u.cached = ctx.cached /\ u.by = ctx.by
        /\ u.used = ctx.used /\ u.word = ctx.word /\ u.disturbed = ctx.disturbed
        /\ u.sticky = ctx.sticky
    BY <1>1 DEF Contexts
  <1>10. u.deadline = d /\ u.patient = x
    BY <1>1 DEF Contexts
  <1> HIDE DEF u
  <1>11. Good(ctx, v)
    BY <1>1, <1>7, Unmoved
  <1>12. Good(u, v)
    BY <1>5, <1>9, <1>10, <1>11 DEF Good, Steady, Learnt, Follows, Timely
  <1>13. TypeOK'
    BY <1>1, <1>2, <1>3, <1>6, <1>8 DEF TypeOK
  <1> QED
    BY <1>2, <1>3, <1>9, <1>12, <1>13 DEF Outcome

---------------------------------------------------------------------------
(* Activation.                                                             *)

\* What is left of a context when it is activated again.
Rest(s, w, kept) ==
    [Invalidate(s)
        EXCEPT !.excluded = w.file[w.program] = "Excluded",
               !.override = Override(w.file[w.program], "Auto", w),
               !.hints = FALSE, !.valid = @ /\ kept, !.backoff = FALSE,
               !.chromium = "unknown", !.young = TRUE, !.patient = FALSE]

\* Its word stays, and its decision if that was kept.
LEMMA Renewed ==
    ASSUME NEW s \in Contexts, NEW w \in Worlds, NEW kept \in BOOLEAN
    PROVE  LET p == Rest(s, w, kept)
           IN  /\ p \in Contexts /\ p.readFor = "nobody" /\ p.word = s.word
               /\ p.valid <=> s.valid /\ s.word > 0 /\ kept
               /\ p.cached = s.cached /\ p.used = s.used /\ p.disturbed = s.disturbed
               /\ p.by = s.by /\ p.stale = s.stale
               /\ p.had = s.had /\ p.hadBy = s.hadBy
  <1> DEFINE b == s.valid /\ s.word > 0
             q == [s EXCEPT !.readFor = "nobody", !.valid = b]
             x == w.file[w.program] = "Excluded"
             o == Override(w.file[w.program], "Auto", w)
             c == q.valid /\ kept
             y0 == [q EXCEPT !.excluded = x]
             y1 == [y0 EXCEPT !.override = o]
             y == [y1 EXCEPT !.hints = FALSE, !.valid = c]
             p1 == [y EXCEPT !.backoff = FALSE]
             p2 == [p1 EXCEPT !.chromium = "unknown"]
             p == [p2 EXCEPT !.young = TRUE, !.patient = FALSE]
  <1>1. b \in BOOLEAN /\ (b <=> s.valid /\ s.word > 0)
    BY DEF Contexts
  <1>2. Invalidate(s) = q
    BY DEF Invalidate
  <1> HIDE DEF b
  <1>3. q \in Contexts
    BY <1>1 DEF Contexts
  <1>4. /\ q.readFor = "nobody" /\ q.word = s.word /\ q.cached = s.cached
        /\ q.used = s.used /\ q.disturbed = s.disturbed /\ q.by = s.by
        /\ q.stale = s.stale /\ q.had = s.had /\ q.hadBy = s.hadBy
        /\ q.valid = b
    BY DEF Contexts
  <1> HIDE DEF q
  <1>5. x \in BOOLEAN /\ c \in BOOLEAN /\ (c <=> b /\ kept)
    BY <1>3, <1>4 DEF Contexts
  <1>6. o \in Explicit \cup {"Auto", "unset"}
    <2>1. w.file[w.program] \in Explicit \cup {"unset", "cleared", "Auto", "Excluded"}
      BY Facts
    <2> QED
      BY <2>1, Reads
  <1>7. Rest(s, w, kept) = p
    <2>1. y1.valid = q.valid
      BY <1>3 DEF Contexts
    <2>2. [y1 EXCEPT !.hints = FALSE].valid = q.valid
      BY <1>3, <2>1 DEF Contexts
    <2> QED
      BY <1>2, <2>2, Zenon DEF Rest
  <1> HIDE DEF x, o, c
  <1>a. y1 \in Contexts
    <2>1. y0 \in Contexts
      BY <1>3, <1>5 DEF Contexts
    <2> HIDE DEF y0
    <2> QED
      BY <1>6, <2>1, SMTT(30) DEF Contexts
  <1>8. y \in Contexts
    <2> HIDE DEF y1
    <2> QED
      BY <1>a, <1>5 DEF Contexts
  <1>9. /\ y.readFor = q.readFor /\ y.word = q.word /\ y.cached = q.cached
        /\ y.used = q.used /\ y.disturbed = q.disturbed /\ y.by = q.by
        /\ y.stale = q.stale /\ y.had = q.had /\ y.hadBy = q.hadBy
        /\ y.valid = c
    BY <1>3 DEF Contexts
  <1> HIDE DEF y
  <1>10. p \in Contexts
    <2>1. p1 \in Contexts
      BY <1>8 DEF Contexts
    <2> HIDE DEF p1
    <2>2. p2 \in Contexts
      BY <2>1 DEF Contexts
    <2> HIDE DEF p2
    <2> QED
      BY <2>2 DEF Contexts
  <1>11. /\ p.readFor = y.readFor /\ p.word = y.word /\ p.cached = y.cached
         /\ p.used = y.used /\ p.disturbed = y.disturbed /\ p.by = y.by
         /\ p.stale = y.stale /\ p.had = y.had /\ p.hadBy = y.hadBy
         /\ p.valid = y.valid
    BY <1>8 DEF Contexts
  <1> HIDE DEF p
  <1> QED
    BY <1>1, <1>4, <1>5, <1>7, <1>9, <1>10, <1>11

\* An activation reads the choice, settles what was put off, and decides.
LEMMA ActivationGood ==
    ASSUME NEW s \in Contexts, NEW w \in Worlds, NEW kept \in BOOLEAN,
           kept => Follows(s, w)
    PROVE  LET t == Activated(s, w, kept)
           IN  /\ t \in Contexts /\ t.valid
               /\ t.word = s.word /\ t.used = s.used /\ t.disturbed = s.disturbed
               /\ Learnt(t, w) /\ Follows(t, w) /\ Timely(t)
               /\ kept /\ s.valid /\ s.word > 0 => t.cached = s.cached
               /\ t.sticky => s.had /\ s.hadBy = w.program
  <1> DEFINE p == Rest(s, w, kept)
             r == SettleDecision(p)
             k == StickyAgain(r, w)
             a == [r EXCEPT !.sticky = k]
             t == EffectiveMode(a, w)
  <1>1. Activated(s, w, kept) = t
    BY DEF Activated, Rest
  <1>2. /\ p \in Contexts /\ p.readFor = "nobody" /\ p.word = s.word
        /\ p.valid <=> s.valid /\ s.word > 0 /\ kept
        /\ p.cached = s.cached /\ p.used = s.used /\ p.disturbed = s.disturbed
        /\ p.by = s.by /\ p.stale = s.stale
        /\ p.had = s.had /\ p.hadBy = s.hadBy
    BY Renewed
  <1> HIDE DEF p
  <1>3. r \in Contexts
    BY <1>2 DEF SettleDecision, Contexts
  <1>4. /\ r.readFor = p.readFor /\ r.word = p.word /\ r.valid = p.valid
        /\ r.cached = p.cached /\ r.used = p.used /\ r.disturbed = p.disturbed
        /\ r.by = p.by /\ r.stale = p.stale /\ r.had = p.had /\ r.hadBy = p.hadBy
        /\ ~r.pending /\ ~r.deadline
    BY <1>2 DEF SettleDecision, Contexts
  <1> HIDE DEF r
  <1>5. k \in BOOLEAN /\ (k => r.had /\ r.hadBy = w.program)
    BY <1>3 DEF StickyAgain, Contexts
  <1> HIDE DEF k
  <1>6. a \in Contexts
    BY <1>3, <1>5 DEF Contexts
  <1>7. /\ a.readFor = r.readFor /\ a.word = r.word /\ a.valid = r.valid
        /\ a.cached = r.cached /\ a.used = r.used /\ a.disturbed = r.disturbed
        /\ a.by = r.by /\ a.stale = r.stale
        /\ a.pending = r.pending /\ a.deadline = r.deadline
        /\ a.sticky = k
    BY <1>3 DEF Contexts
  <1> HIDE DEF a
  <1>8. Learnt(a, w)
    BY <1>2, <1>4, <1>7 DEF Learnt
  <1>9. Follows(a, w)
    BY <1>2, <1>4, <1>7 DEF Follows
  <1>10. Timely(a)
    BY <1>4, <1>7 DEF Timely
  <1>11. ~Earned(a, w)
    BY <1>4, <1>7 DEF Earned
  <1>12. /\ t \in Contexts /\ t.valid /\ Spared(t, a)
         /\ t.sticky => a.sticky \/ Earned(a, w)
         /\ Learnt(t, w) /\ Follows(t, w) /\ Timely(t)
         /\ a.valid => t = a
    BY <1>6, <1>8, <1>9, <1>10, Effective
  <1> HIDE DEF t
  <1>13. t.word = s.word /\ t.used = s.used /\ t.disturbed = s.disturbed
    BY <1>2, <1>4, <1>7, <1>12 DEF Spared
  <1>14. kept /\ s.valid /\ s.word > 0 => t.cached = s.cached
    BY <1>2, <1>4, <1>7, <1>12
  <1>15. t.sticky => s.had /\ s.hadBy = w.program
    BY <1>2, <1>4, <1>5, <1>7, <1>11, <1>12
  <1> QED
    BY <1>1, <1>12, <1>13, <1>14, <1>15

\* What an activation does: a program is written off only as it was before.
Restart ==
    /\ TypeOK' /\ Good(ctx', world')
    /\ ctx'.sticky => ctx.had /\ ctx.hadBy = world'.program

\* A new context is one.
LEMMA BlankTyped == NewContext \in Contexts /\ NewContext.word = 0
  <1>1. /\ "nobody" \in Programs \cup {"nobody"} /\ "unset" \in Explicit \cup {"Auto", "unset"}
        /\ "SurroundingText" \in Explicit /\ 0 \in 0..2 /\ 0 \in Nat
    BY DEF Explicit
  <1>2. [gen |-> 0, program |-> "nobody", matches |-> FALSE] \in Owners
    BY DEF Owners
  <1> QED
    BY <1>1, <1>2 DEF NewContext, Contexts, Owners

\* A new context of an engine that remembers.
Fresh(had, hadBy) == [NewContext EXCEPT !.had = had, !.hadBy = hadBy]

Owned == Programs \cup {"nobody"}

\* It is one.
LEMMA NewTyped ==
    ASSUME NEW had \in BOOLEAN, NEW hadBy \in Owned
    PROVE  LET s == Fresh(had, hadBy)
           IN  s \in Contexts /\ s.word = 0 /\ s.had = had /\ s.hadBy = hadBy
  <1>1. NewContext \in Contexts /\ NewContext.word = 0
    BY BlankTyped
  <1>2. "nobody" \in Owned
    BY DEF Owned
  <1> DEFINE r == [NewContext EXCEPT !.had = had]
             s == [r EXCEPT !.hadBy = hadBy]
  <1>3. Fresh(had, hadBy) = s
    BY DEF Fresh
  <1>4. r \in Contexts /\ r.word = 0 /\ r.had = had
    BY <1>1 DEF Contexts
  <1> HIDE DEF r
  <1>5. s \in Contexts
    BY <1>4 DEF Contexts, Owned
  <1>6. s.word = 0 /\ s.had = had /\ s.hadBy = hadBy
    BY <1>4 DEF Contexts
  <1> QED
    BY <1>3, <1>5, <1>6

\* The word of a context is lost.
LEMMA LostTyped ==
    ASSUME NEW s \in Contexts
    PROVE  LET t == WordLost(s)
           IN  /\ t \in Contexts /\ t.word = 0 /\ t.had = s.had /\ t.hadBy = s.hadBy
               /\ t.valid = s.valid /\ t.by = s.by /\ t.stale = s.stale
               /\ t.cached = s.cached
  <1>1. WordLost(s) \in Contexts
    <2> DEFINE r == [s EXCEPT !.word = 0]
               q == [r EXCEPT !.failed = FALSE]
    <2>1. r \in Contexts
      BY DEF Contexts
    <2> HIDE DEF r
    <2>2. q \in Contexts
      BY <2>1 DEF Contexts
    <2> HIDE DEF q
    <2>3. [q EXCEPT !.invalid = 0] \in Contexts
      BY <2>2 DEF Contexts
    <2> QED
      BY <2>3 DEF WordLost, q, r
  <1> QED
    BY <1>1 DEF WordLost, Contexts

\* A program takes the focus.
LEMMA Focused ==
    ASSUME IInv, NEW p \in Programs, NEW caps \in CapSets, NEW new \in BOOLEAN,
           Focus(p, caps, new)
    PROVE  Restart
  <1> DEFINE w == [world EXCEPT !.program = p, !.caps = caps, !.caret = FALSE]
             n == Fresh(ctx.had, ctx.hadBy)
             l == WordLost(ctx)
             s == IF new THEN n ELSE l
             t == Activated(s, w, FALSE)
  <1>1. TypeOK /\ ctx \in Contexts /\ world \in Worlds
    BY DEF IInv, TypeOK
  <1>2. Change(w) /\ ctx' = t
    BY DEF Focus, Fresh
  <1>3. w \in Worlds
    BY <1>1 DEF Worlds
  <1> HIDE DEF w
  <1>4. ctx.had \in BOOLEAN /\ ctx.hadBy \in Owned
    BY <1>1 DEF Contexts, Owned
  <1>5. n \in Contexts /\ n.word = 0 /\ n.had = ctx.had /\ n.hadBy = ctx.hadBy
    BY <1>4, NewTyped
  <1>6. l \in Contexts /\ l.word = 0 /\ l.had = ctx.had /\ l.hadBy = ctx.hadBy
    BY <1>1, LostTyped
  <1> HIDE DEF n, l
  <1>7. s \in Contexts /\ s.word = 0 /\ s.had = ctx.had /\ s.hadBy = ctx.hadBy
    BY <1>5, <1>6
  <1> HIDE DEF s
  <1>8. /\ t \in Contexts /\ t.word = s.word
        /\ Learnt(t, w) /\ Follows(t, w) /\ Timely(t)
        /\ t.sticky => s.had /\ s.hadBy = w.program
    BY <1>3, <1>7, ActivationGood
  <1> HIDE DEF t
  <1>9. Good(t, w)
    BY <1>7, <1>8 DEF Good, Steady
  <1>10. TypeOK' /\ world' = w
    BY <1>1, <1>2, <1>3, <1>8, Counted DEF TypeOK, Change
  <1> QED
    BY <1>2, <1>7, <1>8, <1>9, <1>10 DEF Restart

\* A Chromium program gives up the focus and takes it again.
LEMMA Churned ==
    ASSUME IInv, Churn
    PROVE  Restart
  <1> DEFINE l == WordLost(ctx)
             s == IF AddressBar(ctx, world) THEN ctx ELSE l
             k == ~Wayland(world)
             t == Activated(s, world, k)
             d == t.disturbed \/ (Wayland(world) /\ t.cached # ctx.cached)
             u == [t EXCEPT !.disturbed = d]
  <1>1. TypeOK /\ ctx \in Contexts /\ world \in Worlds /\ Good(ctx, world)
    BY DEF IInv, TypeOK, Good
  <1>2. Change(world)
    BY DEF Churn
  <1>3. ctx' = u
    BY DEF Churn
  <1>4. /\ l \in Contexts /\ l.word = 0 /\ l.had = ctx.had /\ l.hadBy = ctx.hadBy
        /\ l.valid = ctx.valid /\ l.by = ctx.by /\ l.stale = ctx.stale
        /\ l.cached = ctx.cached
    BY <1>1, LostTyped
  <1> HIDE DEF l
  <1>5. /\ s \in Contexts /\ s.had = ctx.had /\ s.hadBy = ctx.hadBy
        /\ s.valid = ctx.valid /\ s.by = ctx.by /\ s.stale = ctx.stale
        /\ s.cached = ctx.cached /\ (s.word = 0 \/ s = ctx)
    BY <1>1, <1>4
  <1> HIDE DEF s
  <1>6. Follows(s, world)
    BY <1>1, <1>5 DEF Good, Follows
  <1>7. k \in BOOLEAN
    BY DEF Wayland
  <1>8. /\ t \in Contexts /\ t.valid
        /\ t.word = s.word /\ t.used = s.used /\ t.disturbed = s.disturbed
        /\ Learnt(t, world) /\ Follows(t, world) /\ Timely(t)
        /\ k /\ s.valid /\ s.word > 0 => t.cached = s.cached
        /\ t.sticky => s.had /\ s.hadBy = world.program
    BY <1>1, <1>5, <1>6, <1>7, ActivationGood
  <1> HIDE DEF t
  <1>9. /\ d \in BOOLEAN
        /\ ~d => ~t.disturbed /\ (k \/ t.cached = ctx.cached)
    BY <1>8 DEF Contexts
  <1> HIDE DEF k, d
  <1>10. u \in Contexts
    BY <1>8, <1>9 DEF Contexts
  <1>11. /\ u.word = t.word /\ u.used = t.used /\ u.valid = t.valid
         /\ u.cached = t.cached /\ u.readFor = t.readFor /\ u.override = t.override
         /\ u.stale = t.stale /\ u.by = t.by /\ u.deadline = t.deadline
         /\ u.patient = t.patient /\ u.sticky = t.sticky
         /\ u.disturbed = d
    BY <1>8 DEF Contexts
  <1> HIDE DEF u
  <1>12. Steady(u)
    <2> SUFFICES ASSUME u.word > 0, ~u.disturbed PROVE u.cached = u.used
      BY <1>8, <1>11 DEF Steady
    <2>1. s = ctx /\ ctx.word > 0 /\ ~ctx.disturbed
      <3>1. s.word > 0
        BY <1>8, <1>11
      <3>2. s.word # 0
        BY <3>1
      <3> QED
        BY <1>5, <1>8, <1>9, <1>11, <3>1, <3>2
    <2>2. ctx.valid /\ ctx.cached = ctx.used
      BY <1>1, <2>1 DEF Good, Steady
    <2>3. t.cached = ctx.cached
      BY <1>8, <1>9, <1>11, <2>1, <2>2
    <2> QED
      BY <1>8, <1>11, <2>1, <2>2, <2>3
  <1>13. Good(u, world)
    BY <1>8, <1>11, <1>12 DEF Good, Learnt, Follows, Timely
  <1>14. TypeOK' /\ world' = world
    BY <1>1, <1>2, <1>3, <1>10, Counted DEF TypeOK, Change
  <1> QED
    BY <1>3, <1>5, <1>8, <1>11, <1>13, <1>14 DEF Restart

---------------------------------------------------------------------------
(* The invariant.                                                          *)

\* What is good of the context is the invariant.
LEMMA GoodInvariant == TypeOK /\ Good(ctx, world) <=> IInv
  BY DEF IInv, Good

\* It holds when the first program takes the focus.
LEMMA InitIInv == Init => IInv
  <1> SUFFICES ASSUME Init PROVE IInv
    OBVIOUS
  <1>1. PICK p \in Programs, platform \in Platforms, config \in Settings, caps \in CapSets :
          /\ world = [platform |-> platform, program |-> p, caps |-> caps, caret |-> FALSE,
                      focus |-> [owner |-> "nobody", kind |-> "widget", age |-> 2, gen |-> 0],
                      config |-> config, file |-> [q \in Programs |-> "unset"]]
          /\ ctx = Activated(NewContext, world, FALSE)
    BY DEF Init
  <1>2. world \in Worlds
    <2> DEFINE f == [q \in Programs |-> "unset"]
               g == [owner |-> "nobody", kind |-> "widget", age |-> 2, gen |-> 0]
    <2>1. f \in [Programs -> Explicit \cup {"unset", "cleared", "Auto", "Excluded"}]
      OBVIOUS
    <2>2. g \in [owner : Programs \cup {"nobody"}, kind : Kinds \cup {"widget"}, age : 0..2,
                 gen : Nat]
      OBVIOUS
    <2>3. config \in [mode : Explicit \cup {"Auto"}, native : BOOLEAN,
                      bar : {"Auto", "SurroundingText", "Preedit", "NoVietnamese"}]
      BY OutputModeAssumption
    <2>4. world = [platform |-> platform, program |-> p, caps |-> caps, caret |-> FALSE,
                   focus |-> g, config |-> config, file |-> f]
      BY <1>1
    <2> HIDE DEF f, g
    <2> QED
      BY <2>1, <2>2, <2>3, <2>4 DEF Worlds
  <1>3. NewContext \in Contexts /\ NewContext.word = 0
    BY BlankTyped
  <1> DEFINE t == Activated(NewContext, world, FALSE)
  <1>4. /\ t \in Contexts /\ t.word = NewContext.word
        /\ Learnt(t, world) /\ Follows(t, world) /\ Timely(t)
    BY <1>2, <1>3, ActivationGood
  <1>5. ctx = t
    BY <1>1
  <1> HIDE DEF t
  <1>6. Steady(t)
    BY <1>3, <1>4 DEF Steady
  <1>7. changes \in 0..MaxChanges
    BY OutputModeAssumption DEF Init
  <1> QED
    BY <1>2, <1>4, <1>5, <1>6, <1>7 DEF IInv, TypeOK

\* A key is served in a world that stays.
LEMMA ServedOutcome ==
    ASSUME IInv, Served(ctx', ctx, world), UNCHANGED <<world, changes>>
    PROVE  Outcome
  BY DEF IInv, TypeOK, Outcome, Served

\* Every step is an activation or one of the others.
LEMMA Stepped ==
    ASSUME IInv, [Next]_vars
    PROVE  IF Activation THEN Restart ELSE Outcome
  <1>1. CASE Activation
    BY <1>1, Focused, Churned DEF Activation
  <1>2. ASSUME NEW fails \in BOOLEAN, Letter(fails) PROVE Outcome
    BY <1>2, LetterServed, ServedOutcome
  <1>3. ASSUME Separator PROVE Outcome
    BY <1>3, SeparatorServed, ServedOutcome
  <1>4. ASSUME Reset PROVE Outcome
    BY <1>4, ResetDone
  <1>5. ASSUME NEW caps \in CapSets, NEW caret \in BOOLEAN, Report(caps, caret)
        PROVE  Outcome
    BY <1>5, Reported
  <1>6. ASSUME NEW owner \in Programs \ {"none"}, NEW kind \in Kinds,
               A11yFocus(owner, kind)
        PROVE  Outcome
    BY <1>6, A11yFocused
  <1>7. ASSUME NEW p \in Programs, Named(p) PROVE Outcome
    BY <1>7, NameChanged
  <1>8. ASSUME NEW config \in Settings, NEW choice \in Choices \cup {"unset"},
               Reload(config, choice)
        PROVE  Outcome
    BY <1>8, Reloaded
  <1>9. ASSUME NEW mode \in Choices \ {"Excluded"}, Select(mode) PROVE Outcome
    BY <1>9, Selected
  <1>10. ASSUME NEW bar \in {c.bar : c \in Settings}, SelectBar(bar) PROVE Outcome
    BY <1>10, BarSelected
  <1>11. ASSUME Exclude PROVE Outcome
    BY <1>11, Excluded
  <1>12. ASSUME NEW mode \in {c.mode : c \in Settings}, Tray(mode) PROVE Outcome
    BY <1>12, TrayUsed
  <1>13. ASSUME NEW time \in {"500ms", "2s", "10s"}, Wait(time) PROVE Outcome
    BY <1>13, Waited
  <1>14. ASSUME UNCHANGED vars PROVE Outcome
    <2>1. world' = world /\ ctx' = ctx /\ changes' = changes
      BY <1>14 DEF vars
    <2>2. TypeOK /\ Good(ctx, world)
      BY DEF IInv, Good
    <2>3. TypeOK' /\ Good(ctx', world')
      BY <2>1, <2>2 DEF TypeOK
    <2> QED
      BY <2>1, <2>3 DEF Outcome
  <1> QED
    BY <1>1, <1>2, <1>3, <1>4, <1>5, <1>6, <1>7, <1>8, <1>9, <1>10, <1>11, <1>12, <1>13,
       <1>14 DEF Next

\* The invariant is inductive.
THEOREM Invariance == Spec => []IInv
  <1>1. IInv /\ [Next]_vars => IInv'
    BY Stepped DEF Outcome, Restart, IInv, Good
  <1> QED
    BY <1>1, InitIInv, PTL DEF Spec

\* Every variable keeps its type, however the facts, the settings and the focus change.
THEOREM TypeCorrect == Spec => []TypeOK
  BY Invariance, PTL DEF IInv

\* A word is written to its end by the transport of its first letter, which is the one
\* the user chose once the context could learn of the choice.
THEOREM OneTransport == Spec => []WordTransport
  <1>1. IInv => StableInWord
    <2> SUFFICES ASSUME IInv, ctx.word > 0, ~ctx.disturbed PROVE NextLetter.cached = ctx.used
      BY DEF StableInWord
    <2>1. ctx \in Contexts /\ world \in Worlds /\ Good(ctx, world)
      BY DEF IInv, TypeOK, Good
    <2> DEFINE t == EffectiveMode(Looks(ctx, world), world)
    <2>2. /\ Served(t, ctx, world)
          /\ t.word = ctx.word /\ t.used = ctx.used /\ t.disturbed = ctx.disturbed
      BY <2>1, Found
    <2>3. NextLetter = t
      BY DEF NextLetter
    <2> HIDE DEF t
    <2> QED
      BY <2>2, <2>3 DEF Served, Good, Steady
  <1>2. IInv => Chosen
    BY DEF IInv, Steady, Follows, Chosen
  <1> QED
    BY <1>1, <1>2, Invariance, PTL DEF WordTransport

\* A program is written off only for what it showed itself, in this focus or an earlier one.
THEOREM WrittenOff == Spec => StickyEarned
  <1>1. IInv /\ [Next]_vars =>
          [ctx'.sticky /\ ~ctx.sticky =>
             \/ ctx.had /\ ctx.hadBy = world'.program
             \/ ctx'.patient
             \/ ctx.pending /\ ~Activation /\ ~(Chromium(ctx, world) /\ world.caps = "bare")]_vars
    BY Stepped DEF Outcome, Restart, Earned, IInv, Timely
  <1> QED
    BY <1>1, Invariance, PTL DEF Spec, StickyEarned

---------------------------------------------------------------------------
(* Editors that lose surrounding-text requests.                            *)

\* An editor known to lose them is seen.
CellSeen(s, w) ==
    \/ Browser(w) /\ Sees(s, w, 1, {"grid", "sheets"})
    \/ w.program = "electron" /\ Sees(s, w, 2, {"ide-terminal", "ide-code"})
    \/ w.program = "firefox" /\ Sees(s, w, 2, {"docs"})

\* A context with the same answer to whose the focus is sees the same.
LEMMA SeesAlike ==
    ASSUME NEW s, NEW t, NEW w, t.owner = s.owner, t.chromium = s.chromium
    PROVE  /\ \A age, kinds : Sees(t, w, age, kinds) <=> Sees(s, w, age, kinds)
           /\ Chromium(t, w) <=> Chromium(s, w)
           /\ AddressBar(t, w) <=> AddressBar(s, w)
           /\ CellSeen(t, w) <=> CellSeen(s, w)
  <1>1. Owner(t, w) = Owner(s, w)
    BY DEF Owner
  <1>2. \A age, kinds : Sees(t, w, age, kinds) <=> Sees(s, w, age, kinds)
    BY <1>1 DEF Sees, Relevant
  <1>3. Chromium(t, w) <=> Chromium(s, w)
    BY DEF Chromium
  <1>4. AddressBar(t, w) <=> AddressBar(s, w)
    BY <1>2 DEF AddressBar
  <1>5. CellSeen(t, w) <=> CellSeen(s, w)
    BY <1>2 DEF CellSeen
  <1> QED
    BY <1>2, <1>3, <1>4, <1>5

\* What is seen is one kind of accessible.
LEMMA OneKind ==
    ASSUME NEW s, NEW w, NEW age, NEW kinds, Sees(s, w, age, kinds)
    PROVE  /\ w.focus.kind \in kinds
           /\ \A more : w.focus.kind \in more => Sees(s, w, age, more)
  BY DEF Sees

\* A key that sees such an editor asks for a decision, unless the keys are injected.
LEMMA CellTriggers ==
    ASSUME NEW s \in Contexts, NEW w \in Worlds, CellSeen(s, w),
           w.program \in ChromiumApps => Chromium(s, w)
    PROVE  Trigger(s, w) \/ (s.valid /\ Injecting(s))
  <1>1. CASE Browser(w) /\ Sees(s, w, 1, {"grid", "sheets"})
    <2>0. Chromium(s, w)
      BY <1>1 DEF ChromiumApps, Browser
    <2>1. w.focus.kind \in {"grid", "sheets"}
      BY <1>1, OneKind
    <2>2. CASE w.focus.kind = "grid"
      <3>1. Sees(s, w, 1, {"grid"})
        BY <1>1, <2>2 DEF Sees
      <3> QED
        BY <1>1, <2>0, <3>1 DEF Trigger, NonEntryNarrow
    <2>3. CASE w.focus.kind = "sheets"
      <3>1. Sees(s, w, 1, {"editor", "sheets"})
        BY <1>1, <2>3 DEF Sees
      <3> QED
        BY <1>1, <2>0, <3>1 DEF Trigger, FreshEditor
    <2> QED
      BY <2>1, <2>2, <2>3
  <1>2. CASE w.program = "electron" /\ Sees(s, w, 2, {"ide-terminal", "ide-code"})
    <2>1. Chromium(s, w) /\ ~Browser(w)
      BY <1>2 DEF ChromiumApps, Browser, BrowserApps
    <2>2. Sees(s, w, 2, {"ide-terminal"}) \/ Sees(s, w, 2, {"ide-code"})
      BY <1>2 DEF Sees
    <2> QED
      BY <2>1, <2>2 DEF Trigger, IdeTerminal, IdeCode
  <1>3. CASE w.program = "firefox" /\ Sees(s, w, 2, {"docs"})
    BY <1>3 DEF Trigger, GoogleDocs
  <1> QED
    BY <1>1, <1>2, <1>3 DEF CellSeen

\* An automatic decision that sees such an editor injects.
LEMMA CellInjected ==
    ASSUME NEW s \in Contexts, NEW w \in Worlds, CellSeen(s, w),
           w.program \in ChromiumApps => Chromium(s, w)
    PROVE  DetectAuto(s, w) = AutoInject(s, w)
  <1>1. CASE Browser(w) /\ Sees(s, w, 1, {"grid", "sheets"})
    <2>0. Chromium(s, w)
      BY <1>1 DEF ChromiumApps, Browser
    <2>1. w.focus.kind \in {"grid", "sheets"}
      BY <1>1, OneKind
    <2>2. CASE w.focus.kind = "grid"
      <3>1. Sees(s, w, 1, {"grid"}) /\ Sees(s, w, 1, {"widget", "grid"})
        BY <1>1, <2>2 DEF Sees
      <3>2. NonEntry(s, w) /\ ~Flicker(s, w)
        BY <1>1, <2>0, <3>1 DEF NonEntry, Flicker, NonEntryNarrow
      <3> QED
        BY <3>2 DEF DetectAuto
    <2>3. CASE w.focus.kind = "sheets"
      <3>1. Sees(s, w, 1, {"sheets"}) /\ ~Sees(s, w, 1, {"widget", "grid"})
        BY <1>1, <2>3 DEF Sees
      <3>2. ~NonEntry(s, w) /\ OtherEditor(s, w)
        BY <1>1, <3>1 DEF NonEntry, OtherEditor, Sheets
      <3> QED
        BY <3>2 DEF DetectAuto
    <2> QED
      BY <2>1, <2>2, <2>3
  <1>2. CASE w.program = "electron" /\ Sees(s, w, 2, {"ide-terminal", "ide-code"})
    <2>1. Chromium(s, w) /\ ~Browser(w)
      BY <1>2 DEF ChromiumApps, Browser, BrowserApps
    <2>2. Sees(s, w, 2, {"ide-terminal"}) \/ Sees(s, w, 2, {"ide-code"})
      BY <1>2 DEF Sees
    <2>3. ~NonEntry(s, w) /\ OtherEditor(s, w)
      BY <2>1, <2>2 DEF NonEntry, OtherEditor, IdeTerminal, IdeCode
    <2> QED
      BY <2>3 DEF DetectAuto
  <1>3. CASE w.program = "firefox" /\ Sees(s, w, 2, {"docs"})
    <2>1. ~Browser(w)
      BY <1>3 DEF Browser, BrowserApps
    <2>2. ~NonEntry(s, w) /\ OtherEditor(s, w)
      BY <1>3, <2>1 DEF NonEntry, OtherEditor, GoogleDocs
    <2> QED
      BY <2>2 DEF DetectAuto
  <1> QED
    BY <1>1, <1>2, <1>3 DEF CellSeen

\* A word that begins in such an editor is injected, whatever the context held.
THEOREM CellsInjected == Spec => []CellsAreInjected
  <1>1. IInv => CellsAreInjected
    <2> DEFINE w == world
               r == RefreshAppMode(ctx, world)
               s == Looks(ctx, world)
               t == EffectiveMode(s, world)
    <2> SUFFICES ASSUME IInv,
                        ctx.word = 0, ~ctx.backoff, ~Stabilizing(ctx, world),
                        Chromium(ctx, world) = (world.program \in ChromiumApps),
                        ctx.stale = "no", Choice(world) = "Auto", ~AutoLost,
                        ~AddressBar(ctx, world), CellSeen(ctx, world)
                 PROVE  Injecting(t)
      BY DEF CellsAreInjected, CellSeen, NextLetter
    <2>1. ctx \in Contexts /\ world \in Worlds /\ Good(ctx, world)
      BY DEF IInv, TypeOK, Good
    <2>2. /\ r \in Contexts /\ Refreshed(r, ctx) /\ r.readFor = world.program
      BY <2>1, Refresh DEF Good
    <2>3. /\ s \in Contexts /\ Good(s, world) /\ s.readFor = world.program
          /\ s.stale # "read" => Holds(s.override, world.file[world.program], world)
          /\ s.owner = ctx.owner /\ s.chromium = ctx.chromium
          /\ s.cached = ctx.cached /\ s.stale = "no"
      BY <2>1, Looking
    <2>4. s = ReEvaluate(r, world)
      BY DEF Looks
    <2> HIDE DEF r, s
    <2>5. r.owner = ctx.owner /\ r.chromium = ctx.chromium
      BY <2>2 DEF Refreshed
    <2>6. CellSeen(r, world) /\ (Chromium(r, world) <=> Chromium(ctx, world))
      BY <2>5, SeesAlike
    <2>7. CellSeen(s, world) /\ (Chromium(s, world) <=> Chromium(ctx, world))
          /\ ~AddressBar(s, world)
      BY <2>3, SeesAlike
    <2>8. CASE s.valid
      <3>1. t = s
        BY <2>8 DEF EffectiveMode
      <3>2. ~Trigger(r, world)
        <4>1. r.word = 0 /\ ~r.backoff /\ ~Stabilizing(r, world)
          BY <2>2 DEF Refreshed, Stabilizing
        <4>2. ASSUME Trigger(r, world) PROVE FALSE
          <5> DEFINE b == r.backoff \/ ~r.pending
          <5>1. s = [r EXCEPT !.valid = FALSE, !.backoff = b]
            BY <2>4, <4>1, <4>2, Zenon DEF ReEvaluate
          <5> HIDE DEF b
          <5>2. ~s.valid
            BY <2>2, <5>1 DEF Contexts
          <5> QED
            BY <2>8, <5>2
        <4> QED
          BY <4>2
      <3>3. Injecting(r)
        BY <2>2, <2>1, <2>6, <3>2, CellTriggers
      <3>4. s.cached = r.cached
        BY <2>2, <2>3 DEF Refreshed
      <3> QED
        BY <3>1, <3>3, <3>4 DEF Injecting
    <2>9. CASE ~s.valid
      <3>1. t = Evaluate(s, world)
        BY <2>9 DEF EffectiveMode
      <3>2. RefreshAppMode(s, world) = s
        BY <2>3 DEF RefreshAppMode
      <3>3. Mode(s, world) = "Auto"
        BY <2>1, <2>3, ModeIsChoice DEF AutoLost
      <3>4. t.cached = DetectAuto(s, world).cached
        BY <2>1, <2>3, <2>7, <3>1, <3>2, <3>3, Evaluated DEF Good
      <3>5. DetectAuto(s, world) = AutoInject(s, world)
        BY <2>1, <2>3, <2>7, CellInjected
      <3>6. Injecting(AutoInject(s, world))
        BY <2>1, <2>3, Injects
      <3> QED
        BY <3>4, <3>5, <3>6 DEF Injecting
    <2> QED
      BY <2>8, <2>9
  <1> QED
    BY <1>1, Invariance, PTL

============================================================================
