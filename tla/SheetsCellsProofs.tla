------------------------- MODULE SheetsCellsProofs -------------------------
(***************************************************************************)
(* Proofs about SheetsCells and the accessibility monitor it composes.     *)
(***************************************************************************)
EXTENDS SheetsCells, TLAPS, FiniteSetTheorems, WellFoundedInduction

Facts ==
    /\ Nobody \notin Elements /\ Nobody \notin Buses
    /\ BusOf \in [Elements -> Buses] /\ KindOf \in [Elements -> Kinds]
    /\ Drain \in Nat \ {0} /\ MaxChanges \in Nat /\ MaxFaults \in Nat

\* What is assumed of the constants.
LEMMA Constants == Facts
BY FocusAssumption DEF Facts
-----------------------------------------------------------------------------
(***************************************************************************)
(* A batch that is taken holds signals of the queue.                       *)
(***************************************************************************)
\* Every set of naturals with a member has a least one.
LEMMA Least ==
    ASSUME NEW T, T \subseteq Nat, T # {}
    PROVE  \E n \in T : \A m \in T : n <= m
<1> DEFINE R == StrictSubsetOrdering(Nat)
           F == {0..n : n \in T}
<1>1. IsWellFoundedOn(R, FiniteSubsetsOf(Nat))
  BY FS_StrictSubsetOrderingWellFounded
<1>2. F \subseteq FiniteSubsetsOf(Nat) /\ F # {}
  <2>1. \A n \in T : 0 \in Int /\ n \in Int /\ 0..n \in SUBSET Nat
    OBVIOUS
  <2>2. \A n \in T : IsFiniteSet(0..n)
    BY <2>1, FS_Interval
  <2> QED
    BY <2>1, <2>2 DEF FiniteSubsetsOf
<1> HIDE DEF R, F
<1>3. PICK x \in F : \A y \in F : ~(<<y, x>> \in R)
  BY <1>1, <1>2, WFMin
<1>4. PICK n \in T : x = 0..n
  BY <1>3 DEF F
<1>5. ASSUME NEW m \in T PROVE n <= m
  <2> SUFFICES ASSUME m < n PROVE FALSE
    OBVIOUS
  <2>1. 0..m \in F
    BY DEF F
  <2>2. 0..m \subseteq 0..n /\ n \in 0..n /\ n \notin 0..m
    OBVIOUS
  <2>3. 0..m \in SUBSET Nat /\ 0..n \in SUBSET Nat
    OBVIOUS
  <2>4. <<0..m, 0..n>> \in R
    BY <2>2, <2>3 DEF R, StrictSubsetOrdering
  <2> QED
    BY <1>3, <1>4, <2>1, <2>4
<1> QED
  BY <1>5

\* Of a finite set of positive numbers there is an n-th, for each n up to its size.
LEMMA Ranked ==
    ASSUME NEW m \in Nat, NEW K \in SUBSET (1..m), NEW n \in 1..Cardinality(K)
    PROVE  \E i \in K : Cardinality({j \in K : j <= i}) = n
<1> DEFINE Upto(i) == {j \in K : j <= i}
           T == {i \in Nat : Cardinality(Upto(i)) >= n}
<1>a. \A j \in K : j \in Nat /\ 1 <= j /\ j <= m
  OBVIOUS
<1>1. IsFiniteSet(K)
  <2>1. 1 \in Int /\ m \in Int
    OBVIOUS
  <2>2. IsFiniteSet(1..m)
    BY <2>1, FS_Interval
  <2> QED
    BY <2>2, FS_Subset
<1>b. Cardinality(K) \in Nat /\ n \in Nat /\ 1 <= n /\ n <= Cardinality(K)
  BY <1>1, FS_CardinalityType
<1>2. \A i : IsFiniteSet(Upto(i)) /\ Cardinality(Upto(i)) \in Nat
  <2> TAKE i
  <2>1. Upto(i) \in SUBSET K
    OBVIOUS
  <2>2. IsFiniteSet(Upto(i))
    BY <2>1, <1>1, FS_Subset
  <2> QED
    BY <2>2, FS_CardinalityType
<1>3. m \in T
  <2>1. Upto(m) = K
    BY <1>a
  <2>2. Cardinality(Upto(m)) >= n
    BY <2>1, <1>b
  <2> QED
    BY <2>2
<1>4. PICK i \in T : \A k \in T : i <= k
  <2>1. T \subseteq Nat /\ T # {}
    BY <1>3
  <2> HIDE DEF T
  <2> QED
    BY <2>1, Least
<1>5. i \in Nat /\ Cardinality(Upto(i)) >= n
  BY <1>4
<1>6. i # 0
  <2>0. \A j \in K : ~(j <= 0)
    BY <1>a
  <2>1. Upto(0) = {}
    BY <2>0
  <2>2. Cardinality(Upto(0)) = 0
    BY <2>1, FS_EmptySet
  <2> QED
    BY <2>2, <1>5, <1>b
<1>7. Cardinality(Upto(i - 1)) < n
  <2>1. i - 1 \in Nat /\ ~(i <= i - 1)
    BY <1>5, <1>6
  <2>2. i - 1 \notin T
    BY <2>1, <1>4
  <2>3. ~(Cardinality(Upto(i - 1)) >= n)
    BY <2>1, <2>2
  <2>4. Cardinality(Upto(i - 1)) \in Nat
    BY <1>2
  <2> HIDE DEF Upto
  <2> QED
    BY <2>3, <2>4, <1>b
<1>8. CASE i \in K
  <2>1. \A j \in K : j <= i <=> (j <= i - 1 \/ j = i)
    BY <1>5, <1>a
  <2>2. Upto(i) = Upto(i - 1) \cup {i}
    BY <2>1, <1>8
  <2>3. Cardinality(Upto(i)) <= Cardinality(Upto(i - 1)) + 1
    <3> HIDE DEF Upto
    <3>1. Cardinality(Upto(i - 1) \cup {i}) =
            IF i \in Upto(i - 1) THEN Cardinality(Upto(i - 1)) ELSE Cardinality(Upto(i - 1)) + 1
      BY <1>2, FS_AddElement
    <3>2. Cardinality(Upto(i - 1)) \in Nat
      BY <1>2
    <3> QED
      BY <3>1, <3>2, <2>2
  <2>4. Cardinality(Upto(i)) \in Nat /\ Cardinality(Upto(i - 1)) \in Nat
    BY <1>2
  <2>5. Cardinality(Upto(i)) = n
    <3> HIDE DEF Upto
    <3> QED
      BY <2>3, <2>4, <1>5, <1>7, <1>b
  <2> QED
    BY <2>5, <1>8
<1>9. CASE i \notin K
  <2>1. \A j \in K : j <= i <=> j <= i - 1
    BY <1>5, <1>9, <1>a
  <2>2. Upto(i) = Upto(i - 1)
    BY <2>1
  <2>3. Cardinality(Upto(i - 1)) \in Nat
    BY <1>2
  <2> HIDE DEF Upto
  <2> QED
    BY <2>2, <2>3, <1>5, <1>7, <1>b
<1> QED
  BY <1>8, <1>9

\* Coalescing keeps signals of the batch and adds none.
LEMMA CoalescedSignals ==
    ASSUME NEW batch \in Seq(Signals)
    PROVE  Coalesced(batch) \in Seq(Signals)
<1> DEFINE kept == {i \in DOMAIN batch : batch[i].kind # "gain" \/ i = LastGain(batch)}
           nth(n) == CHOOSE i \in kept : Cardinality({j \in kept : j <= i}) = n
<1>1. kept \in SUBSET (1..Len(batch)) /\ Len(batch) \in Nat
  OBVIOUS
<1>2. Cardinality(kept) \in Nat
  <2> HIDE DEF kept
  <2>1. 1 \in Int /\ Len(batch) \in Int
    BY <1>1
  <2>2. IsFiniteSet(1..Len(batch))
    BY <2>1, FS_Interval
  <2>3. IsFiniteSet(kept)
    BY <2>2, <1>1, FS_Subset
  <2> QED
    BY <2>3, FS_CardinalityType
<1>3. ASSUME NEW n \in 1..Cardinality(kept)
      PROVE  batch[nth(n)] \in Signals
  <2> HIDE DEF kept
  <2>1. \E i \in kept : Cardinality({j \in kept : j <= i}) = n
    BY <1>1, Ranked
  <2>2. nth(n) \in kept
    BY <2>1
  <2>3. \A i \in 1..Len(batch) : batch[i] \in Signals
    OBVIOUS
  <2> HIDE DEF nth
  <2> QED
    BY <2>2, <2>3, <1>1
<1>4. Coalesced(batch) = [n \in 1..Cardinality(kept) |-> batch[nth(n)]]
  BY DEF Coalesced
<1> HIDE DEF kept, nth
<1>5. [n \in 1..Cardinality(kept) |-> batch[nth(n)]] \in [1..Cardinality(kept) -> Signals]
  BY <1>3
<1> QED
  BY <1>2, <1>4, <1>5
-----------------------------------------------------------------------------
(***************************************************************************)
(* The monitor.                                                            *)
(***************************************************************************)
\* What clearing the flags does to the published record.
LEMMA FlagsCleared ==
    ASSUME NEW p \in Published
    PROVE  /\ ClearFocusFlags(p) \in Published
           /\ ~ClearFocusFlags(p).fresh /\ ClearFocusFlags(p).flags = Cleared
           /\ ~ClearFocusFlags(p).sheet
           /\ ClearFocusFlags(p).ident = p.ident /\ ClearFocusFlags(p).gen = p.gen
           /\ ClearFocusFlags(p).running = p.running
           /\ ClearFocusFlags(p).polled = p.polled
           /\ ClearFocusFlags(p).stop = p.stop
BY DEF Published, ClearFocusFlags, Cleared, Flags

\* What withdrawing the identity does to it.
LEMMA Withdrawn ==
    ASSUME NEW p \in Published
    PROVE  /\ Invalidated(p) \in Published
           /\ ~Invalidated(p).fresh /\ Invalidated(p).flags = Cleared
           /\ ~Invalidated(p).sheet
           /\ Invalidated(p).ident = Nobody /\ Invalidated(p).gen = p.gen + 1
           /\ Invalidated(p).running = p.running
           /\ Invalidated(p).polled = p.polled
           /\ Invalidated(p).stop = p.stop
<1> DEFINE c == ClearFocusFlags(p)
<1>1. Invalidated(p) = [c EXCEPT !.ident = Nobody, !.gen = @ + 1]
  BY DEF Invalidated
<1>2. /\ c \in Published /\ ~c.fresh /\ c.flags = Cleared /\ ~c.sheet /\ c.gen = p.gen
      /\ c.running = p.running /\ c.polled = p.polled /\ c.stop = p.stop
  BY FlagsCleared
<1>3. c.gen \in Nat /\ c.gen + 1 \in Nat /\ Nobody \in Maybe
  BY <1>2 DEF Published, Maybe
<1>4. [c EXCEPT !.ident = Nobody, !.gen = @ + 1] = [c EXCEPT !.ident = Nobody, !.gen = c.gen + 1]
  BY <1>2 DEF Published
<1>5. Invalidated(p) = [c EXCEPT !.ident = Nobody, !.gen = c.gen + 1]
  BY <1>1, <1>4
<1> HIDE DEF c
<1>6. /\ Invalidated(p) \in Published
      /\ Invalidated(p).ident = Nobody /\ Invalidated(p).gen = c.gen + 1
      /\ Invalidated(p).fresh = c.fresh /\ Invalidated(p).flags = c.flags
      /\ Invalidated(p).sheet = c.sheet /\ Invalidated(p).running = c.running
      /\ Invalidated(p).polled = c.polled /\ Invalidated(p).stop = c.stop
  BY <1>2, <1>3, <1>5 DEF Published
<1> QED
  BY <1>2, <1>6

\* What the beginning of a focus does to it.
LEMMA Begun ==
    ASSUME NEW p \in Published, NEW e \in Elements
    PROVE  /\ BeginFocus(p, e) \in Published
           /\ ~BeginFocus(p, e).fresh /\ BeginFocus(p, e).flags = Cleared
           /\ ~BeginFocus(p, e).sheet
           /\ BeginFocus(p, e).ident = e
           /\ BeginFocus(p, e).gen = IF p.ident = e THEN p.gen ELSE p.gen + 1
           /\ BeginFocus(p, e).running = p.running
<1> DEFINE c == ClearFocusFlags(p)
<1>1. BeginFocus(p, e) = IF c.ident = e THEN c ELSE [c EXCEPT !.ident = e, !.gen = @ + 1]
  BY DEF BeginFocus
<1>2. /\ c \in Published /\ ~c.fresh /\ c.flags = Cleared /\ ~c.sheet /\ c.gen = p.gen
      /\ c.ident = p.ident /\ c.running = p.running
  BY FlagsCleared
<1> HIDE DEF c
<1>3. CASE c.ident = e
  BY <1>1, <1>2, <1>3
<1>4. CASE c.ident # e
  <2>1. c.gen + 1 \in Nat /\ e \in Maybe
    BY <1>2 DEF Published, Maybe
  <2>2. BeginFocus(p, e) = [c EXCEPT !.ident = e, !.gen = c.gen + 1]
    BY <1>1, <1>2, <1>4 DEF Published
  <2>3. /\ BeginFocus(p, e) \in Published
        /\ BeginFocus(p, e).ident = e /\ BeginFocus(p, e).gen = c.gen + 1
        /\ BeginFocus(p, e).fresh = c.fresh /\ BeginFocus(p, e).flags = c.flags
        /\ BeginFocus(p, e).sheet = c.sheet /\ BeginFocus(p, e).running = c.running
    BY <1>2, <2>1, <2>2 DEF Published
  <2> QED
    BY <1>2, <1>4, <2>3
<1> QED
  BY <1>3, <1>4

\* What the monitor's thread, or whoever starts and stops it, may do to what it publishes,
\* in one step: the generation never goes back and tells identities apart, and the flags
\* are kept, cleared, or stored for the generation of the moment.
Republished ==
    /\ pub'.gen >= pub.gen
    /\ pub'.gen = pub.gen => pub'.ident = pub.ident
    /\ pub'.flags \in {pub.flags, Cleared} \/ pub'.flags.gen = pub'.gen

Same == monitor' = monitor /\ known' = known /\ pub' = pub

\* A step of the desktop leaves what the monitor publishes.
LEMMA SameMonitor ==
    ASSUME MonitorInv, desk' \in Desks, Same
    PROVE  MonitorInv' /\ Republished
<1>1. MonitorTypeOK'
  BY DEF MonitorInv, MonitorTypeOK, Same
<1>2. WorkInv' /\ VerdictInv' /\ StoppedInv'
  BY DEF MonitorInv, Same, WorkInv, VerdictInv, StoppedInv
<1>3. pub.gen \in Nat
  BY DEF MonitorInv, MonitorTypeOK, Published
<1> QED
  BY <1>1, <1>2, <1>3 DEF MonitorInv, Republished, Same

\* Sending adds signals to one connection's wire.
LEMMA SendTyped ==
    ASSUME NEW d \in Desks, NEW b \in Buses, NEW signals \in Seq(Signals)
    PROVE  Send(d, b, signals) \in Desks
<1>1. d.wire \in [Buses -> Seq(Signals)]
  BY DEF Desks
<1>2. d.wire[b] \o signals \in Seq(Signals)
  BY <1>1
<1>3. [d.wire EXCEPT ![b] = @ \o signals] \in [Buses -> Seq(Signals)]
  BY <1>1, <1>2
<1>4. Send(d, b, signals) = [d EXCEPT !.wire = [d.wire EXCEPT ![b] = @ \o signals]]
  BY DEF Send, Desks
<1> HIDE DEF Send
<1> QED
  BY <1>3, <1>4 DEF Desks

\* The desktop of a move or an exit, before its signals are sent.
LEMMA ChangeTyped ==
    ASSUME NEW d \in Desks, d.changes < MaxChanges
    PROVE  /\ Change(d) \in Desks /\ Change(d).focus = d.focus
           /\ Change(d).cell = d.cell /\ Change(d).wire = d.wire
           /\ Change(d).alive = d.alive /\ Change(d).apps = d.apps
           /\ Change(d).missed = d.missed /\ Change(d).faults = d.faults
<1>1. d.changes + 1 \in 0..MaxChanges
  BY Constants DEF Desks, Facts
<1>2. Change(d) = [d EXCEPT !.changes = d.changes + 1]
  BY DEF Change, Desks
<1> QED
  BY <1>1, <1>2 DEF Desks

\* A signal is one of the signals.
LEMMA SignalTyped ==
    /\ \A e \in Elements : /\ <<[kind |-> "gain", of |-> e]>> \in Seq(Signals)
                           /\ <<[kind |-> "blur", of |-> e]>> \in Seq(Signals)
                           /\ <<[kind |-> "select", of |-> e]>> \in Seq(Signals)
    /\ \A b \in Buses : <<[kind |-> "gone", of |-> b]>> \in Seq(Signals)
    /\ <<>> \in Seq(Signals)
BY DEF Signals

\* A move of the focus leaves a desktop, and touches nothing of the monitor.
LEMMA MoveFocusTyped ==
    ASSUME MonitorInv, MoveFocus
    PROVE  desk' \in Desks /\ Same
<1>1. PICK e \in Maybe \ {desk.focus} :
        /\ desk.changes < MaxChanges
        /\ desk' \in MovedTo(Change(desk), e)
  BY DEF MoveFocus
<1>2. desk \in Desks
  BY DEF MonitorInv, MonitorTypeOK
<1> DEFINE d == Change(desk)
           old == d.focus
           blur == IF old = Nobody THEN <<>> ELSE <<[kind |-> "blur", of |-> old]>>
           gain == IF e = Nobody THEN <<>> ELSE <<[kind |-> "gain", of |-> e]>>
           moved == [d EXCEPT !.focus = e, !.apps = IF e = Nobody THEN @ ELSE @ \cup {BusOf[e]}]
<1>3. d \in Desks
  BY <1>1, <1>2, ChangeTyped
<1>4. old \in Maybe /\ e \in Maybe
  BY <1>1, <1>3 DEF Desks
<1>5. blur \in Seq(Signals) /\ gain \in Seq(Signals)
  BY <1>4, SignalTyped DEF Maybe
<1>6. moved \in Desks
  <2>1. (IF e = Nobody THEN d.apps ELSE d.apps \cup {BusOf[e]}) \in SUBSET Buses
    BY <1>3, <1>4, Constants DEF Desks, Facts, Maybe
  <2>2. moved = [d EXCEPT !.focus = e,
                          !.apps = IF e = Nobody THEN d.apps ELSE d.apps \cup {BusOf[e]}]
    BY <1>3 DEF Desks
  <2> HIDE DEF d
  <2> QED
    BY <1>3, <1>4, <2>1, <2>2 DEF Desks
<1>7. \A x \in Elements : BusOf[x] \in Buses
  BY Constants DEF Facts
<1>8. MovedTo(d, e) =
        IF old # Nobody /\ e # Nobody /\ BusOf[old] = BusOf[e]
        THEN {Send(moved, BusOf[e], blur \o gain), Send(moved, BusOf[e], gain \o blur)}
        ELSE {IF e = Nobody THEN Send(moved, BusOf[old], blur)
              ELSE IF old = Nobody THEN Send(moved, BusOf[e], gain)
              ELSE Send(Send(moved, BusOf[old], blur), BusOf[e], gain)}
  BY DEF MovedTo
<1>9. e # old
  BY <1>1, <1>2, ChangeTyped
<1> HIDE DEF d, old, blur, gain, moved
<1>10. blur \o gain \in Seq(Signals) /\ gain \o blur \in Seq(Signals)
  BY <1>5
<1>11. CASE e # Nobody /\ old # Nobody
  <2>1. BusOf[old] \in Buses /\ BusOf[e] \in Buses
    BY <1>4, <1>7, <1>11 DEF Maybe
  <2>2. /\ Send(moved, BusOf[e], blur \o gain) \in Desks
        /\ Send(moved, BusOf[e], gain \o blur) \in Desks
    BY <2>1, <1>6, <1>10, SendTyped
  <2>3. Send(moved, BusOf[old], blur) \in Desks
    BY <2>1, <1>5, <1>6, SendTyped
  <2>4. Send(Send(moved, BusOf[old], blur), BusOf[e], gain) \in Desks
    BY <2>1, <2>3, <1>5, SendTyped
  <2> QED
    BY <2>2, <2>4, <1>1, <1>8, <1>11 DEF MoveFocus, Same, d
<1>12. CASE e = Nobody \/ old = Nobody
  <2>1. /\ e = Nobody => Send(moved, BusOf[old], blur) \in Desks
        /\ e # Nobody => Send(moved, BusOf[e], gain) \in Desks
    BY <1>4, <1>5, <1>6, <1>7, <1>9, SendTyped DEF Maybe
  <2> QED
    BY <2>1, <1>1, <1>8, <1>12 DEF MoveFocus, Same, d
<1> QED
  BY <1>11, <1>12

\* So do a click on another cell, an exit and the delivery of a signal, except that a
\* delivered signal joins the queue of a monitor that listens.
LEMMA DesktopSteps ==
    ASSUME MonitorInv
    PROVE  /\ MoveCell => desk' \in Desks /\ Same
           /\ \A b \in Buses : Quit(b) => desk' \in Desks /\ Same
           /\ \A b \in Buses : Deliver(b) =>
                /\ desk' \in Desks /\ known' = known /\ pub' = pub
                /\ \E q \in Seq(Signals) : monitor' = [monitor EXCEPT !.queue = q]
<1>1. desk \in Desks /\ monitor \in Threads
  BY DEF MonitorInv, MonitorTypeOK
<1>2. ASSUME MoveCell PROVE desk' \in Desks /\ Same
  <2>1. PICK c \in Cells :
          desk' = Send([Change(desk) EXCEPT !.cell[desk.focus] = c], BusOf[desk.focus],
                       <<[kind |-> "select", of |-> desk.focus]>>)
    BY <1>2 DEF MoveCell
  <2>2. desk.changes < MaxChanges /\ desk.focus \in Sheets
    BY <1>2 DEF MoveCell
  <2> DEFINE d == Change(desk)
             clicked == [d EXCEPT !.cell[desk.focus] = c]
  <2>3. d \in Desks
    BY <1>1, <2>2, ChangeTyped
  <2> HIDE DEF d
  <2>4. clicked \in Desks
    <3>1. [d.cell EXCEPT ![desk.focus] = c] \in [Sheets -> Cells]
      BY <2>1, <2>2, <2>3 DEF Desks
    <3>2. clicked = [d EXCEPT !.cell = [d.cell EXCEPT ![desk.focus] = c]]
      BY <2>3 DEF Desks
    <3> HIDE DEF clicked
    <3> QED
      BY <2>3, <3>1, <3>2 DEF Desks
  <2>5. desk.focus \in Elements /\ BusOf[desk.focus] \in Buses
    BY <2>2, Constants DEF Sheets, Facts
  <2>6. desk' = Send(clicked, BusOf[desk.focus], <<[kind |-> "select", of |-> desk.focus]>>)
    BY <2>1 DEF d
  <2> HIDE DEF clicked
  <2>7. <<[kind |-> "select", of |-> desk.focus]>> \in Seq(Signals)
    BY <2>5, SignalTyped
  <2>8. desk' \in Desks
    BY <2>4, <2>5, <2>6, <2>7, SendTyped
  <2> QED
    BY <2>8, <1>2 DEF MoveCell, Same
<1>3. ASSUME NEW b \in Buses, Quit(b) PROVE desk' \in Desks /\ Same
  <2>1. desk.changes < MaxChanges
    BY <1>3 DEF Quit
  <2> DEFINE d == Change(desk)
             left == IF d.focus # Nobody /\ BusOf[d.focus] = b THEN Nobody ELSE d.focus
             empty == [d EXCEPT !.alive = @ \ {b}, !.focus = left]
  <2>2. d \in Desks
    BY <1>1, <2>1, ChangeTyped
  <2>3. desk' = Send(empty, b, <<[kind |-> "gone", of |-> b]>>)
    BY <1>3, <2>2 DEF Quit, Desks
  <2> HIDE DEF d
  <2>4. empty \in Desks
    <3>1. left \in Maybe
      BY <2>2 DEF Desks, Maybe
    <3> HIDE DEF left
    <3> QED
      BY <2>2, <3>1 DEF Desks
  <2> HIDE DEF empty
  <2>5. <<[kind |-> "gone", of |-> b]>> \in Seq(Signals)
    BY SignalTyped
  <2>6. desk' \in Desks
    BY <2>3, <2>4, <2>5, SendTyped
  <2> QED
    BY <2>6, <1>3 DEF Quit, Same
<1>4. ASSUME NEW b \in Buses, Deliver(b)
      PROVE  /\ desk' \in Desks /\ known' = known /\ pub' = pub
             /\ \E q \in Seq(Signals) : monitor' = [monitor EXCEPT !.queue = q]
  <2> DEFINE deaf == monitor.at \in {"off", "connect", "leaving"}
  <2>1. /\ desk' = [desk EXCEPT !.wire[b] = Tail(@), !.missed = @ \/ deaf]
        /\ monitor' = IF deaf THEN monitor
                      ELSE [monitor EXCEPT !.queue = Append(@, Head(desk.wire[b]))]
        /\ desk.wire[b] # <<>> /\ known' = known /\ pub' = pub
    BY <1>4 DEF Deliver
  <2>2. /\ desk.wire[b] \in Seq(Signals) /\ Tail(desk.wire[b]) \in Seq(Signals)
        /\ Head(desk.wire[b]) \in Signals
    BY <1>1, <2>1 DEF Desks
  <2>3. [desk.wire EXCEPT ![b] = Tail(@)] \in [Buses -> Seq(Signals)]
    BY <1>1, <2>2 DEF Desks
  <2>4. (desk.missed \/ deaf) \in BOOLEAN
    OBVIOUS
  <2>5. desk' = [desk EXCEPT !.wire = [desk.wire EXCEPT ![b] = Tail(@)],
                             !.missed = desk.missed \/ deaf]
    BY <1>1, <2>1 DEF Desks
  <2> HIDE DEF deaf
  <2>6. desk' \in Desks
    BY <1>1, <2>3, <2>4, <2>5 DEF Desks
  <2>7. monitor.queue \in Seq(Signals) /\ Append(monitor.queue, Head(desk.wire[b])) \in Seq(Signals)
    BY <1>1, <2>2 DEF Threads
  <2>8. monitor = [monitor EXCEPT !.queue = monitor.queue]
    BY <1>1 DEF Threads
  <2>9. \E q \in Seq(Signals) : monitor' = [monitor EXCEPT !.queue = q]
    BY <2>1, <2>7, <2>8
  <2> QED
    BY <2>1, <2>6, <2>9
<1> QED
  BY <1>2, <1>3, <1>4

\* A delivered signal leaves the monitor's invariant.
LEMMA DeliverStep ==
    ASSUME MonitorInv, NEW b \in Buses, Deliver(b)
    PROVE  MonitorInv' /\ Republished
<1>1. /\ desk' \in Desks /\ known' = known /\ pub' = pub
      /\ \E q \in Seq(Signals) : monitor' = [monitor EXCEPT !.queue = q]
  BY DesktopSteps
<1>2. /\ monitor' \in Threads
      /\ monitor'.at = monitor.at /\ monitor'.target = monitor.target
  BY <1>1 DEF MonitorInv, MonitorTypeOK, Threads
<1>3. MonitorTypeOK'
  BY <1>1, <1>2 DEF MonitorInv, MonitorTypeOK
<1>4. WorkInv' /\ VerdictInv' /\ StoppedInv'
  BY <1>1, <1>2 DEF MonitorInv, WorkInv, VerdictInv, StoppedInv
<1>5. pub.gen \in Nat
  BY DEF MonitorInv, MonitorTypeOK, Published
<1> QED
  BY <1>1, <1>3, <1>4, <1>5 DEF MonitorInv, Republished

\* What is known of the records, unfolded.
LEMMA Fields ==
    ASSUME MonitorInv
    PROVE  /\ desk \in Desks /\ monitor \in Threads /\ known \in Caches /\ pub \in Published
           /\ pub.gen \in Nat /\ pub.ident \in Maybe /\ pub.polled \in Maybe
           /\ pub.flags \in Flags /\ pub.flags.gen \in Nat
           /\ monitor.queue \in Seq(Signals) /\ monitor.batch \in Seq(Signals)
           /\ Cleared \in Flags /\ Cleared.gen = 0
BY DEF MonitorInv, MonitorTypeOK, Threads, Published, Flags, Cleared

\* The head of a batch, and the batch without it.
LEMMA HeadTyped ==
    ASSUME MonitorInv, NEW kind, Signal(kind)
    PROVE  /\ monitor.at = "batch" /\ Tail(monitor.batch) \in Seq(Signals)
           /\ Head(monitor.batch).kind = kind
           /\ kind \in {"gain", "blur", "select"} => Head(monitor.batch).of \in Elements
<1>1. monitor.batch \in Seq(Signals) /\ monitor.batch # <<>>
  BY Fields DEF Signal
<1>2. Head(monitor.batch) \in Signals /\ Tail(monitor.batch) \in Seq(Signals)
  BY <1>1
<1> QED
  BY <1>2 DEF Signal, Signals

\* A message that is done with leaves the thread in its loop.
LEMMA HandledTyped ==
    ASSUME NEW m \in Threads
    PROVE  /\ Handled(m) \in Threads /\ Handled(m).at \in {"poll", "batch"}
           /\ Handled(m).target = m.target
BY DEF Handled, Threads

\* In the loop, only what is published matters.
LEMMA InTheLoop ==
    ASSUME MonitorInv, monitor.at \in {"poll", "batch"}, monitor'.at \in {"poll", "batch"},
           desk' \in Desks, monitor' \in Threads, known' \in Caches, pub' \in Published,
           pub'.running = pub.running,
           pub'.fresh => pub'.flags.gen = pub'.gen /\ pub'.polled \in {pub'.ident, Nobody},
           pub'.sheet => pub'.editor \in Sheets
    PROVE  MonitorInv'
<1>1. MonitorTypeOK'
  BY DEF MonitorTypeOK
<1>2. WorkInv' /\ VerdictInv'
  BY DEF WorkInv, VerdictInv
<1>3. StoppedInv'
  BY DEF MonitorInv, StoppedInv, MonitorTypeOK, Published
<1> QED
  BY <1>1, <1>2, <1>3 DEF MonitorInv

\* The signals of a batch that are not gains.
LEMMA SignalSteps ==
    ASSUME MonitorInv, Take \/ Blur \/ Select \/ Gone
    PROVE  MonitorInv' /\ Republished
<1>1. CASE Take
  <2> DEFINE n == IF Len(monitor.queue) < Drain THEN Len(monitor.queue) ELSE Drain
             q == monitor.queue
  <2>1. q \in Seq(Signals) /\ n \in Nat /\ n <= Len(q) /\ Len(q) \in Nat
    BY Fields, Constants DEF Facts
  <2>2. monitor' = [monitor EXCEPT !.at = "batch", !.batch = Coalesced(SubSeq(q, 1, n)),
                                   !.queue = SubSeq(q, n + 1, Len(q))]
    BY <1>1 DEF Take
  <2> HIDE DEF n, q
  <2>3. SubSeq(q, 1, n) \in Seq(Signals) /\ SubSeq(q, n + 1, Len(q)) \in Seq(Signals)
    BY <2>1
  <2>4. Coalesced(SubSeq(q, 1, n)) \in Seq(Signals)
    BY <2>3, CoalescedSignals
  <2>5. monitor' \in Threads /\ monitor'.at = "batch"
    BY <2>2, <2>3, <2>4, Fields DEF Threads
  <2>6. desk' = desk /\ known' = known /\ pub' = pub /\ monitor.at = "poll"
    BY <1>1 DEF Take
  <2>7. MonitorInv'
    BY <2>5, <2>6, Fields, InTheLoop DEF MonitorInv, VerdictInv
  <2> QED
    BY <2>6, <2>7, Fields DEF Republished
<1>2. CASE Blur
  <2> DEFINE e == Head(monitor.batch).of
             p == InvalidateFocus(pub, {e})
             m == [monitor EXCEPT !.batch = Tail(@)]
  <2>1. e \in Elements /\ monitor.at = "batch" /\ Tail(monitor.batch) \in Seq(Signals)
    BY <1>2, HeadTyped DEF Blur
  <2>2. m \in Threads
    BY <2>1, Fields DEF Threads
  <2>3. /\ pub' = [p EXCEPT !.polled = IF @ = e THEN Nobody ELSE @]
        /\ monitor' = Handled(m) /\ desk' = desk /\ known' = known
    BY <1>2 DEF Blur, Blurred
  <2>4. p = IF pub.ident = e THEN Invalidated(pub) ELSE pub
    BY DEF InvalidateFocus
  <2>5. p \in Published /\ p.running = pub.running
        /\ (p.fresh => p.flags.gen = p.gen /\ p.polled \in {p.ident, Nobody})
        /\ (p.sheet => p.editor \in Sheets)
        /\ p.gen >= pub.gen /\ (p.gen = pub.gen => p.ident = pub.ident)
        /\ p.flags \in {pub.flags, Cleared}
    BY <2>4, Fields, Withdrawn DEF MonitorInv, VerdictInv
  <2> HIDE DEF p, m, e
  <2>6. /\ pub' \in Published /\ pub'.running = p.running /\ pub'.fresh = p.fresh
        /\ pub'.flags = p.flags /\ pub'.gen = p.gen /\ pub'.ident = p.ident
        /\ pub'.sheet = p.sheet /\ pub'.editor = p.editor
        /\ pub'.polled \in {p.polled, Nobody}
    BY <2>3, <2>5 DEF Published, Maybe
  <2>7. MonitorInv'
    BY <2>1, <2>2, <2>3, <2>5, <2>6, Fields, HandledTyped, InTheLoop
  <2> QED
    BY <2>5, <2>6, <2>7 DEF Republished
<1>3. CASE Select
  <2> DEFINE m == [monitor EXCEPT !.batch = Tail(@)]
  <2>1. monitor.at = "batch" /\ Tail(monitor.batch) \in Seq(Signals)
    BY <1>3, HeadTyped DEF Select
  <2>2. m \in Threads
    BY <2>1, Fields DEF Threads
  <2>3. /\ pub' \in {pub, [pub EXCEPT !.serial = @ + 1]}
        /\ monitor' = Handled(m) /\ desk' = desk /\ known' = known
    BY <1>3 DEF Select
  <2>4. /\ pub' \in Published /\ pub'.running = pub.running /\ pub'.fresh = pub.fresh
        /\ pub'.flags = pub.flags /\ pub'.gen = pub.gen /\ pub'.ident = pub.ident
        /\ pub'.sheet = pub.sheet /\ pub'.editor = pub.editor
        /\ pub'.polled = pub.polled
    BY <2>3, Fields DEF Published
  <2> HIDE DEF m
  <2>5. MonitorInv'
    BY <2>1, <2>2, <2>3, <2>4, Fields, HandledTyped, InTheLoop DEF MonitorInv, VerdictInv
  <2> QED
    BY <2>4, <2>5, Fields DEF Republished
<1>4. CASE Gone
  <2> DEFINE b == Head(monitor.batch).of
             its == {e \in Elements : BusOf[e] = b}
             m == [monitor EXCEPT !.batch = Tail(@)]
  <2>1. monitor.at = "batch" /\ Tail(monitor.batch) \in Seq(Signals)
    BY <1>4, HeadTyped DEF Gone
  <2>2. m \in Threads
    BY <2>1, Fields DEF Threads
  <2>3. /\ pub' = InvalidateFocus(pub, its) /\ monitor' = Handled(m) /\ desk' = desk
        /\ known' = [known EXCEPT !.pid = @ \ {b}, !.native = @ \ {b}, !.asked = @ \ {b}]
    BY <1>4 DEF Gone
  <2> HIDE DEF b, its, m
  <2>4. known' \in Caches
    BY <2>3, Fields DEF Caches
  <2>5. pub' = IF pub.ident \in its THEN Invalidated(pub) ELSE pub
    BY <2>3 DEF InvalidateFocus
  <2>6. pub' \in Published /\ pub'.running = pub.running
        /\ (pub'.fresh => pub'.flags.gen = pub'.gen /\ pub'.polled \in {pub'.ident, Nobody})
        /\ (pub'.sheet => pub'.editor \in Sheets)
        /\ pub'.gen >= pub.gen /\ (pub'.gen = pub.gen => pub'.ident = pub.ident)
        /\ pub'.flags \in {pub.flags, Cleared}
    BY <2>5, Fields, Withdrawn DEF MonitorInv, VerdictInv
  <2>7. MonitorInv'
    BY <2>1, <2>2, <2>3, <2>4, <2>6, Fields, HandledTyped, InTheLoop
  <2> QED
    BY <2>6, <2>7 DEF Republished
<1> QED
  BY <1>1, <1>2, <1>3, <1>4

\* The stages of a gain.
LEMMA BeginStep ==
    ASSUME MonitorInv, Begin
    PROVE  MonitorInv' /\ Republished
<1> DEFINE e == Head(monitor.batch).of
           p == BeginFocus(pub, e)
<1>1. e \in Elements /\ monitor.at = "batch" /\ Tail(monitor.batch) \in Seq(Signals)
  BY HeadTyped DEF Begin
<1>2. /\ monitor' = [monitor EXCEPT !.batch = Tail(@), !.target = e, !.at = "queries"]
      /\ pub' = [p EXCEPT !.polled = Nobody] /\ desk' = desk /\ known' = known
  BY DEF Begin
<1>3. /\ p \in Published /\ ~p.fresh /\ p.flags = Cleared /\ ~p.sheet
      /\ p.ident = e /\ p.running = pub.running
      /\ p.gen = IF pub.ident = e THEN pub.gen ELSE pub.gen + 1
  BY <1>1, Fields, Begun
<1> HIDE DEF p, e
<1>4. /\ pub' \in Published /\ ~pub'.fresh /\ pub'.flags = Cleared /\ ~pub'.sheet
      /\ pub'.ident = e /\ pub'.running = pub.running /\ pub'.polled = Nobody
      /\ pub'.gen = p.gen
  BY <1>2, <1>3 DEF Published, Maybe
<1>5. monitor' \in Threads /\ monitor'.at = "queries" /\ monitor'.target = e
  BY <1>1, <1>2, Fields DEF Threads, Maybe
<1>6. MonitorTypeOK'
  BY <1>2, <1>4, <1>5, Fields DEF MonitorTypeOK
<1>7. WorkInv' /\ VerdictInv'
  BY <1>1, <1>4, <1>5 DEF WorkInv, VerdictInv
<1>8. StoppedInv'
  BY <1>1, <1>4, <1>5 DEF MonitorInv, StoppedInv
<1> QED
  BY <1>3, <1>4, <1>6, <1>7, <1>8, Fields DEF MonitorInv, Republished

\* There are five queries, so that all of them is not one of them.
LEMMA FiveQueries == Cardinality(Queries) # 1
<1>1. IsFiniteSet(Queries)
  <2>1. /\ IsFiniteSet({})
        /\ Queries = (((({} \cup {"role"}) \cup {"pid"}) \cup {"walk"}) \cup {"id"}) \cup {"box"}
    BY FS_EmptySet DEF Queries
  <2> QED
    BY <2>1, FS_AddElement
<1>2. SUFFICES ASSUME \E x : Queries = {x} PROVE FALSE
  BY <1>1, FS_Singleton
<1> QED
  BY <1>2 DEF Queries

\* The questions, of which any or all may go without an answer.
LEMMA AskStep ==
    ASSUME MonitorInv, Ask
    PROVE  MonitorInv' /\ Republished
<1> DEFINE e == monitor.target
           b == BusOf[e]
<1>1. /\ monitor.at = "queries" /\ e \in Elements /\ pub.ident = e /\ ~pub.fresh
      /\ pub.polled = Nobody
  BY DEF Ask, MonitorInv, WorkInv
<1>2. PICK failed \in Failures(b) :
        /\ monitor' = [monitor EXCEPT !.failed = failed, !.at = "flags"]
        /\ desk' = [desk EXCEPT !.faults = IF Cardinality(failed) = 1 THEN @ + 1 ELSE @]
        /\ known' = [known EXCEPT
            !.pid = IF PidKnown(e, failed) THEN @ \cup {b} ELSE @,
            !.asked = @ \cup {b},
            !.native = IF SkipsWalk(e, failed) THEN @ \cup {b} ELSE @,
            !.boxes = IF NameBox(e, failed) THEN @ \cup {e} ELSE @]
        /\ pub' = [pub EXCEPT
            !.sheet = SheetsEditor(e, failed),
            !.editor = IF SheetsEditor(e, failed) THEN e ELSE Nobody,
            !.box = NameBox(e, failed),
            !.container = IF InDocument(e, failed) /\ KindOf[e] \in Grids
                             /\ "role" \notin failed
                          THEN e ELSE Nobody]
  BY DEF Ask
<1>3. b \in Buses
  BY <1>1, Constants DEF Facts
<1>4. failed \in SUBSET Queries
  BY <1>2 DEF Failures
<1>5. Cardinality(failed) = 1 => desk.faults < MaxFaults
  <2>1. failed = Queries \/ failed = {} \/ desk.faults < MaxFaults
    BY <1>2 DEF Failures
  <2>2. Cardinality({}) = 0
    BY FS_EmptySet
  <2> QED
    BY <2>1, <2>2, FiveQueries
<1>6. desk' \in Desks
  <2>1. desk.faults \in 0..MaxFaults
    BY Fields DEF Desks
  <2>2. (IF Cardinality(failed) = 1 THEN desk.faults + 1 ELSE desk.faults) \in 0..MaxFaults
    BY <2>1, <1>5, Constants DEF Facts
  <2>3. desk' = [desk EXCEPT
            !.faults = IF Cardinality(failed) = 1 THEN desk.faults + 1 ELSE desk.faults]
    BY <1>2, Fields DEF Desks
  <2> QED
    BY <2>2, <2>3, Fields DEF Desks
<1>7. /\ SheetsEditor(e, failed) \in BOOLEAN /\ NameBox(e, failed) \in BOOLEAN
      /\ NameBox(e, failed) => SheetsEditor(e, failed)
      /\ SheetsEditor(e, failed) => e \in Sheets
  BY <1>1 DEF SheetsEditor, NameBox, Identified, Sheets
<1>8. (InDocument(e, failed) /\ KindOf[e] \in Grids /\ "role" \notin failed) \in BOOLEAN
  OBVIOUS
<1>9. known' \in Caches
  BY <1>2, <1>3, <1>7, Fields DEF Caches
<1>10. /\ pub' \in Published /\ ~pub'.fresh /\ pub'.ident = e /\ pub'.polled = Nobody
       /\ pub'.flags = pub.flags /\ pub'.gen = pub.gen /\ pub'.running = pub.running
       /\ pub'.sheet => pub'.editor \in Sheets
  <2>1. e \in Maybe /\ Nobody \in Maybe
    BY <1>1 DEF Maybe
  <2> HIDE DEF e, b
  <2> QED
    BY <1>1, <1>2, <1>7, <1>8, <2>1, Fields DEF Published
<1>11. monitor' \in Threads /\ monitor'.at = "flags" /\ monitor'.target = e
  BY <1>2, <1>4, Fields DEF Threads
<1> HIDE DEF e, b
<1>12. MonitorTypeOK'
  BY <1>6, <1>9, <1>10, <1>11 DEF MonitorTypeOK
<1>13. WorkInv' /\ VerdictInv'
  BY <1>1, <1>10, <1>11 DEF WorkInv, VerdictInv
<1>14. StoppedInv'
  BY <1>1, <1>10, <1>11 DEF MonitorInv, StoppedInv
<1> QED
  BY <1>1, <1>10, <1>12, <1>13, <1>14, Fields DEF MonitorInv, Republished

\* The store of the flags.
LEMMA PublishFlagsStep ==
    ASSUME MonitorInv, PublishFlags
    PROVE  MonitorInv' /\ Republished
<1> DEFINE e == monitor.target
           f == [gen |-> pub.gen, ui |-> BrowserUI(e, monitor.failed),
                 web |-> ~BrowserUI(e, monitor.failed), entry |-> TextEntry(e, monitor.failed)]
<1>1. /\ monitor.at = "flags" /\ e \in Elements /\ pub.ident = e /\ ~pub.fresh
      /\ pub.polled = Nobody
  BY DEF PublishFlags, MonitorInv, WorkInv
<1>2. /\ pub' = [pub EXCEPT !.pid = BusOf[e] \in known.pid, !.flags = f]
      /\ monitor' = [monitor EXCEPT !.at = "stamp"] /\ desk' = desk /\ known' = known
  BY DEF PublishFlags
<1>3. f \in Flags /\ f.gen = pub.gen
  BY Fields DEF Flags, BrowserUI, TextEntry
<1>4. (BusOf[e] \in known.pid) \in BOOLEAN
  OBVIOUS
<1> HIDE DEF f, e
<1>5. /\ pub' \in Published /\ ~pub'.fresh /\ pub'.ident = e /\ pub'.polled = Nobody
      /\ pub'.flags = f /\ pub'.gen = pub.gen /\ pub'.running = pub.running
      /\ pub'.sheet = pub.sheet /\ pub'.editor = pub.editor
  BY <1>1, <1>2, <1>3, <1>4, Fields DEF Published
<1>6. monitor' \in Threads /\ monitor'.at = "stamp" /\ monitor'.target = e
  BY <1>2, Fields DEF Threads, e
<1>7. MonitorTypeOK'
  BY <1>2, <1>5, <1>6, Fields DEF MonitorTypeOK
<1>8. WorkInv' /\ VerdictInv'
  BY <1>1, <1>3, <1>5, <1>6 DEF MonitorInv, WorkInv, VerdictInv
<1>9. StoppedInv'
  BY <1>1, <1>5, <1>6 DEF MonitorInv, StoppedInv
<1> QED
  BY <1>1, <1>3, <1>5, <1>7, <1>8, <1>9, Fields DEF MonitorInv, Republished

\* The stamp that makes them usable.
LEMMA StampStep ==
    ASSUME MonitorInv, Stamp
    PROVE  MonitorInv' /\ Republished
<1> DEFINE m == [monitor EXCEPT !.target = Nobody, !.failed = {}]
           polled == IF pub.flags.ui /\ pub.flags.entry THEN monitor.target ELSE pub.polled
<1>1. /\ monitor.at = "stamp" /\ monitor.target \in Elements /\ pub.ident = monitor.target
      /\ pub.polled = Nobody /\ pub.flags.gen = pub.gen
  BY DEF Stamp, MonitorInv, WorkInv
<1>2. /\ pub' = [pub EXCEPT !.fresh = TRUE, !.polled = polled]
      /\ monitor' = Handled(m) /\ desk' = desk /\ known' = known
  BY Fields DEF Stamp, Published
<1>3. polled \in Maybe /\ polled \in {pub.ident, Nobody}
  BY <1>1 DEF Maybe
<1>4. m \in Threads
  BY Fields DEF Threads, Maybe
<1> HIDE DEF m, polled
<1>5. /\ pub' \in Published /\ pub'.ident = pub.ident /\ pub'.polled = polled
      /\ pub'.flags = pub.flags /\ pub'.gen = pub.gen /\ pub'.running = pub.running
      /\ pub'.sheet = pub.sheet /\ pub'.editor = pub.editor
  BY <1>2, <1>3, Fields DEF Published
<1>6. monitor' \in Threads /\ monitor'.at \in {"poll", "batch"}
  BY <1>2, <1>4, HandledTyped
<1>7. MonitorTypeOK'
  BY <1>2, <1>5, <1>6, Fields DEF MonitorTypeOK
<1>8. WorkInv' /\ VerdictInv'
  BY <1>1, <1>3, <1>5, <1>6 DEF MonitorInv, WorkInv, VerdictInv
<1>9. StoppedInv'
  BY <1>1, <1>5, <1>6 DEF MonitorInv, StoppedInv
<1> QED
  BY <1>5, <1>7, <1>8, <1>9, Fields DEF MonitorInv, Republished

\* The 300 ms after it.
LEMMA SettleStep ==
    ASSUME MonitorInv, Settle
    PROVE  MonitorInv' /\ Republished
<1>1. /\ pub' = [pub EXCEPT !.settled = TRUE]
      /\ monitor' = monitor /\ desk' = desk /\ known' = known
  BY DEF Settle
<1>2. /\ pub' \in Published /\ pub'.ident = pub.ident /\ pub'.polled = pub.polled
      /\ pub'.flags = pub.flags /\ pub'.gen = pub.gen /\ pub'.running = pub.running
      /\ pub'.sheet = pub.sheet /\ pub'.editor = pub.editor /\ pub'.fresh = pub.fresh
  BY <1>1, Fields DEF Published
<1>3. MonitorTypeOK'
  BY <1>1, <1>2, Fields DEF MonitorTypeOK
<1>4. WorkInv' /\ VerdictInv' /\ StoppedInv'
  BY <1>1, <1>2 DEF MonitorInv, WorkInv, VerdictInv, StoppedInv
<1> QED
  BY <1>2, <1>3, <1>4, Fields DEF MonitorInv, Republished

\* The stops and starts of the thread: each finds or makes the identity withdrawn.
LEMMA LifeSteps ==
    ASSUME MonitorInv, Leave \/ Left \/ Stop \/ Join \/ Start \/ Connect
    PROVE  MonitorInv' /\ Republished
<1>0. /\ desk.faults \in 0..MaxFaults /\ desk.changes \in 0..MaxChanges
      /\ pub.running \in BOOLEAN /\ pub.fresh \in BOOLEAN
      /\ Nobody \in Maybe /\ MaxFaults \in Nat /\ MaxChanges \in Nat
  BY Fields, Constants DEF Desks, Published, Maybe, Facts
<1>a. StoppedInv /\ WorkInv /\ VerdictInv
  BY DEF MonitorInv
<1>1. CASE Leave
  <2>0. /\ \/ desk' = [desk EXCEPT !.missed = TRUE]
           \/ /\ desk.faults < MaxFaults
              /\ desk' = [desk EXCEPT !.missed = TRUE, !.faults = desk.faults + 1]
        /\ known' = known /\ pub' = Invalidated(pub) /\ monitor.at = "poll"
        /\ monitor' = [monitor EXCEPT !.at = "leaving", !.queue = <<>>]
    BY <1>1, Fields DEF Leave, Deserted, Desks
  <2>b. desk.faults < MaxFaults => desk.faults + 1 \in 0..MaxFaults
    BY <1>0
  <2>1. desk' \in Desks
    BY <2>0, <2>b, Fields DEF Desks
  <2>2. monitor' \in Threads /\ monitor'.at = "leaving"
    BY <2>0, Fields, SignalTyped DEF Threads
  <2>3. /\ pub' \in Published /\ ~pub'.fresh /\ pub'.flags = Cleared /\ ~pub'.sheet
        /\ pub'.ident = Nobody /\ pub'.gen = pub.gen + 1 /\ pub'.running = pub.running
    BY <2>0, Fields, Withdrawn
  <2>4. MonitorTypeOK'
    BY <2>0, <2>1, <2>2, <2>3, Fields DEF MonitorTypeOK
  <2>5. WorkInv' /\ VerdictInv' /\ StoppedInv'
    BY <1>a, <2>0, <2>2, <2>3 DEF WorkInv, VerdictInv, StoppedInv
  <2> QED
    BY <2>3, <2>4, <2>5, Fields DEF MonitorInv, Republished
<1>2. CASE Left
  <2>1. /\ desk' = desk /\ known' = known /\ pub' = [pub EXCEPT !.running = FALSE]
        /\ monitor.at = "leaving" /\ monitor' = [monitor EXCEPT !.at = "off"]
    BY <1>2 DEF Left
  <2>2. monitor' \in Threads /\ monitor'.at = "off"
    BY <2>1, Fields DEF Threads
  <2>3. /\ pub' \in Published /\ pub'.fresh = pub.fresh /\ pub'.flags = pub.flags
        /\ pub'.sheet = pub.sheet /\ pub'.editor = pub.editor /\ pub'.polled = pub.polled
        /\ pub'.ident = pub.ident /\ pub'.gen = pub.gen /\ ~pub'.running
    BY <2>1, Fields DEF Published
  <2>4. MonitorTypeOK'
    BY <2>1, <2>2, <2>3, Fields DEF MonitorTypeOK
  <2>5. WorkInv' /\ VerdictInv' /\ StoppedInv'
    BY <1>a, <2>1, <2>2, <2>3 DEF WorkInv, VerdictInv, StoppedInv
  <2> QED
    BY <2>3, <2>4, <2>5, Fields DEF MonitorInv, Republished
<1>3. CASE Stop
  <2>1. /\ desk' = Change(desk) /\ known' = known /\ monitor' = monitor
        /\ pub' = [pub EXCEPT !.stop = "joining"] /\ desk.changes < MaxChanges
    BY <1>3 DEF Stop
  <2>2. desk' \in Desks
    BY <2>1, Fields, ChangeTyped
  <2>3. /\ pub' \in Published /\ pub'.fresh = pub.fresh /\ pub'.flags = pub.flags
        /\ pub'.sheet = pub.sheet /\ pub'.editor = pub.editor /\ pub'.polled = pub.polled
        /\ pub'.ident = pub.ident /\ pub'.gen = pub.gen /\ pub'.running = pub.running
    BY <2>1, Fields DEF Published
  <2>4. MonitorTypeOK'
    BY <2>1, <2>2, <2>3, Fields DEF MonitorTypeOK
  <2>5. WorkInv' /\ VerdictInv' /\ StoppedInv'
    BY <1>a, <2>1, <2>3 DEF WorkInv, VerdictInv, StoppedInv
  <2> QED
    BY <2>3, <2>4, <2>5, Fields DEF MonitorInv, Republished
<1>4. CASE Join
  <2> DEFINE p == Invalidated(pub)
  <2>1. /\ desk' = desk /\ known' = known /\ monitor' = monitor /\ monitor.at = "off"
        /\ pub' = [p EXCEPT !.stop = "yes"]
    BY <1>4 DEF Join
  <2>2. /\ p \in Published /\ ~p.fresh /\ p.flags = Cleared /\ ~p.sheet
        /\ p.ident = Nobody /\ p.gen = pub.gen + 1 /\ p.running = pub.running
    BY Fields, Withdrawn
  <2> HIDE DEF p
  <2>3. /\ pub' \in Published /\ ~pub'.fresh /\ pub'.flags = Cleared /\ ~pub'.sheet
        /\ pub'.ident = Nobody /\ pub'.gen = p.gen /\ pub'.running = pub.running
    BY <2>1, <2>2 DEF Published
  <2>4. MonitorTypeOK'
    BY <2>1, <2>3, Fields DEF MonitorTypeOK
  <2>5. WorkInv' /\ VerdictInv' /\ StoppedInv'
    BY <1>a, <2>1, <2>3 DEF WorkInv, VerdictInv, StoppedInv
  <2> QED
    BY <2>2, <2>3, <2>4, <2>5, Fields DEF MonitorInv, Republished
<1>5. CASE Start
  <2>1. /\ desk' = Change(desk) /\ known' = known /\ desk.changes < MaxChanges
        /\ monitor' = [monitor EXCEPT !.at = "connect"] /\ monitor.at = "off"
        /\ pub' = [pub EXCEPT !.running = TRUE, !.stop = "no"]
    BY <1>5 DEF Start
  <2>2. desk' \in Desks
    BY <2>1, Fields, ChangeTyped
  <2>3. /\ pub' \in Published /\ pub'.fresh = pub.fresh /\ pub'.flags = pub.flags
        /\ pub'.sheet = pub.sheet /\ pub'.editor = pub.editor /\ pub'.polled = pub.polled
        /\ pub'.ident = pub.ident /\ pub'.gen = pub.gen /\ pub'.running
    BY <2>1, Fields DEF Published
  <2>4. monitor' \in Threads /\ monitor'.at = "connect"
    BY <2>1, Fields DEF Threads
  <2>5. MonitorTypeOK'
    BY <2>1, <2>2, <2>3, <2>4, Fields DEF MonitorTypeOK
  <2>6. WorkInv' /\ VerdictInv' /\ StoppedInv'
    BY <1>a, <2>1, <2>3, <2>4 DEF WorkInv, VerdictInv, StoppedInv
  <2> QED
    BY <2>3, <2>5, <2>6, Fields DEF MonitorInv, Republished
<1>6. CASE Connect
  <2>1. /\ known' = [pid |-> {}, native |-> {}, asked |-> {}, boxes |-> {}]
        /\ monitor.at = "connect"
        /\ \/ /\ monitor' = [monitor EXCEPT !.at = "poll"] /\ desk' = desk
              /\ pub' = [pub EXCEPT !.container = Nobody]
           \/ /\ desk.faults < MaxFaults /\ desk' = [desk EXCEPT !.faults = desk.faults + 1]
              /\ monitor' = [monitor EXCEPT !.at = "off"]
              /\ pub' = [pub EXCEPT !.running = FALSE, !.container = Nobody]
    BY <1>6, Fields DEF Connect, Desks
  <2>2. known' \in Caches
    BY <2>1 DEF Caches
  <2>b. desk.faults < MaxFaults => desk.faults + 1 \in 0..MaxFaults
    BY <1>0
  <2>3. desk' \in Desks
    BY <2>1, <2>b, Fields DEF Desks
  <2>4. /\ pub' \in Published /\ pub'.fresh = pub.fresh /\ pub'.flags = pub.flags
        /\ pub'.sheet = pub.sheet /\ pub'.editor = pub.editor /\ pub'.polled = pub.polled
        /\ pub'.ident = pub.ident /\ pub'.gen = pub.gen
    BY <2>1, <1>0, Fields DEF Published
  <2>5. /\ monitor' \in Threads
        /\ \/ monitor'.at = "poll" /\ pub'.running
           \/ monitor'.at = "off" /\ ~pub'.running
    BY <2>1, <1>a, Fields DEF Threads, StoppedInv, Published
  <2>6. MonitorTypeOK'
    BY <2>2, <2>3, <2>4, <2>5 DEF MonitorTypeOK
  <2>7. WorkInv' /\ VerdictInv' /\ StoppedInv'
    BY <1>a, <2>1, <2>4, <2>5 DEF WorkInv, VerdictInv, StoppedInv
  <2> QED
    BY <2>4, <2>6, <2>7, Fields DEF MonitorInv, Republished
<1> QED
  BY <1>1, <1>2, <1>3, <1>4, <1>5, <1>6

\* Every step of the monitor's own.
LEMMA MonitorStep ==
    ASSUME MonitorInv, Monitor \/ Stop \/ Join \/ Start
    PROVE  MonitorInv' /\ Republished
BY SignalSteps, BeginStep, AskStep, PublishFlagsStep, StampStep, SettleStep, LifeSteps
   DEF Monitor
-----------------------------------------------------------------------------
(***************************************************************************)
(* The key thread.                                                         *)
(***************************************************************************)
EngineInv == engine \in Engines /\ LookInv /\ WordInv

\* Whatever the monitor does, what the key thread holds keeps its meaning.
LEMMA MonitorUnderKeys ==
    ASSUME MonitorInv, EngineInv, Republished, pub' \in Published, engine' = engine
    PROVE  EngineInv'
<1>1. /\ pub.gen \in Nat /\ pub'.gen \in Nat /\ engine.gen \in Nat
      /\ pub.flags.gen \in Nat /\ pub'.flags.gen \in Nat /\ Cleared.gen = 0
  BY Fields DEF EngineInv, Engines, Published, Flags
<1>2. LookInv'
  <2>1. ASSUME engine.at # "idle"
        PROVE  /\ engine.gen <= pub'.gen
               /\ engine.gen = pub'.gen => pub'.ident = engine.el
    BY <1>1, <2>1 DEF EngineInv, LookInv, Republished
  <2>2. ASSUME engine.at = "looked"
        PROVE  pub'.flags.gen = 0 \/ pub'.flags.gen >= engine.gen
    BY <1>1, <2>1, <2>2 DEF EngineInv, LookInv, Republished
  <2> QED
    BY <2>1, <2>2 DEF EngineInv, LookInv
<1>3. WordInv' /\ engine' \in Engines
  BY DEF EngineInv, WordInv
<1> QED
  BY <1>2, <1>3 DEF EngineInv

\* What the end of a word does to the key thread's record.
LEMMA ResetFields ==
    ASSUME NEW g \in Engines
    PROVE  /\ ResetForCellChange(g) \in Engines /\ ResetForCellChange(g).at = g.at
           /\ ResetForCellChange(g).base = g.base /\ ResetForCellChange(g).inBar = g.inBar
           /\ ResetForCellChange(g).letters = 0 /\ ResetForCellChange(g).word = {}
           /\ ~ResetForCellChange(g).bar
<1>1. 0 \in 0..2 /\ {} \in SUBSET Reads
  OBVIOUS
<1>2. ResetForCellChange(g) \in Engines
  BY <1>1 DEF ResetForCellChange, Engines
<1> QED
  BY <1>2 DEF ResetForCellChange, Engines

\* What a letter does to the key thread's record.
LEMMA TypedFields ==
    ASSUME NEW g \in Engines, NEW changed \in BOOLEAN, NEW place \in SUBSET Reads
    PROVE  /\ Typed(g, changed, place) \in Engines
           /\ Typed(g, changed, place).at = "idle"
           /\ Typed(g, changed, place).base = g.base
           /\ Typed(g, changed, place).inBar = g.inBar
           /\ Typed(g, changed, place).letters = IF changed \/ g.letters = 0 THEN 1 ELSE 2
           /\ Typed(g, changed, place).word = (IF changed THEN {} ELSE g.word) \cup place
           /\ Typed(g, changed, place).bar <=>
                (~changed /\ g.bar) \/ (g.inBar /\ (changed \/ g.letters = 0))
<1> DEFINE h == IF changed THEN ResetForCellChange(g) ELSE g
<1>1. /\ h \in Engines /\ h.base = g.base /\ h.inBar = g.inBar
      /\ h.letters = IF changed THEN 0 ELSE g.letters
      /\ h.word = IF changed THEN {} ELSE g.word
      /\ h.bar <=> ~changed /\ g.bar
  BY ResetFields
<1>2. Typed(g, changed, place) =
        [h EXCEPT !.at = "idle", !.el = Nobody, !.gen = 0, !.changed = FALSE,
                  !.cell = "none", !.letters = IF h.letters = 0 THEN 1 ELSE 2,
                  !.word = h.word \cup place,
                  !.bar = h.bar \/ (g.inBar /\ h.letters = 0)]
  BY <1>1 DEF Typed, Engines
<1> DEFINE letters == IF h.letters = 0 THEN 1 ELSE 2
           word == h.word \cup place
           bar == h.bar \/ (g.inBar /\ h.letters = 0)
<1>3. letters \in 0..2 /\ word \in SUBSET Reads /\ bar \in BOOLEAN /\ Nobody \in Maybe
  BY <1>1 DEF Engines, Maybe
<1>4. /\ letters = IF changed \/ g.letters = 0 THEN 1 ELSE 2
      /\ word = (IF changed THEN {} ELSE g.word) \cup place
      /\ bar <=> (~changed /\ g.bar) \/ (g.inBar /\ (changed \/ g.letters = 0))
  BY <1>1
<1>5. Typed(g, changed, place) =
        [h EXCEPT !.at = "idle", !.el = Nobody, !.gen = 0, !.changed = FALSE,
                  !.cell = "none", !.letters = letters, !.word = word, !.bar = bar]
  BY <1>2
<1> HIDE DEF h, letters, word, bar
<1>a. Typed(g, changed, place) \in Engines
  <2> DEFINE k == [h EXCEPT !.at = "idle", !.el = Nobody, !.gen = 0, !.changed = FALSE,
                            !.cell = "none"]
  <2>1. k \in Engines
    BY <1>1, <1>3 DEF Engines
  <2>2. Typed(g, changed, place) = [k EXCEPT !.letters = letters, !.word = word, !.bar = bar]
    BY <1>5
  <2> HIDE DEF k
  <2> QED
    BY <1>3, <2>1, <2>2 DEF Engines
<1>6. /\ Typed(g, changed, place).at = "idle"
      /\ Typed(g, changed, place).base = h.base
      /\ Typed(g, changed, place).inBar = h.inBar
      /\ Typed(g, changed, place).letters = letters
      /\ Typed(g, changed, place).word = word
      /\ Typed(g, changed, place).bar <=> bar
  BY <1>1, <1>3, <1>5 DEF Engines
<1> QED
  BY <1>1, <1>4, <1>6, <1>a

\* A letter keeps what the word promises, if it joins the letters of the baseline.
LEMMA LetterKeepsWord ==
    ASSUME NEW g \in Engines, NEW changed \in BOOLEAN, NEW place \in SUBSET Reads,
           (IF changed THEN {} ELSE g.word) \cup place \subseteq {g.base} \ {NoRead},
           g.bar => g.inBar,
           engine' = Typed(g, changed, place)
    PROVE  EngineInv'
<1>1. engine' \in Engines /\ LookInv'
  BY TypedFields DEF LookInv
<1>2. WordInv'
  BY TypedFields DEF WordInv
<1> QED
  BY <1>1, <1>2 DEF EngineInv

\* What the key takes note of before it looks at the cell.
LEMMA NotedFields ==
    ASSUME EngineInv, pub.serial \in Nat, NEW g, g \in {BarMark(engine), Counted(BarMark(engine))}
    PROVE  /\ g \in Engines /\ g.letters = engine.letters /\ g.word = engine.word
           /\ g.bar = engine.bar /\ g.base = engine.base
           /\ g.letters # 0 => g.inBar = engine.inBar
<1> DEFINE m == BarMark(engine)
<1>1. /\ m \in Engines /\ m.letters = engine.letters /\ m.word = engine.word
      /\ m.bar = engine.bar /\ m.base = engine.base
      /\ m.letters # 0 => m.inBar = engine.inBar
  <2>1. (BarModes /\ ~(Relevant /\ pub.flags.web)) \in BOOLEAN
    OBVIOUS
  <2> QED
    BY <2>1 DEF EngineInv, Engines, BarMark
<1>2. Counted(m) = [m EXCEPT !.changed = pub.serial # m.serial, !.serial = pub.serial]
  BY DEF Counted
<1>3. (pub.serial # m.serial) \in BOOLEAN
  OBVIOUS
<1> HIDE DEF m
<1>4. /\ Counted(m) \in Engines /\ Counted(m).letters = m.letters /\ Counted(m).word = m.word
      /\ Counted(m).bar = m.bar /\ Counted(m).base = m.base /\ Counted(m).inBar = m.inBar
  BY <1>1, <1>2, <1>3 DEF Engines
<1> QED
  BY <1>1, <1>4 DEF m

\* The key thread's own steps.
LEMMA EngineStep ==
    ASSUME MonitorInv, EngineInv, Engine
    PROVE  EngineInv'
<1>0. /\ pub.serial \in Nat /\ pub.ident \in Maybe /\ pub.gen \in Nat /\ engine \in Engines
      /\ engine.gen \in Nat /\ pub.flags.gen \in Nat /\ Nobody \in Maybe
  BY Fields DEF Published, EngineInv, Maybe, Engines, Flags
<1>w. WordInv /\ LookInv
  BY DEF EngineInv
<1>1. CASE Look
  <2>1. /\ engine' = [engine EXCEPT !.at = "looked", !.el = pub.ident, !.gen = pub.gen]
        /\ pub' = pub /\ pub.fresh
    BY <1>1 DEF Look, mvars, Relevant
  <2>2. /\ engine' \in Engines /\ engine'.at = "looked" /\ engine'.el = pub.ident
        /\ engine'.gen = pub.gen /\ engine'.word = engine.word /\ engine'.base = engine.base
        /\ engine'.letters = engine.letters /\ engine'.bar = engine.bar
        /\ engine'.inBar = engine.inBar
    BY <2>1, <1>0 DEF Engines
  <2>3. pub.flags.gen = pub.gen
    BY <2>1 DEF MonitorInv, VerdictInv
  <2>4. LookInv'
    BY <2>1, <2>2, <2>3, <1>0 DEF LookInv
  <2>5. WordInv'
    BY <2>2, <1>w DEF WordInv
  <2> QED
    BY <2>2, <2>4, <2>5 DEF EngineInv
<1>2. CASE Use
  <2>1. engine' = [engine EXCEPT !.at = "idle", !.el = Nobody, !.gen = 0]
    BY <1>2 DEF Use
  <2>2. /\ engine' \in Engines /\ engine'.at = "idle"
        /\ engine'.word = engine.word /\ engine'.base = engine.base
        /\ engine'.letters = engine.letters /\ engine'.bar = engine.bar
        /\ engine'.inBar = engine.inBar
    BY <2>1, <1>0 DEF Engines
  <2> QED
    BY <2>2, <1>w DEF EngineInv, LookInv, WordInv
<1>3. CASE KeyAfterBar
  <2> DEFINE g == [engine EXCEPT !.inBar = FALSE]
  <2>1. engine' = Typed(g, TRUE, {})
    BY <1>3 DEF KeyAfterBar
  <2>2. /\ g \in Engines /\ ~g.inBar
    BY <1>0 DEF Engines
  <2> HIDE DEF g
  <2>a. {} \in SUBSET Reads /\ TRUE \in BOOLEAN
    OBVIOUS
  <2>b. engine' \in Engines /\ engine'.at = "idle" /\ engine'.letters = 1
    BY <2>1, <2>2, <2>a, TypedFields
  <2>c. engine'.word = (IF TRUE THEN {} ELSE g.word) \cup {}
    BY <2>1, <2>2, <2>a, TypedFields
  <2>3. /\ engine' \in Engines /\ engine'.at = "idle" /\ engine'.letters = 1
        /\ engine'.word = {}
    BY <2>b, <2>c
  <2>4. ~engine'.bar
    BY <2>1, <2>2, <2>a, TypedFields
  <2> QED
    BY <2>3, <2>4 DEF EngineInv, LookInv, WordInv
<1>4. CASE Key
  <2> DEFINE g == Counted(BarMark(engine))
             changed == g.changed /\ ~SheetsFocused(pub.ident)
  <2>1. engine' = Typed(g, changed, {})
    BY <1>4 DEF Key
  <2>2. /\ g \in Engines /\ g.letters = engine.letters /\ g.word = engine.word
        /\ g.bar = engine.bar /\ g.base = engine.base
        /\ g.letters # 0 => g.inBar = engine.inBar
    BY <1>0, NotedFields
  <2>3. changed \in BOOLEAN
    OBVIOUS
  <2>4. g.bar => g.inBar
    BY <2>2, <1>w DEF WordInv
  <2> HIDE DEF g, changed
  <2>5. (IF changed THEN {} ELSE g.word) \cup {} \subseteq {g.base} \ {NoRead}
    BY <2>2, <1>w DEF WordInv
  <2> QED
    BY <2>1, <2>2, <2>3, <2>4, <2>5, LetterKeepsWord
<1>5. CASE KeyReads
  <2> DEFINE g == Counted(BarMark(engine))
  <2>1. /\ engine' = [g EXCEPT !.at = "reading", !.el = pub.ident, !.gen = pub.gen]
        /\ pub' = pub /\ SheetsFocused(pub.ident)
    BY <1>5 DEF KeyReads, mvars
  <2>2. /\ g \in Engines /\ g.letters = engine.letters /\ g.word = engine.word
        /\ g.bar = engine.bar /\ g.base = engine.base
        /\ g.letters # 0 => g.inBar = engine.inBar
    BY <1>0, NotedFields
  <2>3. g.bar => g.inBar
    BY <2>2, <1>w DEF WordInv
  <2>4. pub.ident \in Sheets
    BY <2>1 DEF SheetsFocused, MonitorInv, VerdictInv
  <2> HIDE DEF g
  <2>5. /\ engine' \in Engines /\ engine'.at = "reading" /\ engine'.el = pub.ident
        /\ engine'.gen = pub.gen /\ engine'.word = g.word /\ engine'.base = g.base
        /\ engine'.letters = g.letters /\ engine'.bar = g.bar /\ engine'.inBar = g.inBar
    BY <2>1, <2>2, <1>0 DEF Engines
  <2>6. LookInv'
    BY <2>1, <2>4, <2>5, <1>0 DEF LookInv
  <2>7. WordInv'
    BY <2>2, <2>3, <2>5, <1>w DEF WordInv
  <2> QED
    BY <2>5, <2>6, <2>7 DEF EngineInv
<1>6. CASE Answer
  <2>1. /\ engine.at = "reading" /\ pub' = pub
        /\ \E c \in Cells \cup {"none"} : engine' = [engine EXCEPT !.at = "answered", !.cell = c]
    <3>1. engine.at = "reading" /\ engine.el \in Sheets
      BY <1>6, <1>w DEF Answer, LookInv
    <3>2. desk.cell[engine.el] \in Cells
      BY <3>1, Fields DEF Desks
    <3> QED
      BY <1>6, <3>1, <3>2 DEF Answer
  <2>2. /\ engine' \in Engines /\ engine'.at = "answered" /\ engine'.el = engine.el
        /\ engine'.gen = engine.gen /\ engine'.word = engine.word /\ engine'.base = engine.base
        /\ engine'.letters = engine.letters /\ engine'.bar = engine.bar
        /\ engine'.inBar = engine.inBar
    BY <2>1, <1>0 DEF Engines
  <2>3. LookInv'
    BY <2>1, <2>2, <1>w DEF LookInv
  <2>4. WordInv'
    BY <2>2, <1>w DEF WordInv
  <2> QED
    BY <2>2, <2>3, <2>4 DEF EngineInv
<1>7. CASE KeyRead
  <2> DEFINE place == IF engine.cell = "none" THEN {}
                      ELSE {[of |-> engine.el, cell |-> engine.cell]}
             changed == ChangedByRead(engine)
             t == Typed(engine, changed, place)
  <2>1. /\ engine.at = "answered" /\ engine.el \in Sheets
        /\ engine' = [t EXCEPT !.base = Observe(@, engine.el, engine.cell)]
    BY <1>7, <1>w DEF KeyRead, LookInv
  <2>2. /\ engine.cell \in Cells \cup {"none"} /\ engine.base \in Reads
        /\ engine.word \in SUBSET Reads
    BY <1>0 DEF Engines
  <2>3. place \in SUBSET Reads /\ changed \in BOOLEAN
    BY <2>1, <2>2 DEF Reads, ChangedByRead, Changed
  <2>4. NoRead \notin place
    BY <2>2 DEF NoRead
  <2>5. /\ engine.cell = "none" => place = {} /\ ~changed
        /\ engine.cell # "none" =>
            /\ place = {[of |-> engine.el, cell |-> engine.cell]}
            /\ changed = (engine.base # NoRead
                          /\ engine.base # [of |-> engine.el, cell |-> engine.cell])
    BY DEF ChangedByRead, Changed
  <2> HIDE DEF place, changed
  <2>6. /\ t \in Engines /\ t.at = "idle" /\ t.base = engine.base /\ t.inBar = engine.inBar
        /\ t.letters # 0
        /\ t.word = (IF changed THEN {} ELSE engine.word) \cup place
        /\ t.bar => engine.inBar
    BY <2>3, <1>0, <1>w, TypedFields DEF WordInv
  <2> HIDE DEF t
  <2> DEFINE base == Observe(engine.base, engine.el, engine.cell)
  <2>7. /\ base \in Reads
        /\ base = IF engine.cell = "none" THEN engine.base
                  ELSE [of |-> engine.el, cell |-> engine.cell]
    BY <2>1, <2>2 DEF Observe, Reads
  <2>8. engine' = [t EXCEPT !.base = base]
    BY <2>1, <2>6 DEF Engines
  <2> HIDE DEF base
  <2>9. /\ engine' \in Engines /\ engine'.at = "idle" /\ engine'.base = base
        /\ engine'.word = t.word /\ engine'.letters = t.letters /\ engine'.bar = t.bar
        /\ engine'.inBar = t.inBar
    BY <2>6, <2>7, <2>8 DEF Engines
  <2>10. t.word \subseteq {base} \ {NoRead}
    <3>1. engine.word \subseteq {engine.base} \ {NoRead}
      BY <1>w DEF WordInv
    <3> QED
      BY <3>1, <2>4, <2>5, <2>6, <2>7
  <2>11. WordInv'
    BY <2>6, <2>9, <2>10 DEF WordInv
  <2>12. LookInv'
    BY <2>9 DEF LookInv
  <2> QED
    BY <2>9, <2>11, <2>12 DEF EngineInv
<1>8. CASE KeyReadRefused
  <2>1. engine' = Typed(engine, engine.changed, {}) /\ engine.changed \in BOOLEAN
    BY <1>8, <1>0 DEF KeyReadRefused, Engines
  <2>2. (IF engine.changed THEN {} ELSE engine.word) \cup {} \subseteq {engine.base} \ {NoRead}
    BY <1>w DEF WordInv
  <2>3. engine.bar => engine.inBar
    BY <1>w DEF WordInv
  <2> QED
    BY <2>1, <2>2, <2>3, <1>0, LetterKeepsWord
<1>9. ASSUME EndWord \/ Cycle PROVE EngineInv'
  <2> DEFINE r == ResetForCellChange(engine)
  <2>1. /\ r \in Engines /\ r.at = engine.at /\ r.word = {} /\ r.letters = 0 /\ ~r.bar
    BY <1>0, ResetFields
  <2>2. /\ engine.at = "idle"
        /\ engine' \in {r, [r EXCEPT !.cycle = "no"], [engine EXCEPT !.cycle = "no"]}
    BY <1>9 DEF EndWord, Cycle, Idle
  <2> HIDE DEF r
  <2>3. CASE engine' \in {r, [r EXCEPT !.cycle = "no"]}
    <3>1. /\ engine' \in Engines /\ engine'.at = "idle" /\ engine'.word = {}
          /\ engine'.letters = 0 /\ ~engine'.bar
      BY <2>1, <2>2, <2>3 DEF Engines
    <3> QED
      BY <3>1 DEF EngineInv, LookInv, WordInv
  <2>4. CASE engine' = [engine EXCEPT !.cycle = "no"]
    <3>1. /\ engine' \in Engines /\ engine'.at = "idle" /\ engine'.word = engine.word
          /\ engine'.letters = engine.letters /\ engine'.bar = engine.bar
          /\ engine'.base = engine.base /\ engine'.inBar = engine.inBar
      BY <1>0, <2>2, <2>4 DEF Engines
    <3> QED
      BY <3>1, <1>w DEF EngineInv, LookInv, WordInv
  <2> QED
    BY <2>2, <2>3, <2>4
<1> QED
  BY <1>1, <1>2, <1>3, <1>4, <1>5, <1>6, <1>7, <1>8, <1>9 DEF Engine
-----------------------------------------------------------------------------
(***************************************************************************)
(* The composition.                                                        *)
(***************************************************************************)
\* The invariant holds at the start.
LEMMA InitIInv == Init => IInv
<1> SUFFICES ASSUME Init PROVE IInv
  OBVIOUS
<1> USE DEF Init, MonitorInit
<1>1. desk \in Desks
  <2>1. /\ desk.cell \in [Sheets -> Cells] /\ desk.wire \in [Buses -> Seq(Signals)]
        /\ Nobody \in Maybe /\ 0 \in 0..MaxChanges /\ 0 \in 0..MaxFaults
        /\ {} \in SUBSET Buses /\ Buses \in SUBSET Buses
    <3>1. (CHOOSE c \in Cells : TRUE) \in Cells
      BY FocusAssumption
    <3> HIDE DEF MonitorInit
    <3>2. desk.cell = [e \in Sheets |-> CHOOSE c \in Cells : TRUE]
      BY DEF MonitorInit
    <3>3. desk.wire = [b \in Buses |-> <<>>]
      BY DEF MonitorInit
    <3> QED
      BY <3>1, <3>2, <3>3, SignalTyped, Constants DEF Maybe, Facts
  <2> QED
    BY <2>1 DEF Desks
<1>2. monitor \in Threads
  BY SignalTyped DEF Threads, Maybe
<1>3. known \in Caches
  BY DEF Caches
<1>4. pub \in Published
  BY DEF Published, Flags, Cleared, Maybe
<1>5. WorkInv /\ VerdictInv /\ StoppedInv
  BY DEF WorkInv, VerdictInv, StoppedInv
<1>6. engine \in Engines
  <2>1. /\ Nobody \in Maybe /\ NoRead \in Reads /\ {} \in SUBSET Reads
        /\ 0 \in 0..2
    BY DEF Maybe, Reads
  <2> QED
    BY <2>1 DEF NewEngine, Engines
<1>7. LookInv /\ WordInv
  BY DEF NewEngine, LookInv, WordInv
<1> QED
  BY <1>1, <1>2, <1>3, <1>4, <1>5, <1>6, <1>7 DEF IInv, MonitorInv, MonitorTypeOK

\* Every step keeps it.
LEMMA NextIInv ==
    ASSUME IInv, [Next]_vars
    PROVE  IInv'
<1>0. MonitorInv /\ EngineInv
  BY DEF IInv, EngineInv
<1>s. MonitorInv' /\ EngineInv' => IInv'
  BY DEF IInv, EngineInv
<1>p. ASSUME MonitorInv' PROVE pub' \in Published
  BY <1>p DEF MonitorInv, MonitorTypeOK
<1>1. CASE Engine
  <2>1. EngineInv'
    BY <1>0, <1>1, EngineStep
  <2>2. Same /\ desk' \in Desks
    <3>1. CASE Answer
      <4>1. /\ Same
            /\ \/ desk' = desk
               \/ desk' = [desk EXCEPT !.faults = IF desk.faults < MaxFaults THEN desk.faults + 1
                                                  ELSE desk.faults]
        BY <1>0, <3>1, Fields DEF Answer, Same, Desks
      <4>2. (IF desk.faults < MaxFaults THEN desk.faults + 1 ELSE desk.faults) \in 0..MaxFaults
        BY <1>0, Fields, Constants DEF Desks, Facts
      <4> QED
        BY <1>0, <4>1, <4>2, Fields DEF Desks
    <3>2. CASE ~Answer
      <4>1. UNCHANGED mvars
        BY <1>1, <3>2 DEF Engine, Look, Use, KeyAfterBar, Key, KeyReads, KeyRead,
                          KeyReadRefused, EndWord, Cycle
      <4> QED
        BY <1>0, <4>1, Fields DEF mvars, Same
    <3> QED
      BY <3>1, <3>2
  <2>3. MonitorInv'
    BY <1>0, <2>2, SameMonitor
  <2> QED
    BY <1>s, <2>1, <2>3
<1>2. CASE Moving
  <2>1. MonitorInv' /\ Republished /\ pub' = pub
    BY <1>0, <1>2, MoveFocusTyped, SameMonitor DEF Moving, Same
  <2>2. engine' = [engine EXCEPT !.cycle = IF InBar(desk.focus) THEN "bar" ELSE "other"]
    BY <1>2 DEF Moving
  <2>3. /\ engine' \in Engines /\ engine'.at = engine.at /\ engine'.el = engine.el
        /\ engine'.gen = engine.gen /\ engine'.word = engine.word /\ engine'.base = engine.base
        /\ engine'.letters = engine.letters /\ engine'.bar = engine.bar
        /\ engine'.inBar = engine.inBar
    BY <1>0, <2>2 DEF EngineInv, Engines
  <2>4. LookInv' /\ WordInv'
    BY <1>0, <2>1, <2>3 DEF EngineInv, LookInv, WordInv
  <2> QED
    BY <1>s, <2>1, <2>3, <2>4 DEF EngineInv
<1>3. CASE MoveCell /\ UNCHANGED engine
  <2>1. MonitorInv' /\ Republished
    BY <1>0, <1>3, DesktopSteps, SameMonitor
  <2> QED
    BY <1>0, <1>3, <1>p, <1>s, <2>1, MonitorUnderKeys
<1>4. ASSUME NEW b \in Buses, Quit(b) \/ Deliver(b), UNCHANGED engine
      PROVE  IInv'
  <2>1. CASE Quit(b)
    <3>1. MonitorInv' /\ Republished
      BY <1>0, <2>1, DesktopSteps, SameMonitor
    <3> QED
      BY <1>0, <1>4, <1>p, <1>s, <3>1, MonitorUnderKeys
  <2>2. CASE Deliver(b)
    <3>1. MonitorInv' /\ Republished
      BY <1>0, <2>2, DeliverStep
    <3> QED
      BY <1>0, <1>4, <1>p, <1>s, <3>1, MonitorUnderKeys
  <2> QED
    BY <1>4, <2>1, <2>2
<1>5. CASE (Monitor \/ Stop \/ Join \/ Start) /\ UNCHANGED engine
  <2>1. MonitorInv' /\ Republished
    BY <1>0, <1>5, MonitorStep
  <2> QED
    BY <1>0, <1>5, <1>p, <1>s, <2>1, MonitorUnderKeys
<1>6. CASE UNCHANGED vars
  BY <1>0, <1>6 DEF vars, IInv, MonitorInv, MonitorTypeOK, WorkInv, VerdictInv, StoppedInv,
                    LookInv, WordInv
<1> QED
  BY <1>1, <1>2, <1>3, <1>4, <1>5, <1>6 DEF Next

\* The inductive invariant of the monitor and the key thread.
THEOREM Invariance == Spec => []IInv
<1>1. Init => IInv
  BY InitIInv
<1>2. IInv /\ [Next]_vars => IInv'
  BY NextIInv
<1> QED
  BY <1>1, <1>2, PTL DEF Spec

\* Type correctness: every record keeps its fields in their ranges, whatever is on the bus.
THEOREM TypeCorrect == Spec => []TypeOK
<1>1. IInv => TypeOK
  BY DEF IInv, MonitorInv, TypeOK
<1> QED
  BY <1>1, Invariance, PTL

\* Neither the polled text nor a stopped monitor speaks for a focus that is gone, for any
\* applications, connections and number of signals: beginFocus() and the stamp that comes
\* last (a11y_monitor.cpp) leave no moment between.
THEOREM NothingOutlives == Spec => []NothingOutlivesFocus
<1>1. IInv => NothingOutlivesFocus
  BY DEF IInv, MonitorInv, VerdictInv, StoppedInv, NothingOutlivesFocus, TextFollowsFocus,
         SilentWhenStopped
<1> QED
  BY <1>1, Invariance, PTL

\* The letters of a word whose cell was read are all of one cell.
THEOREM OneCell == Spec => []WordInOneCell
<1>1. ASSUME IInv PROVE WordInOneCell
  <2>1. engine.word = {} \/ engine.word = {engine.base}
    BY <1>1 DEF IInv, WordInv
  <2>2. Cardinality({}) = 0 /\ Cardinality({engine.base}) = 1
    BY FS_EmptySet, FS_Singleton
  <2> QED
    BY <2>1, <2>2 DEF WordInOneCell
<1> QED
  BY <1>1, Invariance, PTL

\* The baseline is only moved by a read that is still current.
LEMMA BaseKept ==
    ASSUME IInv, [Next]_vars, ~KeyRead
    PROVE  engine'.base = engine.base
<1>0. engine \in Engines /\ pub.serial \in Nat /\ EngineInv
  BY Fields DEF IInv, EngineInv, Published
<1>1. CASE Look \/ Use \/ Answer \/ Moving
  BY <1>0, <1>1 DEF Look, Use, Answer, Moving, Engines
<1>2. CASE KeyAfterBar
  <2> DEFINE g == [engine EXCEPT !.inBar = FALSE]
  <2>1. engine' = Typed(g, TRUE, {}) /\ g \in Engines /\ g.base = engine.base
    BY <1>0, <1>2 DEF KeyAfterBar, Engines
  <2> HIDE DEF g
  <2>2. {} \in SUBSET Reads /\ TRUE \in BOOLEAN
    OBVIOUS
  <2> QED
    BY <2>1, <2>2, TypedFields
<1>3. CASE Key
  <2> DEFINE g == Counted(BarMark(engine))
             changed == g.changed /\ ~SheetsFocused(pub.ident)
  <2>1. engine' = Typed(g, changed, {}) /\ g \in Engines /\ g.base = engine.base
    BY <1>0, <1>3, NotedFields DEF Key
  <2>2. {} \in SUBSET Reads /\ changed \in BOOLEAN
    OBVIOUS
  <2> HIDE DEF g, changed
  <2> QED
    BY <2>1, <2>2, TypedFields
<1>4. CASE KeyReads
  <2> DEFINE g == Counted(BarMark(engine))
  <2>1. /\ engine' = [g EXCEPT !.at = "reading", !.el = pub.ident, !.gen = pub.gen]
        /\ g \in Engines /\ g.base = engine.base
    BY <1>0, <1>4, NotedFields DEF KeyReads
  <2> HIDE DEF g
  <2> QED
    BY <2>1 DEF Engines
<1>5. CASE KeyReadRefused
  <2>1. engine' = Typed(engine, engine.changed, {}) /\ engine.changed \in BOOLEAN
    BY <1>0, <1>5 DEF KeyReadRefused, Engines
  <2> QED
    BY <1>0, <2>1, TypedFields
<1>6. CASE EndWord \/ Cycle
  <2>1. /\ ResetForCellChange(engine) \in Engines
        /\ ResetForCellChange(engine).base = engine.base
    BY <1>0, ResetFields
  <2>2. engine' \in {ResetForCellChange(engine), [ResetForCellChange(engine) EXCEPT !.cycle = "no"],
                     [engine EXCEPT !.cycle = "no"]}
    BY <1>6 DEF EndWord, Cycle
  <2> QED
    BY <1>0, <2>1, <2>2 DEF Engines
<1>7. CASE UNCHANGED engine
  BY <1>7
<1> QED
  BY <1>1, <1>2, <1>3, <1>4, <1>5, <1>6, <1>7 DEF Next, Engine, vars

\* Nor does a consumer of the flags, or of the cell, ever use what was of an accessible
\* that had the focus earlier: the generation that was read first (getFocusIdentity(),
\* checkCellSelection()) decides.
THEOREM NoEarlierFocus == Spec => NothingOfAnEarlierFocus
<1>1. IInv /\ [Next]_vars =>
        [engine.at = "looked" /\ engine'.at = "idle" =>
            pub.flags.gen = 0 \/ pub.flags.gen >= engine.gen]_vars
  BY DEF IInv, LookInv
<1>2. IInv /\ [Next]_vars =>
        [engine'.base # engine.base => engine'.base.of = FocusIdentity(pub)]_vars
  <2> SUFFICES ASSUME IInv, [Next]_vars, engine'.base # engine.base
               PROVE  engine'.base.of = FocusIdentity(pub)
    OBVIOUS
  <2>1. KeyRead
    BY BaseKept
  <2> DEFINE place == IF engine.cell = "none" THEN {}
                      ELSE {[of |-> engine.el, cell |-> engine.cell]}
             t == Typed(engine, ChangedByRead(engine), place)
  <2>2. engine.at = "answered" /\ SameFocus /\ engine \in Engines
        /\ engine' = [t EXCEPT !.base = Observe(@, engine.el, engine.cell)]
    BY <2>1 DEF KeyRead, Current, IInv
  <2>3. engine.el \in Sheets /\ pub.fresh /\ pub.ident = engine.el
    BY <2>2 DEF IInv, LookInv, SameFocus
  <2>4. /\ place \in SUBSET Reads /\ ChangedByRead(engine) \in BOOLEAN
    BY <2>2, <2>3 DEF Engines, Reads, ChangedByRead, Changed
  <2> HIDE DEF place
  <2>5. t \in Engines /\ t.base = engine.base
    BY <2>2, <2>4, TypedFields
  <2> HIDE DEF t
  <2>6. engine'.base = Observe(engine.base, engine.el, engine.cell)
    BY <2>2, <2>5 DEF Engines
  <2>7. engine'.base = [of |-> engine.el, cell |-> engine.cell]
    BY <2>6 DEF Observe
  <2> QED
    BY <2>3, <2>7 DEF FocusIdentity
<1> QED
  BY <1>1, <1>2, Invariance, PTL
  DEF Spec, NothingOfAnEarlierFocus, NeverThePreviousEditor, CellReadIsCurrent

\* A signal that arrives after the letters of the cell it tells of does not end the word.
THEOREM LateEvents == Spec => LateEventsKeepTheWord
<1>1. IInv /\ [Next]_vars =>
        [engine.at = "answered" /\ engine'.at = "idle" /\ SameFocus
         /\ engine.word = {engine.base} /\ engine.base = [of |-> engine.el, cell |-> engine.cell]
          => engine'.word = engine.word /\ engine'.letters = 2]_vars
  <2> SUFFICES ASSUME IInv, [Next]_vars, engine.at = "answered", engine'.at = "idle", SameFocus,
                      engine.word = {engine.base},
                      engine.base = [of |-> engine.el, cell |-> engine.cell]
               PROVE  engine'.word = engine.word /\ engine'.letters = 2
    OBVIOUS
  <2>1. engine \in Engines
    BY DEF IInv
  <2>2. KeyRead
    BY <2>1 DEF Next, Engine, Look, Use, KeyAfterBar, Key, KeyReads, Typing, Answer,
                KeyReadRefused, Current, EndWord, Cycle, Idle, Moving, vars, Engines
  <2> DEFINE place == IF engine.cell = "none" THEN {}
                      ELSE {[of |-> engine.el, cell |-> engine.cell]}
             t == Typed(engine, FALSE, place)
  <2>3. ChangedByRead(engine) = FALSE
    BY DEF ChangedByRead, Changed
  <2>4. engine' = [t EXCEPT !.base = Observe(@, engine.el, engine.cell)]
    BY <2>2, <2>3 DEF KeyRead
  <2>5. engine.el \in Sheets
    BY DEF IInv, LookInv
  <2>6. /\ place \in SUBSET Reads /\ FALSE \in BOOLEAN /\ place \subseteq engine.word
    BY <2>1, <2>5 DEF Engines, Reads
  <2> HIDE DEF place
  <2>7. engine.letters # 0
    BY DEF IInv, WordInv
  <2>8. t \in Engines /\ t.letters = 2 /\ t.word = engine.word
    <3>1. t \in Engines
      BY <2>1, <2>6, TypedFields
    <3>2. t.letters = IF FALSE \/ engine.letters = 0 THEN 1 ELSE 2
      BY <2>1, <2>6, TypedFields
    <3>3. t.word = (IF FALSE THEN {} ELSE engine.word) \cup place
      BY <2>1, <2>6, TypedFields
    <3> QED
      BY <3>1, <3>2, <3>3, <2>6, <2>7
  <2> HIDE DEF t
  <2> QED
    BY <2>4, <2>8 DEF Engines
<1> QED
  BY <1>1, Invariance, PTL DEF Spec, LateEventsKeepTheWord

\* A word begun in the address bar gets no letter in a page that has kept the focus.
THEOREM BarEnds == Spec => BarWordEnds
<1>1. IInv /\ [Next]_vars =>
        [(Key \/ KeyReads) /\ AtRest /\ pub.settled /\ pub.ident = desk.focus
         /\ Relevant /\ pub.flags.web
          => ~engine.bar]_vars
  <2> SUFFICES ASSUME IInv, Key \/ KeyReads, pub.settled, Relevant, pub.flags.web, engine.bar
               PROVE  FALSE
    OBVIOUS
  <2>1. engine.inBar /\ engine.letters # 0 /\ engine.letters \in 0..2
    BY DEF IInv, WordInv, Engines
  <2>2. BarMark(engine) = engine
    BY <2>1 DEF BarMark
  <2>3. LeftBar(engine)
    BY <2>1 DEF LeftBar
  <2> QED
    BY <2>2, <2>3 DEF Key, KeyReads
<1> QED
  BY <1>1, Invariance, PTL DEF Spec, BarWordEnds
-----------------------------------------------------------------------------
(***************************************************************************)
(* What a sequence of signals does to an identity.                         *)
(***************************************************************************)
\* Nothing under way leaves it as it is, and what was there before helps.
LEMMA HeldBasics ==
    ASSUME NEW e \in Elements, NEW over, NEW q \in Seq(Signals), NEW x, NEW y
    PROVE  /\ Held(<<>>, e, over, x) <=> x
           /\ (x => y) => (Held(q, e, over, x) => Held(q, e, over, y))
BY DEF Held

\* A signal more.
LEMMA HeldAppend ==
    ASSUME NEW e \in Elements, NEW over, NEW q \in Seq(Signals), NEW s \in Signals, NEW x
    PROVE  Held(Append(q, s), e, over, x)
             <=> s = GainOf(e) \/ (s \notin over /\ Held(q, e, over, x))
<1> DEFINE r == Append(q, s)
           n == Len(q)
<1>1. /\ n \in Nat /\ DOMAIN q = 1..n /\ DOMAIN r = 1..(n + 1)
      /\ r[n + 1] = s /\ \A i \in 1..n : r[i] = q[i]
  OBVIOUS
<1>2. n + 1 \in DOMAIN r /\ \A i \in DOMAIN r : i <= n + 1 /\ (i \in 1..n \/ i = n + 1)
  BY <1>1
<1>3. \A i \in 1..n : i \in DOMAIN r /\ n + 1 > i
  BY <1>1
<1> HIDE DEF r, n
<1>4. ASSUME s = GainOf(e) PROVE Held(r, e, over, x)
  <2>1. \A j \in DOMAIN r : ~(j > n + 1)
    BY <1>1
  <2> QED
    BY <1>1, <1>2, <1>4, <2>1 DEF Held
<1>5. ASSUME s \notin over, Held(q, e, over, x) PROVE Held(r, e, over, x)
  <2>1. CASE x /\ \A j \in DOMAIN q : q[j] \notin over
    BY <1>1, <1>2, <1>5, <2>1 DEF Held
  <2>2. CASE \E i \in DOMAIN q : q[i] = GainOf(e) /\ \A j \in DOMAIN q : j > i => q[j] \notin over
    <3>1. PICK i \in 1..n : q[i] = GainOf(e) /\ \A j \in 1..n : j > i => q[j] \notin over
      BY <1>1, <2>2
    <3>2. r[i] = GainOf(e) /\ i \in DOMAIN r /\ \A j \in DOMAIN r : j > i => r[j] \notin over
      BY <1>1, <1>2, <1>3, <1>5, <3>1
    <3> QED
      BY <3>2 DEF Held
  <2> QED
    BY <1>5, <2>1, <2>2 DEF Held
<1>6. ASSUME Held(r, e, over, x), s # GainOf(e) PROVE s \notin over /\ Held(q, e, over, x)
  <2>1. CASE x /\ \A j \in DOMAIN r : r[j] \notin over
    <3>1. \A j \in DOMAIN q : q[j] \notin over
      BY <1>1, <1>3, <2>1
    <3> QED
      BY <1>1, <1>2, <2>1, <3>1 DEF Held
  <2>2. CASE \E i \in DOMAIN r : r[i] = GainOf(e) /\ \A j \in DOMAIN r : j > i => r[j] \notin over
    <3>1. PICK i \in DOMAIN r : r[i] = GainOf(e) /\ \A j \in DOMAIN r : j > i => r[j] \notin over
      BY <2>2
    <3>2. i \in 1..n
      BY <1>1, <1>2, <1>6, <3>1
    <3>3. s \notin over
      BY <1>1, <1>2, <1>3, <3>1, <3>2
    <3>4. q[i] = GainOf(e) /\ \A j \in DOMAIN q : j > i => q[j] \notin over
      BY <1>1, <1>3, <3>1, <3>2
    <3> QED
      BY <1>1, <3>2, <3>3, <3>4 DEF Held
  <2> QED
    BY <1>6, <2>1, <2>2 DEF Held
<1> QED
  BY <1>4, <1>5, <1>6 DEF r

\* A sequence in two parts.
LEMMA HeldSplit ==
    ASSUME NEW e \in Elements, NEW over, NEW q \in Seq(Signals), NEW n \in 0..Len(q), NEW x
    PROVE  Held(q, e, over, x)
             <=> Held(SubSeq(q, n + 1, Len(q)), e, over, Held(SubSeq(q, 1, n), e, over, x))
<1> DEFINE m == Len(q)
           a == SubSeq(q, 1, n)
           b == SubSeq(q, n + 1, m)
           None(s) == \A j \in DOMAIN s : s[j] \notin over
           Last(s, i) == s[i] = GainOf(e) /\ \A j \in DOMAIN s : j > i => s[j] \notin over
<1>1. /\ m \in Nat /\ n \in Nat /\ n <= m /\ DOMAIN q = 1..m
      /\ DOMAIN a = 1..n /\ DOMAIN b = 1..(m - n)
      /\ \A i \in 1..n : a[i] = q[i]
      /\ \A i \in 1..(m - n) : b[i] = q[n + i]
  OBVIOUS
<1>2. \A s, y : Held(s, e, over, y) <=> (\E i \in DOMAIN s : Last(s, i)) \/ (y /\ None(s))
  BY DEF Held
<1>p. /\ \A i \in 1..n : i \in 1..m
      /\ \A i \in 1..(m - n) : n + i \in 1..m /\ ~(n + i \in 1..n)
      /\ \A i \in 1..m : i \in 1..n \/ (i - n \in 1..(m - n) /\ i = n + (i - n))
      /\ \A i \in 1..n, j \in 1..(m - n) : n + j > i
      /\ \A i, j \in 1..(m - n) : j > i <=> n + j > n + i
      /\ \A i \in 1..n, j \in 1..(m - n) : ~(i > n + j)
  BY <1>1
<1> HIDE DEF a, b, m
<1>q. /\ \A i \in DOMAIN a : i \in DOMAIN q /\ a[i] = q[i]
      /\ \A i \in DOMAIN b : n + i \in DOMAIN q /\ b[i] = q[n + i]
  BY <1>1, <1>p
<1>r. \A i \in DOMAIN q : i \in DOMAIN a \/ \E k \in DOMAIN b : i = n + k
  BY <1>1, <1>p
<1>s. /\ \A i \in DOMAIN a, j \in DOMAIN b : n + j > i /\ ~(i > n + j)
      /\ \A i, j \in DOMAIN b : j > i <=> n + j > n + i
  BY <1>1, <1>p
<1>3. None(q) <=> None(a) /\ None(b)
  <2>1. ASSUME None(q) PROVE None(a) /\ None(b)
    BY <1>q, <2>1
  <2>2. ASSUME None(a), None(b) PROVE None(q)
    BY <1>q, <1>r, <2>2
  <2> QED
    BY <2>1, <2>2
<1>4. \A i \in DOMAIN a : Last(q, i) <=> Last(a, i) /\ None(b)
  <2> TAKE i \in DOMAIN a
  <2>1. ASSUME Last(q, i) PROVE Last(a, i) /\ None(b)
    BY <1>q, <1>s, <2>1
  <2>2. ASSUME Last(a, i), None(b) PROVE Last(q, i)
    BY <1>q, <1>r, <2>2
  <2> QED
    BY <2>1, <2>2
<1>5. \A i \in DOMAIN b : Last(q, n + i) <=> Last(b, i)
  <2> TAKE i \in DOMAIN b
  <2>1. ASSUME Last(q, n + i) PROVE Last(b, i)
    BY <1>q, <1>s, <2>1
  <2>2. ASSUME Last(b, i) PROVE Last(q, n + i)
    BY <1>q, <1>r, <1>s, <2>2
  <2> QED
    BY <2>1, <2>2
<1>6. (\E i \in DOMAIN q : Last(q, i))
        <=> (\E i \in DOMAIN a : Last(a, i) /\ None(b)) \/ (\E i \in DOMAIN b : Last(b, i))
  <2> HIDE DEF Last, None
  <2> QED
    BY <1>q, <1>r, <1>4, <1>5
<1>7. Held(q, e, over, x) <=> Held(b, e, over, Held(a, e, over, x))
  <2> HIDE DEF Last, None
  <2>1. Held(q, e, over, x) <=> (\E i \in DOMAIN q : Last(q, i)) \/ (x /\ None(q))
    BY <1>2
  <2>2. Held(a, e, over, x) <=> (\E i \in DOMAIN a : Last(a, i)) \/ (x /\ None(a))
    BY <1>2
  <2>3. Held(b, e, over, Held(a, e, over, x))
          <=> (\E i \in DOMAIN b : Last(b, i)) \/ (Held(a, e, over, x) /\ None(b))
    BY <1>2
  <2> QED
    BY <1>3, <1>6, <2>1, <2>2, <2>3
<1> QED
  BY <1>7 DEF a, b, m

\* The first signal and the others.
LEMMA HeldTail ==
    ASSUME NEW e \in Elements, NEW over, NEW q \in Seq(Signals), q # <<>>, NEW x
    PROVE  Held(q, e, over, x)
             <=> Held(Tail(q), e, over, Head(q) = GainOf(e) \/ (x /\ Head(q) \notin over))
<1> DEFINE a == SubSeq(q, 1, 1)
           b == SubSeq(q, 1 + 1, Len(q))
<1>1. 1 \in 0..Len(q) /\ b = Tail(q) /\ DOMAIN a = {1} /\ a[1] = Head(q)
  OBVIOUS
<1>2. Held(q, e, over, x) <=> Held(b, e, over, Held(a, e, over, x))
  BY <1>1, HeldSplit
<1> HIDE DEF a, b
<1>3. Held(a, e, over, x) <=> Head(q) = GainOf(e) \/ (x /\ Head(q) \notin over)
  <2>1. \A j \in DOMAIN a : ~(j > 1)
    BY <1>1
  <2> QED
    BY <1>1, <2>1 DEF Held
<1>4. Tail(q) \in Seq(Signals)
  OBVIOUS
<1>5. Held(Tail(q), e, over, Held(a, e, over, x))
        <=> Held(Tail(q), e, over, Head(q) = GainOf(e) \/ (x /\ Head(q) \notin over))
  BY <1>3 DEF Held
<1> QED
  BY <1>1, <1>2, <1>5

\* Coalescing keeps the order of what it keeps, which is everything but gains that
\* another follows.
LEMMA CoalescedOrder ==
    ASSUME NEW batch \in Seq(Signals)
    PROVE  \E f : /\ \A n \in DOMAIN Coalesced(batch) :
                        /\ f[n] \in DOMAIN batch /\ Coalesced(batch)[n] = batch[f[n]]
                        /\ \A k \in DOMAIN Coalesced(batch) : n < k <=> f[n] < f[k]
                  /\ \A i \in DOMAIN batch :
                        batch[i].kind # "gain" \/ i = LastGain(batch)
                            => \E n \in DOMAIN Coalesced(batch) : f[n] = i
<1> DEFINE kept == {i \in DOMAIN batch : batch[i].kind # "gain" \/ i = LastGain(batch)}
           rank(i) == Cardinality({j \in kept : j <= i})
           nth(n) == CHOOSE i \in kept : Cardinality({j \in kept : j <= i}) = n
           size == Cardinality(kept)
           f == [n \in 1..size |-> nth(n)]
<1>1. kept \in SUBSET (1..Len(batch)) /\ Len(batch) \in Nat /\ kept \subseteq DOMAIN batch
  OBVIOUS
<1>2. IsFiniteSet(kept) /\ size \in Nat
  <2> HIDE DEF kept
  <2>1. 1 \in Int /\ Len(batch) \in Int
    BY <1>1
  <2>2. IsFiniteSet(1..Len(batch))
    BY <2>1, FS_Interval
  <2>3. IsFiniteSet(kept)
    BY <2>2, <1>1, FS_Subset
  <2> QED
    BY <2>3, FS_CardinalityType
<1>3. Coalesced(batch) = [n \in 1..size |-> batch[nth(n)]]
  BY DEF Coalesced
<1>k. \A i \in DOMAIN batch : (batch[i].kind # "gain" \/ i = LastGain(batch)) <=> i \in kept
  OBVIOUS
<1> HIDE DEF kept
<1>4. \A n \in 1..size : nth(n) \in kept /\ rank(nth(n)) = n
  <2> TAKE n \in 1..size
  <2>1. \E i \in kept : Cardinality({j \in kept : j <= i}) = n
    BY <1>1, Ranked
  <2> QED
    BY <2>1
<1>n. \A i \in kept : i \in Nat
  BY <1>1
<1>5. \A i \in kept : rank(i) \in 1..size
  <2> TAKE i \in kept
  <2> DEFINE Upto == {j \in kept : j <= i}
  <2>1. Upto \in SUBSET kept /\ i \in Upto
    BY <1>n
  <2> HIDE DEF Upto
  <2>2. IsFiniteSet(Upto) /\ Cardinality(Upto) <= size /\ Cardinality(Upto) \in Nat
    BY <1>2, <2>1, FS_Subset, FS_CardinalityType
  <2>3. Cardinality(Upto) # 0
    BY <2>1, <2>2, FS_EmptySet
  <2>4. Cardinality(Upto) \in 1..size
    BY <1>2, <2>2, <2>3
  <2> QED
    BY <2>4 DEF Upto
<1>6. \A i, j \in kept : i < j => rank(i) < rank(j)
  <2> SUFFICES ASSUME NEW i \in kept, NEW j \in kept, i < j PROVE rank(i) < rank(j)
    OBVIOUS
  <2> DEFINE A == {k \in kept : k <= i}
             B == {k \in kept : k <= j}
  <2>1. A \in SUBSET B /\ j \in B /\ j \notin A /\ B \in SUBSET kept
    BY <1>n
  <2> HIDE DEF A, B
  <2>2. IsFiniteSet(B)
    BY <1>2, <2>1, FS_Subset
  <2>3. IsFiniteSet(A) /\ Cardinality(A) <= Cardinality(B) /\ (Cardinality(A) = Cardinality(B) => A = B)
    BY <2>1, <2>2, FS_Subset
  <2>4. Cardinality(A) \in Nat /\ Cardinality(B) \in Nat
    BY <2>2, <2>3, FS_CardinalityType
  <2>5. Cardinality(A) < Cardinality(B)
    BY <2>1, <2>3, <2>4
  <2> QED
    BY <2>5 DEF A, B
<1> HIDE DEF rank, nth, size
<1>7. \A n \in 1..size : n \in Nat /\ f[n] \in kept /\ f[n] \in Nat /\ rank(f[n]) = n
  BY <1>2, <1>4, <1>n
<1>8. /\ DOMAIN Coalesced(batch) = 1..size
      /\ \A n \in 1..size : Coalesced(batch)[n] = batch[f[n]]
  BY <1>3
<1> HIDE DEF f
<1>9. \A n, k \in 1..size : n < k <=> f[n] < f[k]
  <2> TAKE n, k \in 1..size
  <2>1. n \in Nat /\ k \in Nat /\ f[n] \in Nat /\ f[k] \in Nat
    BY <1>7
  <2>2. f[n] < f[k] => n < k
    BY <1>6, <1>7
  <2>3. f[k] < f[n] => k < n
    BY <1>6, <1>7
  <2>4. f[k] = f[n] => k = n
    BY <1>7
  <2> QED
    BY <2>1, <2>2, <2>3, <2>4
<1>10. \A i \in kept : \E n \in 1..size : f[n] = i
  <2> TAKE i \in kept
  <2>1. rank(i) \in 1..size
    BY <1>5
  <2>2. f[rank(i)] \in kept /\ rank(f[rank(i)]) = rank(i)
    BY <1>7, <2>1
  <2>3. ~(f[rank(i)] < i) /\ ~(i < f[rank(i)])
    <3>1. rank(i) \in Nat
      BY <2>1, <1>2
    <3> QED
      BY <1>6, <2>2, <3>1
  <2>4. f[rank(i)] = i
    BY <1>n, <2>2, <2>3
  <2> QED
    BY <2>1, <2>4
<1>11. \A n \in DOMAIN Coalesced(batch) :
        /\ f[n] \in DOMAIN batch /\ Coalesced(batch)[n] = batch[f[n]]
        /\ \A k \in DOMAIN Coalesced(batch) : n < k <=> f[n] < f[k]
  BY <1>1, <1>7, <1>8, <1>9
<1>12. \A i \in DOMAIN batch :
        batch[i].kind # "gain" \/ i = LastGain(batch)
            => \E n \in DOMAIN Coalesced(batch) : f[n] = i
  BY <1>8, <1>10, <1>k
<1> QED
  BY <1>11, <1>12

\* So an accessible that has the identity after the coalesced batch might have it after
\* the batch, and one that has it after the whole batch keeps it.
LEMMA CoalescedHeld ==
    ASSUME NEW e \in Elements, NEW q \in Seq(Signals), NEW x
    PROVE  /\ Held(Coalesced(q), e, Losses(e), x) => Held(q, e, Losses(e), x)
           /\ Held(q, e, Losses(e) \cup Gains, x)
                => Held(Coalesced(q), e, Losses(e) \cup Gains, x)
<1> DEFINE c == Coalesced(q)
<1>1. PICK f : /\ \A n \in DOMAIN c :
                    /\ f[n] \in DOMAIN q /\ c[n] = q[f[n]]
                    /\ \A k \in DOMAIN c : n < k <=> f[n] < f[k]
               /\ \A i \in DOMAIN q :
                    q[i].kind # "gain" \/ i = LastGain(q) => \E n \in DOMAIN c : f[n] = i
  BY CoalescedOrder
<1>2. c \in Seq(Signals) /\ DOMAIN c \subseteq Nat /\ DOMAIN q \subseteq Nat
  BY CoalescedSignals
<1>3. \A i \in DOMAIN q : q[i].kind = "gain" => q[i] \in Gains
  <2>1. \A i \in DOMAIN q : q[i] \in Signals
    OBVIOUS
  <2> QED
    BY <2>1 DEF Signals, Gains
<1>4. \A s \in Losses(e) : s.kind # "gain"
  BY DEF Losses
<1>g. GainOf(e).kind = "gain"
  BY DEF GainOf
<1> HIDE DEF c
<1>5. ASSUME Held(c, e, Losses(e), x) PROVE Held(q, e, Losses(e), x)
  <2>1. \A j \in DOMAIN q : q[j] \in Losses(e) => \E n \in DOMAIN c : f[n] = j
    BY <1>1, <1>4
  <2>2. CASE x /\ \A j \in DOMAIN c : c[j] \notin Losses(e)
    <3>1. \A j \in DOMAIN q : q[j] \notin Losses(e)
      BY <1>1, <2>1, <2>2
    <3> QED
      BY <2>2, <3>1 DEF Held
  <2>3. ASSUME NEW n \in DOMAIN c, c[n] = GainOf(e),
               \A j \in DOMAIN c : j > n => c[j] \notin Losses(e)
        PROVE  Held(q, e, Losses(e), x)
    <3>1. q[f[n]] = GainOf(e) /\ f[n] \in DOMAIN q
      BY <1>1, <2>3
    <3>2. \A j \in DOMAIN q : j > f[n] => q[j] \notin Losses(e)
      <4> SUFFICES ASSUME NEW j \in DOMAIN q, j > f[n], q[j] \in Losses(e) PROVE FALSE
        OBVIOUS
      <4>1. PICK k \in DOMAIN c : f[k] = j
        BY <2>1
      <4>2. f[n] < f[k]
        BY <1>2, <3>1, <4>1
      <4>3. n < k
        BY <1>1, <4>2
      <4>4. k > n
        BY <1>2, <4>3
      <4> QED
        BY <1>1, <2>3, <4>1, <4>4
    <3> QED
      BY <3>1, <3>2 DEF Held
  <2> QED
    BY <1>5, <2>2, <2>3 DEF Held
<1>6. ASSUME Held(q, e, Losses(e) \cup Gains, x) PROVE Held(c, e, Losses(e) \cup Gains, x)
  <2> DEFINE over == Losses(e) \cup Gains
  <2>1. CASE x /\ \A j \in DOMAIN q : q[j] \notin over
    <3>1. \A j \in DOMAIN c : c[j] \notin over
      BY <1>1, <2>1
    <3> QED
      BY <2>1, <3>1 DEF Held
  <2>2. ASSUME NEW i \in DOMAIN q, q[i] = GainOf(e), \A j \in DOMAIN q : j > i => q[j] \notin over
        PROVE  Held(c, e, over, x)
    <3> DEFINE gains == {j \in DOMAIN q : q[j].kind = "gain"}
    <3>1. i \in gains
      BY <1>g, <2>2
    <3>2. \A j \in gains : ~(j > i)
      BY <1>3, <2>2
    <3>3. \A j \in gains : j <= i
      BY <1>2, <3>2
    <3>4. LastGain(q) = CHOOSE k \in gains : \A j \in gains : j <= k
      BY <3>1 DEF LastGain
    <3>5. LastGain(q) \in gains /\ \A j \in gains : j <= LastGain(q)
      <4> HIDE DEF gains
      <4> QED
        BY <3>1, <3>3, <3>4
    <3>6. LastGain(q) = i
      BY <1>2, <3>1, <3>3, <3>5
    <3>7. PICK n \in DOMAIN c : f[n] = i
      BY <1>1, <3>6
    <3>8. c[n] = GainOf(e)
      BY <1>1, <2>2, <3>7
    <3>9. \A j \in DOMAIN c : j > n => c[j] \notin over
      <4> SUFFICES ASSUME NEW j \in DOMAIN c, j > n PROVE c[j] \notin over
        OBVIOUS
      <4>1. n < j
        BY <1>2
      <4>2. f[n] < f[j] /\ f[j] \in DOMAIN q /\ c[j] = q[f[j]]
        BY <1>1, <4>1
      <4>3. f[j] > i
        BY <1>2, <3>7, <4>2
      <4> QED
        BY <2>2, <4>2, <4>3
    <3> QED
      BY <3>8, <3>9 DEF Held
  <2> QED
    BY <1>6, <2>1, <2>2 DEF Held
<1> QED
  BY <1>5, <1>6 DEF c
-----------------------------------------------------------------------------
(***************************************************************************)
(* The identity converges: the steps that handle signals.                  *)
(***************************************************************************)
HeldInBatch(e, over) == Held(monitor.batch, e, over, pub.ident = e)

\* What a step of the monitor leaves of the desktop.
SameWay ==
    /\ desk'.focus = desk.focus /\ desk'.wire = desk.wire /\ desk'.apps = desk.apps
    /\ desk'.alive = desk.alive
    /\ desk.missed => desk'.missed
    /\ desk'.faults = 0 => desk.faults = 0

\* What is known of the desktop.
LEMMA SameWayFacts ==
    ASSUME MonitorInv
    PROVE  /\ desk.focus \in Maybe /\ desk.missed \in BOOLEAN /\ desk.faults \in Nat
           /\ desk.wire \in [Buses -> Seq(Signals)] /\ desk.alive \in SUBSET Buses
           /\ desk.apps \in SUBSET Buses
           /\ \A e \in Elements : e # Nobody /\ BusOf[e] \in Buses
BY Fields, Constants DEF Desks, Facts

\* A step that leaves what is under way to the monitor keeps the course if it keeps what
\* the batch makes of the identity.
LEMMA CourseKept ==
    ASSUME MonitorInv, CourseInv, SameWay, monitor'.queue = monitor.queue,
           \A e \in Elements : HeldInBatch(e, Losses(e))' => HeldInBatch(e, Losses(e)),
           ~desk'.missed => \A e \in Elements :
                HeldInBatch(e, Losses(e) \cup Gains) => HeldInBatch(e, Losses(e) \cup Gains)'
    PROVE  CourseInv'
<1>1. ASSUME NEW e \in Elements, MayEndWith(e)' PROVE MayEndWith(e)
  BY <1>1 DEF MayEndWith, HeldInTheEnd, HeldInBatch, Held, SameWay
<1>2. ASSUME NEW e \in Elements, WillEndWith(e), ~desk'.missed PROVE WillEndWith(e)'
  BY <1>2 DEF WillEndWith, HeldInTheEnd, HeldInBatch, Held, SameWay
<1>3. desk.focus # Nobody => desk.focus \in Elements
  BY SameWayFacts DEF Maybe
<1> QED
  BY <1>1, <1>2, <1>3 DEF CourseInv, SameWay, OneApp

\* It keeps the paths if it is careful with the queue and the batch.
LEMMA PathKept ==
    ASSUME PathInv, SameWay,
           monitor'.at \in {"batch", "queries", "flags", "stamp"} \/ monitor'.batch = <<>>,
           monitor'.at \in {"off", "connect", "leaving"} => monitor'.queue = <<>> /\ desk'.missed
    PROVE  PathInv'
BY DEF PathInv, SameWay, OnBus

\* The signal at the head of a batch.
LEMMA HeadIs ==
    ASSUME MonitorInv, NEW kind, Signal(kind)
    PROVE  /\ monitor.batch \in Seq(Signals) /\ monitor.batch # <<>>
           /\ Head(monitor.batch) = [kind |-> kind, of |-> Head(monitor.batch).of]
<1>1. monitor.batch \in Seq(Signals) /\ monitor.batch # <<>>
  BY Fields DEF Signal
<1>2. Head(monitor.batch) \in Signals
  BY <1>1
<1> QED
  BY <1>1, <1>2 DEF Signals, Signal

\* When a signal is handled its effect on the identity moves from the batch to what is
\* published.
LEMMA HeadHandled ==
    ASSUME MonitorInv, monitor.batch # <<>>, monitor'.batch = Tail(monitor.batch),
           \A e \in Elements :
              /\ pub'.ident = e => \/ Head(monitor.batch) = GainOf(e)
                                   \/ pub.ident = e /\ Head(monitor.batch) \notin Losses(e)
              /\ \/ Head(monitor.batch) = GainOf(e)
                 \/ pub.ident = e /\ Head(monitor.batch) \notin Losses(e) \cup Gains
                 => pub'.ident = e
    PROVE  \A e \in Elements :
              /\ HeldInBatch(e, Losses(e))' => HeldInBatch(e, Losses(e))
              /\ HeldInBatch(e, Losses(e) \cup Gains) => HeldInBatch(e, Losses(e) \cup Gains)'
<1> TAKE e \in Elements
<1> DEFINE q == monitor.batch
           h == Head(monitor.batch)
<1>1. q \in Seq(Signals) /\ q # <<>>
  BY Fields
<1>2. ASSUME NEW over
      PROVE  Held(q, e, over, pub.ident = e)
               <=> Held(Tail(q), e, over, h = GainOf(e) \/ (pub.ident = e /\ h \notin over))
  <2> DEFINE x == pub.ident = e
  <2>1. Held(q, e, over, x) <=> Held(Tail(q), e, over, h = GainOf(e) \/ (x /\ h \notin over))
    <3> HIDE DEF q, x
    <3> QED
      BY <1>1, HeldTail DEF h, q
  <2> QED
    BY <2>1
<1>3. /\ pub'.ident = e => h = GainOf(e) \/ (pub.ident = e /\ h \notin Losses(e))
      /\ h = GainOf(e) \/ (pub.ident = e /\ h \notin Losses(e) \cup Gains) => pub'.ident = e
  OBVIOUS
<1>4. \A over : HeldInBatch(e, over)' <=> Held(Tail(q), e, over, pub'.ident = e)
  BY DEF HeldInBatch
<1>5. \A over : HeldInBatch(e, over) <=> Held(q, e, over, pub.ident = e)
  BY DEF HeldInBatch
<1> HIDE DEF q, h
<1>6. Held(Tail(q), e, Losses(e), pub'.ident = e)
        => Held(Tail(q), e, Losses(e), h = GainOf(e) \/ (pub.ident = e /\ h \notin Losses(e)))
  BY <1>3 DEF Held
<1>7. Held(Tail(q), e, Losses(e) \cup Gains,
           h = GainOf(e) \/ (pub.ident = e /\ h \notin Losses(e) \cup Gains))
        => Held(Tail(q), e, Losses(e) \cup Gains, pub'.ident = e)
  BY <1>3 DEF Held
<1>8. HeldInBatch(e, Losses(e))' => HeldInBatch(e, Losses(e))
  BY <1>2, <1>4, <1>5, <1>6
<1>9. HeldInBatch(e, Losses(e) \cup Gains) => HeldInBatch(e, Losses(e) \cup Gains)'
  BY <1>2, <1>4, <1>5, <1>7
<1> QED
  BY <1>8, <1>9

\* A message that is done with.
LEMMA HandledPath ==
    ASSUME NEW m \in Threads
    PROVE  /\ Handled(m).batch = m.batch /\ Handled(m).queue = m.queue
           /\ Handled(m).at \in {"poll", "batch"}
           /\ Handled(m).at = "batch" \/ m.batch = <<>>
BY DEF Handled, Threads

\* A step of the loop that ends in the loop keeps the truth of what is published if it
\* publishes nothing but a loss of the identity.
LEMMA TruthKept ==
    ASSUME TruthInv, SameWay, monitor.at \in {"poll", "batch"}, monitor'.at \in {"poll", "batch"},
           known'.asked \subseteq known.asked, known'.native \subseteq known'.asked,
           \A b \in known'.asked : b \in known'.native <=> b \in known.native,
           \/ pub'.ident = Nobody
           \/ /\ pub'.ident = pub.ident /\ pub'.fresh = pub.fresh
              /\ pub'.sheet = pub.sheet /\ pub'.flags = pub.flags
    PROVE  TruthInv'
<1>1. pub'.ident # Nobody /\ ~pub'.fresh => monitor'.at \in {"queries", "flags", "stamp"}
  BY DEF TruthInv
<1>2. desk'.faults = 0 => \A b \in desk'.alive \cap known'.asked : b \in known'.native <=> NativeApp(b)
  BY DEF TruthInv, SameWay
<1>3. ASSUME desk'.faults = 0, pub'.ident # Nobody, BusOf[pub'.ident] \in desk'.alive
      PROVE  /\ pub'.fresh => pub'.sheet = (pub'.ident \in Sheets)
             /\ pub'.fresh => Judged' = Truth(pub'.ident)
  BY <1>3 DEF TruthInv, SameWay, Judged, Truth
<1> QED
  BY <1>1, <1>2, <1>3 DEF TruthInv

\* A blur, a selection and an exit.
LEMMA LossCourse ==
    ASSUME MonitorInv, RestInv, Blur \/ Select \/ Gone
    PROVE  RestInv'
<1>0. PathInv /\ CourseInv /\ TruthInv
  BY DEF RestInv
<1> DEFINE h == Head(monitor.batch)
           m == [monitor EXCEPT !.batch = Tail(@)]
<1>1. /\ monitor.at = "batch" /\ Tail(monitor.batch) \in Seq(Signals)
      /\ monitor.batch # <<>> /\ desk' = desk /\ monitor' = Handled(m)
      /\ h = [kind |-> h.kind, of |-> h.of] /\ h.kind \in {"blur", "select", "gone"}
  BY HeadTyped, HeadIs DEF Blur, Select, Gone, Signal
<1>2. m \in Threads /\ m.batch = Tail(monitor.batch) /\ m.queue = monitor.queue
  BY <1>1, Fields DEF Threads
<1>3. /\ monitor'.batch = Tail(monitor.batch) /\ monitor'.queue = monitor.queue
      /\ monitor'.at \in {"poll", "batch"}
      /\ monitor'.at = "batch" \/ monitor'.batch = <<>>
  BY <1>1, <1>2, HandledPath
<1>4. SameWay
  BY <1>1 DEF SameWay
<1>5. PathInv'
  BY <1>0, <1>3, <1>4, PathKept
<1>6. \A e \in Elements : h # GainOf(e) /\ h \notin Gains
  BY <1>1 DEF GainOf, Gains
<1>7. /\ \A e \in Elements : pub'.ident = e <=> pub.ident = e /\ h \notin Losses(e)
      /\ known'.asked \subseteq known.asked /\ known'.native \subseteq known'.asked
      /\ \A b \in known'.asked : b \in known'.native <=> b \in known.native
      /\ \/ pub'.ident = Nobody
         \/ /\ pub'.ident = pub.ident /\ pub'.fresh = pub.fresh
            /\ pub'.sheet = pub.sheet /\ pub'.flags = pub.flags
  <2>1. (\A e \in Elements : e # Nobody) /\ known.native \subseteq known.asked
    BY <1>0, SameWayFacts DEF TruthInv
  <2>2. CASE Blur
    <3> DEFINE p == InvalidateFocus(pub, {h.of})
    <3>1. /\ pub' = [p EXCEPT !.polled = IF @ = h.of THEN Nobody ELSE @] /\ known' = known
          /\ h = [kind |-> "blur", of |-> h.of]
      BY <2>2, HeadIs DEF Blur, Blurred
    <3>2. p = IF pub.ident = h.of THEN Invalidated(pub) ELSE pub
      BY DEF InvalidateFocus
    <3>3. p \in Published /\ (p.ident = Nobody \/ p = pub)
          /\ (pub.ident = h.of => p.ident = Nobody) /\ (pub.ident # h.of => p = pub)
      BY <3>2, Fields, Withdrawn
    <3> HIDE DEF p
    <3>4. /\ pub'.ident = p.ident /\ pub'.fresh = p.fresh
          /\ pub'.sheet = p.sheet /\ pub'.flags = p.flags
      BY <3>1, <3>3 DEF Published
    <3>5. \A e \in Elements : h \notin Losses(e) <=> h.of # e
      BY <3>1 DEF Losses
    <3> QED
      BY <2>1, <3>1, <3>3, <3>4, <3>5
  <2>3. CASE Select
    <3>1. /\ pub' \in {pub, [pub EXCEPT !.serial = @ + 1]} /\ known' = known
          /\ h = [kind |-> "select", of |-> h.of]
      BY <2>3, HeadIs DEF Select
    <3>2. /\ pub'.ident = pub.ident /\ pub'.fresh = pub.fresh
          /\ pub'.sheet = pub.sheet /\ pub'.flags = pub.flags
      BY <3>1, Fields DEF Published
    <3>3. \A e \in Elements : h \notin Losses(e)
      BY <3>1 DEF Losses
    <3> QED
      BY <2>1, <3>1, <3>2, <3>3
  <2>4. CASE Gone
    <3> DEFINE its == {e \in Elements : BusOf[e] = h.of}
    <3>1. /\ pub' = InvalidateFocus(pub, its)
          /\ known' = [known EXCEPT !.pid = @ \ {h.of}, !.native = @ \ {h.of},
                                    !.asked = @ \ {h.of}]
          /\ h = [kind |-> "gone", of |-> h.of]
      BY <2>4, HeadIs DEF Gone
    <3>2. pub' = IF pub.ident \in its THEN Invalidated(pub) ELSE pub
      BY <3>1 DEF InvalidateFocus
    <3>3. /\ pub.ident \in its => pub'.ident = Nobody
          /\ pub.ident \notin its => pub' = pub
      BY <3>2, Fields, Withdrawn
    <3>4. \A e \in Elements : h \notin Losses(e) <=> e \notin its
      BY <3>1 DEF Losses
    <3>5. known'.asked = known.asked \ {h.of} /\ known'.native = known.native \ {h.of}
      BY <3>1, Fields DEF Caches
    <3> HIDE DEF its
    <3> QED
      BY <2>1, <3>3, <3>4, <3>5
  <2> QED
    BY <2>2, <2>3, <2>4
<1> HIDE DEF m
<1>8. \A e \in Elements :
        /\ pub'.ident = e => h = GainOf(e) \/ (pub.ident = e /\ h \notin Losses(e))
        /\ h = GainOf(e) \/ (pub.ident = e /\ h \notin Losses(e) \cup Gains) => pub'.ident = e
  BY <1>6, <1>7
<1>9. \A e \in Elements :
        /\ HeldInBatch(e, Losses(e))' => HeldInBatch(e, Losses(e))
        /\ HeldInBatch(e, Losses(e) \cup Gains) => HeldInBatch(e, Losses(e) \cup Gains)'
  BY <1>1, <1>3, <1>8, HeadHandled
<1>10. CourseInv'
  BY <1>0, <1>3, <1>4, <1>9, CourseKept
<1>11. TruthInv'
  BY <1>0, <1>1, <1>3, <1>4, <1>7, TruthKept
<1> QED
  BY <1>5, <1>10, <1>11 DEF RestInv

\* The batch that is taken.
LEMMA TakeCourse ==
    ASSUME MonitorInv, RestInv, Take
    PROVE  RestInv'
<1>0. PathInv /\ CourseInv /\ TruthInv
  BY DEF RestInv
<1> DEFINE n == IF Len(monitor.queue) < Drain THEN Len(monitor.queue) ELSE Drain
           q == monitor.queue
           a == SubSeq(q, 1, n)
           b == SubSeq(q, n + 1, Len(q))
<1>1. q \in Seq(Signals) /\ n \in 0..Len(q)
  BY Fields, Constants DEF Facts
<1>2. /\ monitor' = [monitor EXCEPT !.at = "batch", !.batch = Coalesced(a), !.queue = b]
      /\ desk' = desk /\ known' = known /\ pub' = pub /\ monitor.at = "poll"
  BY DEF Take
<1>3. a \in Seq(Signals) /\ b \in Seq(Signals)
  <2> HIDE DEF n, q
  <2> QED
    BY <1>1
<1>4. \A e \in Elements : \A over : \A x \in BOOLEAN :
        Held(q, e, over, x) <=> Held(b, e, over, Held(a, e, over, x))
  <2> HIDE DEF n, q
  <2> QED
    BY <1>1, HeldSplit
<1>5. monitor.batch = <<>>
  BY <1>0, <1>2 DEF PathInv
<1> HIDE DEF a, b, q, n
<1>6. monitor'.at = "batch" /\ monitor'.batch = Coalesced(a) /\ monitor'.queue = b
  BY <1>2, Fields DEF Threads
<1>7. SameWay
  BY <1>2 DEF SameWay
<1>8. PathInv'
  BY <1>0, <1>6, <1>7, PathKept
<1>9. ASSUME NEW e \in Elements, MayEndWith(e)' PROVE MayEndWith(e)
  <2> DEFINE L == Losses(e)
             w == desk.wire[BusOf[e]]
             x == pub.ident = e
  <2>1. Held(w, e, L, Held(b, e, L, Held(Coalesced(a), e, L, x)))
    BY <1>2, <1>6, <1>9 DEF MayEndWith, HeldInTheEnd
  <2>2. Held(Coalesced(a), e, L, x) => Held(a, e, L, x)
    BY <1>3, CoalescedHeld
  <2>3. Held(q, e, L, x) <=> Held(b, e, L, Held(a, e, L, x))
    BY <1>4
  <2>4. Held(monitor.batch, e, L, x) <=> x
    BY <1>5, HeldBasics, <1>3
  <2> HIDE DEF L, w, x
  <2>5. Held(w, e, L, Held(q, e, L, Held(monitor.batch, e, L, x)))
    BY <2>1, <2>2, <2>3, <2>4 DEF Held
  <2> QED
    BY <2>5 DEF MayEndWith, HeldInTheEnd, L, w, x, q
<1>10. ASSUME NEW e \in Elements, WillEndWith(e) PROVE WillEndWith(e)'
  <2> DEFINE L == Losses(e) \cup Gains
             w == desk.wire[BusOf[e]]
             x == pub.ident = e
  <2>1. Held(w, e, L, Held(q, e, L, Held(monitor.batch, e, L, x)))
    BY <1>10 DEF WillEndWith, HeldInTheEnd, q
  <2>2. Held(a, e, L, x) => Held(Coalesced(a), e, L, x)
    BY <1>3, CoalescedHeld
  <2>3. Held(q, e, L, x) <=> Held(b, e, L, Held(a, e, L, x))
    BY <1>4
  <2>4. Held(monitor.batch, e, L, x) <=> x
    BY <1>5, HeldBasics, <1>3
  <2> HIDE DEF L, w, x
  <2>5. Held(w, e, L, Held(b, e, L, Held(Coalesced(a), e, L, x)))
    BY <2>1, <2>2, <2>3, <2>4 DEF Held
  <2> QED
    BY <1>2, <1>6, <2>5 DEF WillEndWith, HeldInTheEnd, L, w, x
<1>11. CourseInv'
  <2>1. desk.focus # Nobody => desk.focus \in Elements
    BY SameWayFacts DEF Maybe
  <2> QED
    BY <1>0, <1>2, <1>9, <1>10, <2>1 DEF CourseInv, OneApp
<1>12. TruthInv'
  <2>1. known.native \subseteq known.asked
    BY <1>0 DEF TruthInv
  <2> QED
    BY <1>0, <1>2, <1>6, <1>7, <2>1, TruthKept
<1> QED
  BY <1>8, <1>11, <1>12 DEF RestInv
-----------------------------------------------------------------------------
(***************************************************************************)
(* The steps of a gain.                                                    *)
(***************************************************************************)
\* A step that leaves the batch and the identity alone keeps the course.
LEMMA CourseUntouched ==
    ASSUME MonitorInv, CourseInv, SameWay, monitor'.queue = monitor.queue,
           monitor'.batch = monitor.batch, pub'.ident = pub.ident
    PROVE  CourseInv'
<1>1. \A e \in Elements : \A over : HeldInBatch(e, over)' <=> HeldInBatch(e, over)
  BY DEF HeldInBatch
<1> QED
  BY <1>1, CourseKept

\* The gain that is taken in work becomes the identity.
LEMMA BeginCourse ==
    ASSUME MonitorInv, RestInv, Begin
    PROVE  RestInv'
<1>0. PathInv /\ CourseInv /\ TruthInv
  BY DEF RestInv
<1> DEFINE h == Head(monitor.batch)
           p == BeginFocus(pub, h.of)
<1>1. /\ h.of \in Elements /\ monitor.at = "batch" /\ Tail(monitor.batch) \in Seq(Signals)
      /\ monitor.batch # <<>> /\ h = GainOf(h.of)
  BY HeadTyped, HeadIs DEF Begin, Signal, GainOf
<1>2. /\ monitor' = [monitor EXCEPT !.batch = Tail(@), !.target = h.of, !.at = "queries"]
      /\ pub' = [p EXCEPT !.polled = Nobody] /\ desk' = desk /\ known' = known
  BY DEF Begin
<1>3. p \in Published /\ ~p.fresh /\ p.ident = h.of
  BY <1>1, Fields, Begun
<1> HIDE DEF p
<1>4. pub'.ident = h.of /\ ~pub'.fresh
  BY <1>2, <1>3 DEF Published
<1>5. /\ monitor'.batch = Tail(monitor.batch) /\ monitor'.queue = monitor.queue
      /\ monitor'.at = "queries"
  BY <1>1, <1>2, Fields DEF Threads
<1>6. SameWay
  BY <1>2 DEF SameWay
<1>7. PathInv'
  BY <1>0, <1>5, <1>6, PathKept
<1>8. \A e \in Elements : /\ h = GainOf(e) <=> e = h.of
                          /\ h \in Gains
  BY <1>1 DEF GainOf, Gains
<1>9. \A e \in Elements :
        /\ pub'.ident = e => h = GainOf(e) \/ (pub.ident = e /\ h \notin Losses(e))
        /\ h = GainOf(e) \/ (pub.ident = e /\ h \notin Losses(e) \cup Gains) => pub'.ident = e
  BY <1>4, <1>8
<1>10. \A e \in Elements :
        /\ HeldInBatch(e, Losses(e))' => HeldInBatch(e, Losses(e))
        /\ HeldInBatch(e, Losses(e) \cup Gains) => HeldInBatch(e, Losses(e) \cup Gains)'
  BY <1>1, <1>5, <1>9, HeadHandled
<1>11. CourseInv'
  BY <1>0, <1>5, <1>6, <1>10, CourseKept
<1>12. TruthInv'
  BY <1>0, <1>2, <1>4, <1>5 DEF TruthInv
<1> QED
  BY <1>7, <1>11, <1>12 DEF RestInv

\* What e is, were every query about it answered: the walk is skipped in a native
\* application, and the verdict is the truth.
Plain(e) == /\ SkipsWalk(e, {}) <=> NativeApp(BusOf[e])
            /\ [ui |-> BrowserUI(e, {}), web |-> ~BrowserUI(e, {}), entry |-> TextEntry(e, {})]
                 = Truth(e)
            /\ SheetsEditor(e, {}) = (e \in Sheets)

\* With every answer the verdict is the truth, whatever is remembered if that is.
LEMMA Answered ==
    ASSUME NEW e \in Elements,
           BusOf[e] \in known.asked => (BusOf[e] \in known.native <=> NativeApp(BusOf[e]))
    PROVE  Plain(e)
<1>1. SkipsWalk(e, {}) <=> NativeApp(BusOf[e])
  BY DEF SkipsWalk, PidKnown
<1>2. KindOf[e] \in WebKinds => ~NativeApp(BusOf[e])
  BY DEF NativeApp
<1>3. InDocument(e, {}) <=> KindOf[e] \in WebKinds
  BY <1>1, <1>2 DEF InDocument, Walks
<1>4. KindOf[e] \in Kinds
  BY Constants DEF Facts
<1>5. /\ VivaldiAddressBar(e, {}) <=> KindOf[e] = "vivaldi"
      /\ SheetsEditor(e, {}) <=> KindOf[e] = "sheet"
  BY <1>3 DEF VivaldiAddressBar, SheetsEditor, Identified, WebKinds, Kinds
<1>6. BrowserUI(e, {}) <=> KindOf[e] \in {"toolbar", "native", "vivaldi"}
  BY <1>3, <1>4, <1>5 DEF BrowserUI, WebKinds, Kinds
<1>7. KindOf[e] \in WebKinds \ {"vivaldi"} <=> ~(KindOf[e] \in {"toolbar", "native", "vivaldi"})
  BY <1>4 DEF WebKinds, Kinds
<1>8. BrowserUI(e, {}) = (KindOf[e] \in {"toolbar", "native", "vivaldi"})
  BY <1>6 DEF BrowserUI
<1>9. (~BrowserUI(e, {})) = (KindOf[e] \in WebKinds \ {"vivaldi"})
  BY <1>6, <1>7 DEF BrowserUI
<1>10. TextEntry(e, {}) = (KindOf[e] \notin Grids)
  BY DEF TextEntry
<1>11. SheetsEditor(e, {}) = (e \in Sheets)
  BY <1>5 DEF Sheets, SheetsEditor, Identified
<1> QED
  BY <1>1, <1>8, <1>9, <1>10, <1>11 DEF Plain, Truth

\* The questions.
LEMMA AskCourse ==
    ASSUME MonitorInv, RestInv, Ask
    PROVE  RestInv'
<1>0. PathInv /\ CourseInv /\ TruthInv
  BY DEF RestInv
<1> DEFINE e == monitor.target
           b == BusOf[e]
<1>1. /\ monitor.at = "queries" /\ e \in Elements /\ pub.ident = e /\ ~pub.fresh
  BY DEF Ask, MonitorInv, WorkInv
<1>2. PICK failed \in Failures(b) :
        /\ monitor' = [monitor EXCEPT !.failed = failed, !.at = "flags"]
        /\ desk' = [desk EXCEPT !.faults = IF Cardinality(failed) = 1 THEN @ + 1 ELSE @]
        /\ known' = [known EXCEPT
            !.pid = IF PidKnown(e, failed) THEN @ \cup {b} ELSE @,
            !.asked = @ \cup {b},
            !.native = IF SkipsWalk(e, failed) THEN @ \cup {b} ELSE @,
            !.boxes = IF NameBox(e, failed) THEN @ \cup {e} ELSE @]
        /\ pub' = [pub EXCEPT
            !.sheet = SheetsEditor(e, failed),
            !.editor = IF SheetsEditor(e, failed) THEN e ELSE Nobody,
            !.box = NameBox(e, failed),
            !.container = IF InDocument(e, failed) /\ KindOf[e] \in Grids
                             /\ "role" \notin failed
                          THEN e ELSE Nobody]
  BY DEF Ask
<1>b. b \in Buses /\ desk.faults \in Nat
  BY <1>1, SameWayFacts
<1>3. /\ monitor'.at = "flags" /\ monitor'.failed = failed /\ monitor'.target = e
      /\ monitor'.batch = monitor.batch /\ monitor'.queue = monitor.queue
  BY <1>2, Fields DEF Threads
<1>4. /\ pub'.ident = e /\ ~pub'.fresh /\ pub'.sheet = SheetsEditor(e, failed)
  <2> HIDE DEF e, b
  <2> QED
    BY <1>1, <1>2, Fields DEF Published
<1>5. /\ known'.asked = known.asked \cup {b}
      /\ known'.native = IF SkipsWalk(e, failed) THEN known.native \cup {b} ELSE known.native
  <2> HIDE DEF e, b
  <2> QED
    BY <1>2, Fields DEF Caches
<1>6. /\ desk'.focus = desk.focus /\ desk'.wire = desk.wire /\ desk'.apps = desk.apps
      /\ desk'.alive = desk.alive /\ desk'.missed = desk.missed
      /\ desk'.faults = IF Cardinality(failed) = 1 THEN desk.faults + 1 ELSE desk.faults
  BY <1>2, Fields DEF Desks
<1>7. desk'.faults = 0 => desk.faults = 0 /\ Cardinality(failed) # 1
  BY <1>b, <1>6
<1>8. SameWay
  BY <1>6, <1>7 DEF SameWay
<1>9. PathInv'
  BY <1>0, <1>3, <1>8, PathKept
<1>10. CourseInv'
  BY <1>0, <1>1, <1>3, <1>4, <1>8, CourseUntouched
<1>11. ASSUME desk'.faults = 0, b \in desk.alive
       PROVE  failed = {} /\ Plain(e)
  <2>1. failed = {} \/ \E q \in Queries : failed = {q}
    BY <1>2, <1>11 DEF Failures
  <2>2. \A q : Cardinality({q}) = 1
    BY FS_Singleton
  <2>3. failed = {}
    BY <1>7, <1>11, <2>1, <2>2
  <2>4. Plain(e)
    BY <1>0, <1>1, <1>7, <1>11, Answered DEF TruthInv
  <2> QED
    BY <2>3, <2>4
<1>12. ASSUME desk'.faults = 0, NEW c \in desk.alive \cap known'.asked
       PROVE  c \in known'.native <=> NativeApp(c)
  <2>1. CASE c # b
    BY <1>0, <1>5, <1>7, <1>12, <2>1 DEF TruthInv
  <2>2. CASE c = b
    <3>1. failed = {} /\ (SkipsWalk(e, {}) <=> NativeApp(b))
      BY <1>11, <1>12, <2>2 DEF Plain
    <3>2. b \in known.native => b \in known.asked
      BY <1>0 DEF TruthInv
    <3>3. b \in known.asked => (b \in known.native <=> NativeApp(b))
      BY <1>0, <1>7, <1>12, <2>2 DEF TruthInv
    <3> QED
      BY <1>5, <2>2, <3>1, <3>2, <3>3
  <2> QED
    BY <2>1, <2>2
<1>13. ASSUME desk'.faults = 0, b \in desk.alive
       PROVE  failed = {} /\ b \in known'.asked /\ pub'.sheet = (e \in Sheets)
  BY <1>4, <1>5, <1>11, <1>13 DEF Plain
<1> HIDE DEF b
<1>n. known'.native \subseteq known'.asked
  BY <1>0, <1>5 DEF TruthInv
<1>14. TruthInv'
  BY <1>n, <1>3, <1>4, <1>6, <1>12, <1>13 DEF TruthInv, b
<1> QED
  BY <1>9, <1>10, <1>14 DEF RestInv

\* The store of the flags.
LEMMA PublishCourse ==
    ASSUME MonitorInv, RestInv, PublishFlags
    PROVE  RestInv'
<1>0. PathInv /\ CourseInv /\ TruthInv
  BY DEF RestInv
<1> DEFINE e == monitor.target
           f == [gen |-> pub.gen, ui |-> BrowserUI(e, monitor.failed),
                 web |-> ~BrowserUI(e, monitor.failed), entry |-> TextEntry(e, monitor.failed)]
<1>1. monitor.at = "flags" /\ e \in Elements /\ pub.ident = e /\ ~pub.fresh
  BY DEF PublishFlags, MonitorInv, WorkInv
<1>2. /\ pub' = [pub EXCEPT !.pid = BusOf[e] \in known.pid, !.flags = f]
      /\ monitor' = [monitor EXCEPT !.at = "stamp"] /\ desk' = desk /\ known' = known
  BY DEF PublishFlags
<1> HIDE DEF f
<1>3. /\ pub'.ident = e /\ ~pub'.fresh /\ pub'.sheet = pub.sheet /\ pub'.flags = f
  BY <1>1, <1>2, Fields DEF Published
<1>4. /\ monitor'.at = "stamp" /\ monitor'.batch = monitor.batch
      /\ monitor'.queue = monitor.queue
  BY <1>2, Fields DEF Threads
<1>5. SameWay
  BY <1>2 DEF SameWay
<1>6. PathInv' /\ CourseInv'
  BY <1>0, <1>1, <1>3, <1>4, <1>5, PathKept, CourseUntouched
<1>7. ASSUME desk.faults = 0, BusOf[e] \in desk.alive
      PROVE  Judged' = Truth(e) /\ pub'.sheet = (e \in Sheets)
  <2>1. e # Nobody
    BY <1>1, SameWayFacts
  <2>2. /\ monitor.failed = {} /\ BusOf[e] \in known.asked
        /\ BusOf[e] \in known.native <=> NativeApp(BusOf[e])
        /\ pub.sheet = (e \in Sheets)
    BY <1>0, <1>1, <1>7, <2>1 DEF TruthInv
  <2>3. Plain(e)
    BY <1>1, <2>2, Answered
  <2>4. Judged' = [ui |-> f.ui, web |-> f.web, entry |-> f.entry]
    BY <1>3 DEF Judged
  <2> QED
    BY <1>3, <2>2, <2>3, <2>4 DEF Plain, f
<1>8. TruthInv'
  BY <1>0, <1>2, <1>3, <1>4, <1>7 DEF TruthInv
<1> QED
  BY <1>6, <1>8 DEF RestInv

\* The stamp, and the 300 ms after it.
LEMMA StampCourse ==
    ASSUME MonitorInv, RestInv, Stamp \/ Settle
    PROVE  RestInv'
<1>0. PathInv /\ CourseInv /\ TruthInv
  BY DEF RestInv
<1>1. CASE Stamp
  <2> DEFINE m == [monitor EXCEPT !.target = Nobody, !.failed = {}]
             polled == IF pub.flags.ui /\ pub.flags.entry THEN monitor.target ELSE pub.polled
  <2>1. /\ monitor.at = "stamp" /\ desk' = desk /\ known' = known
        /\ pub' = [pub EXCEPT !.fresh = TRUE, !.polled = polled] /\ monitor' = Handled(m)
    BY <1>1, Fields DEF Stamp, Published
  <2>2. m \in Threads /\ m.batch = monitor.batch /\ m.queue = monitor.queue
    BY Fields DEF Threads, Maybe
  <2> HIDE DEF m, polled
  <2>3. /\ monitor'.batch = monitor.batch /\ monitor'.queue = monitor.queue
        /\ monitor'.at \in {"poll", "batch"}
        /\ monitor'.at = "batch" \/ monitor'.batch = <<>>
    BY <2>1, <2>2, HandledPath
  <2>4. /\ pub'.ident = pub.ident /\ pub'.fresh /\ pub'.sheet = pub.sheet
        /\ pub'.flags = pub.flags
    BY <2>1, Fields DEF Published
  <2>5. SameWay
    BY <2>1 DEF SameWay
  <2>6. PathInv' /\ CourseInv'
    BY <1>0, <2>3, <2>4, <2>5, PathKept, CourseUntouched
  <2>7. TruthInv'
    BY <1>0, <2>1, <2>3, <2>4 DEF TruthInv, Judged
  <2> QED
    BY <2>6, <2>7 DEF RestInv
<1>2. CASE Settle
  <2>1. /\ pub' = [pub EXCEPT !.settled = TRUE] /\ monitor' = monitor /\ desk' = desk
        /\ known' = known
    BY <1>2 DEF Settle
  <2>2. /\ pub'.ident = pub.ident /\ pub'.fresh = pub.fresh /\ pub'.sheet = pub.sheet
        /\ pub'.flags = pub.flags
    BY <2>1, Fields DEF Published
  <2>3. SameWay
    BY <2>1 DEF SameWay
  <2>4. PathInv'
    BY <1>0, <2>1 DEF PathInv, OnBus
  <2>5. CourseInv'
    BY <1>0, <2>1, <2>2, <2>3, CourseUntouched
  <2>6. TruthInv'
    BY <1>0, <2>1, <2>2 DEF TruthInv, Judged
  <2> QED
    BY <2>4, <2>5, <2>6 DEF RestInv
<1> QED
  BY <1>1, <1>2

\* A thread that has nothing in line and publishes nothing makes nothing of what it
\* misses.
LEMMA CourseOfNobody ==
    ASSUME MonitorInv, CourseInv, SameWay, desk'.missed,
           pub'.ident = Nobody, monitor'.batch = <<>>, monitor'.queue = <<>>
    PROVE  CourseInv'
<1>1. ASSUME NEW e \in Elements, MayEndWith(e)' PROVE MayEndWith(e)
  <2> DEFINE w == desk.wire[BusOf[e]]
             L == Losses(e)
  <2>1. pub'.ident # e
    BY SameWayFacts
  <2>2. ~Held(<<>>, e, L, Held(<<>>, e, L, pub'.ident = e))
    BY <2>1 DEF Held
  <2>3. Held(w, e, L, Held(<<>>, e, L, Held(<<>>, e, L, pub'.ident = e)))
    BY <1>1 DEF MayEndWith, HeldInTheEnd, SameWay
  <2> HIDE DEF w, L
  <2>4. \A x : Held(w, e, L, x)
    BY <2>2, <2>3 DEF Held
  <2> QED
    BY <2>4 DEF MayEndWith, HeldInTheEnd, w, L
<1> QED
  BY <1>1 DEF CourseInv, SameWay

\* The stops and starts of the thread.
LEMMA LifeCourse ==
    ASSUME MonitorInv, RestInv, Leave \/ Left \/ Stop \/ Join \/ Start \/ Connect
    PROVE  RestInv'
<1>0. /\ PathInv /\ CourseInv /\ TruthInv /\ StoppedInv
      /\ desk.faults \in Nat /\ desk.missed \in BOOLEAN
  BY SameWayFacts DEF RestInv, MonitorInv
<1>1. CASE Leave
  <2>1. /\ \/ desk' = [desk EXCEPT !.missed = TRUE]
           \/ desk' = [desk EXCEPT !.missed = TRUE, !.faults = desk.faults + 1]
        /\ known' = known /\ pub' = Invalidated(pub) /\ monitor.at = "poll"
        /\ monitor' = [monitor EXCEPT !.at = "leaving", !.queue = <<>>]
    BY <1>1, Fields DEF Leave, Deserted, Desks
  <2>2. /\ monitor'.at = "leaving" /\ monitor'.queue = <<>> /\ monitor'.batch = monitor.batch
        /\ monitor.batch = <<>>
    BY <1>0, <2>1, Fields DEF Threads, PathInv
  <2>3. pub'.ident = Nobody
    BY <2>1, Fields, Withdrawn
  <2>4. desk.faults + 1 # 0
    BY <1>0
  <2>5. SameWay /\ desk'.missed
    BY <2>1, <2>4, Fields DEF SameWay, Desks
  <2>6. PathInv' /\ CourseInv'
    BY <1>0, <2>2, <2>3, <2>5, PathKept, CourseOfNobody
  <2>7. TruthInv'
    BY <1>0, <2>1, <2>3, <2>5 DEF TruthInv, SameWay
  <2> QED
    BY <2>6, <2>7 DEF RestInv
<1>2. CASE Left
  <2>1. /\ desk' = desk /\ known' = known /\ pub' = [pub EXCEPT !.running = FALSE]
        /\ monitor.at = "leaving" /\ monitor' = [monitor EXCEPT !.at = "off"]
    BY <1>2 DEF Left
  <2>2. /\ monitor'.at = "off" /\ monitor'.queue = monitor.queue
        /\ monitor'.batch = monitor.batch
    BY <2>1, Fields DEF Threads
  <2>3. pub.ident = Nobody /\ pub'.ident = Nobody
    BY <1>0, <2>1, Fields DEF Published, StoppedInv
  <2>4. SameWay
    BY <2>1 DEF SameWay
  <2>5. PathInv'
    BY <1>0, <2>1, <2>2, <2>4, PathKept DEF PathInv
  <2>6. CourseInv'
    BY <1>0, <2>2, <2>3, <2>4, CourseUntouched
  <2>7. TruthInv'
    BY <1>0, <2>1, <2>3 DEF TruthInv
  <2> QED
    BY <2>5, <2>6, <2>7 DEF RestInv
<1>3. CASE Stop
  <2>1. /\ desk' = Change(desk) /\ known' = known /\ monitor' = monitor
        /\ pub' = [pub EXCEPT !.stop = "joining"] /\ desk.changes < MaxChanges
    BY <1>3 DEF Stop
  <2>2. /\ pub'.ident = pub.ident /\ pub'.fresh = pub.fresh /\ pub'.sheet = pub.sheet
        /\ pub'.flags = pub.flags
    BY <2>1, Fields DEF Published
  <2>3. SameWay
    BY <2>1, Fields, ChangeTyped DEF SameWay
  <2>4. PathInv'
    BY <1>0, <2>1, <2>3 DEF PathInv, SameWay, OnBus
  <2>5. CourseInv'
    BY <1>0, <2>1, <2>2, <2>3, CourseUntouched
  <2>6. TruthInv'
    BY <1>0, <2>1, <2>2, <2>3 DEF TruthInv, Judged, SameWay
  <2> QED
    BY <2>4, <2>5, <2>6 DEF RestInv
<1>4. CASE Join
  <2> DEFINE p == Invalidated(pub)
  <2>1. /\ desk' = desk /\ known' = known /\ monitor' = monitor /\ monitor.at = "off"
        /\ pub' = [p EXCEPT !.stop = "yes"]
    BY <1>4 DEF Join
  <2>2. p \in Published /\ p.ident = Nobody
    BY Fields, Withdrawn
  <2> HIDE DEF p
  <2>3. pub'.ident = Nobody /\ pub.ident = Nobody
    BY <1>0, <2>1, <2>2 DEF Published, StoppedInv
  <2>4. SameWay
    BY <2>1 DEF SameWay
  <2>5. PathInv'
    BY <1>0, <2>1 DEF PathInv, OnBus
  <2>6. CourseInv'
    BY <1>0, <2>1, <2>3, <2>4, CourseUntouched
  <2>7. TruthInv'
    BY <1>0, <2>1, <2>3 DEF TruthInv
  <2> QED
    BY <2>5, <2>6, <2>7 DEF RestInv
<1>5. CASE Start
  <2>1. /\ desk' = Change(desk) /\ known' = known /\ desk.changes < MaxChanges
        /\ monitor' = [monitor EXCEPT !.at = "connect"] /\ monitor.at = "off"
        /\ pub' = [pub EXCEPT !.running = TRUE, !.stop = "no"]
    BY <1>5 DEF Start
  <2>2. /\ monitor'.at = "connect" /\ monitor'.queue = monitor.queue
        /\ monitor'.batch = monitor.batch
    BY <2>1, Fields DEF Threads
  <2>3. pub.ident = Nobody /\ pub'.ident = Nobody
    BY <1>0, <2>1, Fields DEF Published, StoppedInv
  <2>4. SameWay
    BY <2>1, Fields, ChangeTyped DEF SameWay
  <2>5. PathInv'
    BY <1>0, <2>1, <2>2, <2>4, PathKept DEF PathInv, SameWay
  <2>6. CourseInv'
    BY <1>0, <2>2, <2>3, <2>4, CourseUntouched
  <2>7. TruthInv'
    BY <1>0, <2>1, <2>3, <2>4 DEF TruthInv, SameWay
  <2> QED
    BY <2>5, <2>6, <2>7 DEF RestInv
<1>6. CASE Connect
  <2>1. /\ known' = [pid |-> {}, native |-> {}, asked |-> {}, boxes |-> {}]
        /\ monitor.at = "connect"
        /\ \/ /\ monitor' = [monitor EXCEPT !.at = "poll"] /\ desk' = desk
              /\ pub' = [pub EXCEPT !.container = Nobody]
           \/ /\ desk' = [desk EXCEPT !.faults = desk.faults + 1]
              /\ monitor' = [monitor EXCEPT !.at = "off"]
              /\ pub' = [pub EXCEPT !.running = FALSE, !.container = Nobody]
    BY <1>6, Fields DEF Connect, Desks
  <2>2. /\ monitor'.at \in {"poll", "off"} /\ monitor'.queue = monitor.queue
        /\ monitor'.batch = monitor.batch
    BY <2>1, Fields DEF Threads
  <2>3. pub.ident = Nobody /\ pub'.ident = Nobody
    BY <1>0, <2>1, Fields DEF Published, StoppedInv, Maybe
  <2>4. desk.faults + 1 # 0
    BY <1>0
  <2>5. SameWay
    BY <2>1, <2>4, Fields DEF SameWay, Desks
  <2>6. PathInv'
    BY <1>0, <2>1, <2>2, <2>5, PathKept DEF PathInv, SameWay
  <2>7. CourseInv'
    BY <1>0, <2>2, <2>3, <2>5, CourseUntouched
  <2>8. TruthInv'
    BY <1>0, <2>1, <2>3 DEF TruthInv
  <2> QED
    BY <2>6, <2>7, <2>8 DEF RestInv
<1> QED
  BY <1>1, <1>2, <1>3, <1>4, <1>5, <1>6

\* Every step of the monitor's own.
LEMMA MonitorCourse ==
    ASSUME MonitorInv, RestInv, Monitor \/ Stop \/ Join \/ Start
    PROVE  RestInv'
BY LossCourse, TakeCourse, BeginCourse, AskCourse, PublishCourse, StampCourse, LifeCourse
   DEF Monitor
-----------------------------------------------------------------------------
(***************************************************************************)
(* The steps of the desktop.                                               *)
(***************************************************************************)
\* Sending one signal or two is appending them.
LEMMA Appended ==
    ASSUME NEW q \in Seq(Signals), NEW s \in Signals, NEW t \in Signals
    PROVE  /\ q \o <<>> = q /\ q \o <<s>> = Append(q, s)
           /\ <<>> \o <<s>> = <<s>> /\ <<s>> \o <<>> = <<s>>
           /\ q \o (<<s>> \o <<t>>) = Append(Append(q, s), t)
OBVIOUS

\* The desktop t is d with the wire w on the connection b.
Sent(t, d, b, w) ==
    /\ t \in Desks
    /\ t.wire[b] = w /\ \A c \in Buses \ {b} : t.wire[c] = d.wire[c]
    /\ t.focus = d.focus /\ t.apps = d.apps /\ t.alive = d.alive
    /\ t.missed = d.missed /\ t.faults = d.faults

\* What is sent joins the wire of its connection and touches nothing else.
LEMMA SendSignals ==
    ASSUME NEW d \in Desks, NEW b \in Buses, NEW s \in Signals, NEW t \in Signals
    PROVE  /\ d.wire[b] \in Seq(Signals)
           /\ Sent(Send(d, b, <<s>>), d, b, Append(d.wire[b], s))
           /\ Sent(Send(d, b, <<s>> \o <<t>>), d, b, Append(Append(d.wire[b], s), t))
<1>1. d.wire[b] \in Seq(Signals)
  BY DEF Desks
<1>2. ASSUME NEW q \in Seq(Signals) PROVE Sent(Send(d, b, q), d, b, d.wire[b] \o q)
  <2>1. Send(d, b, q) \in Desks
    BY SendTyped
  <2>2. /\ Send(d, b, q).wire[b] = d.wire[b] \o q
        /\ \A c \in Buses \ {b} : Send(d, b, q).wire[c] = d.wire[c]
        /\ Send(d, b, q).focus = d.focus /\ Send(d, b, q).apps = d.apps
        /\ Send(d, b, q).alive = d.alive /\ Send(d, b, q).missed = d.missed
        /\ Send(d, b, q).faults = d.faults
    BY DEF Send, Desks
  <2> QED
    BY <2>1, <2>2 DEF Sent
<1>3. <<s>> \in Seq(Signals) /\ <<s>> \o <<t>> \in Seq(Signals)
  OBVIOUS
<1>4. /\ d.wire[b] \o <<s>> = Append(d.wire[b], s)
      /\ d.wire[b] \o (<<s>> \o <<t>>) = Append(Append(d.wire[b], s), t)
  BY <1>1, Appended
<1>5. Sent(Send(d, b, <<s>>), d, b, Append(d.wire[b], s))
  BY <1>2, <1>3, <1>4
<1>6. Sent(Send(d, b, <<s>> \o <<t>>), d, b, Append(Append(d.wire[b], s), t))
  BY <1>2, <1>3, <1>4
<1> QED
  BY <1>1, <1>5, <1>6

BlurOf(e) == [kind |-> "blur", of |-> e]

\* What a move of the focus from "old" to e does to the wire w of the connection b.
MovedWire(w, b, old, e) ==
    LET lost == old # Nobody /\ BusOf[old] = b
        won == e # Nobody /\ BusOf[e] = b
    IN  IF lost /\ won
        THEN {Append(Append(w, BlurOf(old)), GainOf(e)), Append(Append(w, GainOf(e)), BlurOf(old))}
        ELSE IF lost THEN {Append(w, BlurOf(old))}
        ELSE IF won THEN {Append(w, GainOf(e))}
        ELSE {w}

\* A move of the focus, in full.
LEMMA MoveFocusFields ==
    ASSUME MonitorInv, MoveFocus
    PROVE  /\ desk'.focus \in Maybe /\ desk'.focus # desk.focus
           /\ desk'.focus # Nobody => BusOf[desk'.focus] \in desk.alive
           /\ desk'.apps = IF desk'.focus = Nobody THEN desk.apps
                           ELSE desk.apps \cup {BusOf[desk'.focus]}
           /\ desk'.alive = desk.alive /\ desk'.missed = desk.missed
           /\ desk'.faults = desk.faults
           /\ \A b \in Buses :
                desk'.wire[b] \in MovedWire(desk.wire[b], b, desk.focus, desk'.focus)
<1>1. PICK e \in Maybe \ {desk.focus} :
        /\ desk.changes < MaxChanges
        /\ e # Nobody => BusOf[e] \in desk.alive
        /\ desk' \in MovedTo(Change(desk), e)
  BY DEF MoveFocus
<1>2. desk \in Desks
  BY DEF MonitorInv, MonitorTypeOK
<1> DEFINE d == Change(desk)
           old == desk.focus
           B == BlurOf(old)
           G == GainOf(e)
           blur == IF old = Nobody THEN <<>> ELSE <<B>>
           gain == IF e = Nobody THEN <<>> ELSE <<G>>
           apps == IF e = Nobody THEN d.apps ELSE d.apps \cup {BusOf[e]}
           moved == [d EXCEPT !.focus = e, !.apps = IF e = Nobody THEN @ ELSE @ \cup {BusOf[e]}]
<1>3. /\ d \in Desks /\ d.focus = old /\ d.wire = desk.wire /\ d.alive = desk.alive
      /\ d.apps = desk.apps /\ d.missed = desk.missed /\ d.faults = desk.faults
  BY <1>1, <1>2, ChangeTyped
<1>4. old \in Maybe /\ e \in Maybe /\ e # old /\ \A x \in Elements : BusOf[x] \in Buses
  BY <1>1, <1>2, Constants DEF Desks, Facts
<1>5. moved \in Desks
  <2>1. apps \in SUBSET Buses
    BY <1>3, <1>4, Constants DEF Desks, Facts, Maybe
  <2>2. moved = [d EXCEPT !.focus = e, !.apps = apps]
    BY <1>3 DEF Desks
  <2> HIDE DEF d, apps
  <2> QED
    BY <1>3, <1>4, <2>1, <2>2 DEF Desks
<1>6. /\ moved.focus = e /\ moved.apps = apps /\ moved.wire = desk.wire
      /\ moved.alive = desk.alive /\ moved.missed = desk.missed /\ moved.faults = desk.faults
  <2> HIDE DEF d
  <2> QED
    BY <1>3 DEF Desks
<1>7. MovedTo(d, e) =
        IF old # Nobody /\ e # Nobody /\ BusOf[old] = BusOf[e]
        THEN {Send(moved, BusOf[e], blur \o gain), Send(moved, BusOf[e], gain \o blur)}
        ELSE {IF e = Nobody THEN Send(moved, BusOf[old], blur)
              ELSE IF old = Nobody THEN Send(moved, BusOf[e], gain)
              ELSE Send(Send(moved, BusOf[old], blur), BusOf[e], gain)}
  <2> HIDE DEF moved
  <2> QED
    BY <1>3 DEF MovedTo, B, G, BlurOf, GainOf, moved
<1>8. /\ old # Nobody => B \in Signals /\ BusOf[old] \in Buses
      /\ e # Nobody => G \in Signals /\ BusOf[e] \in Buses
  BY <1>4 DEF Maybe, Signals, BlurOf, GainOf
<1>9. \A b \in Buses : desk.wire[b] \in Seq(Signals)
  BY <1>2 DEF Desks
<1> DEFINE w(b) == desk.wire[b]
           Good(t) == /\ t.focus = e /\ t.apps = apps /\ t.alive = desk.alive
                      /\ t.missed = desk.missed /\ t.faults = desk.faults
                      /\ \A b \in Buses : t.wire[b] \in MovedWire(desk.wire[b], b, old, e)
<1>10. Good(desk')
  <2> HIDE DEF d, moved, apps, B, G
  <2>0. desk' \in MovedTo(d, e)
    BY <1>1 DEF d
  <2>s. /\ \A c \in Buses : moved.wire[c] = desk.wire[c]
        /\ moved.focus = e /\ moved.apps = apps /\ moved.alive = desk.alive
        /\ moved.missed = desk.missed /\ moved.faults = desk.faults
    BY <1>6
  <2>1. CASE old # Nobody /\ e # Nobody /\ BusOf[old] = BusOf[e]
    <3> DEFINE b == BusOf[e]
               BG == Send(moved, b, <<B>> \o <<G>>)
               GB == Send(moved, b, <<G>> \o <<B>>)
    <3>1. desk' \in {BG, GB}
      BY <1>7, <2>0, <2>1
    <3>2. b \in Buses /\ B \in Signals /\ G \in Signals
      BY <1>8, <2>1
    <3>3. /\ Sent(BG, moved, b, Append(Append(moved.wire[b], B), G))
          /\ Sent(GB, moved, b, Append(Append(moved.wire[b], G), B))
      BY <1>5, <3>2, SendSignals
    <3> HIDE DEF b, BG, GB
    <3>4. \/ Sent(desk', moved, b, Append(Append(desk.wire[b], B), G))
          \/ Sent(desk', moved, b, Append(Append(desk.wire[b], G), B))
      BY <2>s, <3>1, <3>2, <3>3
    <3>5. \A c \in Buses : desk'.wire[c] \in MovedWire(desk.wire[c], c, old, e)
      BY <2>1, <2>s, <3>4 DEF Sent, MovedWire, B, G, b
    <3> QED
      BY <2>s, <3>4, <3>5 DEF Sent
  <2>2. CASE e = Nobody
    <3> DEFINE b == BusOf[old]
               t == Send(moved, b, <<B>>)
    <3>1. old # Nobody /\ desk' = t /\ b \in Buses /\ B \in Signals
      BY <1>4, <1>7, <1>8, <2>0, <2>2
    <3>2. Sent(t, moved, b, Append(moved.wire[b], B))
      BY <1>5, <3>1, SendSignals
    <3> HIDE DEF b, t
    <3>3. \A c \in Buses : desk'.wire[c] \in MovedWire(desk.wire[c], c, old, e)
      BY <2>2, <2>s, <3>1, <3>2 DEF Sent, MovedWire, B, b
    <3> QED
      BY <2>s, <3>1, <3>2, <3>3 DEF Sent
  <2>3. CASE old = Nobody
    <3> DEFINE b == BusOf[e]
               t == Send(moved, b, <<G>>)
    <3>1. e # Nobody /\ desk' = t /\ b \in Buses /\ G \in Signals
      BY <1>4, <1>7, <1>8, <2>0, <2>3
    <3>2. Sent(t, moved, b, Append(moved.wire[b], G))
      BY <1>5, <3>1, SendSignals
    <3> HIDE DEF b, t
    <3>3. \A c \in Buses : desk'.wire[c] \in MovedWire(desk.wire[c], c, old, e)
      BY <2>3, <2>s, <3>1, <3>2 DEF Sent, MovedWire, G, b
    <3> QED
      BY <2>s, <3>1, <3>2, <3>3 DEF Sent
  <2>4. CASE old # Nobody /\ e # Nobody /\ BusOf[old] # BusOf[e]
    <3> DEFINE b == BusOf[old]
               c == BusOf[e]
               one == Send(moved, b, <<B>>)
               t == Send(one, c, <<G>>)
    <3>1. desk' = t /\ b \in Buses /\ c \in Buses /\ b # c /\ B \in Signals /\ G \in Signals
      BY <1>7, <1>8, <2>0, <2>4
    <3>2. Sent(one, moved, b, Append(moved.wire[b], B))
      BY <1>5, <3>1, SendSignals
    <3> HIDE DEF one
    <3>3. one \in Desks
      BY <3>2 DEF Sent
    <3>4. Sent(t, one, c, Append(one.wire[c], G))
      BY <3>1, <3>3, SendSignals
    <3> HIDE DEF t, b, c
    <3>5. \A x \in Buses : desk'.wire[x] \in MovedWire(desk.wire[x], x, old, e)
      <4>1. /\ desk'.wire[b] = Append(desk.wire[b], B)
            /\ desk'.wire[c] = Append(desk.wire[c], G)
            /\ \A x \in Buses \ {b, c} : desk'.wire[x] = desk.wire[x]
        BY <2>s, <3>1, <3>2, <3>4 DEF Sent
      <4> QED
        BY <2>4, <4>1 DEF MovedWire, B, G, b, c
    <3> QED
      BY <2>s, <3>1, <3>2, <3>4, <3>5 DEF Sent
  <2> QED
    BY <2>1, <2>2, <2>3, <2>4
<1> QED
  BY <1>1, <1>3, <1>4, <1>10

\* What a move does to what the signals make of an accessible: the one that loses the
\* focus may not end with the identity, the one that takes it will.
LEMMA MovedHeld ==
    ASSUME NEW x \in Elements, NEW w \in Seq(Signals), NEW old \in Maybe, NEW e \in Maybe,
           old # e, NEW v \in MovedWire(w, BusOf[x], old, e), NEW y
    PROVE  /\ x # e /\ (x = old \/ ~Held(w, x, Losses(x), y)) => ~Held(v, x, Losses(x), y)
           /\ x = e => Held(v, x, Losses(x) \cup Gains, y)
<1> DEFINE B == BlurOf(old)
           G == GainOf(e)
<1>0. x # Nobody
  BY Constants DEF Facts
<1>1. /\ old # Nobody => B \in Signals
      /\ e # Nobody => G \in Signals
  BY DEF Maybe, Signals, BlurOf, GainOf
<1>2. /\ B # GainOf(x) /\ (G = GainOf(x) <=> x = e)
      /\ B \in Losses(x) <=> x = old
      /\ B \in Losses(x) \cup Gains <=> x = old
      /\ G \notin Losses(x)
  BY DEF BlurOf, GainOf, Losses, Gains
<1>3. v \in {w} \cup (IF old # Nobody THEN {Append(w, B)} ELSE {})
            \cup (IF e # Nobody THEN {Append(w, G)} ELSE {})
            \cup (IF old # Nobody /\ e # Nobody
                  THEN {Append(Append(w, B), G), Append(Append(w, G), B)} ELSE {})
  BY DEF MovedWire
<1>4. /\ x = old => v \notin {w, Append(w, G)} \/ v \in {Append(w, B), Append(Append(w, B), G), Append(Append(w, G), B)}
      /\ x = e => v \notin {w, Append(w, B)} \/ v \in {Append(w, G), Append(Append(w, B), G), Append(Append(w, G), B)}
  BY <1>0 DEF MovedWire
<1> HIDE DEF B, G
<1>a. ASSUME NEW q \in Seq(Signals), NEW s \in Signals, NEW over
      PROVE  Append(q, s) \in Seq(Signals)
             /\ (Held(Append(q, s), x, over, y) <=> s = GainOf(x) \/ (s \notin over /\ Held(q, x, over, y)))
  <2>1. Append(q, s) \in Seq(Signals)
    OBVIOUS
  <2> QED
    BY <2>1, HeldAppend
<1>5. CASE old # Nobody /\ e # Nobody
  <2>1. B \in Signals /\ G \in Signals
    BY <1>1, <1>5
  <2>2. \A over :
          /\ Held(Append(w, B), x, over, y) <=> B \notin over /\ Held(w, x, over, y)
          /\ Held(Append(w, G), x, over, y)
                <=> x = e \/ (G \notin over /\ Held(w, x, over, y))
          /\ Held(Append(Append(w, B), G), x, over, y)
                <=> x = e \/ (G \notin over /\ B \notin over /\ Held(w, x, over, y))
          /\ Held(Append(Append(w, G), B), x, over, y)
                <=> B \notin over /\ (x = e \/ (G \notin over /\ Held(w, x, over, y)))
    <3> TAKE over
    <3>1. /\ Append(w, B) \in Seq(Signals) /\ Append(w, G) \in Seq(Signals)
          /\ Held(Append(w, B), x, over, y) <=> B \notin over /\ Held(w, x, over, y)
          /\ Held(Append(w, G), x, over, y)
                <=> x = e \/ (G \notin over /\ Held(w, x, over, y))
      BY <1>2, <1>a, <2>1
    <3>2. Held(Append(Append(w, B), G), x, over, y)
            <=> x = e \/ (G \notin over /\ Held(Append(w, B), x, over, y))
      BY <1>2, <1>a, <2>1, <3>1
    <3>3. Held(Append(Append(w, G), B), x, over, y)
            <=> B \notin over /\ Held(Append(w, G), x, over, y)
      BY <1>2, <1>a, <2>1, <3>1
    <3> QED
      BY <3>1, <3>2, <3>3
  <2>3. CASE x = e
    <3>1. v \in {Append(w, G), Append(Append(w, B), G), Append(Append(w, G), B)}
      BY <1>0, <1>5, <2>3 DEF MovedWire, B, G
    <3>2. B \notin Losses(x) \cup Gains
      BY <1>2, <2>3
    <3>3. Held(v, x, Losses(x) \cup Gains, y)
      BY <2>2, <2>3, <3>1, <3>2
    <3> QED
      BY <2>3, <3>3
  <2>4. CASE x = old
    <3>1. v \in {Append(w, B), Append(Append(w, B), G), Append(Append(w, G), B)}
      BY <1>0, <1>5, <2>4 DEF MovedWire, B, G
    <3>2. B \in Losses(x) /\ x # e
      BY <1>2, <2>4
    <3>3. ~Held(v, x, Losses(x), y)
      BY <2>2, <3>1, <3>2
    <3> QED
      BY <2>4, <3>2, <3>3
  <2>5. CASE x # e /\ x # old
    <3>1. v \in {w, Append(w, B), Append(w, G), Append(Append(w, B), G), Append(Append(w, G), B)}
      BY <1>3, <1>5
    <3>2. ~Held(w, x, Losses(x), y) => ~Held(v, x, Losses(x), y)
      BY <2>2, <2>5, <3>1
    <3> QED
      BY <2>5, <3>2
  <2> QED
    BY <2>3, <2>4, <2>5
<1>6. CASE e = Nobody
  <2>1. old # Nobody /\ B \in Signals /\ x # e
    BY <1>0, <1>1, <1>6
  <2>2. Held(Append(w, B), x, Losses(x), y) <=> B \notin Losses(x) /\ Held(w, x, Losses(x), y)
    BY <1>2, <1>a, <2>1
  <2>3. v \in {w, Append(w, B)} /\ (x = old => v = Append(w, B))
    BY <1>6, <2>1 DEF MovedWire, B
  <2> QED
    BY <1>2, <2>1, <2>2, <2>3
<1>7. CASE old = Nobody
  <2>1. e # Nobody /\ G \in Signals /\ x # old
    BY <1>0, <1>1, <1>7
  <2>2. \A over : Held(Append(w, G), x, over, y)
                    <=> x = e \/ (G \notin over /\ Held(w, x, over, y))
    BY <1>2, <1>a, <2>1
  <2>3. v \in {w, Append(w, G)} /\ (x = e => v = Append(w, G))
    BY <1>7, <2>1 DEF MovedWire, G
  <2> QED
    BY <2>1, <2>2, <2>3
<1> QED
  BY <1>5, <1>6, <1>7

\* The members of a sequence that got one more.
LEMMA AppendedMembers ==
    ASSUME NEW q \in Seq(Signals), NEW s \in Signals
    PROVE  /\ Append(q, s) \in Seq(Signals)
           /\ \A i \in DOMAIN Append(q, s) :
                Append(q, s)[i] = s \/ \E j \in DOMAIN q : Append(q, s)[i] = q[j]
OBVIOUS

\* A move of the focus.
LEMMA MoveFocusCourse ==
    ASSUME MonitorInv, RestInv, MoveFocus
    PROVE  RestInv'
<1>0. PathInv /\ CourseInv /\ TruthInv
  BY DEF RestInv
<1> DEFINE old == desk.focus
           e == desk'.focus
<1>1. /\ e \in Maybe /\ e # old
      /\ e # Nobody => BusOf[e] \in desk.alive
      /\ desk'.apps = IF e = Nobody THEN desk.apps ELSE desk.apps \cup {BusOf[e]}
      /\ desk'.alive = desk.alive /\ desk'.missed = desk.missed
      /\ desk'.faults = desk.faults
      /\ \A b \in Buses : desk'.wire[b] \in MovedWire(desk.wire[b], b, old, e)
      /\ monitor' = monitor /\ known' = known /\ pub' = pub
  BY MoveFocusFields, MoveFocusTyped DEF Same
<1>2. /\ old \in Maybe /\ \A x \in Elements : x # Nobody /\ BusOf[x] \in Buses
      /\ \A b \in Buses : desk.wire[b] \in Seq(Signals)
  BY SameWayFacts
<1>o. old # Nobody => BusOf[old] \in desk.apps
  BY <1>0 DEF PathInv
<1> HIDE DEF old, e
<1>3. PathInv'
  <2>1. IsFiniteSet(desk'.apps)
    BY <1>0, <1>1, FS_AddElement DEF PathInv
  <2>2. e # Nobody => BusOf[e] \in desk'.alive \cap desk'.apps
    BY <1>1
  <2>3. ASSUME NEW b \in Buses, NEW i \in DOMAIN desk'.wire[b]
        PROVE  OnBus(desk', desk'.wire[b][i], b)
    <3> DEFINE w == desk.wire[b]
               v == desk'.wire[b]
    <3>1. v \in MovedWire(w, b, old, e) /\ w \in Seq(Signals)
      BY <1>1, <1>2
    <3>2. /\ old # Nobody => BlurOf(old) \in Signals
          /\ e # Nobody => GainOf(e) \in Signals
      BY <1>1, <1>2 DEF Maybe, Signals, BlurOf, GainOf
    <3> HIDE DEF w, v
    <3>3. \/ \E j \in DOMAIN w : v[i] = w[j]
          \/ old # Nobody /\ BusOf[old] = b /\ v[i] = BlurOf(old)
          \/ e # Nobody /\ BusOf[e] = b /\ v[i] = GainOf(e)
      <4>i. i \in DOMAIN v
        BY <2>3 DEF v
      <4>1. CASE old # Nobody /\ BusOf[old] = b /\ e # Nobody /\ BusOf[e] = b
        <5>1. v \in {Append(Append(w, BlurOf(old)), GainOf(e)), Append(Append(w, GainOf(e)), BlurOf(old))}
          BY <3>1, <4>1 DEF MovedWire
        <5>2. CASE v = Append(Append(w, BlurOf(old)), GainOf(e))
          <6> DEFINE u == Append(w, BlurOf(old))
          <6>1. u \in Seq(Signals) /\ \A k \in DOMAIN u : u[k] = BlurOf(old) \/ \E j \in DOMAIN w : u[k] = w[j]
            BY <3>1, <3>2, <4>1, AppendedMembers
          <6>2. v = Append(u, GainOf(e))
            BY <5>2
          <6> HIDE DEF u
          <6>3. v[i] = GainOf(e) \/ \E k \in DOMAIN u : v[i] = u[k]
            BY <3>2, <4>1, <4>i, <6>1, <6>2, AppendedMembers
          <6> QED
            BY <4>1, <6>1, <6>3
        <5>3. CASE v = Append(Append(w, GainOf(e)), BlurOf(old))
          <6> DEFINE u == Append(w, GainOf(e))
          <6>1. u \in Seq(Signals) /\ \A k \in DOMAIN u : u[k] = GainOf(e) \/ \E j \in DOMAIN w : u[k] = w[j]
            BY <3>1, <3>2, <4>1, AppendedMembers
          <6>2. v = Append(u, BlurOf(old))
            BY <5>3
          <6> HIDE DEF u
          <6>3. v[i] = BlurOf(old) \/ \E k \in DOMAIN u : v[i] = u[k]
            BY <3>2, <4>1, <4>i, <6>1, <6>2, AppendedMembers
          <6> QED
            BY <4>1, <6>1, <6>3
        <5> QED
          BY <5>1, <5>2, <5>3
      <4>2. CASE old # Nobody /\ BusOf[old] = b /\ ~(e # Nobody /\ BusOf[e] = b)
        <5>1. v = Append(w, BlurOf(old))
          BY <3>1, <4>2 DEF MovedWire
        <5> QED
          BY <3>1, <3>2, <4>2, <4>i, <5>1, AppendedMembers
      <4>3. CASE ~(old # Nobody /\ BusOf[old] = b) /\ e # Nobody /\ BusOf[e] = b
        <5>1. v = Append(w, GainOf(e))
          BY <3>1, <4>3 DEF MovedWire
        <5> QED
          BY <3>1, <3>2, <4>3, <4>i, <5>1, AppendedMembers
      <4>4. CASE ~(old # Nobody /\ BusOf[old] = b) /\ ~(e # Nobody /\ BusOf[e] = b)
        <5>1. v = w
          BY <3>1, <4>4 DEF MovedWire
        <5> QED
          BY <4>i, <5>1
      <4> QED
        BY <4>1, <4>2, <4>3, <4>4
    <3>4. CASE \E j \in DOMAIN w : v[i] = w[j]
      <4>1. OnBus(desk, v[i], b)
        BY <1>0, <3>4 DEF PathInv, w
      <4> QED
        BY <1>1, <4>1 DEF OnBus, v
    <3>5. CASE old # Nobody /\ BusOf[old] = b /\ v[i] = BlurOf(old)
      BY <1>1, <1>o, <3>5 DEF OnBus, v, BlurOf
    <3>6. CASE e # Nobody /\ BusOf[e] = b /\ v[i] = GainOf(e)
      BY <1>1, <3>6 DEF OnBus, v, GainOf
    <3> QED
      BY <3>3, <3>4, <3>5, <3>6
  <2> QED
    BY <1>0, <1>1, <2>1, <2>2, <2>3 DEF PathInv, e
<1>4. CourseInv'
  <2> DEFINE w(x) == desk.wire[BusOf[x]]
             v(x) == desk'.wire[BusOf[x]]
             Y(x, over) == Held(monitor.queue, x, over, Held(monitor.batch, x, over, pub.ident = x))
  <2>1. \A x \in Elements : w(x) \in Seq(Signals) /\ v(x) \in MovedWire(w(x), BusOf[x], old, e)
    BY <1>1, <1>2
  <2>2. \A x \in Elements : /\ MayEndWith(x) <=> Held(w(x), x, Losses(x), Y(x, Losses(x)))
                            /\ MayEndWith(x)' <=> Held(v(x), x, Losses(x), Y(x, Losses(x)))
    BY <1>1 DEF MayEndWith, HeldInTheEnd
  <2>3. desk'.focus # Nobody =>
            (WillEndWith(desk.focus)' <=> Held(v(e), e, Losses(e) \cup Gains, Y(e, Losses(e) \cup Gains)))
    BY <1>1 DEF WillEndWith, HeldInTheEnd, e
  <2> HIDE DEF w, v, Y
  <2>4. ASSUME NEW x \in Elements, x # e PROVE ~MayEndWith(x)'
    <3>1. x = old \/ ~Held(w(x), x, Losses(x), Y(x, Losses(x)))
      BY <1>0, <2>2, <2>4 DEF CourseInv, old
    <3>2. w(x) \in Seq(Signals) /\ v(x) \in MovedWire(w(x), BusOf[x], old, e)
      BY <2>1
    <3> DEFINE y == Y(x, Losses(x))
    <3> HIDE DEF y
    <3>3. x # e /\ (x = old \/ ~Held(w(x), x, Losses(x), y)) => ~Held(v(x), x, Losses(x), y)
      BY <1>1, <1>2, <3>2, MovedHeld
    <3> QED
      BY <2>2, <2>4, <3>1, <3>3 DEF y
  <2>5. ASSUME e # Nobody PROVE Held(v(e), e, Losses(e) \cup Gains, Y(e, Losses(e) \cup Gains))
    <3>1. e \in Elements
      BY <1>1, <2>5 DEF Maybe
    <3>2. w(e) \in Seq(Signals) /\ v(e) \in MovedWire(w(e), BusOf[e], old, e)
      BY <2>1, <3>1
    <3> DEFINE y == Y(e, Losses(e) \cup Gains)
    <3> HIDE DEF y
    <3>3. Held(v(e), e, Losses(e) \cup Gains, y)
      BY <1>1, <1>2, <3>1, <3>2, MovedHeld
    <3> QED
      BY <3>3 DEF y
  <2> QED
    BY <2>3, <2>4, <2>5 DEF CourseInv, e
<1>5. TruthInv'
  BY <1>0, <1>1 DEF TruthInv, Judged
<1> QED
  BY <1>3, <1>4, <1>5 DEF RestInv

\* A signal that is sent and is no gain keeps the course, if it is a loss of whatever
\* loses the focus by it and not of what keeps it.
LEMMA SentCourse ==
    ASSUME MonitorInv, RestInv, Same, NEW b \in Buses, NEW s \in Signals,
           s \notin Gains,
           desk'.wire[b] = Append(desk.wire[b], s),
           \A c \in Buses \ {b} : desk'.wire[c] = desk.wire[c],
           desk'.apps = desk.apps, desk'.missed = desk.missed, desk'.faults = desk.faults,
           desk'.alive \subseteq desk.alive,
           OnBus(desk, s, b),
           desk'.focus # Nobody =>
                /\ desk'.focus = desk.focus /\ BusOf[desk.focus] \in desk'.alive
                /\ s \notin Losses(desk.focus),
           desk'.focus = desk.focus \/ (BusOf[desk.focus] = b /\ s \in Losses(desk.focus))
    PROVE  RestInv'
<1>0. PathInv /\ CourseInv /\ TruthInv
  BY DEF RestInv
<1>1. monitor' = monitor /\ known' = known /\ pub' = pub
  BY DEF Same
<1>2. /\ desk.focus \in Maybe /\ \A x \in Elements : x # Nobody /\ BusOf[x] \in Buses
      /\ \A c \in Buses : desk.wire[c] \in Seq(Signals)
  BY SameWayFacts
<1>3. PathInv'
  <2>1. ASSUME NEW c \in Buses, NEW i \in DOMAIN desk'.wire[c]
        PROVE  OnBus(desk, desk'.wire[c][i], c)
    <3>1. CASE c = b
      <4>1. desk'.wire[b][i] = s \/ \E j \in DOMAIN desk.wire[b] : desk'.wire[b][i] = desk.wire[b][j]
        BY <1>2, <2>1, <3>1, AppendedMembers
      <4> QED
        BY <1>0, <3>1, <4>1 DEF PathInv
    <3>2. CASE c # b
      BY <1>0, <2>1, <3>2 DEF PathInv
    <3> QED
      BY <3>1, <3>2
  <2>2. \A c \in Buses : \A i \in DOMAIN desk'.wire[c] : OnBus(desk', desk'.wire[c][i], c)
    BY <2>1 DEF OnBus
  <2> QED
    BY <1>0, <1>1, <2>2 DEF PathInv
<1>4. CourseInv'
  <2> DEFINE w(x) == desk.wire[BusOf[x]]
             v(x) == desk'.wire[BusOf[x]]
             Y(x, over) == Held(monitor.queue, x, over, Held(monitor.batch, x, over, pub.ident = x))
  <2>1. \A x \in Elements : /\ w(x) \in Seq(Signals)
                            /\ v(x) = IF BusOf[x] = b THEN Append(w(x), s) ELSE w(x)
    BY <1>2
  <2>2. \A x \in Elements : /\ MayEndWith(x) <=> Held(w(x), x, Losses(x), Y(x, Losses(x)))
                            /\ MayEndWith(x)' <=> Held(v(x), x, Losses(x), Y(x, Losses(x)))
    BY <1>1 DEF MayEndWith, HeldInTheEnd
  <2>3. \A x \in Elements :
          LET L == Losses(x) \cup Gains
          IN  /\ WillEndWith(x) <=> Held(w(x), x, L, Y(x, L))
              /\ WillEndWith(x)' <=> Held(v(x), x, L, Y(x, L))
    BY <1>1 DEF WillEndWith, HeldInTheEnd
  <2>g. \A x \in Elements : s # GainOf(x)
    BY DEF GainOf, Gains
  <2> HIDE DEF w, v, Y
  <2>4. ASSUME NEW x \in Elements, NEW over
        PROVE  Held(v(x), x, over, Y(x, over))
                 <=> (BusOf[x] = b => s \notin over) /\ Held(w(x), x, over, Y(x, over))
    <3>1. CASE BusOf[x] = b
      <4> DEFINE y == Y(x, over)
      <4> HIDE DEF y
      <4>1. Held(Append(w(x), s), x, over, y) <=> s = GainOf(x) \/ (s \notin over /\ Held(w(x), x, over, y))
        BY <2>1, HeldAppend
      <4> QED
        BY <2>1, <2>g, <3>1, <4>1 DEF y
    <3>2. CASE BusOf[x] # b
      BY <2>1, <3>2
    <3> QED
      BY <3>1, <3>2
  <2>5. ASSUME NEW x \in Elements, x # desk'.focus PROVE ~MayEndWith(x)'
    <3>1. CASE x # desk.focus
      BY <1>0, <2>2, <2>4, <3>1 DEF CourseInv
    <3>2. CASE x = desk.focus
      BY <2>2, <2>4, <2>5, <3>2
    <3> QED
      BY <3>1, <3>2
  <2>6. ASSUME desk'.focus # Nobody, WillEndWith(desk.focus) PROVE WillEndWith(desk.focus)'
    <3>1. desk.focus \in Elements /\ s \notin Losses(desk.focus) \cup Gains
      BY <1>2, <2>6 DEF Maybe
    <3> QED
      BY <2>3, <2>4, <2>6, <3>1
  <2>7. desk'.focus # Nobody /\ OneApp' /\ ~desk'.missed => WillEndWith(desk.focus)'
    BY <1>0, <2>6 DEF CourseInv, OneApp
  <2> QED
    BY <2>5, <2>7 DEF CourseInv
<1>5. TruthInv'
  BY <1>0, <1>1 DEF TruthInv, Judged
<1> QED
  BY <1>3, <1>4, <1>5 DEF RestInv

\* A click on another cell, and an exit.
LEMMA CellAndQuitCourse ==
    ASSUME MonitorInv, RestInv
    PROVE  /\ MoveCell => RestInv'
           /\ \A b \in Buses : Quit(b) => RestInv'
<1>0. PathInv /\ CourseInv /\ TruthInv /\ desk \in Desks
  BY Fields DEF RestInv
<1>1. ASSUME MoveCell PROVE RestInv'
  <2> DEFINE f == desk.focus
             b == BusOf[f]
             s == [kind |-> "select", of |-> f]
             d == Change(desk)
  <2>1. /\ desk.changes < MaxChanges /\ f \in Sheets
        /\ monitor' = monitor /\ known' = known /\ pub' = pub
    BY <1>1 DEF MoveCell
  <2>2. PICK c \in Cells : desk' = Send([d EXCEPT !.cell[f] = c], b, <<s>>)
    BY <1>1 DEF MoveCell
  <2> DEFINE clicked == [d EXCEPT !.cell[f] = c]
  <2>3. /\ f \in Elements /\ f # Nobody /\ b \in Buses /\ s \in Signals
        /\ b \in desk.alive \cap desk.apps
    BY <1>0, <2>1, SameWayFacts DEF Sheets, Signals, PathInv
  <2>4. /\ d \in Desks /\ d.focus = f /\ d.wire = desk.wire /\ d.alive = desk.alive
        /\ d.apps = desk.apps /\ d.missed = desk.missed /\ d.faults = desk.faults
    BY <1>0, <2>1, ChangeTyped
  <2> HIDE DEF d
  <2>5. /\ clicked \in Desks /\ clicked.focus = f /\ clicked.wire = desk.wire
        /\ clicked.alive = desk.alive /\ clicked.apps = desk.apps
        /\ clicked.missed = desk.missed /\ clicked.faults = desk.faults
    <3>1. [d.cell EXCEPT ![f] = c] \in [Sheets -> Cells]
      BY <2>1, <2>2, <2>4 DEF Desks
    <3>2. clicked = [d EXCEPT !.cell = [d.cell EXCEPT ![f] = c]]
      BY <2>4 DEF Desks
    <3> HIDE DEF clicked, f
    <3> QED
      BY <2>4, <3>1, <3>2 DEF Desks
  <2> HIDE DEF clicked, s, b
  <2>6. Sent(desk', clicked, b, Append(clicked.wire[b], s))
    BY <2>2, <2>3, <2>5, SendSignals DEF clicked
  <2>7. s \notin Gains /\ s \notin Losses(f) /\ OnBus(desk, s, b)
    BY <2>3 DEF Gains, Losses, OnBus, s, b
  <2> QED
    BY <2>1, <2>3, <2>5, <2>6, <2>7, SentCourse DEF Sent, Same, b
<1>2. ASSUME NEW b \in Buses, Quit(b) PROVE RestInv'
  <2> DEFINE f == desk.focus
             s == [kind |-> "gone", of |-> b]
             d == Change(desk)
             left == IF d.focus # Nobody /\ BusOf[d.focus] = b THEN Nobody ELSE d.focus
             empty == [d EXCEPT !.alive = @ \ {b}, !.focus = left]
  <2>1. /\ desk.changes < MaxChanges /\ b \in desk.alive
        /\ monitor' = monitor /\ known' = known /\ pub' = pub
    BY <1>2 DEF Quit
  <2>2. /\ d \in Desks /\ d.focus = f /\ d.wire = desk.wire /\ d.alive = desk.alive
        /\ d.apps = desk.apps /\ d.missed = desk.missed /\ d.faults = desk.faults
    BY <1>0, <2>1, ChangeTyped
  <2>3. desk' = Send(empty, b, <<s>>)
    BY <1>2, <2>2 DEF Quit, Desks
  <2>4. left \in Maybe /\ left = IF f # Nobody /\ BusOf[f] = b THEN Nobody ELSE f
    BY <1>0, <2>2 DEF Desks, Maybe
  <2> HIDE DEF d, left, f
  <2>5. /\ empty \in Desks /\ empty.focus = left /\ empty.wire = desk.wire
        /\ empty.alive = desk.alive \ {b} /\ empty.apps = desk.apps
        /\ empty.missed = desk.missed /\ empty.faults = desk.faults
    BY <2>2, <2>4 DEF Desks
  <2>6. s \in Signals
    BY DEF Signals
  <2> HIDE DEF empty, s
  <2>7. Sent(desk', empty, b, Append(empty.wire[b], s))
    BY <2>3, <2>5, <2>6, SendSignals
  <2>8. /\ s \notin Gains /\ OnBus(desk, s, b)
        /\ \A x \in Elements : s \in Losses(x) <=> BusOf[x] = b
    BY DEF Gains, Losses, OnBus, s
  <2>9. /\ f \in Maybe /\ (f # Nobody => BusOf[f] \in desk.alive)
        /\ desk'.focus = left
    BY <1>0, <2>5, <2>7, SameWayFacts DEF PathInv, Sent, f
  <2>10. desk'.focus # Nobody => /\ desk'.focus = f /\ BusOf[f] \in desk'.alive
                                 /\ s \notin Losses(f)
    BY <2>4, <2>5, <2>7, <2>8, <2>9 DEF Sent, Maybe
  <2>11. desk'.focus = f \/ (BusOf[f] = b /\ s \in Losses(f))
    BY <2>4, <2>8, <2>9 DEF Maybe
  <2>12. /\ desk'.wire[b] = Append(desk.wire[b], s)
         /\ \A c \in Buses \ {b} : desk'.wire[c] = desk.wire[c]
         /\ desk'.apps = desk.apps /\ desk'.missed = desk.missed /\ desk'.faults = desk.faults
         /\ desk'.alive \subseteq desk.alive
    BY <2>5, <2>7 DEF Sent
  <2> QED
    BY <2>1, <2>6, <2>8, <2>10, <2>11, <2>12, SentCourse DEF Same, f
<1> QED
  BY <1>1, <1>2

\* The members of a sequence without its first.
LEMMA TailMembers ==
    ASSUME NEW q \in Seq(Signals), q # <<>>
    PROVE  \A i \in DOMAIN Tail(q) : \E j \in DOMAIN q : Tail(q)[i] = q[j]
<1>1. \A i \in DOMAIN Tail(q) : i + 1 \in DOMAIN q /\ Tail(q)[i] = q[i + 1]
  OBVIOUS
<1> QED
  BY <1>1

\* A signal that arrives, or that nobody hears.
LEMMA DeliverCourse ==
    ASSUME MonitorInv, RestInv, NEW b \in Buses, Deliver(b)
    PROVE  RestInv'
<1>0. PathInv /\ CourseInv /\ TruthInv /\ StoppedInv /\ desk \in Desks /\ monitor \in Threads
  BY Fields DEF RestInv, MonitorInv
<1> DEFINE deaf == monitor.at \in {"off", "connect", "leaving"}
           h == Head(desk.wire[b])
           q == monitor.queue
<1>1. /\ desk' = [desk EXCEPT !.wire[b] = Tail(@), !.missed = @ \/ deaf]
      /\ monitor' = IF deaf THEN monitor ELSE [monitor EXCEPT !.queue = Append(@, h)]
      /\ desk.wire[b] # <<>> /\ known' = known /\ pub' = pub
  BY DEF Deliver
<1>2. /\ desk.focus \in Maybe /\ \A x \in Elements : x # Nobody /\ BusOf[x] \in Buses
      /\ \A c \in Buses : desk.wire[c] \in Seq(Signals)
      /\ q \in Seq(Signals) /\ desk.missed \in BOOLEAN
  BY SameWayFacts, Fields
<1>3. /\ desk'.wire[b] = Tail(desk.wire[b]) /\ \A c \in Buses \ {b} : desk'.wire[c] = desk.wire[c]
      /\ desk'.focus = desk.focus /\ desk'.apps = desk.apps /\ desk'.alive = desk.alive
      /\ desk'.missed = (desk.missed \/ deaf) /\ desk'.faults = desk.faults
  <2> HIDE DEF deaf
  <2> QED
    BY <1>0, <1>1 DEF Desks
<1>4. /\ monitor'.at = monitor.at /\ monitor'.batch = monitor.batch
      /\ monitor'.failed = monitor.failed
      /\ monitor'.queue = IF deaf THEN q ELSE Append(q, h)
  <2> HIDE DEF h, deaf
  <2> QED
    BY <1>0, <1>1 DEF Threads
<1>5. h \in Signals /\ Tail(desk.wire[b]) \in Seq(Signals) /\ OnBus(desk, h, b)
  <2>1. desk.wire[b] \in Seq(Signals) /\ desk.wire[b] # <<>>
    BY <1>1, <1>2
  <2>2. h \in Signals /\ Tail(desk.wire[b]) \in Seq(Signals) /\ h = desk.wire[b][1]
        /\ 1 \in DOMAIN desk.wire[b]
    BY <2>1
  <2> QED
    BY <1>0, <2>2 DEF PathInv
<1>6. PathInv'
  <2>1. \A i \in DOMAIN desk'.wire[b] : \E j \in DOMAIN desk.wire[b] :
                desk'.wire[b][i] = desk.wire[b][j]
    BY <1>1, <1>2, <1>3, TailMembers
  <2>2. ASSUME NEW c \in Buses, NEW i \in DOMAIN desk'.wire[c]
        PROVE  OnBus(desk, desk'.wire[c][i], c)
    <3>1. \A j \in DOMAIN desk.wire[c] : OnBus(desk, desk.wire[c][j], c)
      BY <1>0 DEF PathInv
    <3>2. \E j \in DOMAIN desk.wire[c] : desk'.wire[c][i] = desk.wire[c][j]
      <4>1. CASE c = b
        BY <2>1, <2>2, <4>1
      <4>2. CASE c # b
        <5>1. desk'.wire[c] = desk.wire[c]
          BY <1>3, <4>2
        <5>2. i \in DOMAIN desk.wire[c] /\ desk'.wire[c][i] = desk.wire[c][i]
          BY <2>2, <5>1
        <5> QED
          BY <5>2
      <4> QED
        BY <4>1, <4>2
    <3> QED
      BY <3>1, <3>2
  <2>3. \A c \in Buses : \A i \in DOMAIN desk'.wire[c] : OnBus(desk', desk'.wire[c][i], c)
    BY <1>3, <2>2 DEF OnBus
  <2> QED
    BY <1>0, <1>3, <1>4, <2>3 DEF PathInv
<1> DEFINE w(x) == desk.wire[BusOf[x]]
           v(x) == desk'.wire[BusOf[x]]
           Y(x, over) == Held(monitor.batch, x, over, pub.ident = x)
<1>7. \A x \in Elements : /\ MayEndWith(x) <=> Held(w(x), x, Losses(x), Held(q, x, Losses(x), Y(x, Losses(x))))
                          /\ MayEndWith(x)' <=> Held(v(x), x, Losses(x), Held(monitor'.queue, x, Losses(x), Y(x, Losses(x))))
  BY <1>1, <1>4 DEF MayEndWith, HeldInTheEnd
<1>8. \A x \in Elements :
        LET L == Losses(x) \cup Gains
        IN  /\ WillEndWith(x) <=> Held(w(x), x, L, Held(q, x, L, Y(x, L)))
            /\ WillEndWith(x)' <=> Held(v(x), x, L, Held(monitor'.queue, x, L, Y(x, L)))
  BY <1>1, <1>4 DEF WillEndWith, HeldInTheEnd
<1>9. \A x \in Elements : /\ w(x) \in Seq(Signals)
                          /\ BusOf[x] = b => w(x) # <<>> /\ Head(w(x)) = h /\ v(x) = Tail(w(x))
                          /\ BusOf[x] # b => v(x) = w(x)
  BY <1>1, <1>2, <1>3
<1>10. TruthInv'
  BY <1>0, <1>1, <1>3, <1>4 DEF TruthInv, Judged
<1> HIDE DEF w, v, Y
<1>11. CASE deaf
  <2>1. q = <<>> /\ monitor.batch = <<>> /\ pub.ident = Nobody /\ desk'.missed
        /\ monitor'.queue = q
    BY <1>0, <1>3, <1>4, <1>11 DEF PathInv, StoppedInv
  <2>2. ASSUME NEW x \in Elements, MayEndWith(x)' PROVE MayEndWith(x)
    <3> DEFINE L == Losses(x)
               y == Held(q, x, L, Y(x, L))
    <3>1. ~y
      BY <1>2, <2>1 DEF Held, Y
    <3>2. Held(v(x), x, L, y)
      BY <1>7, <2>1, <2>2
    <3> HIDE DEF y
    <3>3. CASE BusOf[x] = b
      <4>1. Held(w(x), x, L, y) <=> Held(Tail(w(x)), x, L, h = GainOf(x) \/ (y /\ h \notin L))
        <5>1. w(x) \in Seq(Signals) /\ w(x) # <<>> /\ Head(w(x)) = h
          BY <1>9, <3>3
        <5>2. Held(w(x), x, L, y)
                <=> Held(Tail(w(x)), x, L, Head(w(x)) = GainOf(x) \/ (y /\ Head(w(x)) \notin L))
          BY <5>1, HeldTail
        <5> HIDE DEF h
        <5> QED
          BY <5>1, <5>2
      <4>2. Held(Tail(w(x)), x, L, y)
        BY <1>9, <3>2, <3>3
      <4>3. Held(Tail(w(x)), x, L, h = GainOf(x) \/ (y /\ h \notin L))
        BY <3>1, <4>2 DEF Held
      <4> QED
        BY <1>7, <4>1, <4>3 DEF y
    <3>4. CASE BusOf[x] # b
      BY <1>7, <1>9, <3>2, <3>4 DEF y
    <3> QED
      BY <3>3, <3>4
  <2>3. CourseInv'
    BY <1>0, <1>3, <2>1, <2>2 DEF CourseInv
  <2> QED
    BY <1>6, <1>10, <2>3 DEF RestInv
<1>12. CASE ~deaf
  <2>1. monitor'.queue = Append(q, h) /\ (~desk'.missed => ~desk.missed)
    BY <1>2, <1>3, <1>4, <1>12
  <2>2. ASSUME NEW x \in Elements, NEW over
        PROVE  /\ BusOf[x] = b =>
                    (Held(v(x), x, over, Held(monitor'.queue, x, over, Y(x, over)))
                        <=> Held(w(x), x, over, Held(q, x, over, Y(x, over))))
               /\ BusOf[x] # b /\ h # GainOf(x) =>
                    (Held(v(x), x, over, Held(monitor'.queue, x, over, Y(x, over)))
                        => Held(w(x), x, over, Held(q, x, over, Y(x, over))))
               /\ BusOf[x] # b /\ h \notin over =>
                    (Held(w(x), x, over, Held(q, x, over, Y(x, over)))
                        => Held(v(x), x, over, Held(monitor'.queue, x, over, Y(x, over))))
    <3> DEFINE y == Y(x, over)
               z == Held(q, x, over, y)
               n == Held(Append(q, h), x, over, y)
    <3> HIDE DEF y
    <3>1. n <=> h = GainOf(x) \/ (h \notin over /\ z)
      BY <1>2, <1>5, HeldAppend
    <3> HIDE DEF z, n
    <3>2. CASE BusOf[x] = b
      <4>1. Held(w(x), x, over, z)
              <=> Held(Tail(w(x)), x, over, h = GainOf(x) \/ (z /\ h \notin over))
        <5>1. w(x) \in Seq(Signals) /\ w(x) # <<>> /\ Head(w(x)) = h
          BY <1>9, <3>2
        <5>2. Held(w(x), x, over, z)
                <=> Held(Tail(w(x)), x, over, Head(w(x)) = GainOf(x) \/ (z /\ Head(w(x)) \notin over))
          BY <5>1, HeldTail
        <5> HIDE DEF h
        <5> QED
          BY <5>1, <5>2
      <4>2. Held(Tail(w(x)), x, over, n)
              <=> Held(Tail(w(x)), x, over, h = GainOf(x) \/ (z /\ h \notin over))
        BY <3>1 DEF Held
      <4>3. Held(v(x), x, over, n) <=> Held(w(x), x, over, z)
        BY <1>9, <3>2, <4>1, <4>2
      <4> QED
        BY <2>1, <3>2, <4>3 DEF n, z, y
    <3>3. CASE BusOf[x] # b
      <4>1. v(x) = w(x)
        BY <1>9, <3>3
      <4>2. h # GainOf(x) => (Held(w(x), x, over, n) => Held(w(x), x, over, z))
        BY <3>1 DEF Held
      <4>3. h \notin over => (Held(w(x), x, over, z) => Held(w(x), x, over, n))
        BY <3>1 DEF Held
      <4> QED
        BY <2>1, <3>3, <4>1, <4>2, <4>3 DEF n, z, y
    <3> QED
      BY <3>2, <3>3
  <2>3. \A x \in Elements : BusOf[x] # b => h # GainOf(x) /\ h \notin Losses(x)
    BY <1>5 DEF OnBus, GainOf, Losses
  <2>4. \A x \in Elements : MayEndWith(x)' => MayEndWith(x)
    BY <1>7, <2>2, <2>3
  <2>5. ASSUME desk.focus # Nobody, OneApp, WillEndWith(desk.focus)
        PROVE  WillEndWith(desk.focus)'
    <3> DEFINE x == desk.focus
               L == Losses(x) \cup Gains
    <3>1. x \in Elements /\ BusOf[x] \in desk.apps
      BY <1>0, <1>2, <2>5 DEF Maybe, PathInv
    <3>2. BusOf[x] # b => h \notin L
      <4>1. BusOf[x] # b => b \notin desk.apps
        BY <2>5, <3>1 DEF OneApp
      <4>2. BusOf[x] # b => h.kind = "gone"
        BY <1>5, <4>1 DEF OnBus
      <4>3. h.kind = "gone" => h \notin Gains
        BY DEF Gains
      <4> QED
        BY <2>3, <3>1, <4>2, <4>3
    <3>3. Held(w(x), x, L, Held(q, x, L, Y(x, L)))
      BY <1>8, <2>5, <3>1
    <3>4. Held(v(x), x, L, Held(monitor'.queue, x, L, Y(x, L)))
      BY <2>2, <3>1, <3>2, <3>3
    <3>5. desk'.focus = x
      BY <1>3
    <3> QED
      BY <1>8, <3>1, <3>4, <3>5
  <2>6. CourseInv'
    BY <1>0, <1>3, <2>1, <2>4, <2>5 DEF CourseInv, OneApp
  <2> QED
    BY <1>6, <1>10, <2>6 DEF RestInv
<1> QED
  BY <1>11, <1>12

\* Nothing has been signalled at the start.
LEMMA InitRest == Init => RestInv
<1> SUFFICES ASSUME Init PROVE RestInv
  OBVIOUS
<1>1. /\ desk.focus = Nobody /\ desk.apps = {} /\ \A b \in Buses : desk.wire[b] = <<>>
      /\ monitor.at = "poll" /\ monitor.queue = <<>> /\ monitor.batch = <<>>
      /\ known.native = {} /\ known.asked = {} /\ pub.ident = Nobody
  BY DEF Init, MonitorInit
<1>2. \A x \in Elements : x # Nobody /\ BusOf[x] \in Buses
  BY Constants DEF Facts
<1>3. PathInv
  BY <1>1, FS_EmptySet DEF PathInv
<1>4. ASSUME NEW x \in Elements PROVE ~MayEndWith(x)
  <2> DEFINE L == Losses(x)
  <2>1. MayEndWith(x) <=> Held(<<>>, x, L, Held(<<>>, x, L, Held(<<>>, x, L, pub.ident = x)))
    BY <1>1, <1>2 DEF MayEndWith, HeldInTheEnd
  <2>2. pub.ident # x
    BY <1>1, <1>2
  <2> HIDE DEF L
  <2> QED
    BY <2>1, <2>2 DEF Held
<1>5. CourseInv
  BY <1>1, <1>4 DEF CourseInv
<1>6. TruthInv
  BY <1>1 DEF TruthInv
<1> QED
  BY <1>3, <1>5, <1>6 DEF RestInv

\* The key thread may use up a fault, and touches nothing else.
LEMMA EngineCourse ==
    ASSUME MonitorInv, RestInv, Engine
    PROVE  RestInv'
<1>0. PathInv /\ CourseInv /\ TruthInv /\ desk.faults \in Nat
  BY SameWayFacts DEF RestInv
<1>1. /\ monitor' = monitor /\ known' = known /\ pub' = pub
      /\ \/ desk' = desk
         \/ desk' = [desk EXCEPT !.faults = IF @ < MaxFaults THEN @ + 1 ELSE @]
  BY DEF Engine, Look, Use, KeyAfterBar, Key, KeyReads, Answer, KeyRead,
         KeyReadRefused, EndWord, Cycle, mvars
<1>2. /\ desk'.focus = desk.focus /\ desk'.wire = desk.wire /\ desk'.apps = desk.apps
      /\ desk'.alive = desk.alive /\ desk'.missed = desk.missed
      /\ desk'.faults \in {desk.faults, desk.faults + 1}
  BY <1>1, Fields DEF Desks
<1>3. SameWay
  BY <1>0, <1>2 DEF SameWay
<1>4. PathInv'
  BY <1>0, <1>1, <1>2 DEF PathInv, OnBus
<1>5. CourseInv'
  BY <1>0, <1>1, <1>3, CourseUntouched
<1>6. TruthInv'
  BY <1>0, <1>1, <1>2, <1>3 DEF TruthInv, Judged, SameWay
<1> QED
  BY <1>4, <1>5, <1>6 DEF RestInv

\* Every step keeps the course.
LEMMA NextRest ==
    ASSUME MonitorInv, RestInv, [Next]_vars
    PROVE  RestInv'
<1>1. CASE UNCHANGED vars
  <2>1. /\ desk' = desk /\ monitor' = monitor /\ known' = known /\ pub' = pub
    BY <1>1 DEF vars
  <2>2. SameWay
    BY <2>1 DEF SameWay
  <2>3. CourseInv'
    BY <2>1, <2>2, CourseUntouched DEF RestInv
  <2>4. PathInv' /\ TruthInv'
    BY <2>1 DEF RestInv, PathInv, OnBus, TruthInv, Judged
  <2> QED
    BY <2>3, <2>4 DEF RestInv
<1>2. CASE Next
  BY <1>2, EngineCourse, MoveFocusCourse, CellAndQuitCourse, DeliverCourse, MonitorCourse
     DEF Next, Moving
<1> QED
  BY <1>1, <1>2

\* With nothing left to read, the published accessible is the one that has the focus or
\* none, exactly it while one application had it and the thread was there to hear, and its
\* verdict is complete and, if every query was answered, true: for any applications,
\* accessibles, number of moves and order of their connections' signals
\* (a11y_monitor.cpp:1088).
THEOREM FocusConverges == Spec => []Converges
<1>1. Init => RestInv
  BY InitRest
<1>2. IInv /\ RestInv /\ [Next]_vars => RestInv'
  BY NextRest DEF IInv
<1>3. IInv /\ RestInv => Converges
  <2> SUFFICES ASSUME IInv, RestInv, AtRest PROVE Converges
    BY DEF Converges
  <2>0. MonitorInv /\ PathInv /\ CourseInv /\ TruthInv
    BY DEF IInv, RestInv
  <2>1. /\ monitor.at = "poll" /\ monitor.queue = <<>> /\ monitor.batch = <<>>
        /\ \A b \in Buses : desk.wire[b] = <<>>
    BY <2>0 DEF AtRest, PathInv
  <2>2. /\ desk.focus \in Maybe /\ pub.ident \in Maybe
        /\ \A x \in Elements : x # Nobody /\ BusOf[x] \in Buses
    BY <2>0, SameWayFacts, Fields
  <2>3. ASSUME NEW x \in Elements
        PROVE  /\ MayEndWith(x) <=> pub.ident = x
               /\ WillEndWith(x) <=> pub.ident = x
    <3>1. \A over : HeldInTheEnd(x, over)
                      <=> Held(<<>>, x, over, Held(<<>>, x, over, Held(<<>>, x, over, pub.ident = x)))
      BY <2>1, <2>2 DEF HeldInTheEnd
    <3>2. \A over : HeldInTheEnd(x, over) <=> pub.ident = x
      BY <3>1 DEF Held
    <3> QED
      BY <3>2 DEF MayEndWith, WillEndWith
  <2>4. pub.ident \in {desk.focus, Nobody}
    BY <2>0, <2>2, <2>3 DEF CourseInv, Maybe
  <2>5. ASSUME Cardinality(desk.apps) <= 1, ~desk.missed PROVE pub.ident = desk.focus
    <3>1. OneApp
      <4> SUFFICES ASSUME NEW b \in desk.apps, NEW c \in desk.apps, b # c PROVE FALSE
        BY DEF OneApp
      <4> DEFINE rest == desk.apps \ {b}
      <4>1. IsFiniteSet(desk.apps)
        BY <2>0 DEF PathInv
      <4>2. IsFiniteSet(rest) /\ Cardinality(rest) = Cardinality(desk.apps) - 1
        BY <4>1, FS_RemoveElement
      <4>3. Cardinality(rest) \in Nat /\ Cardinality(desk.apps) \in Nat
        BY <4>1, <4>2, FS_CardinalityType
      <4>4. Cardinality(rest) = 0
        BY <2>5, <4>2, <4>3
      <4>5. rest = {}
        BY <4>2, <4>4, FS_EmptySet
      <4> QED
        BY <4>5
    <3> QED
      BY <2>0, <2>2, <2>3, <2>4, <2>5, <3>1 DEF CourseInv, Maybe
  <2>6. pub.ident # Nobody => pub.fresh
    BY <2>0, <2>1 DEF TruthInv
  <2>7. ASSUME pub.ident # Nobody, desk.faults = 0
        PROVE  Judged = Truth(pub.ident) /\ pub.sheet = (pub.ident \in Sheets)
    <3>1. BusOf[pub.ident] \in desk.alive
      BY <2>0, <2>4, <2>7 DEF PathInv
    <3> QED
      BY <2>0, <2>6, <2>7, <3>1 DEF TruthInv
  <2> QED
    BY <2>4, <2>5, <2>6, <2>7 DEF Converges
<1> QED
  BY <1>1, <1>2, <1>3, Invariance, PTL DEF Spec
=============================================================================
