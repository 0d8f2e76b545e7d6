----------------------- MODULE NativeInjectorProofs -----------------------
(***************************************************************************)
(* The safety of the two workers of NativeInjector.  XTestInjector: for    *)
(* every set of owners, windows and batches, every number of requests and  *)
(* moves of the focus, and every value of the code's limits.               *)
(* LibeiInjector: for every number of batches, cancels, keyboards, closed  *)
(* sessions and restarts.                                                  *)
(***************************************************************************)
EXTENDS XTestInjector, LibeiInjector, TLAPS

\* The parts of TypeOK.
RequestsOK ==
    /\ req \in [Tickets -> Requests] /\ state \in [Tickets -> States]
    /\ emitted \in [Tickets -> BOOLEAN] /\ landed \in [Tickets -> Nat]
FlagsOK ==
    /\ cancelled \in BOOLEAN /\ ready \in BOOLEAN /\ ok \in BOOLEAN
    /\ held \in BOOLEAN /\ shiftHeld \in BOOLEAN /\ refused \in BOOLEAN
PlacesOK ==
    /\ quit \in {"no", "stop", "cancelled"} /\ stage \in {"escape", "main", "anchor"}
    /\ target \in Focusable \cup {NoWindow} /\ focus \in Focusable
    /\ pc \in {"off", "open", "wait", "pin", "begin", "shiftDown", "tap", "tapFocus", "tapDown",
               "tapUp", "pace", "paceFocus", "shiftUp", "cleanup", "retire", "done"}
NumbersOK ==
    /\ taps \in 0..MaxCount /\ moves \in 0..MaxMoves /\ errors \in 0..MaxErrors
    /\ stray \in Nat /\ since \in 0..moves /\ next \in 1..(MaxTickets + 1)
SetsOK ==
    /\ queue \subseteq Tickets /\ active \in Tickets \cup {None}
    /\ down \subseteq {"Escape", "Shift", "Left", "BackSpace"}

\* The keys the batches are made of.
KeyNames == {"Escape", "Shift", "Left", "BackSpace"}

\* What one event on the X connection leaves behind.
Emitted(key, press, good) ==
    /\ emitted' \in [Tickets -> BOOLEAN] /\ landed' \in [Tickets -> Nat]
    /\ \A t \in Tickets \ {active} : emitted'[t] = emitted[t] /\ landed'[t] = landed[t]
    /\ emitted'[active]
    /\ ~press => landed' = landed
    /\ landed'[active] \in {landed[active], landed[active] + 1}
    /\ press /\ good => landed'[active] = landed[active] + 1
    /\ stray' \in {stray, stray + 1} /\ ((press /\ focus # target) \/ stray' = stray)
    /\ down' \subseteq down \cup (IF press THEN {key} ELSE {})
    /\ ~press /\ good => down' = down \ {key}
    /\ refused' = (refused \/ (~press /\ ~good))
    /\ errors' \in 0..MaxErrors

\* What Emit does, whatever the server made of the event.
LEMMA EmitFacts ==
    ASSUME TypeOK, active \in Tickets, NEW key, NEW press \in BOOLEAN, NEW good \in BOOLEAN,
           Emit(key, press, good)
    PROVE  Emitted(key, press, good)
<1> USE XTestAssumption DEF Emit, TypeOK
<1>1. PICK took \in {TRUE, good} : Emit(key, press, good)!(took)
  OBVIOUS
<1>2. took \in BOOLEAN /\ (good => took)
  OBVIOUS
<1>3. /\ emitted' \in [Tickets -> BOOLEAN] /\ emitted'[active]
      /\ \A t \in Tickets \ {active} : emitted'[t] = emitted[t]
  BY <1>1, Zenon
<1>4. /\ landed' \in [Tickets -> Nat]
      /\ \A t \in Tickets \ {active} : landed'[t] = landed[t]
      /\ ~press => landed' = landed
      /\ landed'[active] \in {landed[active], landed[active] + 1}
      /\ press /\ good => landed'[active] = landed[active] + 1
  BY <1>1, <1>2
<1>5. /\ stray' \in {stray, stray + 1} /\ ((press /\ focus # target) \/ stray' = stray)
      /\ errors' \in 0..MaxErrors
  BY <1>1, <1>2
<1>6. /\ down' \subseteq down \cup (IF press THEN {key} ELSE {})
      /\ ~press /\ good => down' = down \ {key}
  BY <1>1, <1>2
<1>7. refused' = (refused \/ (~press /\ ~good))
  BY <1>1
<1> QED
  BY <1>3, <1>4, <1>5, <1>6, <1>7 DEF Emitted

\* What IInv says of the batch being typed.
LEMMA BusyFacts ==
    ASSUME IInv, pc \in Busy
    PROVE  /\ active \in Tickets /\ active \in Nat /\ active < next /\ active \notin queue
           /\ req[active] \in Requests /\ req[active].count \in Nat
           /\ req[active].count <= MaxCount
           /\ req[active].escape \in BOOLEAN /\ req[active].select \in BOOLEAN
           /\ ~(req[active].escape /\ req[active].select)
           /\ Presses(req[active]) =
                 req[active].count + (IF req[active].escape THEN 1 ELSE 0)
                                   + (IF req[active].select THEN 2 ELSE 0)
           /\ Presses(req[active]) > 0
           /\ taps \in Nat /\ landed[active] \in Nat /\ state[active] = "Running"
           /\ TapKey \in KeyNames /\ next \in Nat
           /\ stage \in {"escape", "main", "anchor"}
  BY XTestAssumption
     DEF IInv, TypeOK, WorkInv, Busy, Requests, Tickets, None, Presses, TapKey, KeyNames

\* ShiftDown preserves the invariant: the first press of a selection.
LEMMA ShiftDownStep == ASSUME IInv, ShiftDown PROVE IInv'
<1> USE DEF client, user
<1>1. pc \in Busy
  BY DEF ShiftDown, Busy, Tapping
<1>2. PICK good \in BOOLEAN : ShiftDown!3!(good)
  BY DEF ShiftDown
<1>3. Emitted("Shift", TRUE, good)
  BY <1>1, <1>2, BusyFacts, EmitFacts DEF IInv, ShiftDown
<1>4. TypeOK'
  BY <1>1, <1>2, <1>3, BusyFacts
     DEF ShiftDown, Emitted, IInv, TypeOK, KeyNames, AfterTap, ToRelease, MoreTaps, StageInv,
         Tapping
<1>5. WorkInv'
  BY <1>1, <1>2, <1>3, BusyFacts
     DEF ShiftDown, IInv, WorkInv, Busy, Tapping, AfterTap, ToRelease
<1>6. StageInv'
  BY <1>1, <1>2, <1>3, BusyFacts
     DEF ShiftDown, IInv, StageInv, Busy, Tapping, AfterTap, ToRelease, MoreTaps
<1>7. KeysInv'
  BY <1>1, <1>2, <1>3, BusyFacts
     DEF ShiftDown, Emitted, IInv, KeysInv, StageInv, Busy, Tapping, AfterTap, ToRelease,
         TapKey
<1>8. FocusInv'
  BY <1>1, <1>2, <1>3, BusyFacts
     DEF ShiftDown, Emitted, IInv, TypeOK, FocusInv, StrayBounded, Busy, Tapping, AfterTap,
         ToRelease
<1>9. LandedInv'
  <2>1. landed[active] < Presses(req[active])
    BY <1>1, <1>2, BusyFacts DEF ShiftDown, IInv, PressInv, StageInv, Tapping
  <2>2. landed'[active] <= Presses(req[active])
    BY <1>1, <1>3, <2>1, BusyFacts DEF Emitted
  <2>3. state[active] # "Complete" /\ ~(active >= next) /\ active \notin queue
    BY <1>1, BusyFacts
  <2>4. ASSUME NEW t \in Tickets \ {active}
        PROVE  landed'[t] = landed[t] /\ emitted'[t] = emitted[t]
    BY <1>3 DEF Emitted
  <2>5. emitted'[active]
    BY <1>3 DEF Emitted
  <2>6. req' = req /\ next' = next /\ queue' = queue /\ state' = state
    BY <1>2 DEF ShiftDown
  <2> QED
    BY <2>2, <2>3, <2>4, <2>5, <2>6 DEF IInv, LandedInv
<1>10. PressInv'
  BY <1>1, <1>2, <1>3, BusyFacts
     DEF ShiftDown, Emitted, IInv, PressInv, StageInv, Busy, Tapping, AfterTap, ToRelease, MoreTaps
<1> QED
  BY <1>4, <1>5, <1>6, <1>7, <1>8, <1>9, <1>10 DEF IInv

\* TapDown preserves the invariant: a press, made right after a look at the focus.
LEMMA TapDownStep == ASSUME IInv, TapDown PROVE IInv'
<1> USE DEF client, user
<1>1. pc \in Busy
  BY DEF TapDown, Busy, Tapping
<1>2. PICK good \in BOOLEAN : TapDown!3!(good)
  BY DEF TapDown
<1>3. Emitted(TapKey, TRUE, good)
  BY <1>1, <1>2, BusyFacts, EmitFacts DEF IInv, TapDown
<1>4. TypeOK'
  <2> USE <1>1, <1>2, <1>3, BusyFacts DEF IInv, TypeOK, TapDown, Emitted, AfterTap, ToRelease
  <2>1. RequestsOK'
    BY DEF RequestsOK
  <2>2. FlagsOK'
    BY DEF FlagsOK
  <2>3. PlacesOK'
    BY DEF PlacesOK
  <2>4. NumbersOK'
    BY XTestAssumption DEF NumbersOK, StageInv, Tapping
  <2>5. SetsOK'
    BY DEF SetsOK, KeyNames
  <2> QED
    BY <2>1, <2>2, <2>3, <2>4, <2>5 DEF RequestsOK, FlagsOK, PlacesOK, NumbersOK, SetsOK
<1>5. WorkInv'
  BY <1>1, <1>2, <1>3, BusyFacts
     DEF TapDown, IInv, WorkInv, Busy, Tapping, AfterTap, ToRelease
<1>6. StageInv'
  BY <1>1, <1>2, <1>3, BusyFacts
     DEF TapDown, IInv, StageInv, Busy, Tapping, AfterTap, ToRelease, MoreTaps
<1>7. KeysInv'
  BY <1>1, <1>2, <1>3, BusyFacts
     DEF TapDown, Emitted, IInv, KeysInv, StageInv, Busy, Tapping, AfterTap, ToRelease, TapKey
<1>8. FocusInv'
  BY <1>1, <1>2, <1>3, BusyFacts
     DEF TapDown, Emitted, IInv, TypeOK, FocusInv, StrayBounded, Busy, Tapping, AfterTap,
         ToRelease
<1>9. LandedInv'
  <2>1. landed[active] < Presses(req[active])
    BY <1>1, <1>2, BusyFacts DEF TapDown, IInv, PressInv, StageInv, Tapping
  <2>2. landed'[active] <= Presses(req[active])
    BY <1>1, <1>3, <2>1, BusyFacts DEF Emitted
  <2>3. state[active] # "Complete" /\ ~(active >= next) /\ active \notin queue
    BY <1>1, BusyFacts
  <2>4. ASSUME NEW t \in Tickets \ {active}
        PROVE  landed'[t] = landed[t] /\ emitted'[t] = emitted[t]
    BY <1>3 DEF Emitted
  <2>5. emitted'[active]
    BY <1>3 DEF Emitted
  <2>6. req' = req /\ next' = next /\ queue' = queue /\ state' = state
    BY <1>2 DEF TapDown
  <2> QED
    BY <2>2, <2>3, <2>4, <2>5, <2>6 DEF IInv, LandedInv
<1>10. PressInv'
  BY <1>1, <1>2, <1>3, BusyFacts
     DEF TapDown, Emitted, IInv, PressInv, StageInv, Busy, Tapping, AfterTap, ToRelease, MoreTaps
<1> QED
  BY <1>4, <1>5, <1>6, <1>7, <1>8, <1>9, <1>10 DEF IInv

\* TapUp preserves the invariant: the key goes up, or a refused release is remembered.
LEMMA TapUpStep == ASSUME IInv, TapUp PROVE IInv'
<1> USE DEF client, user
<1>1. pc \in Busy
  BY DEF TapUp, Busy, Tapping
<1>2. PICK good \in BOOLEAN : TapUp!2!(good)
  BY DEF TapUp
<1>3. Emitted(TapKey, FALSE, good)
  BY <1>1, <1>2, BusyFacts, EmitFacts DEF IInv, TapUp
<1>4. TypeOK'
  <2> USE <1>1, <1>2, <1>3, BusyFacts DEF IInv, TypeOK, TapUp, Emitted, AfterTap, ToRelease
  <2>1. RequestsOK'
    BY DEF RequestsOK
  <2>2. FlagsOK'
    BY DEF FlagsOK
  <2>3. PlacesOK'
    BY DEF PlacesOK
  <2>4. NumbersOK'
    BY XTestAssumption DEF NumbersOK, StageInv, Tapping
  <2>5. SetsOK'
    BY DEF SetsOK, KeyNames
  <2> QED
    BY <2>1, <2>2, <2>3, <2>4, <2>5 DEF RequestsOK, FlagsOK, PlacesOK, NumbersOK, SetsOK
<1>5. WorkInv'
  BY <1>1, <1>2, <1>3, BusyFacts DEF TapUp, IInv, WorkInv, Busy, Tapping, AfterTap, ToRelease
<1>6. StageInv'
  BY <1>1, <1>2, <1>3, BusyFacts
     DEF TapUp, IInv, StageInv, Busy, Tapping, AfterTap, ToRelease, MoreTaps
<1>7. KeysInv'
  BY <1>1, <1>2, <1>3, BusyFacts
     DEF TapUp, Emitted, IInv, KeysInv, StageInv, Busy, Tapping, AfterTap, ToRelease, TapKey
<1>8. FocusInv'
  BY <1>1, <1>2, <1>3, BusyFacts
     DEF TapUp, Emitted, IInv, TypeOK, FocusInv, StrayBounded, Busy, Tapping, AfterTap,
         ToRelease
<1>9. LandedInv'
  BY <1>2, <1>3, BusyFacts DEF TapUp, Emitted, IInv, LandedInv
<1>10. PressInv'
  BY <1>1, <1>2, <1>3, BusyFacts
     DEF TapUp, Emitted, IInv, PressInv, StageInv, Busy, Tapping, AfterTap, ToRelease, MoreTaps
<1> QED
  BY <1>4, <1>5, <1>6, <1>7, <1>8, <1>9, <1>10 DEF IInv

\* ShiftUp preserves the invariant: a key that may be held leads to the end of the batch.
LEMMA ShiftUpStep == ASSUME IInv, ShiftUp PROVE IInv'
<1> USE DEF client, user
<1>1. pc \in Busy
  BY DEF ShiftUp, Busy, Tapping
<1>2. PICK good \in BOOLEAN : ShiftUp!2!(good)
  BY DEF ShiftUp
<1>3. Emitted("Shift", FALSE, good)
  BY <1>1, <1>2, BusyFacts, EmitFacts DEF IInv, ShiftUp
<1>4. TypeOK'
  BY <1>1, <1>2, <1>3, BusyFacts
     DEF ShiftUp, Emitted, IInv, TypeOK, KeyNames, AfterTap, ToRelease, MoreTaps, StageInv,
         Tapping
<1>5. WorkInv'
  BY <1>1, <1>2, <1>3, BusyFacts
     DEF ShiftUp, IInv, WorkInv, Busy, Tapping, AfterTap, ToRelease
<1>6. StageInv'
  BY <1>1, <1>2, <1>3, BusyFacts
     DEF ShiftUp, IInv, StageInv, Busy, Tapping, AfterTap, ToRelease, MoreTaps
<1>7. KeysInv'
  BY <1>1, <1>2, <1>3, BusyFacts
     DEF ShiftUp, Emitted, IInv, KeysInv, StageInv, Busy, Tapping, AfterTap, ToRelease, TapKey
<1>8. FocusInv'
  BY <1>1, <1>2, <1>3, BusyFacts
     DEF ShiftUp, Emitted, IInv, TypeOK, FocusInv, StrayBounded, Busy, Tapping, AfterTap,
         ToRelease
<1>9. LandedInv'
  BY <1>2, <1>3, BusyFacts DEF ShiftUp, Emitted, IInv, LandedInv
<1>10. PressInv'
  BY <1>1, <1>2, <1>3, BusyFacts
     DEF ShiftUp, Emitted, IInv, PressInv, StageInv, Busy, Tapping, AfterTap, ToRelease, MoreTaps
<1> QED
  BY <1>4, <1>5, <1>6, <1>7, <1>8, <1>9, <1>10 DEF IInv

\* CleanUp preserves the invariant: only releases, of what the locals say may be held.
LEMMA CleanUpStep == ASSUME IInv, CleanUp PROVE IInv'
<1> USE DEF client, user
<1>1. pc \in Busy
  BY DEF CleanUp, Busy, Tapping
<1>2. PICK good \in BOOLEAN : CleanUp!3!(good)
  BY DEF CleanUp
<1>3. Emitted(IF held THEN TapKey ELSE "Shift", FALSE, good)
  BY <1>1, <1>2, BusyFacts, EmitFacts DEF IInv, CleanUp
<1>4. TypeOK'
  <2> USE <1>1, <1>2, <1>3, BusyFacts DEF IInv, TypeOK, CleanUp, Emitted, AfterTap, ToRelease
  <2>1. RequestsOK'
    BY DEF RequestsOK
  <2>2. FlagsOK'
    BY DEF FlagsOK
  <2>3. PlacesOK'
    BY DEF PlacesOK
  <2>4. NumbersOK'
    BY XTestAssumption DEF NumbersOK, StageInv, Tapping
  <2>5. SetsOK'
    BY DEF SetsOK, KeyNames
  <2> QED
    BY <2>1, <2>2, <2>3, <2>4, <2>5 DEF RequestsOK, FlagsOK, PlacesOK, NumbersOK, SetsOK
<1>5. WorkInv'
  BY <1>1, <1>2, <1>3, BusyFacts
     DEF CleanUp, IInv, WorkInv, Busy, Tapping, AfterTap, ToRelease
<1>6. StageInv'
  BY <1>1, <1>2, <1>3, BusyFacts
     DEF CleanUp, IInv, StageInv, Busy, Tapping, AfterTap, ToRelease, MoreTaps
<1>7. KeysInv'
  BY <1>1, <1>2, <1>3, BusyFacts
     DEF CleanUp, Emitted, IInv, KeysInv, StageInv, Busy, Tapping, AfterTap, ToRelease, TapKey
<1>8. FocusInv'
  BY <1>1, <1>2, <1>3, BusyFacts
     DEF CleanUp, Emitted, IInv, TypeOK, FocusInv, StrayBounded, Busy, Tapping, AfterTap,
         ToRelease
<1>9. LandedInv'
  BY <1>2, <1>3, BusyFacts DEF CleanUp, Emitted, IInv, LandedInv
<1>10. PressInv'
  BY <1>1, <1>2, <1>3, BusyFacts
     DEF CleanUp, Emitted, IInv, PressInv, StageInv, Busy, Tapping, AfterTap, ToRelease, MoreTaps
<1> QED
  BY <1>4, <1>5, <1>6, <1>7, <1>8, <1>9, <1>10 DEF IInv

\* Submit preserves the invariant: the ticket is new, and nothing was typed for it.
LEMMA SubmitStep ==
  ASSUME IInv, NEW o \in Owners, NEW shape \in Shapes, NEW w \in Windows \cup {NoWindow},
         Submit(o, shape, w)
  PROVE  IInv'
<1> USE DEF client, locals, server, user
<1>1. /\ next \in Tickets /\ next \in Nat /\ active # next
      /\ state[next] = "Free" /\ landed[next] = 0
      /\ req' \in [Tickets -> Requests]
      /\ \A t \in Tickets \ {next} : req'[t] = req[t] /\ state'[t] = state[t]
      /\ (active # None => req'[active] = req[active])
      /\ Presses(req'[next]) > 0 /\ Presses(req'[next]) \in Nat
      /\ ~(req'[next].escape /\ req'[next].select)
      /\ state'[next] = "Queued" /\ next' = next + 1 /\ queue' = queue \cup {next}
  BY XTestAssumption
     DEF Submit, Accepts, IInv, TypeOK, WorkInv, LandedInv, Requests, Presses, Tickets, None
<1>2. TypeOK'
  <2> USE <1>1, XTestAssumption DEF Submit, IInv, TypeOK
  <2>1. RequestsOK'
    BY DEF RequestsOK, States, Ended
  <2>2. FlagsOK'
    BY DEF FlagsOK
  <2>3. PlacesOK'
    BY DEF PlacesOK, Focusable
  <2>4. NumbersOK'
    BY DEF NumbersOK, Tickets
  <2>5. SetsOK'
    BY DEF SetsOK, Tickets, None
  <2> QED
    BY <2>1, <2>2, <2>3, <2>4, <2>5 DEF RequestsOK, FlagsOK, PlacesOK, NumbersOK, SetsOK
<1>3. WorkInv'
  BY <1>1 DEF Submit, IInv, TypeOK, WorkInv, Busy, Tapping, Tickets, None, Ended
<1>4. StageInv'
  BY <1>1 DEF Submit, IInv, TypeOK, StageInv, WorkInv, Busy, Tapping
<1>5. KeysInv'
  BY <1>1 DEF Submit, IInv, TypeOK, KeysInv, Busy, Tapping, TapKey
<1>6. FocusInv'
  BY <1>1 DEF Submit, IInv, TypeOK, FocusInv, StrayBounded, Busy, Tapping
<1>7. LandedInv'
  BY <1>1 DEF Submit, IInv, TypeOK, LandedInv
<1>8. PressInv'
  BY <1>1 DEF Submit, IInv, TypeOK, PressInv, Busy, Tapping
<1> QED
  BY <1>2, <1>3, <1>4, <1>5, <1>6, <1>7, <1>8 DEF IInv

\* cancelX() preserves the invariant: only tickets that wait change.
LEMMA CancelStep ==
  ASSUME IInv, NEW owners \in SUBSET Owners, CancelX(owners),
         quit' \in {"no", "stop", "cancelled"},
         UNCHANGED <<client, emitted, active, ready, pc, locals, server, user, since>>
  PROVE  IInv'
<1> USE DEF client, locals, server, user
<1>1. /\ queue' \subseteq queue
      /\ \A t \in Tickets : state'[t] = IF t \in queue \ queue' THEN "Cancelled" ELSE state[t]
      /\ active # None => active \notin queue
      /\ cancelled' \in BOOLEAN
  BY DEF CancelX, IInv, TypeOK, WorkInv, Tickets, None
<1>2. TypeOK'
  <2> USE <1>1, XTestAssumption DEF CancelX, IInv, TypeOK
  <2>1. RequestsOK'
    BY DEF RequestsOK, States, Ended
  <2>2. FlagsOK'
    BY DEF FlagsOK
  <2>3. PlacesOK'
    BY DEF PlacesOK, Focusable
  <2>4. NumbersOK'
    BY DEF NumbersOK, Tickets
  <2>5. SetsOK'
    BY DEF SetsOK, Tickets, None
  <2> QED
    BY <2>1, <2>2, <2>3, <2>4, <2>5 DEF RequestsOK, FlagsOK, PlacesOK, NumbersOK, SetsOK
<1>3. WorkInv'
  BY <1>1 DEF CancelX, IInv, TypeOK, WorkInv, Busy, Tapping, Tickets, None, Ended
<1>4. StageInv'
  BY <1>1 DEF CancelX, IInv, TypeOK, StageInv, WorkInv, Busy, Tapping
<1>5. KeysInv'
  BY <1>1 DEF CancelX, IInv, TypeOK, KeysInv, Busy, Tapping, TapKey
<1>6. FocusInv'
  BY <1>1 DEF CancelX, IInv, TypeOK, FocusInv, StrayBounded, Busy, Tapping
<1>7. LandedInv'
  BY <1>1 DEF CancelX, IInv, TypeOK, LandedInv
<1>8. PressInv'
  BY <1>1 DEF CancelX, IInv, TypeOK, PressInv, Busy, Tapping
<1> QED
  BY <1>2, <1>3, <1>4, <1>5, <1>6, <1>7, <1>8 DEF IInv

\* LeaveLoop preserves the invariant: no batch is active, and the server forgets the keys.
LEMMA LeaveLoopStep ==
  ASSUME IInv, LeaveLoop
  PROVE  IInv'
<1> USE DEF client, locals, server, user
<1>1. /\ queue' \subseteq queue
      /\ \A t \in Tickets : state'[t] = IF t \in queue \ queue' THEN "Cancelled" ELSE state[t]
      /\ active = None /\ cancelled' \in BOOLEAN
  BY DEF LeaveLoop, CancelX, IInv, TypeOK, WorkInv, Tickets, None, Busy, Tapping
<1>2. TypeOK'
  BY <1>1, XTestAssumption
     DEF LeaveLoop, CancelX, IInv, TypeOK, States, Ended, Focusable, Tickets, None
<1>3. WorkInv'
  BY <1>1 DEF LeaveLoop, CancelX, IInv, TypeOK, WorkInv, Busy, Tapping, Tickets, None, Ended
<1>4. StageInv'
  BY <1>1 DEF LeaveLoop, CancelX, IInv, TypeOK, StageInv, WorkInv, Busy, Tapping
<1>5. KeysInv'
  BY <1>1 DEF LeaveLoop, CancelX, IInv, TypeOK, KeysInv, Busy, Tapping, TapKey
<1>6. FocusInv'
  BY <1>1 DEF LeaveLoop, CancelX, IInv, TypeOK, FocusInv, StrayBounded, Busy, Tapping
<1>7. LandedInv'
  BY <1>1 DEF LeaveLoop, CancelX, IInv, TypeOK, LandedInv
<1>8. PressInv'
  BY <1>1 DEF LeaveLoop, CancelX, IInv, TypeOK, PressInv, Busy, Tapping
<1> QED
  BY <1>2, <1>3, <1>4, <1>5, <1>6, <1>7, <1>8 DEF IInv

\* TakeWork preserves the invariant: nothing was typed for a ticket that waited.
LEMMA TakeWorkStep ==
  ASSUME IInv, TakeWork
  PROVE  IInv'
<1> USE DEF client, locals, server, user
<1>1. /\ active = None /\ active' \in queue /\ active' \in Tickets /\ queue' = queue \ {active'}
      /\ state' = [state EXCEPT ![active'] = "Running"] /\ landed[active'] = 0
      /\ pc = "wait" /\ pc' = "pin" /\ ~held /\ ~shiftHeld /\ stray = 0
  BY DEF TakeWork, IInv, TypeOK, WorkInv, LandedInv, KeysInv, FocusInv, Tickets, None, Busy,
         Tapping
<1>2. TypeOK'
  BY <1>1, XTestAssumption
     DEF TakeWork, IInv, TypeOK, States, Ended, Focusable, Tickets, None
<1>3. WorkInv'
  BY <1>1 DEF TakeWork, IInv, TypeOK, WorkInv, Busy, Tapping, Tickets, None, Ended
<1>4. StageInv'
  BY <1>1 DEF TakeWork, IInv, TypeOK, StageInv, WorkInv, Busy, Tapping
<1>5. KeysInv'
  BY <1>1 DEF TakeWork, IInv, TypeOK, KeysInv, Busy, Tapping, TapKey
<1>6. FocusInv'
  BY <1>1 DEF TakeWork, IInv, TypeOK, FocusInv, StrayBounded, Busy, Tapping
<1>7. LandedInv'
  BY <1>1 DEF TakeWork, IInv, TypeOK, LandedInv
<1>8. PressInv'
  BY <1>1 DEF TakeWork, IInv, TypeOK, PressInv, Busy, Tapping, LandedInv
<1> QED
  BY <1>2, <1>3, <1>4, <1>5, <1>6, <1>7, <1>8 DEF IInv

\* Pin preserves the invariant: the batch keeps its keys and only loses its window.
LEMMA PinStep ==
  ASSUME IInv, Pin
  PROVE  IInv'
<1> USE DEF client, locals, server, user
<1>1. /\ active \in Tickets /\ pc = "pin" /\ pc \in Busy /\ req[active] \in Requests
      /\ req' \in [Tickets -> Requests] /\ \A t \in Tickets \ {active} : req'[t] = req[t]
      /\ req'[active].count = req[active].count /\ req'[active].escape = req[active].escape
      /\ req'[active].select = req[active].select /\ Presses(req'[active]) = Presses(req[active])
      /\ target' \in Focusable \cup {NoWindow}
      /\ stray = 0 /\ landed[active] = 0 /\ ~ok' /\ (~refused => down = {})
  <2>1. /\ active \in Tickets /\ pc = "pin" /\ pc \in Busy /\ req[active] \in Requests
    BY DEF Pin, IInv, TypeOK, WorkInv, Tickets, None, Busy
  <2>2. req' = [req EXCEPT ![active] = [req[active] EXCEPT !.window = NoWindow]]
    BY DEF Pin
  <2>3. [req[active] EXCEPT !.window = NoWindow] \in Requests
    BY <2>1 DEF Requests
  <2>4. target' \in Focusable \cup {NoWindow}
    BY <2>1 DEF Pin, IInv, TypeOK, Requests, Focusable
  <2>5. stray = 0 /\ landed[active] = 0 /\ ~ok' /\ (~refused => down = {})
    BY <2>1 DEF Pin, IInv, PressInv, KeysInv, FocusInv, Busy, Tapping
  <2> QED
    BY <2>1, <2>2, <2>3, <2>4, <2>5 DEF IInv, TypeOK, Presses, Requests
<1>2. TypeOK'
  <2> USE <1>1, XTestAssumption DEF Pin, IInv, TypeOK
  <2>1. RequestsOK'
    BY DEF RequestsOK, States, Ended
  <2>2. FlagsOK'
    BY DEF FlagsOK
  <2>3. PlacesOK'
    BY DEF PlacesOK, Focusable
  <2>4. NumbersOK'
    BY DEF NumbersOK, Tickets
  <2>5. SetsOK'
    BY DEF SetsOK, Tickets, None
  <2> QED
    BY <2>1, <2>2, <2>3, <2>4, <2>5 DEF RequestsOK, FlagsOK, PlacesOK, NumbersOK, SetsOK
<1>3. WorkInv'
  BY <1>1 DEF Pin, IInv, TypeOK, WorkInv, Busy, Tapping, Tickets, None, Ended
<1>4. StageInv'
  BY <1>1 DEF Pin, IInv, TypeOK, StageInv, WorkInv, Busy, Tapping
<1>5. KeysInv'
  BY <1>1 DEF Pin, IInv, TypeOK, KeysInv, Busy, Tapping, TapKey
<1>6. FocusInv'
  BY <1>1 DEF Pin, IInv, TypeOK, FocusInv, StrayBounded, Busy, Tapping
<1>7. LandedInv'
  BY <1>1 DEF Pin, IInv, TypeOK, LandedInv
<1>8. PressInv'
  BY <1>1 DEF Pin, IInv, TypeOK, PressInv, Busy, Tapping
<1> QED
  BY <1>2, <1>3, <1>4, <1>5, <1>6, <1>7, <1>8 DEF IInv

\* Judge preserves the invariant: ok means that all of the batch was typed.
LEMMA JudgeStep ==
  ASSUME IInv, Judge
  PROVE  IInv'
<1> USE DEF client, locals, server, user
<1>1. /\ active \in Tickets /\ active < next /\ active \notin queue
      /\ state' = [state EXCEPT ![active] = Verdict] /\ Verdict \in Ended
      /\ Verdict = "Complete" => landed[active] = Presses(req[active])
  BY DEF Judge, Verdict, IInv, TypeOK, WorkInv, PressInv, Tickets, None, Busy, Tapping, Ended
<1>2. TypeOK'
  BY <1>1, XTestAssumption
     DEF Judge, IInv, TypeOK, States, Ended, Focusable, Tickets, None
<1>3. WorkInv'
  BY <1>1 DEF Judge, IInv, TypeOK, WorkInv, Busy, Tapping, Tickets, None, Ended
<1>4. StageInv'
  BY <1>1 DEF Judge, IInv, TypeOK, StageInv, WorkInv, Busy, Tapping
<1>5. KeysInv'
  BY <1>1 DEF Judge, IInv, TypeOK, KeysInv, Busy, Tapping, TapKey
<1>6. FocusInv'
  BY <1>1 DEF Judge, IInv, TypeOK, FocusInv, StrayBounded, Busy, Tapping
<1>7. LandedInv'
  BY <1>1 DEF Judge, IInv, TypeOK, LandedInv
<1>8. PressInv'
  BY <1>1 DEF Judge, IInv, TypeOK, PressInv, Busy, Tapping
<1> QED
  BY <1>2, <1>3, <1>4, <1>5, <1>6, <1>7, <1>8 DEF IInv

\* Retire preserves the invariant: the ticket has ended and no key is held.
LEMMA RetireStep ==
  ASSUME IInv, Retire
  PROVE  IInv'
<1> USE DEF client, locals, server, user
<1>1. /\ active \in Tickets /\ active < next /\ state[active] \in Ended
      /\ ~held /\ ~shiftHeld /\ (~refused => down = {})
  BY DEF Retire, IInv, TypeOK, WorkInv, KeysInv, Tickets, None, Busy, Tapping
<1>2. TypeOK'
  <2> USE <1>1, XTestAssumption DEF Retire, IInv, TypeOK
  <2>1. RequestsOK'
    BY DEF RequestsOK, States, Ended
  <2>2. FlagsOK'
    BY DEF FlagsOK
  <2>3. PlacesOK'
    BY DEF PlacesOK, Focusable
  <2>4. NumbersOK'
    BY DEF NumbersOK, Tickets
  <2>5. SetsOK'
    BY DEF SetsOK, Tickets, None
  <2> QED
    BY <2>1, <2>2, <2>3, <2>4, <2>5 DEF RequestsOK, FlagsOK, PlacesOK, NumbersOK, SetsOK
<1>3. WorkInv'
  BY <1>1 DEF Retire, IInv, TypeOK, WorkInv, Busy, Tapping, Tickets, None, Ended
<1>4. StageInv'
  BY <1>1 DEF Retire, IInv, TypeOK, StageInv, WorkInv, Busy, Tapping
<1>5. KeysInv'
  BY <1>1 DEF Retire, IInv, TypeOK, KeysInv, Busy, Tapping, TapKey
<1>6. FocusInv'
  BY <1>1 DEF Retire, IInv, TypeOK, FocusInv, StrayBounded, Busy, Tapping
<1>7. LandedInv'
  BY <1>1 DEF Retire, IInv, TypeOK, LandedInv
<1>8. PressInv'
  BY <1>1 DEF Retire, IInv, TypeOK, PressInv, Busy, Tapping
<1> QED
  BY <1>2, <1>3, <1>4, <1>5, <1>6, <1>7, <1>8 DEF IInv

\* Starting, stopping, a move of the focus and opening the display preserve it.
LEMMA OtherStep ==
  ASSUME IInv, Start \/ Stop \/ User \/ OpenDisplay
  PROVE  IInv'
<1> USE DEF client, locals, server, user
<1>1. /\ UNCHANGED <<req, state, emitted, next, queue, active, cancelled>>
      /\ UNCHANGED <<target, ok, stage, taps, held, shiftHeld, down, landed, stray,
                   since, errors, refused>>
      /\ pc \in Busy => /\ active \in Tickets /\ req[active].count \in Nat
                        /\ (req[active].count > 0 \/ req[active].escape \/ req[active].select)
  BY DEF Start, Stop, User, MoveFocus, OpenDisplay, IInv, TypeOK, WorkInv, Presses, Requests,
         Tickets, None
<1>2. TypeOK'
  <2> USE <1>1, XTestAssumption DEF Start, Stop, User, MoveFocus, OpenDisplay, IInv, TypeOK
  <2>1. RequestsOK'
    BY DEF RequestsOK, States, Ended
  <2>2. FlagsOK'
    BY DEF FlagsOK
  <2>3. PlacesOK'
    BY DEF PlacesOK, Focusable
  <2>4. NumbersOK'
    BY DEF NumbersOK, Tickets
  <2>5. SetsOK'
    BY DEF SetsOK, Tickets, None
  <2> QED
    BY <2>1, <2>2, <2>3, <2>4, <2>5 DEF RequestsOK, FlagsOK, PlacesOK, NumbersOK, SetsOK
<1>3. WorkInv'
  BY <1>1
     DEF Start, Stop, User, MoveFocus, OpenDisplay, IInv, TypeOK, WorkInv, Busy, Tapping,
         Tickets, None, Ended
<1>4. StageInv'
  BY <1>1, BusyFacts
     DEF Start, Stop, User, MoveFocus, OpenDisplay, IInv, TypeOK, StageInv, WorkInv, Busy,
         Tapping, Requests
<1>5. KeysInv'
  BY <1>1
     DEF Start, Stop, User, MoveFocus, OpenDisplay, IInv, TypeOK, KeysInv, Busy, Tapping,
         TapKey
<1>6. FocusInv'
  BY <1>1
     DEF Start, Stop, User, MoveFocus, OpenDisplay, IInv, TypeOK, FocusInv, StrayBounded,
         Busy, Tapping, FocusSafe
<1>7. LandedInv'
  BY <1>1 DEF Start, Stop, User, MoveFocus, OpenDisplay, IInv, TypeOK, LandedInv
<1>8. PressInv'
  BY <1>1, BusyFacts
     DEF Start, Stop, User, MoveFocus, OpenDisplay, IInv, TypeOK, PressInv, Busy, Tapping,
         StageInv
<1> QED
  BY <1>2, <1>3, <1>4, <1>5, <1>6, <1>7, <1>8 DEF IInv

\* BeginBatch preserves the invariant: it goes on only with the focus in the window.
LEMMA BeginBatchStep ==
  ASSUME IInv, BeginBatch
  PROVE  IInv'
<1> USE DEF client, locals, server, user
<1>1. /\ pc = "begin" /\ pc \in Busy /\ pc' \in {"tap", "shiftDown", "cleanup"}
      /\ UNCHANGED <<client, state, emitted, queue, active, cancelled, ready, quit, locals,
                   server, user, since>>
      /\ landed[active] = 0 /\ taps = 0 /\ ~shiftHeld /\ ~ok /\ (~refused => down = {} /\ ~held)
      /\ pc' = "shiftDown" => req[active].select /\ stage = "main"
      /\ pc' = "tap" => ~req[active].select /\ (stage = "escape" <=> req[active].escape)
      /\ stage \in {"escape", "main"}
      /\ pc' # "cleanup" => focus = target
  BY BusyFacts
     DEF BeginBatch, IInv, TypeOK, StageInv, KeysInv, PressInv, FocusSafe, Busy, Tapping
<1>2. TypeOK'
  BY <1>1, XTestAssumption
     DEF BeginBatch, IInv, TypeOK, States, Ended, Focusable, Tickets, None
<1>3. WorkInv'
  BY <1>1 DEF BeginBatch, IInv, TypeOK, WorkInv, Busy, Tapping, Tickets, None, Ended
<1>4. StageInv'
  BY <1>1, BusyFacts DEF BeginBatch, IInv, TypeOK, StageInv, WorkInv, Busy, Tapping
<1>5. KeysInv'
  BY <1>1 DEF BeginBatch, IInv, TypeOK, KeysInv, Busy, Tapping, TapKey
<1>6. FocusInv'
  BY <1>1 DEF BeginBatch, IInv, TypeOK, FocusInv, StrayBounded, Busy, Tapping
<1>7. LandedInv'
  BY <1>1 DEF BeginBatch, IInv, TypeOK, LandedInv
<1>8. PressInv'
  BY <1>1, BusyFacts DEF BeginBatch, IInv, TypeOK, PressInv, Busy, Tapping
<1> QED
  BY <1>2, <1>3, <1>4, <1>5, <1>6, <1>7, <1>8 DEF IInv

\* TapLook preserves the invariant: it makes no call that types.
LEMMA TapLookStep ==
  ASSUME IInv, TapLook
  PROVE  IInv'
<1> USE DEF client, locals, server, user
<1>1. /\ pc \in Busy /\ pc \in Tapping \cup {"pace", "paceFocus"}
      /\ UNCHANGED <<client, state, emitted, queue, active, cancelled, ready, quit, server, user>>
  BY DEF TapLook, Busy, Tapping
<1>2. TypeOK'
  <2> USE <1>1, XTestAssumption DEF TapLook, AfterTap, ToRelease, IInv, TypeOK
  <2>1. RequestsOK'
    BY DEF RequestsOK, States, Ended
  <2>2. FlagsOK'
    BY DEF FlagsOK
  <2>3. PlacesOK'
    BY DEF PlacesOK, Focusable
  <2>4. NumbersOK'
    BY DEF NumbersOK, Tickets
  <2>5. SetsOK'
    BY DEF SetsOK, Tickets, None
  <2> QED
    BY <2>1, <2>2, <2>3, <2>4, <2>5 DEF RequestsOK, FlagsOK, PlacesOK, NumbersOK, SetsOK
<1>3. WorkInv'
  BY <1>1
     DEF TapLook, AfterTap, ToRelease, IInv, TypeOK, WorkInv, Busy, Tapping, Tickets, None,
         Ended
<1>4. StageInv'
  BY <1>1, BusyFacts
     DEF TapLook, AfterTap, ToRelease, IInv, TypeOK, StageInv, WorkInv, Busy, Tapping,
         MoreTaps
<1>5. KeysInv'
  BY <1>1 DEF TapLook, AfterTap, ToRelease, IInv, TypeOK, KeysInv, Busy, Tapping, TapKey
<1>6. FocusInv'
  BY <1>1
     DEF TapLook, AfterTap, ToRelease, IInv, TypeOK, FocusInv, StrayBounded, Busy, Tapping,
         FocusSafe
<1>7. LandedInv'
  BY <1>1 DEF TapLook, AfterTap, ToRelease, IInv, TypeOK, LandedInv
<1>8. PressInv'
  BY <1>1, BusyFacts
     DEF TapLook, AfterTap, ToRelease, IInv, TypeOK, PressInv, Busy, Tapping, StageInv,
         LandedInv
<1> QED
  BY <1>2, <1>3, <1>4, <1>5, <1>6, <1>7, <1>8 DEF IInv

\* TapFocus preserves the invariant: a press follows only where the focus is safe.
LEMMA TapFocusStep ==
  ASSUME IInv, TapFocus
  PROVE  IInv'
<1> USE DEF client, locals, server, user
<1>1. /\ pc \in Busy /\ pc \in Tapping \cup {"pace", "paceFocus"}
      /\ UNCHANGED <<client, state, emitted, queue, active, cancelled, ready, quit, server, user>>
  BY DEF TapFocus, Busy, Tapping
<1>2. TypeOK'
  <2> USE <1>1, XTestAssumption DEF TapFocus, AfterTap, ToRelease, IInv, TypeOK
  <2>1. RequestsOK'
    BY DEF RequestsOK, States, Ended
  <2>2. FlagsOK'
    BY DEF FlagsOK
  <2>3. PlacesOK'
    BY DEF PlacesOK, Focusable
  <2>4. NumbersOK'
    BY DEF NumbersOK, Tickets
  <2>5. SetsOK'
    BY DEF SetsOK, Tickets, None
  <2> QED
    BY <2>1, <2>2, <2>3, <2>4, <2>5 DEF RequestsOK, FlagsOK, PlacesOK, NumbersOK, SetsOK
<1>3. WorkInv'
  BY <1>1
     DEF TapFocus, AfterTap, ToRelease, IInv, TypeOK, WorkInv, Busy, Tapping, Tickets, None,
         Ended
<1>4. StageInv'
  BY <1>1, BusyFacts
     DEF TapFocus, AfterTap, ToRelease, IInv, TypeOK, StageInv, WorkInv, Busy, Tapping,
         MoreTaps
<1>5. KeysInv'
  BY <1>1 DEF TapFocus, AfterTap, ToRelease, IInv, TypeOK, KeysInv, Busy, Tapping, TapKey
<1>6. FocusInv'
  BY <1>1
     DEF TapFocus, AfterTap, ToRelease, IInv, TypeOK, FocusInv, StrayBounded, Busy, Tapping,
         FocusSafe
<1>7. LandedInv'
  BY <1>1 DEF TapFocus, AfterTap, ToRelease, IInv, TypeOK, LandedInv
<1>8. PressInv'
  BY <1>1, BusyFacts
     DEF TapFocus, AfterTap, ToRelease, IInv, TypeOK, PressInv, Busy, Tapping, StageInv,
         LandedInv
<1> QED
  BY <1>2, <1>3, <1>4, <1>5, <1>6, <1>7, <1>8 DEF IInv

\* PaceOver preserves the invariant: it makes no call that types.
LEMMA PaceOverStep ==
  ASSUME IInv, PaceOver
  PROVE  IInv'
<1> USE DEF client, locals, server, user
<1>1. /\ pc \in Busy /\ pc \in Tapping \cup {"pace", "paceFocus"}
      /\ UNCHANGED <<client, state, emitted, queue, active, cancelled, ready, quit, server, user>>
  BY DEF PaceOver, Busy, Tapping
<1>2. TypeOK'
  <2> USE <1>1, XTestAssumption DEF PaceOver, AfterTap, ToRelease, IInv, TypeOK
  <2>1. RequestsOK'
    BY DEF RequestsOK, States, Ended
  <2>2. FlagsOK'
    BY DEF FlagsOK
  <2>3. PlacesOK'
    BY DEF PlacesOK, Focusable
  <2>4. NumbersOK'
    BY DEF NumbersOK, Tickets
  <2>5. SetsOK'
    BY DEF SetsOK, Tickets, None
  <2> QED
    BY <2>1, <2>2, <2>3, <2>4, <2>5 DEF RequestsOK, FlagsOK, PlacesOK, NumbersOK, SetsOK
<1>3. WorkInv'
  BY <1>1
     DEF PaceOver, AfterTap, ToRelease, IInv, TypeOK, WorkInv, Busy, Tapping, Tickets, None,
         Ended
<1>4. StageInv'
  BY <1>1, BusyFacts
     DEF PaceOver, AfterTap, ToRelease, IInv, TypeOK, StageInv, WorkInv, Busy, Tapping,
         MoreTaps
<1>5. KeysInv'
  BY <1>1 DEF PaceOver, AfterTap, ToRelease, IInv, TypeOK, KeysInv, Busy, Tapping, TapKey
<1>6. FocusInv'
  BY <1>1
     DEF PaceOver, AfterTap, ToRelease, IInv, TypeOK, FocusInv, StrayBounded, Busy, Tapping,
         FocusSafe
<1>7. LandedInv'
  BY <1>1 DEF PaceOver, AfterTap, ToRelease, IInv, TypeOK, LandedInv
<1>8. PressInv'
  BY <1>1, BusyFacts
     DEF PaceOver, AfterTap, ToRelease, IInv, TypeOK, PressInv, Busy, Tapping, StageInv,
         LandedInv
<1> QED
  BY <1>2, <1>3, <1>4, <1>5, <1>6, <1>7, <1>8 DEF IInv

\* PaceFocus preserves the invariant: the main taps follow the Escape.
LEMMA PaceFocusStep ==
  ASSUME IInv, PaceFocus
  PROVE  IInv'
<1> USE DEF client, locals, server, user
<1>1. /\ pc \in Busy /\ pc \in Tapping \cup {"pace", "paceFocus"}
      /\ UNCHANGED <<client, state, emitted, queue, active, cancelled, ready, quit, server, user>>
  BY DEF PaceFocus, Busy, Tapping
<1>2. TypeOK'
  <2> USE <1>1, XTestAssumption DEF PaceFocus, AfterTap, ToRelease, IInv, TypeOK
  <2>1. RequestsOK'
    BY DEF RequestsOK, States, Ended
  <2>2. FlagsOK'
    BY DEF FlagsOK
  <2>3. PlacesOK'
    BY DEF PlacesOK, Focusable
  <2>4. NumbersOK'
    BY DEF NumbersOK, Tickets
  <2>5. SetsOK'
    BY DEF SetsOK, Tickets, None
  <2> QED
    BY <2>1, <2>2, <2>3, <2>4, <2>5 DEF RequestsOK, FlagsOK, PlacesOK, NumbersOK, SetsOK
<1>3. WorkInv'
  BY <1>1
     DEF PaceFocus, AfterTap, ToRelease, IInv, TypeOK, WorkInv, Busy, Tapping, Tickets, None,
         Ended
<1>4. StageInv'
  BY <1>1, BusyFacts
     DEF PaceFocus, AfterTap, ToRelease, IInv, TypeOK, StageInv, WorkInv, Busy, Tapping,
         MoreTaps
<1>5. KeysInv'
  BY <1>1 DEF PaceFocus, AfterTap, ToRelease, IInv, TypeOK, KeysInv, Busy, Tapping, TapKey
<1>6. FocusInv'
  BY <1>1
     DEF PaceFocus, AfterTap, ToRelease, IInv, TypeOK, FocusInv, StrayBounded, Busy, Tapping,
         FocusSafe
<1>7. LandedInv'
  BY <1>1 DEF PaceFocus, AfterTap, ToRelease, IInv, TypeOK, LandedInv
<1>8. PressInv'
  BY <1>1, BusyFacts
     DEF PaceFocus, AfterTap, ToRelease, IInv, TypeOK, PressInv, Busy, Tapping, StageInv,
         LandedInv
<1> QED
  BY <1>2, <1>3, <1>4, <1>5, <1>6, <1>7, <1>8 DEF IInv

\* Before the worker is started.
LEMMA InitIInv == Init => IInv
<1> SUFFICES ASSUME Init PROVE IInv
  OBVIOUS
<1> USE XTestAssumption DEF Init
<1>1. NoRequest \in Requests
  BY DEF NoRequest, Requests
<1>2. TypeOK
  <2>1. RequestsOK
    BY <1>1 DEF RequestsOK, States
  <2>2. FlagsOK /\ PlacesOK
    BY DEF FlagsOK, PlacesOK, Focusable
  <2>3. NumbersOK /\ SetsOK
    BY DEF NumbersOK, SetsOK
  <2> QED
    BY <2>1, <2>2, <2>3 DEF TypeOK, RequestsOK, FlagsOK, PlacesOK, NumbersOK, SetsOK
<1>3. WorkInv /\ StageInv /\ KeysInv /\ FocusInv
  BY DEF WorkInv, StageInv, KeysInv, FocusInv, StrayBounded, Busy, Tapping, None, Tickets
<1>4. LandedInv /\ PressInv
  <2>1. Presses(NoRequest) = 0
    BY DEF Presses, NoRequest
  <2> QED
    BY <2>1 DEF LandedInv, PressInv, Tapping, Tickets
<1> QED
  BY <1>2, <1>3, <1>4 DEF IInv

\* Every step of the system preserves the invariant.
LEMMA NextIInv == IInv /\ [Next]_vars => IInv'
<1> SUFFICES ASSUME IInv, [Next]_vars PROVE IInv'
  OBVIOUS
<1>1. CASE Client
  <2>1. CASE Start \/ Stop
    BY <2>1, OtherStep
  <2>2. ASSUME NEW o \in Owners, Cancel(o) PROVE IInv'
    BY <2>2, CancelStep DEF Cancel, IInv, TypeOK
  <2>3. CASE StopCancels
    BY <2>3, CancelStep DEF StopCancels
  <2>4. CASE \E o \in Owners, shape \in Shapes, w \in Windows \cup {NoWindow} :
                Submit(o, shape, w)
    BY <2>4, SubmitStep
  <2> QED
    BY <1>1, <2>1, <2>2, <2>3, <2>4 DEF Client
<1>2. CASE Worker
  BY <1>2, OtherStep, TakeWorkStep, PinStep, BeginBatchStep, ShiftDownStep, TapLookStep,
     TapFocusStep, TapDownStep, TapUpStep, PaceOverStep, PaceFocusStep, ShiftUpStep,
     CleanUpStep, JudgeStep, RetireStep, LeaveLoopStep DEF Worker
<1>3. CASE User
  BY <1>3, OtherStep
<1>4. CASE UNCHANGED vars
  <2> USE <1>4 DEF vars, IInv
  <2>1. TypeOK'
    BY DEF TypeOK
  <2>2. WorkInv' /\ StageInv'
    BY DEF WorkInv, StageInv
  <2>3. KeysInv' /\ FocusInv'
    BY DEF KeysInv, FocusInv, StrayBounded, TapKey
  <2>4. LandedInv' /\ PressInv'
    BY DEF LandedInv, PressInv
  <2> QED
    BY <2>1, <2>2, <2>3, <2>4
<1> QED
  BY <1>1, <1>2, <1>3, <1>4 DEF Next, Terminated

\* The inductive invariant holds however the engine, the user and the worker interleave.
THEOREM Invariance == Spec => []IInv
  BY InitIInv, NextIInv, PTL DEF Spec

\* The variables have their types: in particular no batch makes more taps than it has keys.
THEOREM TypeCorrect == Spec => []TypeOK
<1>1. IInv => TypeOK
  BY DEF IInv
<1> QED
  BY <1>1, Invariance, PTL

\* runX() leaves no key down between two batches, wherever a batch was cancelled, lost its
\* focus or met a write that failed, unless the release itself was refused.
THEOREM KeysReleased == Spec => []ReleasedUnlessRefused
<1>1. IInv => ReleasedUnlessRefused
  BY DEF IInv, KeysInv, ReleasedUnlessRefused, Busy, Tapping
<1> QED
  BY <1>1, Invariance, PTL

\* A ticket that ended with no event counted has pressed nothing, so that the engine may
\* delete in another way: each attempt is counted before it is made.
THEOREM FallbackSafe == Spec => []FallbackIsSafe
<1>1. IInv => FallbackIsSafe
  BY DEF IInv, LandedInv, FallbackIsSafe
<1> QED
  BY <1>1, Invariance, PTL

\* Each move of the focus lets at most one press of the batch go astray: the focus is looked
\* at before every press.
THEOREM FewStrayPresses == Spec => []StrayBounded
<1>1. IInv => StrayBounded
  BY DEF IInv, FocusInv
<1> QED
  BY <1>1, Invariance, PTL

---------------------------------------------------------------------------
(* XTestInjector implements InjectionService, one step for one step.       *)

\* A step that changes no ticket's state, nor what was typed, is not seen.
LEMMA Unseen ==
    ASSUME Turn' = Turn, \A t \in Tickets : StatusOf(t)' = StatusOf(t) /\ Taken(t)' = Taken(t)
    PROVE  UNCHANGED Service!svars
  BY DEF Service!svars

\* A free ticket that becomes Queued, after those before it.
LEMMA SeenAsAccept ==
    ASSUME NEW u \in Tickets, StatusOf(u) = "Free",
           \A t \in Tickets : t < u => StatusOf(t) # "Free",
           \A t \in Tickets : StatusOf(t)' = (IF t = u THEN "Queued" ELSE StatusOf(t)),
           \A t \in Tickets : Taken(t)' = Taken(t), Turn' = Turn
    PROVE  Service!ServiceNext
<1> USE XTestAssumption DEF Tickets, Service!Tickets
<1>1. [t \in Tickets |-> StatusOf(t)]' = [[t \in Tickets |-> StatusOf(t)] EXCEPT ![u] = "Queued"]
  OBVIOUS
<1>2. UNCHANGED [t \in Tickets |-> Taken(t)]
  OBVIOUS
<1>3. \A v \in 1..(u - 1) : v \in Tickets /\ v < u
  OBVIOUS
<1>4. Service!Accept(u)
  BY <1>1, <1>2, <1>3 DEF Service!Accept
<1> QED
  BY <1>4 DEF Service!ServiceNext

\* A ticket that gets the turn when those before it have ended.
LEMMA SeenAsTake ==
    ASSUME NEW u \in Tickets, Turn = None, StatusOf(u) = "Queued", Turn' = u,
           \A t \in Tickets : t < u => StatusOf(t) \in Ended,
           \A t \in Tickets : StatusOf(t)' = StatusOf(t) /\ Taken(t)' = Taken(t)
    PROVE  Service!ServiceNext
<1> USE XTestAssumption DEF Tickets, Service!Tickets, Ended, Service!Ended, None, Service!None
<1>1. Service!Take(u)
  BY DEF Service!Take
<1> QED
  BY <1>1 DEF Service!ServiceNext

\* More is typed for the ticket whose turn it is.
LEMMA SeenAsType ==
    ASSUME NEW u \in Tickets, Turn = u, Turn' = u, StatusOf(u) = "Queued",
           Taken(u) # "all", Taken(u)' \in {"some", "all"},
           \A t \in Tickets : StatusOf(t)' = StatusOf(t),
           \A t \in Tickets \ {u} : Taken(t)' = Taken(t)
    PROVE  Service!ServiceNext
<1> USE XTestAssumption DEF Tickets, Service!Tickets
<1>1. UNCHANGED [t \in Tickets |-> StatusOf(t)]
  OBVIOUS
<1>2. [t \in Tickets |-> Taken(t)]' =
         [[t \in Tickets |-> Taken(t)] EXCEPT ![u] = Taken(u)']
  OBVIOUS
<1>3. Service!Type(u)
  BY <1>1, <1>2 DEF Service!Type
<1> QED
  BY <1>3 DEF Service!ServiceNext

\* Tickets end, and perhaps the turn of one of them.
LEMMA SeenAsSettle ==
    ASSUME Turn' \in {Turn, None},
           Turn = Turn' \/ \E u \in Tickets : Turn = u /\ StatusOf(u)' \in Ended,
           \A t \in Tickets : /\ StatusOf(t)' \in {"Free", "Queued"} \cup Ended
                              /\ Taken(t)' = Taken(t)
                              /\ \/ StatusOf(t)' = StatusOf(t)
                                 \/ /\ StatusOf(t) = "Queued"
                                    /\ StatusOf(t)' \in {"Failed", "Cancelled"}
                                 \/ /\ StatusOf(t) = "Queued" /\ StatusOf(t)' = "Complete"
                                    /\ Turn = t /\ Turn' = None /\ Taken(t) = "all"
    PROVE  Service!ServiceNext
<1> USE XTestAssumption
    DEF Tickets, Service!Tickets, Ended, Service!Ended, None, Service!None
<1>1. UNCHANGED [t \in Tickets |-> Taken(t)]
  OBVIOUS
<1>2. [t \in Tickets |-> StatusOf(t)]' \in [Tickets -> {"Free", "Queued"} \cup Ended]
  OBVIOUS
<1>3. \A t \in Tickets : Service!MayBecome(t, [v \in Tickets |-> StatusOf(v)]'[t])
  BY DEF Service!MayBecome
<1>4. Service!Settle
  BY <1>1, <1>2, <1>3 DEF Service!Settle
<1> QED
  BY <1>4 DEF Service!ServiceNext

\* While a batch is typed no ticket is settled: a press is a step of its turn, and nothing
\* else is seen.
LEMMA TypingSeen ==
    ASSUME IInv, pc \in Busy, pc' \in Busy, UNCHANGED <<req, state, active>>,
           landed'[active] \in {landed[active], landed[active] + 1},
           \A t \in Tickets \ {active} : landed'[t] = landed[t],
           landed'[active] # landed[active] => landed[active] < Presses(req[active])
    PROVE  Service!ServiceNext \/ UNCHANGED Service!svars
<1>1. PICK u \in Tickets : u = active
  BY BusyFacts
<1>2. Turn = u /\ Turn' = u
  BY <1>1 DEF Turn, Busy, Tapping
<1>3. \A t \in Tickets : StatusOf(t)' = StatusOf(t)
  BY DEF StatusOf
<1>4. \A t \in Tickets \ {u} : Taken(t)' = Taken(t)
  BY <1>1 DEF Taken
<1>5. CASE landed'[u] = landed[u]
  BY <1>1, <1>2, <1>3, <1>4, <1>5, Unseen DEF Taken
<1>6. CASE landed'[u] # landed[u]
  <2>1. StatusOf(u) = "Queued"
    BY <1>1, BusyFacts DEF StatusOf
  <2>2. Taken(u) # "all" /\ Taken(u)' \in {"some", "all"}
    BY <1>1, <1>6, BusyFacts DEF Taken
  <2> QED
    BY <1>2, <1>3, <1>4, <2>1, <2>2, SeenAsType
<1> QED
  BY <1>5, <1>6

\* The press of a tap and the Shift are typed in the turn of their ticket.
LEMMA PressSeen ==
    ASSUME IInv, ShiftDown \/ TapDown \/ TapUp \/ ShiftUp \/ CleanUp
    PROVE  Service!ServiceNext \/ UNCHANGED Service!svars
<1> USE DEF client, user
<1>1. pc \in Busy
  BY DEF ShiftDown, TapDown, TapUp, ShiftUp, CleanUp, Busy, Tapping
<1>2. pc' \in Busy /\ UNCHANGED <<req, state, active>>
  BY <1>1 DEF ShiftDown, TapDown, TapUp, ShiftUp, CleanUp, AfterTap, ToRelease, Busy, Tapping
<1>3. PICK key \in KeyNames, press \in BOOLEAN, good \in BOOLEAN :
          Emit(key, press, good) /\ (press => ShiftDown \/ TapDown)
  <2>1. CASE ShiftDown
    <3>1. \E good \in BOOLEAN : Emit("Shift", TRUE, good)
      BY <2>1 DEF ShiftDown
    <3> QED
      BY <2>1, <3>1 DEF KeyNames
  <2>2. CASE TapDown
    <3>1. \E good \in BOOLEAN : Emit(TapKey, TRUE, good)
      BY <2>2 DEF TapDown
    <3> QED
      BY <1>1, <2>2, <3>1, BusyFacts
  <2>3. CASE TapUp \/ ShiftUp \/ CleanUp
    <3>1. \E key \in KeyNames : \E good \in BOOLEAN : Emit(key, FALSE, good)
      BY <1>1, <2>3, BusyFacts DEF TapUp, ShiftUp, CleanUp, KeyNames
    <3> QED
      BY <3>1
  <2> QED
    BY <2>1, <2>2, <2>3
<1>4. Emitted(key, press, good)
  BY <1>1, <1>3, BusyFacts, EmitFacts DEF IInv
<1>5. press => landed[active] < Presses(req[active])
  <2>1. CASE ShiftDown
    BY <1>1, <2>1, BusyFacts DEF ShiftDown, IInv, PressInv
  <2>2. CASE TapDown
    BY <1>1, <2>2, BusyFacts DEF TapDown, IInv, PressInv, StageInv, Tapping
  <2> QED
    BY <1>3, <2>1, <2>2
<1> QED
  BY <1>1, <1>2, <1>4, <1>5, TypingSeen DEF Emitted

\* A request that is accepted is the next one.
LEMMA SubmitSeen ==
    ASSUME IInv, NEW o \in Owners, NEW shape \in Shapes, NEW w \in Windows \cup {NoWindow},
           Submit(o, shape, w)
    PROVE  Service!ServiceNext
<1> USE XTestAssumption DEF Submit, IInv, TypeOK, Tickets
<1>1. next \in Tickets /\ state[next] = "Free" /\ landed[next] = 0
  BY DEF WorkInv, LandedInv
<1>2. Turn' = Turn
  BY DEF Turn, client
<1>3. \A t \in Tickets : StatusOf(t)' = IF t = next THEN "Queued" ELSE StatusOf(t)
  BY <1>1 DEF StatusOf
<1>4. \A t \in Tickets : Taken(t)' = Taken(t)
  BY <1>1 DEF Taken, server
<1>5. \A t \in Tickets : t < next => StatusOf(t) # "Free"
  <2> SUFFICES ASSUME NEW t \in Tickets, t < next PROVE state[t] # "Free"
    BY DEF StatusOf
  <2>1. CASE t = active
    BY <2>1 DEF WorkInv, Ended, None
  <2>2. CASE t # active
    BY <2>2 DEF WorkInv, Ended
  <2> QED
    BY <2>1, <2>2
<1>6. StatusOf(next) = "Free"
  BY <1>1 DEF StatusOf
<1> QED
  BY <1>1, <1>2, <1>3, <1>4, <1>5, <1>6, SeenAsAccept

\* A cancel settles tickets that wait.
LEMMA CancelSeen ==
    ASSUME IInv, NEW owners, CancelX(owners), UNCHANGED <<req, active, landed>>, Turn' = Turn
    PROVE  Service!ServiceNext
<1> USE DEF IInv, TypeOK
<1>1. \A t \in Tickets : state'[t] = state[t] \/ (state[t] = "Queued" /\ state'[t] = "Cancelled")
  BY DEF CancelX, WorkInv
<1>2. \A t \in Tickets : Taken(t)' = Taken(t)
  BY DEF Taken
<1>3. \A t \in Tickets : /\ StatusOf(t)' \in {"Free", "Queued"} \cup Ended
                         /\ \/ StatusOf(t)' = StatusOf(t)
                            \/ StatusOf(t) = "Queued" /\ StatusOf(t)' = "Cancelled"
  BY <1>1 DEF StatusOf, States, Ended
<1> QED
  BY <1>2, <1>3, SeenAsSettle

\* The first ticket that waits gets the turn; the others before it have ended.
LEMMA TakeSeen == ASSUME IInv, TakeWork PROVE Service!ServiceNext
<1> USE XTestAssumption DEF TakeWork, IInv, TypeOK, Tickets
<1>1. PICK u \in queue : /\ \A v \in queue : u <= v
                         /\ active' = u /\ queue' = queue \ {u}
                         /\ state' = [state EXCEPT ![u] = "Running"]
  OBVIOUS
<1>2. u \in Tickets /\ active = None /\ state[u] = "Queued" /\ u < next
  BY <1>1 DEF WorkInv, Busy, Tapping, None
<1>3. Turn = None /\ Turn' = u
  BY <1>1, <1>2 DEF Turn
<1>4. \A t \in Tickets : t < u => state[t] \in Ended
  <2> SUFFICES ASSUME NEW t \in Tickets, t < u PROVE state[t] \in Ended
    OBVIOUS
  <2>1. t < next /\ t \notin queue /\ t # active
    BY <1>1, <1>2 DEF None
  <2> QED
    BY <2>1 DEF WorkInv
<1>5. \A t \in Tickets : StatusOf(t)' = StatusOf(t) /\ Taken(t)' = Taken(t)
  BY <1>1, <1>2 DEF StatusOf, Taken, server, client
<1>6. \A t \in Tickets : t < u => StatusOf(t) \in Ended
  BY <1>4 DEF StatusOf, Ended
<1> QED
  BY <1>2, <1>3, <1>5, <1>6, SeenAsTake DEF StatusOf

\* The verdict ends the turn; Complete is given only to a batch that was typed whole.
LEMMA JudgeSeen == ASSUME IInv, Judge PROVE Service!ServiceNext
<1> USE XTestAssumption DEF Judge, IInv, TypeOK, Ended
<1>1. pc \in Busy /\ Verdict \in Ended
  BY DEF Verdict, Busy
<1>2. PICK u \in Tickets : u = active
  BY <1>1, BusyFacts
<1>3. Turn = u /\ Turn' = None
  BY <1>2 DEF Turn
<1>4. \A t \in Tickets : state'[t] = IF t = u THEN Verdict ELSE state[t]
  BY <1>2
<1>5. StatusOf(u) = "Queued" /\ StatusOf(u)' = Verdict
  BY <1>1, <1>2, <1>4, BusyFacts DEF StatusOf, Verdict
<1>6. \A t \in Tickets : Taken(t)' = Taken(t)
  BY DEF Taken, client, server
<1>7. Verdict = "Complete" => Taken(u) = "all"
  BY <1>1, <1>2, BusyFacts DEF Verdict, Taken, PressInv
<1>8. \A t \in Tickets \ {u} : /\ StatusOf(t)' = StatusOf(t)
                               /\ StatusOf(t) \in {"Free", "Queued"} \cup Ended
  BY <1>4 DEF StatusOf, States
<1> QED
  BY <1>1, <1>3, <1>5, <1>6, <1>7, <1>8, SeenAsSettle

\* What is left: reading, waiting, looking at the focus, forgetting an ended batch.
LEMMA OthersSeen ==
    ASSUME IInv,
           \/ Start \/ Stop \/ User \/ OpenDisplay \/ Pin \/ BeginBatch \/ TapLook \/ TapFocus
           \/ PaceOver \/ PaceFocus \/ Retire
    PROVE  UNCHANGED Service!svars
<1> USE DEF client, server, locals, user
<1>1. state' = state /\ landed' = landed
  BY DEF Start, Stop, User, MoveFocus, OpenDisplay, Pin, BeginBatch, TapLook, TapFocus,
         PaceOver,
         PaceFocus, Retire
<1>2. Turn' = Turn
  BY DEF Start, Stop, User, MoveFocus, OpenDisplay, Pin, BeginBatch, TapLook, TapFocus,
         PaceOver,
         PaceFocus, Retire, AfterTap, ToRelease, Turn
<1>3. \A t \in Tickets : Presses(req'[t]) = Presses(req[t])
  <2>1. CASE Pin
    BY <2>1 DEF Pin, Presses, IInv, TypeOK, Requests
  <2>2. CASE ~Pin
    BY <2>2 DEF Start, Stop, User, MoveFocus, OpenDisplay, BeginBatch, TapLook, TapFocus,
                PaceOver, PaceFocus, Retire
  <2> QED
    BY <2>1, <2>2
<1> QED
  BY <1>1, <1>2, <1>3, Unseen DEF StatusOf, Taken

\* The worker, its queue and the engine's calls are an injection service: whatever the
\* engine may conclude from a ticket of InjectionService it may conclude from one of
\* submitBackspaces() and submitShiftSelect().
THEOREM IsInjectionService == Spec => ImplementsService
<1>1. Init => Service!ServiceInit
  BY DEF Init, Service!ServiceInit, StatusOf, Turn, Taken, Tickets, Service!Tickets, None,
         Service!None
<1>2. IInv /\ [Next]_vars => [Service!ServiceNext]_(Service!svars)
  <2> SUFFICES ASSUME IInv, [Next]_vars
               PROVE  Service!ServiceNext \/ UNCHANGED Service!svars
    OBVIOUS
  <2>1. CASE Client
    <3>1. CASE StopCancels \/ \E o \in Owners : Cancel(o)
      BY <3>1, CancelSeen DEF StopCancels, Cancel, Turn, client, server
    <3>2. CASE Start \/ Stop
      BY <3>2, OthersSeen
    <3> QED
      BY <2>1, <3>1, <3>2, SubmitSeen DEF Client
  <2>2. CASE Worker
    <3>1. CASE LeaveLoop
      BY <3>1, CancelSeen DEF LeaveLoop, Turn, client
    <3> QED
      BY <2>2, <3>1, TakeSeen, JudgeSeen, PressSeen, OthersSeen DEF Worker
  <2>3. CASE User
    BY <2>3, OthersSeen
  <2>4. CASE UNCHANGED vars
    BY <2>4, Unseen DEF vars, StatusOf, Turn, Taken
  <2> QED
    BY <2>1, <2>2, <2>3, <2>4 DEF Next, Terminated
<1> QED
  BY <1>1, <1>2, Invariance, PTL DEF Spec, ImplementsService, Service!ServiceSpec

---------------------------------------------------------------------------
(* The worker of the portal.                                               *)

\* The record of the bounded events.
PortalCounters == [batches : Nat, cancels : Nat, devices : Nat,
                   closes : Nat, runs : Nat, full : Nat]

\* Counting an event leaves the other counters alone.
LEMMA UseFacts ==
    ASSUME used \in PortalCounters,
           NEW event \in {"batches", "cancels", "devices", "closes", "runs", "full"},
           Use(event)
    PROVE  /\ used' \in PortalCounters
           /\ used'.full = IF event = "full" THEN used.full + 1 ELSE used.full
  BY DEF PortalCounters, Use

\* What the fields of a batch are, and the empty batch is one.
LEMMA BatchFacts ==
    /\ NoBatch \in Batches
    /\ NoBatch.count = 0 /\ NoBatch.generation = 0 /\ NoBatch.device = NoDevice
    /\ \A b \in Batches : /\ b.count \in 0..MaxTaps /\ b.escape \in BOOLEAN
                          /\ b.generation \in Nat /\ b.device \in Devices \cup {NoDevice}
  BY LibeiAssumption DEF NoBatch, Batches

\* What IInv says of the numbers and the batches, in the form the steps below use it.
LEMMA PortalFacts ==
    ASSUME PortalInv
    PROVE  /\ generation \in Nat /\ tapped \in Nat /\ late \in Nat
           /\ slot.generation \in Nat /\ slot.generation <= generation
           /\ batch.generation \in Nat /\ batch.generation <= generation
           /\ batch.count \in 0..MaxTaps
           /\ used \in PortalCounters /\ used.full \in Nat /\ used.devices \in Nat
           /\ NoBatch \in Batches
           /\ NoBatch.generation = 0 /\ NoBatch.device = NoDevice
  BY BatchFacts, LibeiAssumption DEF PortalInv, PortalTypeOK, SlotInv, PortalCounters

\* Flags stay flags.
LEMMA PortalFlags ==
    ASSUME PortalInv, PortalNext
    PROVE  /\ stop' \in BOOLEAN /\ portalReady' \in BOOLEAN
           /\ wake' \in BOOLEAN /\ aborted' \in BOOLEAN
<1> USE DEF clientVars, workerVars, diskVars, Fail, PortalInv, PortalTypeOK
<1>1. CASE PortalClient
  BY <1>1
     DEF PortalClient, PortalStart, RestoreSession, Ask, Accept, Wake, PortalCancel, Quit,
         Join
<1>2. CASE Portal
  BY <1>2 DEF Portal, Boot, Created, Started, SaveOpen, SaveWrite, SaveRename, Connect
<1>3. CASE Events
  BY <1>3 DEF Events, Resumed, Paused, Disconnected, Closed
<1>4. CASE Commands
  BY <1>4 DEF Commands, ReadWake, SeeStop, Take, Tap, NextTap, Leave, Close
<1>5. CASE Desktop
  BY <1>5 DEF Desktop, Offer, Pause, Crash
<1>6. CASE PortalTerminated
  BY <1>6 DEF PortalTerminated, portalVars
<1> QED
  BY <1>1, <1>2, <1>3, <1>4, <1>5, <1>6 DEF PortalNext

\* Numbers stay in their ranges: a Backspace is tapped only while some are left.
LEMMA PortalNumbers ==
    ASSUME PortalInv, PortalNext
    PROVE  generation' \in Nat /\ tapped' \in 0..MaxTaps /\ late' \in Nat
<1> USE PortalFacts, LibeiAssumption
      DEF clientVars, workerVars, diskVars, Fail, PortalInv, PortalTypeOK
<1>1. CASE PortalClient
  BY <1>1
     DEF PortalClient, PortalStart, RestoreSession, Ask, Accept, Wake, PortalCancel, Quit,
         Join
<1>2. CASE Portal
  BY <1>2 DEF Portal, Boot, Created, Started, SaveOpen, SaveWrite, SaveRename, Connect
<1>3. CASE Events
  BY <1>3 DEF Events, Resumed, Paused, Disconnected, Closed
<1>4. CASE Commands
  BY <1>4 DEF Commands, ReadWake, SeeStop, Take, Tap, NextTap, Leave, Close, TypingInv
<1>5. CASE Desktop
  BY <1>5 DEF Desktop, Offer, Pause, Crash
<1>6. CASE PortalTerminated
  BY <1>6 DEF PortalTerminated, portalVars
<1> QED
  BY <1>1, <1>2, <1>3, <1>4, <1>5, <1>6 DEF PortalNext

\* The slot and the worker hold batches.
LEMMA PortalBatches ==
    ASSUME PortalInv, PortalNext
    PROVE  slot' \in Batches /\ batch' \in Batches
<1> USE PortalFacts DEF clientVars, workerVars, diskVars, Fail, PortalInv, PortalTypeOK
<1>1. CASE PortalClient
  BY <1>1
     DEF PortalClient, PortalStart, RestoreSession, Ask, Accept, Wake, PortalCancel, Quit,
         Join, Batches
<1>2. CASE Portal
  BY <1>2 DEF Portal, Boot, Created, Started, SaveOpen, SaveWrite, SaveRename, Connect
<1>3. CASE Events
  BY <1>3 DEF Events, Resumed, Paused, Disconnected, Closed
<1>4. CASE Commands
  BY <1>4 DEF Commands, ReadWake, SeeStop, Take, Tap, NextTap, Leave, Close
<1>5. CASE Desktop
  BY <1>5 DEF Desktop, Offer, Pause, Crash
<1>6. CASE PortalTerminated
  BY <1>6 DEF PortalTerminated, portalVars
<1> QED
  BY <1>1, <1>2, <1>3, <1>4, <1>5, <1>6 DEF PortalNext

\* The threads and the session are where they may be.
LEMMA PortalPlaces ==
    ASSUME PortalInv, PortalNext
    PROVE  /\ caller' \in {"idle", "asked", "wake", "quit", "join", "gone"}
           /\ place' \in Places
           /\ session' \in {"none", "creating", "starting", "granted", "connected", "idle",
                            "failed", "refused"}
<1> USE DEF clientVars, workerVars, diskVars, Fail, PortalInv, PortalTypeOK, Places
<1>1. CASE PortalClient
  BY <1>1
     DEF PortalClient, PortalStart, RestoreSession, Ask, Accept, Wake, PortalCancel, Quit,
         Join
<1>2. CASE Portal
  BY <1>2 DEF Portal, Boot, Created, Started, SaveOpen, SaveWrite, SaveRename, Connect
<1>3. CASE Events
  BY <1>3 DEF Events, Resumed, Paused, Disconnected, Closed
<1>4. CASE Commands
  BY <1>4 DEF Commands, ReadWake, SeeStop, Take, Tap, NextTap, Leave, Close
<1>5. CASE Desktop
  BY <1>5 DEF Desktop, Offer, Pause, Crash
<1>6. CASE PortalTerminated
  BY <1>6 DEF PortalTerminated, portalVars
<1> QED
  BY <1>1, <1>2, <1>3, <1>4, <1>5, <1>6 DEF PortalNext

\* Keyboards come from the server, files from the worker.
LEMMA PortalDevices ==
    ASSUME PortalInv, PortalNext
    PROVE  /\ keyboard' \in Devices \cup {NoDevice} /\ live' \in Devices \cup {NoDevice}
           /\ file' \in {"absent", "torn", "whole"} /\ tmp' \in {"absent", "torn", "whole"}
<1> USE PortalFacts, LibeiAssumption
      DEF clientVars, workerVars, diskVars, Fail, PortalInv, PortalTypeOK, Devices, NoDevice
<1>1. CASE PortalClient
  BY <1>1
     DEF PortalClient, PortalStart, RestoreSession, Ask, Accept, Wake, PortalCancel, Quit,
         Join
<1>2. CASE Portal
  BY <1>2 DEF Portal, Boot, Created, Started, SaveOpen, SaveWrite, SaveRename, Connect
<1>3. CASE Events
  BY <1>3 DEF Events, Resumed, Paused, Disconnected, Closed
<1>4. CASE Commands
  BY <1>4 DEF Commands, ReadWake, SeeStop, Take, Tap, NextTap, Leave, Close
<1>5. CASE Desktop
  BY <1>5 DEF Desktop, Offer, Pause, Crash
<1>6. CASE PortalTerminated
  BY <1>6 DEF PortalTerminated, portalVars
<1> QED
  BY <1>1, <1>2, <1>3, <1>4, <1>5, <1>6 DEF PortalNext

\* The counters count.
LEMMA PortalUsed ==
    ASSUME PortalInv, PortalNext
    PROVE  used' \in PortalCounters /\ used'.full \in Nat /\ used'.full >= used.full
<1> USE PortalFacts, UseFacts
      DEF clientVars, workerVars, diskVars, Fail, PortalInv, PortalCounters
<1>1. CASE PortalClient
  BY <1>1
     DEF PortalClient, PortalStart, RestoreSession, Ask, Accept, Wake, PortalCancel, Quit,
         Join
<1>2. CASE Portal
  BY <1>2 DEF Portal, Boot, Created, Started, SaveOpen, SaveWrite, SaveRename, Connect
<1>3. CASE Events
  BY <1>3 DEF Events, Resumed, Paused, Disconnected, Closed
<1>4. CASE Commands
  BY <1>4 DEF Commands, ReadWake, SeeStop, Take, Tap, NextTap, Leave, Close
<1>5. CASE Desktop
  BY <1>5 DEF Desktop, Offer, Pause, Crash
<1>6. CASE PortalTerminated
  BY <1>6 DEF PortalTerminated, portalVars
<1> QED
  BY <1>1, <1>2, <1>3, <1>4, <1>5, <1>6 DEF PortalNext

\* Accepting takes the generation and the keyboard of the moment; whatever takes
\* the keyboard away later counts the generation up first.
LEMMA PortalSlot ==
    ASSUME PortalInv, PortalNext
    PROVE  SlotInv'
<1> USE PortalFacts DEF clientVars, workerVars, diskVars, Fail, PortalInv, SlotInv
<1>1. CASE PortalClient
  BY <1>1
     DEF PortalClient, PortalStart, RestoreSession, Ask, Accept, Wake, PortalCancel, Quit,
         Join
<1>2. CASE Portal
  BY <1>2 DEF Portal, Boot, Created, Started, SaveOpen, SaveWrite, SaveRename, Connect
<1>3. CASE Events
  BY <1>3 DEF Events, Resumed, Paused, Disconnected, Closed
<1>4. CASE Commands
  BY <1>4 DEF Commands, ReadWake, SeeStop, Take, Tap, NextTap, Leave, Close
<1>5. CASE Desktop
  BY <1>5 DEF Desktop, Offer, Pause, Crash
<1>6. CASE PortalTerminated
  BY <1>6 DEF PortalTerminated, portalVars
<1> QED
  BY <1>1, <1>2, <1>3, <1>4, <1>5, <1>6 DEF PortalNext

\* Nothing brings the keyboard, the generation or readiness of a batch back while it is typed.
LEMMA PortalTyping ==
    ASSUME PortalInv, PortalNext
    PROVE  TypingInv'
<1> USE PortalFacts
      DEF clientVars, workerVars, diskVars, Fail, PortalInv, PortalTypeOK, SlotInv, TypingInv,
          OutOfDate
<1>1. CASE PortalClient
  BY <1>1
     DEF PortalClient, PortalStart, RestoreSession, Ask, Accept, Wake, PortalCancel, Quit,
         Join
<1>2. CASE Portal
  BY <1>2 DEF Portal, Boot, Created, Started, SaveOpen, SaveWrite, SaveRename, Connect
<1>3. CASE Events
  BY <1>3 DEF Events, Resumed, Paused, Disconnected, Closed, NoDevice, Devices
<1>4. CASE Commands
  BY <1>4 DEF Commands, ReadWake, SeeStop, Take, Tap, NextTap, Leave, Close, NoDevice
<1>5. CASE Desktop
  BY <1>5 DEF Desktop, Offer, Pause, Crash
<1>6. CASE PortalTerminated
  BY <1>6 DEF PortalTerminated, portalVars
<1> QED
  BY <1>1, <1>2, <1>3, <1>4, <1>5, <1>6 DEF PortalNext

\* An incomplete temporary file was completed before the rename, or the disk was full.
LEMMA PortalToken ==
    ASSUME PortalInv, PortalNext
    PROVE  TokenInv'
<1> USE PortalFacts, PortalUsed
      DEF clientVars, workerVars, diskVars, Fail, PortalInv, TokenInv, TokenWhole
<1>1. CASE PortalClient
  BY <1>1
     DEF PortalClient, PortalStart, RestoreSession, Ask, Accept, Wake, PortalCancel, Quit,
         Join
<1>2. CASE Portal
  BY <1>2, UseFacts
     DEF Portal, Boot, Created, Started, SaveOpen, SaveWrite, SaveRename, Connect
<1>3. CASE Events
  BY <1>3 DEF Events, Resumed, Paused, Disconnected, Closed
<1>4. CASE Commands
  BY <1>4 DEF Commands, ReadWake, SeeStop, Take, Tap, NextTap, Leave, Close
<1>5. CASE Desktop
  BY <1>5 DEF Desktop, Offer, Pause, Crash
<1>6. CASE PortalTerminated
  BY <1>6 DEF PortalTerminated, portalVars
<1> QED
  BY <1>1, <1>2, <1>3, <1>4, <1>5, <1>6 DEF PortalNext

\* Before the process is started the first time.
LEMMA PortalInitInv == PortalInit => PortalInv
<1> SUFFICES ASSUME PortalInit PROVE PortalInv
  OBVIOUS
<1> USE BatchFacts, LibeiAssumption DEF PortalInit
<1>1. PortalTypeOK
  BY DEF PortalTypeOK, Places, Devices, NoDevice
<1>2. SlotInv
  BY DEF SlotInv
<1>3. TypingInv
  BY DEF TypingInv
<1>4. TokenInv
  BY DEF TokenInv, TokenWhole
<1> QED
  BY <1>1, <1>2, <1>3, <1>4 DEF PortalInv

\* Every step keeps the inductive invariant.
LEMMA PortalStep == PortalInv /\ [PortalNext]_portalVars => PortalInv'
<1> SUFFICES ASSUME PortalInv, [PortalNext]_portalVars PROVE PortalInv'
  OBVIOUS
<1>1. CASE PortalNext
  <2>1. PortalTypeOK'
    BY <1>1, PortalFlags, PortalNumbers, PortalBatches, PortalPlaces, PortalDevices,
       PortalUsed
       DEF PortalTypeOK, PortalCounters
  <2> QED
    BY <1>1, <2>1, PortalSlot, PortalTyping, PortalToken DEF PortalInv
<1>2. CASE UNCHANGED portalVars
  BY <1>2
     DEF portalVars, PortalInv, PortalTypeOK, SlotInv, TypingInv, OutOfDate, TokenInv,
         TokenWhole
<1> QED
  BY <1>1, <1>2

\* The inductive invariant holds whenever the desktop, the client and the worker interleave.
THEOREM PortalInvariance == PortalSpec => []PortalInv
  BY PortalInitInv, PortalStep, PTL DEF PortalSpec

\* The variables have their types: a batch in the slot is one that was asked for, and no
\* more Backspaces are tapped than it has.
THEOREM PortalTypes == PortalSpec => []PortalTypeOK
<1>1. PortalInv => PortalTypeOK
  BY DEF PortalInv
<1> QED
  BY <1>1, PortalInvariance, PTL

\* commands() looks at stop, generation and ready before every Backspace, so that a batch
\* that is cancelled types at most the key it was about to tap.
THEOREM CancelStopsTyping == PortalSpec => []StopsAtTap
<1>1. PortalInv => StopsAtTap
  BY DEF PortalInv, PortalTypeOK, TypingInv, StopsAtTap
<1> QED
  BY <1>1, PortalInvariance, PTL

\* fail() counts the generation up whenever a keyboard goes, so that a batch is typed to the
\* keyboard that was there when it was accepted or not at all.
THEOREM BatchKeepsItsDevice == PortalSpec => []OneDevice
<1>1. PortalInv => OneDevice
  BY DEF PortalInv, TypingInv, OneDevice
<1> QED
  BY <1>1, PortalInvariance, PTL

\* saveToken() completes a temporary file and renames it: wherever the process is killed, the
\* restore token on the disk is whole, unless the disk was full.
THEOREM TokenSurvivesCrash == PortalSpec => []TokenWhole
<1>1. PortalInv => TokenWhole
  BY DEF PortalInv, TokenInv
<1> QED
  BY <1>1, PortalInvariance, PTL
============================================================================
