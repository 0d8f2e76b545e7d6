--------------------------- MODULE XTestInjector ---------------------------
(***************************************************************************)
(* The X11 half of src/native_injector.cpp: submit(), cancelX() and runX().*)
(* The worker types the batches that the engine queues through the XTest   *)
(* extension.  Unlike a uinput device, which types wherever the focus is,  *)
(* runX() pins the window of a batch and looks at the focus and at the     *)
(* modifiers before every key; the user may move the focus at any moment,  *)
(* also between such a look and the key.                                   *)
(*                                                                         *)
(* queueMutex guards the queue, active and the Work::cancelled flag, and   *)
(* is held by one action at a time; every call on the X connection is an   *)
(* action of its own.  What the calls other than the focus return          *)
(* (modifiers, key maps, write errors) is up to the server.                *)
(***************************************************************************)
EXTENDS Integers, FiniteSets

CONSTANTS
    Owners,      \* input contexts that request injections
    Windows,     \* X11 windows that a request may name
    Shapes,      \* kinds of batches the engine asks for: count, escape and select
    MaxTickets,  \* bound on the requests accepted in one behaviour
    MaxCount,    \* largest batch accepted: 64 in the code
    QueueCap,    \* batches that may wait: 64 in the code
    MaxMoves,    \* bound on the user's focus changes
    MaxErrors    \* bound on the key events that the connection reports as failed

ASSUME XTestAssumption ==
    /\ Owners # {} /\ Windows # {}
    /\ Shapes \subseteq [count : Nat, escape : BOOLEAN, select : BOOLEAN]
    /\ \A s \in Shapes : ~(s.escape /\ s.select) /\ (s.count > 0 \/ s.escape \/ s.select)
    /\ MaxTickets \in Nat \ {0} /\ MaxCount \in Nat /\ QueueCap \in Nat \ {0}
    /\ MaxMoves \in Nat /\ MaxErrors \in Nat

Tickets == 1..MaxTickets
None == 0
NoWindow == "no window"
Elsewhere == "elsewhere"     \* a window that no request names
Focusable == Windows \cup {Elsewhere}
Requests == [owner : Owners, count : 0..MaxCount, escape : BOOLEAN, select : BOOLEAN,
             window : Windows \cup {NoWindow}]
Ended == {"Complete", "Failed", "Cancelled"}
States == {"Free", "Queued", "Running"} \cup Ended

VARIABLES
    req,        \* the Work of each accepted ticket
    state,      \* InjectionRequest::state; "Free": not handed out
    emitted,    \* InjectionRequest::emittedEvents is not 0
    next,       \* nextId
    queue,      \* Impl::queue: served in the order of the ticket numbers
    active,     \* Impl::active
    cancelled,  \* Work::cancelled of the active work
    ready,      \* Impl::ready
    quit,       \* destructor: "no", "stop" is set, or "cancelled" everything
    pc,         \* where the worker is
    target,     \* targetWindow of the active work
    ok,         \* ok of runX()
    stage,      \* the keys being tapped: "escape", "main" or "anchor"
    taps,       \* main taps done, i of the loop
    held,       \* a tapped key may be down: held of runX() is not 0
    shiftHeld,  \* shiftHeld
    focus,      \* the window with the X input focus
    moves,      \* focus changes so far
    down,       \* keys the server holds down for this connection
    landed,     \* key presses the server took for each ticket (history)
    stray,      \* ... of those of the active work, presses that went to another window
    since,      \* value of moves when the window of the active work was pinned
    errors,     \* key events reported as failed
    refused     \* some release of a key reported an error

client == <<req, next>>
locals == <<target, ok, stage, taps, held, shiftHeld>>
server == <<down, landed, stray, refused, errors>>
user == <<focus, moves>>
vars == <<req, state, emitted, next, queue, active, cancelled, ready, quit, pc, target, ok,
          stage, taps, held, shiftHeld, focus, moves, down, landed, stray, since, errors,
          refused>>

Stopping == quit # "no"
NoRequest == [owner |-> CHOOSE o \in Owners : TRUE, count |-> 0, escape |-> FALSE,
              select |-> FALSE, window |-> NoWindow]

Init ==
    /\ req = [t \in Tickets |-> NoRequest]
    /\ state = [t \in Tickets |-> "Free"]
    /\ emitted = [t \in Tickets |-> FALSE]
    /\ next = 1 /\ queue = {} /\ active = None /\ cancelled = FALSE
    /\ ready = FALSE /\ quit = "no" /\ pc = "off"
    /\ target = NoWindow /\ ok = FALSE /\ stage = "main" /\ taps = 0
    /\ held = FALSE /\ shiftHeld = FALSE
    /\ focus \in Windows /\ moves = 0
    /\ down = {} /\ landed = [t \in Tickets |-> 0] /\ stray = 0
    /\ since = 0 /\ errors = 0 /\ refused = FALSE

---------------------------------------------------------------------------
(* The engine's main thread and the user.                                  *)

Start ==
    /\ pc = "off" /\ ~Stopping
    /\ pc' = "open"
    /\ UNCHANGED <<client, state, emitted, queue, active, cancelled, ready, quit,
                   locals, server, user, since>>

Accepts(count) ==
    ready /\ ~Stopping /\ count \in 0..MaxCount /\ Cardinality(queue) < QueueCap

\* submitBackspaces() and submitShiftSelect(); a refused call changes nothing.
\* The engine does not submit an empty batch.
Submit(o, shape, window) ==
    /\ Accepts(shape.count)
    /\ next \in Tickets
    /\ req' = [req EXCEPT ![next] =
                  [owner |-> o, count |-> shape.count, escape |-> shape.escape,
                   select |-> shape.select, window |-> window]]
    /\ state' = [state EXCEPT ![next] = "Queued"]
    /\ queue' = queue \cup {next}
    /\ next' = next + 1
    /\ UNCHANGED <<emitted, active, cancelled, ready, quit, pc, locals, server, user, since>>

\* cancelX() for the tickets of those owners.
CancelX(owners) ==
    LET mine == {t \in queue : req[t].owner \in owners}
    IN  /\ state' = [t \in Tickets |-> IF t \in mine THEN "Cancelled" ELSE state[t]]
        /\ queue' = queue \ mine
        /\ cancelled' = (cancelled \/ (active # None /\ req[active].owner \in owners))

Cancel(o) ==
    /\ ~Stopping
    /\ CancelX({o})
    /\ UNCHANGED <<client, emitted, active, ready, quit, pc, locals, server, user, since>>

Stop ==
    /\ quit = "no"
    /\ quit' = "stop"
    /\ UNCHANGED <<client, state, emitted, queue, active, cancelled, ready, pc,
                   locals, server, user, since>>

StopCancels ==
    /\ quit = "stop"
    /\ quit' = "cancelled"
    /\ CancelX(Owners)
    /\ UNCHANGED <<client, emitted, active, ready, pc, locals, server, user, since>>

MoveFocus(w) ==
    /\ moves < MaxMoves /\ w # focus
    /\ focus' = w /\ moves' = moves + 1
    /\ UNCHANGED <<client, state, emitted, queue, active, cancelled, ready, quit, pc,
                   locals, server, since>>

---------------------------------------------------------------------------
(* The worker, runX().                                                     *)

Cancelled == Stopping \/ cancelled
FocusSafe == target # NoWindow /\ focus = target

\* The key of the current tap.
TapKey == IF stage = "escape" THEN "Escape"
          ELSE IF req[active].select THEN "Left" ELSE "BackSpace"

\* mutant: only a press that reports success is counted
EmitCountsGood(key, press, good) ==
    \E took \in {TRUE, good} :
       /\ emitted' = [emitted EXCEPT ![active] = @ \/ (press /\ good)]
       /\ down' = IF ~took THEN down ELSE IF press THEN down \cup {key} ELSE down \ {key}
       /\ landed' = [landed EXCEPT ![active] = IF took /\ press THEN @ + 1 ELSE @]
       /\ stray' = IF took /\ press /\ focus # target THEN stray + 1 ELSE stray
       /\ refused' = (refused \/ (~press /\ ~good))
       /\ good \/ errors < MaxErrors
       /\ errors' = IF good THEN errors ELSE errors + 1

\* An attempt is counted before it is made.  The connection reports good or
\* not, and the server took the event whenever it was good.
Emit(key, press, good) ==
    \E took \in {TRUE, good} :
       /\ emitted' = [emitted EXCEPT ![active] = TRUE]
       /\ down' = IF ~took THEN down ELSE IF press THEN down \cup {key} ELSE down \ {key}
       /\ landed' = [landed EXCEPT ![active] = IF took /\ press THEN @ + 1 ELSE @]
       /\ stray' = IF took /\ press /\ focus # target THEN stray + 1 ELSE stray
       /\ refused' = (refused \/ (~press /\ ~good))
       /\ good \/ errors < MaxErrors
       /\ errors' = IF good THEN errors ELSE errors + 1

\* After the main taps, or the failure of one: Shift is released if it was pressed.
ToRelease(good) == ok' = good /\ pc' = IF shiftHeld THEN "shiftUp" ELSE "cleanup"

MoreTaps == taps + 1 < req[active].count

\* tap() returned good.
AfterTap(good) ==
    CASE stage = "escape" /\ good -> pc' = "pace" /\ UNCHANGED <<ok, taps>>
      [] stage = "main" /\ good ->
            /\ taps' = taps + 1
            /\ IF MoreTaps THEN pc' = "pace" /\ UNCHANGED ok
               ELSE ToRelease(TRUE)
      [] stage = "anchor" -> pc' = "cleanup" /\ ok' = good /\ UNCHANGED taps
      [] OTHER -> ToRelease(FALSE) /\ UNCHANGED taps

OpenDisplay ==
    /\ pc = "open"
    /\ \/ pc' = "wait" /\ ready' = TRUE
       \/ pc' = "done" /\ UNCHANGED ready
    /\ UNCHANGED <<client, state, emitted, queue, active, cancelled, quit, locals, server,
                   user, since>>

TakeWork ==
    /\ pc = "wait" /\ ~Stopping
    /\ \E t \in queue : /\ \A u \in queue : t <= u
                        /\ active' = t
                        /\ queue' = queue \ {t}
                        /\ state' = [state EXCEPT ![t] = "Running"]
    /\ cancelled' = FALSE
    /\ pc' = "pin"
    /\ UNCHANGED <<client, emitted, ready, quit, locals, server, user, since>>

\* The window the engine named, or else the one that has the focus now, if the
\* server tells; the work's own copy is not read again.  Then the cancel flag,
\* the key map and the modifiers.
Pin ==
    /\ pc = "pin"
    /\ target' \in IF req[active].window # NoWindow THEN {req[active].window}
                   ELSE {focus, NoWindow}
    /\ since' = moves
    /\ req' = [req EXCEPT ![active].window = NoWindow]
    /\ stage' = IF req[active].escape THEN "escape" ELSE "main"
    /\ taps' = 0 /\ held' = FALSE /\ shiftHeld' = FALSE /\ ok' = FALSE
    /\ \/ ~Cancelled /\ pc' = "begin"
       \/ pc' = "cleanup"
    /\ UNCHANGED <<next, state, emitted, queue, active, cancelled, ready, quit, server, user>>

\* The first focusSafe().
BeginBatch ==
    /\ pc = "begin"
    /\ \/ /\ FocusSafe
          /\ pc' = IF req[active].select THEN "shiftDown" ELSE "tap"
       \/ pc' = "cleanup"
    /\ UNCHANGED <<client, state, emitted, queue, active, cancelled, ready, quit, locals,
                   server, user, since>>

ShiftDown ==
    /\ pc = "shiftDown"
    /\ shiftHeld' = TRUE
    /\ \E good \in BOOLEAN :
          /\ Emit("Shift", TRUE, good)
          /\ ok' = good
          /\ pc' = IF good /\ req[active].count > 0 THEN "tap" ELSE "shiftUp"
    /\ UNCHANGED <<client, state, queue, active, cancelled, ready, quit, target, stage, taps,
                   held, user, since>>

\* tap(): cancelled() and modifiersSafe() ...
TapLook ==
    /\ pc = "tap"
    /\ \/ ~Cancelled /\ pc' = "tapFocus" /\ UNCHANGED <<ok, taps>>
       \/ AfterTap(FALSE)
    /\ UNCHANGED <<client, state, emitted, queue, active, cancelled, ready, quit, target,
                   stage, held, shiftHeld, server, user, since>>

\* mutant: the focus is not looked at
TapFocusBlind ==
    /\ pc = "tapFocus"
    /\ pc' = "tapDown"
    /\ UNCHANGED <<client, state, emitted, queue, active, cancelled, ready, quit, locals,
                   server, user, since>>

\* ... focusSafe() ...
TapFocus ==
    /\ pc = "tapFocus"
    /\ \/ FocusSafe /\ pc' = "tapDown" /\ UNCHANGED <<ok, taps>>
       \/ AfterTap(FALSE)
    /\ UNCHANGED <<client, state, emitted, queue, active, cancelled, ready, quit, target,
                   stage, held, shiftHeld, server, user, since>>

\* mutant: held is set when the press reports success
TapDownLate ==
    /\ pc = "tapDown"
    /\ \E good \in BOOLEAN :
          /\ Emit(TapKey, TRUE, good)
          /\ held' = good
          /\ IF good THEN pc' = "tapUp" /\ UNCHANGED <<ok, taps>> ELSE AfterTap(FALSE)
    /\ UNCHANGED <<client, state, queue, active, cancelled, ready, quit, target, stage,
                   shiftHeld, user, since>>

\* ... the press ...
TapDown ==
    /\ pc = "tapDown"
    /\ held' = TRUE
    /\ \E good \in BOOLEAN :
          /\ Emit(TapKey, TRUE, good)
          /\ IF good THEN pc' = "tapUp" /\ UNCHANGED <<ok, taps>> ELSE AfterTap(FALSE)
    /\ UNCHANGED <<client, state, queue, active, cancelled, ready, quit, target, stage,
                   shiftHeld, user, since>>

\* ... and the release.
TapUp ==
    /\ pc = "tapUp"
    /\ \E good \in BOOLEAN :
          /\ Emit(TapKey, FALSE, good)
          /\ held' = ~good
          /\ AfterTap(good)
    /\ UNCHANGED <<client, state, queue, active, cancelled, ready, quit, target, stage,
                   shiftHeld, user, since>>

\* mutant: the pace has no timeout
PaceNeverTimesOut ==
    /\ pc = "pace" /\ Cancelled
    /\ ToRelease(FALSE)
    /\ UNCHANGED <<client, state, emitted, queue, active, cancelled, ready, quit, target,
                   stage, taps, held, shiftHeld, server, user, since>>

\* pause(): the pace is over or the work was cancelled.
PaceOver ==
    /\ pc = "pace"
    /\ IF Cancelled THEN ToRelease(FALSE) ELSE pc' = "paceFocus" /\ UNCHANGED ok
    /\ UNCHANGED <<client, state, emitted, queue, active, cancelled, ready, quit, target,
                   stage, taps, held, shiftHeld, server, user, since>>

PaceFocus ==
    /\ pc = "paceFocus"
    /\ \/ /\ FocusSafe
          /\ IF req[active].count = 0 THEN ToRelease(TRUE)
             ELSE pc' = "tap" /\ UNCHANGED ok
          /\ stage' = "main"
       \/ ToRelease(FALSE) /\ UNCHANGED stage
    /\ UNCHANGED <<client, state, emitted, queue, active, cancelled, ready, quit, target,
                   taps, held, shiftHeld, server, user, since>>

\* Shift goes up whatever happened, then the anchor Left if all went well.
ShiftUp ==
    /\ pc = "shiftUp"
    /\ \E good \in BOOLEAN :
          /\ Emit("Shift", FALSE, good)
          /\ shiftHeld' = ~good
          /\ ok' = (ok /\ good)
          /\ IF ok /\ good THEN pc' = "tap" /\ stage' = "anchor"
             ELSE pc' = "cleanup" /\ UNCHANGED stage
    /\ UNCHANGED <<client, state, queue, active, cancelled, ready, quit, target, taps, held,
                   user, since>>

\* A key this batch may still hold is released, then Shift; held and shiftHeld
\* are locals that end here.
CleanUp ==
    /\ pc = "cleanup"
    /\ held \/ shiftHeld
    /\ \E good \in BOOLEAN :
          /\ Emit(IF held THEN TapKey ELSE "Shift", FALSE, good)
          /\ ok' = (ok /\ good)
    /\ IF held THEN held' = FALSE /\ UNCHANGED shiftHeld
       ELSE shiftHeld' = FALSE /\ UNCHANGED held
    /\ UNCHANGED <<client, state, queue, active, cancelled, ready, quit, pc, target, stage,
                   taps, user, since>>

\* mutant: a batch that was not cancelled is taken to be complete
VerdictHopeful == IF Cancelled THEN "Cancelled" ELSE "Complete"

Verdict == IF Cancelled THEN "Cancelled" ELSE IF ok THEN "Complete" ELSE "Failed"

\* The ticket's state is stored without queueMutex ...
Judge ==
    /\ pc = "cleanup" /\ ~held /\ ~shiftHeld
    /\ state' = [state EXCEPT ![active] = Verdict]
    /\ pc' = "retire"
    /\ UNCHANGED <<client, emitted, queue, active, cancelled, ready, quit, locals, server,
                   user, since>>

\* ... and active is cleared under it; the locals end with the work.
Retire ==
    /\ pc = "retire"
    /\ active' = None
    /\ cancelled' = FALSE
    /\ target' = NoWindow /\ ok' = FALSE /\ stage' = "main" /\ taps' = 0
    /\ stray' = 0 /\ since' = 0
    /\ pc' = "wait"
    /\ UNCHANGED <<client, state, emitted, queue, ready, quit, held, shiftHeld, down, landed,
                   refused, errors, user>>

\* stop: ready = false; cancelX(all); close().
LeaveLoop ==
    /\ pc = "wait" /\ Stopping
    /\ ready' = FALSE
    /\ CancelX(Owners)
    /\ down' = {}
    /\ pc' = "done"
    /\ UNCHANGED <<client, emitted, active, quit, locals, landed, stray, refused, errors,
                   user, since>>

Worker ==
    \/ OpenDisplay \/ TakeWork \/ Pin \/ BeginBatch \/ ShiftDown
    \/ TapLook \/ TapFocus \/ TapDown \/ TapUp \/ PaceOver \/ PaceFocus \/ ShiftUp
    \/ CleanUp \/ Judge \/ Retire \/ LeaveLoop

Client ==
    \/ Start \/ Stop \/ StopCancels
    \/ \E o \in Owners, shape \in Shapes, w \in Windows \cup {NoWindow} : Submit(o, shape, w)
    \/ \E o \in Owners : Cancel(o)

User == \E w \in Focusable : MoveFocus(w)

\* The injector is gone, or its worker never started.
Terminated ==
    /\ quit = "cancelled" /\ pc \in {"off", "done"}
    /\ UNCHANGED vars

Next == Client \/ Worker \/ User \/ Terminated

\* The worker is a thread whose waits are timed or notified.
Fairness == WF_vars(Worker)

Spec == Init /\ [][Next]_vars
FairSpec == Spec /\ Fairness

---------------------------------------------------------------------------
TypeOK ==
    /\ req \in [Tickets -> Requests]
    /\ state \in [Tickets -> States]
    /\ emitted \in [Tickets -> BOOLEAN]
    /\ next \in 1..(MaxTickets + 1)
    /\ queue \subseteq Tickets /\ active \in Tickets \cup {None}
    /\ cancelled \in BOOLEAN /\ ready \in BOOLEAN /\ ok \in BOOLEAN
    /\ held \in BOOLEAN /\ shiftHeld \in BOOLEAN /\ refused \in BOOLEAN
    /\ quit \in {"no", "stop", "cancelled"}
    /\ pc \in {"off", "open", "wait", "pin", "begin", "shiftDown", "tap", "tapFocus", "tapDown",
               "tapUp", "pace", "paceFocus", "shiftUp", "cleanup", "retire", "done"}
    /\ target \in Focusable \cup {NoWindow} /\ focus \in Focusable
    /\ stage \in {"escape", "main", "anchor"}
    /\ taps \in 0..MaxCount /\ moves \in 0..MaxMoves /\ errors \in 0..MaxErrors
    /\ down \subseteq {"Escape", "Shift", "Left", "BackSpace"}
    /\ landed \in [Tickets -> Nat] /\ stray \in Nat /\ since \in 0..moves

\* Presses of a whole batch: the taps, the Shift and the anchor.
Presses(r) == r.count + (IF r.escape THEN 1 ELSE 0) + (IF r.select THEN 2 ELSE 0)

\* Between two batches no key is down, however the last one was cancelled or
\* lost its focus, unless the server refused the release itself.
ReleasedUnlessRefused == pc = "wait" /\ down # {} => refused

\* injection_request.h: "Zero alone is safe for fallback only after a terminal
\* state".  A ticket that ended with emittedEvents = 0 has pressed no key.
FallbackIsSafe ==
    \A t \in Tickets : state[t] \in Ended /\ ~emitted[t] => landed[t] = 0

\* The focus is looked at before every press, so that each move of the focus
\* lets at most one press of the batch go astray.
StrayBounded == stray <= moves - since

\* A request is answered.
EveryTicketEnds ==
    \A t \in Tickets : (state[t] = "Queued") ~> (state[t] \in Ended)

\* The worker ends.
JoinReturns == (quit = "cancelled") ~> (pc \in {"off", "done"})

\* Every accepted request is answered, whatever becomes of the focus, and the
\* destructor's join returns.
Progress == EveryTicketEnds /\ JoinReturns

---------------------------------------------------------------------------
Taken(t) == IF landed[t] = 0 THEN "none"
            ELSE IF landed[t] = Presses(req[t]) THEN "all" ELSE "some"

\* Running is an answer still owed; the turn ends when the ticket is judged.
StatusOf(t) == IF state[t] = "Running" THEN "Queued" ELSE state[t]
Turn == IF pc = "retire" THEN None ELSE active

Service == INSTANCE InjectionService
               WITH status <- [t \in Tickets |-> StatusOf(t)],
                    turn <- Turn,
                    typed <- [t \in Tickets |-> Taken(t)]

\* The XTest worker and its queue are an injection service.
ImplementsService == Service!ServiceSpec

---------------------------------------------------------------------------
(* The inductive invariant behind the safety properties and the            *)
(* refinement (see NativeInjectorProofs), in parts.                        *)

Tapping == {"tap", "tapFocus", "tapDown", "tapUp"}
Busy == Tapping \cup {"pin", "begin", "shiftDown", "pace", "paceFocus", "shiftUp", "cleanup"}

\* Every ticket is still to be handed out, waiting, the active one, or has ended.
WorkInv ==
    /\ active # None <=> pc \in Busy \cup {"retire"}
    /\ active # None => active < next
    /\ pc \in Busy => state[active] = "Running"
    /\ pc = "retire" => state[active] \in Ended
    /\ \A t \in queue : t < next /\ t # active /\ state[t] = "Queued"
    /\ \A t \in Tickets :
          /\ t >= next => state[t] = "Free"
          /\ t < next => Presses(req[t]) > 0 /\ ~(req[t].escape /\ req[t].select)
          /\ t < next /\ t \notin queue /\ t # active => state[t] \in Ended

\* Where runX() is in its batch: the Escape, the main taps, and for a selection the Shift
\* around them and the anchor after it.
StageInv ==
    LET r == req[active]
    IN  /\ pc \in {"begin", "shiftDown"} =>
              taps = 0 /\ ~shiftHeld /\ stage = (IF r.escape THEN "escape" ELSE "main")
        /\ pc \in {"shiftDown", "shiftUp"} => r.select /\ stage = "main"
        /\ pc \in Tapping \cup {"pace", "paceFocus"} =>
              /\ stage = "escape" => taps = 0 /\ r.escape
              /\ stage = "main" => taps < r.count
              /\ stage = "anchor" => r.select /\ pc \in Tapping
              /\ shiftHeld <=> r.select /\ stage = "main"

\* Unless a release was refused, a key is down only if a local of runX() says so, and a
\* tapped key only where it is about to be released.
KeysInv ==
    /\ pc \notin Busy \ {"pin"} => ~held /\ ~shiftHeld
    /\ ~refused =>
          /\ down \subseteq (IF held THEN {TapKey} ELSE {})
                               \cup (IF shiftHeld THEN {"Shift"} ELSE {})
          /\ held => pc \in {"tapUp", "cleanup"} \/ (pc = "shiftUp" /\ ~ok)

\* A press can go astray only after a move that no press has gone astray for.
FocusInv ==
    /\ StrayBounded
    /\ pc \notin (Busy \ {"pin"}) \cup {"retire"} => stray = 0
    /\ pc \in {"shiftDown", "tapDown"} /\ focus # target => stray < moves - since

\* Nothing is pressed for a ticket before its turn, nor without being counted; a Complete
\* one was typed whole.
LandedInv ==
    \A t \in Tickets :
        /\ landed[t] <= Presses(req[t])
        /\ t >= next \/ t \in queue => landed[t] = 0
        /\ ~emitted[t] => landed[t] = 0
        /\ state[t] = "Complete" => landed[t] = Presses(req[t])

\* The presses the server took are those that reported success, until one does not.
PressInv ==
    LET r == req[active]
        main == (IF r.escape \/ r.select THEN 1 ELSE 0) + taps
        before == IF stage = "escape" THEN 0 ELSE IF stage = "main" THEN main ELSE r.count + 1
    IN  /\ pc \in {"pin", "begin", "shiftDown"} => landed[active] = 0
        /\ pc = "begin" => ~ok
        /\ pc \in Tapping => landed[active] = IF pc = "tapUp" THEN before + 1 ELSE before
        /\ pc \in {"pace", "paceFocus"} => landed[active] = main
        /\ pc = "shiftUp" => landed[active] <= r.count + 1 /\ (ok => landed[active] = r.count + 1)
        /\ pc = "cleanup" => (ok => landed[active] = Presses(r))

IInv == TypeOK /\ WorkInv /\ StageInv /\ KeysInv /\ FocusInv /\ LandedInv /\ PressInv

============================================================================
