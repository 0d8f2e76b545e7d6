-------------------------- MODULE UinputInjector --------------------------
(***************************************************************************)
(* src/uinput_injector.cpp: one worker thread owns a virtual keyboard and  *)
(* types the batches ("tickets") that the engine's main thread queues.     *)
(*                                                                         *)
(* Every worker action below is one hold of Impl::mutex, from the point    *)
(* where run() (re)acquires it to the point where it next lets go of it;   *)
(* pc names the place at which the worker is without the mutex.  A write   *)
(* is two actions, because the kernel delivers the events before run()     *)
(* gets the mutex back and a cancel() may come in between.                 *)
(*                                                                         *)
(* Time is abstracted: a timed wait may end at any moment.  A ticket is    *)
(* numbered in the order of acceptance, so that the deque of run() is the  *)
(* set of its tickets: push_back adds the greatest, pop_front takes the    *)
(* least, erase keeps the others in order.                                 *)
(***************************************************************************)
EXTENDS Integers, FiniteSets

CONSTANTS
    Owners,      \* input contexts that request injections
    MaxTickets,  \* bound on the requests accepted in one behaviour
    MaxCount,    \* largest batch accepted: 64 in the code
    QueueCap,    \* batches that may wait: 8 in the code
    MaxRetries   \* EAGAIN/EINTR results tolerated in a row: 20 in the code

ASSUME InjectorAssumption ==
    /\ Owners # {}
    /\ MaxTickets \in Nat \ {0}
    /\ MaxCount \in Nat \ {0}
    /\ QueueCap \in Nat \ {0}
    /\ MaxRetries \in Nat

Tickets == 1..MaxTickets
None == 0
Requests == [owner : Owners, count : 1..MaxCount, escape : BOOLEAN, select : BOOLEAN]
States == {"Free", "Queued", "Complete", "Failed", "Cancelled"}
Terminal == {"Complete", "Failed", "Cancelled"}
Keys == {"Escape", "Shift", "Left", "BackSpace"}

VARIABLES
    req,        \* the batch of each accepted ticket
    state,      \* InjectionRequest::state of each ticket; "Free": not handed out
    next,       \* the next ticket to hand out
    queue,      \* Impl::queue
    active,     \* Impl::active
    available,  \* Impl::available
    stopping,   \* Impl::stopping
    pc,         \* where the worker has let go of the mutex
    frame,      \* which send() of the active batch the worker is in
    offset,     \* events of that frame the kernel has taken
    retries,    \* consecutive EAGAIN/EINTR of that frame
    result,     \* what the last write(2) returned
    opened,     \* the kernel device exists
    down,       \* keys the virtual device holds down
    delivered   \* events the kernel took for each ticket (history)

client == <<req, next>>
device == <<opened, down, delivered>>
sending == <<frame, offset, retries, result>>
vars == <<req, state, next, queue, active, available, stopping, pc,
          frame, offset, retries, result, opened, down, delivered>>

---------------------------------------------------------------------------
(* The batch as the frames that run() sends, each with one send().         *)

Tap(k) == [kind |-> "tap", key |-> k]          \* down, SYN, up, SYN
Press(k) == [kind |-> "press", key |-> k]      \* down, SYN
Release(k) == [kind |-> "release", key |-> k]  \* up, SYN

EventsOf(f) == IF f.kind = "tap" THEN 4 ELSE 2

FrameCount(r) == IF r.select THEN r.count + 3
                 ELSE IF r.escape THEN r.count + 1 ELSE r.count

\* Shift down, Left x count, Shift up, anchor Left; or [Escape,] BackSpace x count.
FrameAt(r, i) ==
    IF r.select
    THEN CASE i = 1           -> Press("Shift")
           [] i = r.count + 2 -> Release("Shift")
           [] OTHER           -> Tap("Left")
    ELSE IF r.escape /\ i = 1 THEN Tap("Escape") ELSE Tap("BackSpace")

\* run() waits for the pace after Escape, after every selecting Left and
\* between two BackSpaces; never around the Shift, nor after the last tap.
Paced(r, i) == IF r.select THEN i \in 2..(r.count + 1) ELSE i < FrameCount(r)

\* Events of the whole batch, and of the frames before frame i.
EventsBefore(r, i) ==
    IF r.select
    THEN IF i = 1 THEN 0
         ELSE IF i <= r.count + 2 THEN 2 + 4 * (i - 2)
         ELSE IF i = r.count + 3 THEN 4 + 4 * r.count ELSE 8 + 4 * r.count
    ELSE 4 * (i - 1)
EventsTotal(r) == EventsBefore(r, FrameCount(r) + 1)

\* The keys held once the kernel has taken the first n events of frame f.
Held(f, n, held) ==
    IF f.kind = "release" \/ (f.kind = "tap" /\ n >= 3)
    THEN held \ {f.key} ELSE held \cup {f.key}

CurrentFrame == FrameAt(req[active], frame)

---------------------------------------------------------------------------
Interrupted == stopping \/ (active # None /\ state[active] = "Cancelled")

IsFront(t) == \A u \in queue : t <= u

NoRequest == [owner |-> CHOOSE o \in Owners : TRUE, count |-> 1,
              escape |-> FALSE, select |-> FALSE]

Init ==
    /\ req = [t \in Tickets |-> NoRequest]
    /\ state = [t \in Tickets |-> "Free"]
    /\ next = 1
    /\ queue = {}
    /\ active = None
    /\ available = FALSE
    /\ stopping = FALSE
    /\ pc = "off"
    /\ frame = 1 /\ offset = 0 /\ retries = 0 /\ result = 0
    /\ opened = FALSE
    /\ down = {}
    /\ delivered = [t \in Tickets |-> 0]

---------------------------------------------------------------------------
(* The engine's main thread.  It destroys the injector last, so it calls   *)
(* nothing once stopping is set.                                           *)

Start ==
    /\ pc = "off" /\ ~stopping
    /\ pc' = "begin"
    /\ UNCHANGED <<client, state, queue, active, available, stopping, sending, device>>

Accepts(count) ==
    available /\ ~stopping /\ count \in 1..MaxCount /\ Cardinality(queue) < QueueCap

\* backspaces() and shiftSelect(); a refused call changes nothing.
Submit(o, count, escape, select) ==
    /\ Accepts(count)
    /\ next \in Tickets
    /\ ~(escape /\ select)
    /\ req' = [req EXCEPT ![next] =
                  [owner |-> o, count |-> count, escape |-> escape, select |-> select]]
    /\ state' = [state EXCEPT ![next] = "Queued"]
    /\ queue' = queue \cup {next}
    /\ next' = next + 1
    /\ UNCHANGED <<active, available, stopping, pc, sending, device>>

OwnedBy(o, t) == req[t].owner = o

\* The active ticket becomes Cancelled whatever its state, and stays active;
\* the owner's waiting batches leave the queue.
Cancel(o) ==
    LET mine == {t \in queue : OwnedBy(o, t)}
        hit == mine \cup {t \in {active} \ {None} : OwnedBy(o, t)}
    IN  /\ ~stopping
        /\ hit # {}
        /\ state' = [t \in Tickets |-> IF t \in hit THEN "Cancelled" ELSE state[t]]
        /\ queue' = queue \ mine
        /\ UNCHANGED <<client, active, available, stopping, pc, sending, device>>

\* ~Impl: the main thread then joins the worker.
Stop ==
    /\ ~stopping
    /\ stopping' = TRUE
    /\ UNCHANGED <<client, state, queue, active, available, pc, sending, device>>

---------------------------------------------------------------------------
(* The worker, run().                                                      *)

\* After the loop, with the tickets in the states st: every waiting batch is
\* Cancelled, then the device goes.  No batch is active where run() leaves the
\* loop, so that its store to active->state is never reached.
Leave(st) ==
    /\ available' = FALSE
    /\ state' = [t \in Tickets |-> IF t \in queue THEN "Cancelled" ELSE st[t]]
    /\ queue' = {}
    /\ active' = None
    /\ pc' = "closeExit"

\* The head of the loop without a device.
Reopen ==
    IF stopping THEN Leave(state)
    ELSE /\ pc' = "open"
         /\ UNCHANGED <<available, state, queue, active>>

Begin ==
    /\ pc = "begin"
    /\ Reopen
    /\ UNCHANGED <<client, stopping, sending, device>>

OpenDevice ==
    /\ pc = "open"
    /\ \/ pc' = "warmup" /\ opened' = TRUE
       \/ pc' = "closeRetry" /\ opened' = FALSE
    /\ UNCHANGED <<client, state, queue, active, available, stopping, sending, down, delivered>>

CloseRefused ==
    /\ pc = "closeRetry"
    /\ pc' = "retry"
    /\ opened' = FALSE /\ down' = {}
    /\ UNCHANGED <<client, state, queue, active, available, stopping, sending, delivered>>

\* The one second between two attempts to open ends, or is interrupted.
RetryOver ==
    /\ pc = "retry"
    /\ Reopen
    /\ UNCHANGED <<client, stopping, sending, device>>

WarmupOver ==
    /\ pc = "warmup"
    /\ IF stopping THEN Leave(state)
       ELSE /\ available' = TRUE
            /\ pc' = "wait"
            /\ UNCHANGED <<state, queue, active>>
    /\ UNCHANGED <<client, stopping, sending, device>>

\* The locals of run() and send() outside a batch.
NoFrame == frame' = 1 /\ offset' = 0 /\ retries' = 0 /\ result' = 0

\* Neither interruption nor failure is possible between the pop and the first
\* frame: run() keeps the mutex.
TakeBatch ==
    /\ pc = "wait" /\ ~stopping
    /\ \E t \in queue : /\ IsFront(t)
                        /\ active' = t
                        /\ queue' = queue \ {t}
    /\ pc' = "write"
    /\ NoFrame
    /\ UNCHANGED <<client, state, available, stopping, device>>

WaitStopped ==
    /\ pc = "wait" /\ stopping
    /\ Leave(state)
    /\ UNCHANGED <<client, stopping, sending, device>>

\* device->write without the mutex.  result is the number of events taken:
\* 0 stands for EAGAIN or EINTR, -1 for any other error or a misaligned count.
Write ==
    /\ pc = "write"
    /\ \E n \in -1..(EventsOf(CurrentFrame) - offset) :
          /\ result' = n
          /\ IF n > 0
             THEN /\ down' = Held(CurrentFrame, offset + n, down)
                  /\ delivered' = [delivered EXCEPT ![active] = @ + n]
             ELSE UNCHANGED <<down, delivered>>
    /\ pc' = "wrote"
    /\ UNCHANGED <<client, state, queue, active, available, stopping,
                   frame, offset, retries, opened>>

\* mutant: Complete is stored without looking at the ticket
OutcomeUnread(t) == IF stopping THEN "Cancelled" ELSE "Complete"

\* A batch whose frames were all sent, or that was interrupted between frames.
Outcome(t) ==
    IF state[t] = "Cancelled" \/ stopping THEN "Cancelled" ELSE "Complete"

Finish ==
    LET st == [state EXCEPT ![active] = Outcome(active)]
    IN  /\ IF stopping THEN Leave(st)
           ELSE /\ state' = st
                /\ active' = None
                /\ pc' = "wait"
                /\ UNCHANGED <<available, queue>>
        /\ NoFrame
        /\ UNCHANGED <<client, stopping, device>>

NextFrame ==
    /\ frame' = frame + 1 /\ offset' = 0 /\ retries' = 0 /\ result' = 0
    /\ pc' = "write"
    /\ UNCHANGED <<client, state, queue, active, available, stopping, device>>

\* send() goes on with the rest of a frame the kernel took in part.
ShortWrite ==
    /\ pc = "wrote" /\ result > 0
    /\ offset + result < EventsOf(CurrentFrame)
    /\ offset' = offset + result /\ retries' = 0 /\ result' = 0
    /\ pc' = "write"
    /\ UNCHANGED <<client, state, queue, active, available, stopping, frame, device>>

FrameSent == pc = "wrote" /\ result > 0 /\ offset + result = EventsOf(CurrentFrame)

SentAndPace ==
    /\ FrameSent
    /\ Paced(req[active], frame)
    /\ offset' = 0 /\ retries' = 0 /\ result' = 0
    /\ pc' = "pace"
    /\ UNCHANGED <<client, state, queue, active, available, stopping, frame, device>>

\* mutant: the batch is not looked at between two frames
GoesOnRegardless == frame < FrameCount(req[active])

GoesOn == frame < FrameCount(req[active]) /\ ~Interrupted

SentAndGoOn ==
    /\ FrameSent
    /\ ~Paced(req[active], frame) /\ GoesOn
    /\ NextFrame

SentAndFinish ==
    /\ FrameSent
    /\ ~Paced(req[active], frame) /\ ~GoesOn
    /\ Finish

PaceOver ==
    /\ pc = "pace"
    /\ IF GoesOn THEN NextFrame ELSE Finish

RetryLimit(n) == n + 1 <= MaxRetries

\* mutant: EAGAIN is retried without counting
BackoffForEver ==
    /\ pc = "wrote" /\ result = 0
    /\ pc' = "backoff"
    /\ UNCHANGED <<client, state, queue, active, available, stopping, sending, device>>

\* EAGAIN/EINTR: a wait of 1ms, then the same bytes again.
Backoff ==
    /\ pc = "wrote" /\ result = 0
    /\ RetryLimit(retries)
    /\ retries' = retries + 1
    /\ pc' = "backoff"
    /\ UNCHANGED <<client, state, queue, active, available, stopping,
                   frame, offset, result, device>>

BackoffOver ==
    /\ pc = "backoff"
    /\ pc' = "write"
    /\ UNCHANGED <<client, state, queue, active, available, stopping, sending, device>>

\* Even a Cancelled ticket becomes Failed here.
SendFails ==
    /\ pc = "wrote"
    /\ result = -1 \/ (result = 0 /\ ~RetryLimit(retries))
    /\ state' = [state EXCEPT ![active] = "Failed"]
    /\ available' = FALSE
    /\ NoFrame
    /\ pc' = "closeFail"
    /\ UNCHANGED <<client, queue, active, stopping, device>>

\* mutant: the batches behind the failed one are dropped
CloseFailedForgets ==
    /\ pc = "closeFail"
    /\ opened' = FALSE /\ down' = {}
    /\ queue' = {}
    /\ active' = None
    /\ pc' = "retry"
    /\ UNCHANGED <<client, state, available, stopping, sending, delivered>>

\* Closing destroys the device, which releases its keys; whatever waits fails.
CloseFailed ==
    /\ pc = "closeFail"
    /\ opened' = FALSE /\ down' = {}
    /\ state' = [t \in Tickets |-> IF t \in queue THEN "Failed" ELSE state[t]]
    /\ queue' = {}
    /\ active' = None
    /\ pc' = "retry"
    /\ UNCHANGED <<client, available, stopping, sending, delivered>>

CloseExit ==
    /\ pc = "closeExit"
    /\ opened' = FALSE /\ down' = {}
    /\ pc' = "done"
    /\ UNCHANGED <<client, state, queue, active, available, stopping, sending, delivered>>

Worker ==
    \/ Begin \/ OpenDevice \/ CloseRefused \/ RetryOver \/ WarmupOver
    \/ TakeBatch \/ WaitStopped
    \/ Write \/ ShortWrite \/ SentAndPace \/ SentAndGoOn \/ SentAndFinish \/ PaceOver
    \/ Backoff \/ BackoffOver \/ SendFails \/ CloseFailed \/ CloseExit

Client ==
    \/ Start
    \/ \E o \in Owners, n \in 1..MaxCount, e, s \in BOOLEAN : Submit(o, n, e, s)
    \/ \E o \in Owners : Cancel(o)
    \/ Stop

\* The injector is gone.
Terminated == stopping /\ pc \in {"off", "done"} /\ UNCHANGED vars

Next == Client \/ Worker \/ Terminated

\* The worker is a thread of its own and every wait it makes is timed or is
\* notified, so it keeps moving whenever it can; nothing obliges the client.
Fairness == WF_vars(Worker)

Spec == Init /\ [][Next]_vars
FairSpec == Spec /\ Fairness

---------------------------------------------------------------------------
Places == {"off", "begin", "open", "closeRetry", "retry", "warmup", "wait", "write",
           "wrote", "pace", "backoff", "closeFail", "closeExit", "done"}
Sending == {"write", "wrote", "pace", "backoff"}

TypeOK ==
    /\ req \in [Tickets -> Requests]
    /\ state \in [Tickets -> States]
    /\ next \in 1..(MaxTickets + 1)
    /\ queue \subseteq Tickets
    /\ active \in Tickets \cup {None}
    /\ available \in BOOLEAN /\ stopping \in BOOLEAN /\ opened \in BOOLEAN
    /\ pc \in Places
    /\ frame \in 1..(MaxCount + 3)
    /\ offset \in 0..3
    /\ retries \in 0..MaxRetries
    /\ result \in -1..4
    /\ down \subseteq Keys
    /\ delivered \in [Tickets -> Nat]

\* The engine polls a ticket until it leaves Queued, so a Queued ticket that
\* neither waits nor is being typed would stall its input context for ever.
NoOrphan ==
    \A t \in Tickets : state[t] = "Queued" => t \in queue \/ t = active

\* A batch waits only for a device that exists: none is accepted, and none stays
\* behind, while a device that failed is closed and opened again.
QueueSound ==
    /\ \A t \in queue : state[t] = "Queued" /\ delivered[t] = 0
    /\ queue # {} => opened

\* Complete is the engine's licence to expect every loopback: all the events
\* of the batch were taken by the kernel, and none twice.
CompleteIsExact ==
    \A t \in Tickets :
        /\ state[t] = "Complete" => delivered[t] = EventsTotal(req[t])
        /\ delivered[t] <= EventsTotal(req[t])

\* uinput_injector.cpp:96-97 on send(): "A cancelled batch still completes its
\* writes, so no pressed key remains stuck."
NoStuckKey == pc = "wait" => down = {}

\* A ticket the engine saw end never revives: Complete is final, and Failed and
\* Cancelled may only trade places (a cancel or a failure that came second).
TerminalIsFinal ==
    [][\A t \in Tickets :
          /\ state[t] = "Complete" => state'[t] = "Complete"
          /\ state[t] \in Terminal => state'[t] \in Terminal
          /\ state[t] \in {"Failed", "Cancelled"} => state'[t] # "Complete"]_vars

\* Batches are typed one after the other in the order of acceptance, and
\* nothing is typed for a ticket that has ended, except the rest of the frame
\* in which its cancel found it.
TypedInOrder ==
    [][\A t \in Tickets : delivered'[t] # delivered[t] =>
          /\ t = active
          /\ \A u \in 1..(t - 1) : state[u] \in Terminal
          /\ state[t] \in {"Queued", "Cancelled"}]_vars

\* A cancel takes effect at the next frame: a ticket that is Cancelled at a
\* frame boundary gets no further frame, so no further deletion.
CancelStopsAtFrame ==
    [][active # None /\ active' = active /\ state[active] = "Cancelled"
          => frame' <= frame]_vars

\* A request is answered.
EveryTicketEnds ==
    \A t \in Tickets : (state[t] = "Queued") ~> (state[t] \in Terminal)

\* The worker ends.
JoinReturns == stopping ~> (pc \in {"off", "done"})

\* Every accepted request is answered, however often writes are refused, and the
\* destructor's join returns, wherever the worker was when it began.
Progress == EveryTicketEnds /\ JoinReturns

---------------------------------------------------------------------------
(* The inductive invariant behind the safety properties (see               *)
(* UinputInjectorProofs), in parts.                                        *)

\* A batch is active exactly while run() types it or buries its failure.
ActiveInv ==
    /\ active # None <=> pc \in Sending \cup {"closeFail"}
    /\ active # None => active < next
    /\ pc \in Sending => state[active] \in {"Queued", "Cancelled"}
    /\ pc = "closeFail" => state[active] \in {"Failed", "Cancelled"}

\* Batches wait only behind a device that is open, warmed up and not failing.
DeviceInv ==
    /\ available <=> pc \in Sending \cup {"wait"}
    /\ pc \in Sending \cup {"warmup", "wait", "closeFail"} => opened
    /\ pc \notin Sending \cup {"wait", "closeFail"} => queue = {}

\* Where the worker is in its batch is what the kernel has taken of it.
FrameInv ==
    LET r == req[active]
        before == EventsBefore(r, frame)
    IN  /\ pc \in Sending => /\ frame \in 1..FrameCount(r)
                             /\ offset < EventsOf(FrameAt(r, frame))
        /\ pc \in {"write", "backoff"} => delivered[active] = before + offset
        /\ pc = "wrote" => /\ result <= EventsOf(FrameAt(r, frame)) - offset
                           /\ delivered[active] =
                                 before + offset + (IF result > 0 THEN result ELSE 0)
        /\ pc = "pace" => delivered[active] = EventsBefore(r, frame + 1)

\* Every ticket is still to be handed out, waiting, active, or has ended.
TicketInv ==
    /\ \A t \in queue : t < next /\ active < t /\ state[t] = "Queued" /\ delivered[t] = 0
    /\ \A t \in Tickets :
          /\ t >= next => state[t] = "Free" /\ delivered[t] = 0
          /\ t < next /\ t \notin queue /\ t # active => state[t] \in Terminal
          /\ state[t] = "Complete" => delivered[t] = EventsTotal(req[t])
          /\ delivered[t] <= EventsTotal(req[t])

IInv == TypeOK /\ ActiveInv /\ DeviceInv /\ FrameInv /\ TicketInv

---------------------------------------------------------------------------
\* How much of a batch the kernel has taken.
Taken(t) == IF delivered[t] = 0 THEN "none"
            ELSE IF delivered[t] = EventsTotal(req[t]) THEN "all" ELSE "some"

Service == INSTANCE InjectionService
               WITH status <- state, turn <- active, typed <- [t \in Tickets |-> Taken(t)]

\* The worker and its queue are an injection service.
ImplementsService == Service!ServiceSpec

===========================================================================
