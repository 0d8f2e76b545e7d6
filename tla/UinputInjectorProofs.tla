----------------------- MODULE UinputInjectorProofs -----------------------
(***************************************************************************)
(* The safety of UinputInjector for every set of owners, every number of   *)
(* requests and every value of the code's limits.                          *)
(***************************************************************************)
EXTENDS UinputInjector, FiniteSetTheorems, TLAPS

\* What one more frame adds to a batch: the events of that frame, never more
\* than the batch has.
LEMMA FrameArithmetic ==
    ASSUME NEW r \in Requests, NEW i \in 1..FrameCount(r)
    PROVE  /\ FrameCount(r) \in 1..(MaxCount + 3)
           /\ EventsOf(FrameAt(r, i)) \in {2, 4}
           /\ EventsBefore(r, i) \in Nat
           /\ EventsBefore(r, i + 1) = EventsBefore(r, i) + EventsOf(FrameAt(r, i))
           /\ EventsBefore(r, i + 1) <= EventsTotal(r)
           /\ EventsTotal(r) \in Nat
           /\ EventsBefore(r, 1) = 0
           /\ FrameAt(r, i).key \in Keys
<1> USE InjectorAssumption
<1>1. /\ r.count \in 1..MaxCount /\ r.count \in Nat /\ r.count >= 1
      /\ r.escape \in BOOLEAN /\ r.select \in BOOLEAN
  BY DEF Requests
<1>2. FrameCount(r) \in 1..(MaxCount + 3)
  BY <1>1 DEF FrameCount
<1>3. i \in Nat /\ i >= 1 /\ i <= FrameCount(r)
  BY <1>2
<1>4. CASE r.select
  BY <1>1, <1>2, <1>3, <1>4
     DEF FrameCount, FrameAt, EventsOf, EventsBefore, EventsTotal, Tap, Press, Release, Keys
<1>5. CASE ~r.select
  BY <1>1, <1>2, <1>3, <1>5
     DEF FrameCount, FrameAt, EventsOf, EventsBefore, EventsTotal, Tap, Press, Release, Keys
<1> QED
  BY <1>4, <1>5

\* The invariant holds before the worker is started.
LEMMA InitIInv == Init => IInv
<1> SUFFICES ASSUME Init PROVE IInv
  OBVIOUS
<1> USE InjectorAssumption DEF Init
<1>1. NoRequest \in Requests
  BY DEF NoRequest, Requests
<1>2. TypeOK
  <2>1. /\ req \in [Tickets -> Requests] /\ state \in [Tickets -> States]
        /\ delivered \in [Tickets -> Nat]
    BY <1>1 DEF States
  <2>2. /\ next \in 1..(MaxTickets + 1) /\ frame \in 1..(MaxCount + 3)
        /\ offset \in 0..3 /\ retries \in 0..MaxRetries /\ result \in -1..4
    OBVIOUS
  <2>3. /\ queue \subseteq Tickets /\ active \in Tickets \cup {None}
        /\ available \in BOOLEAN /\ stopping \in BOOLEAN /\ opened \in BOOLEAN
        /\ pc \in Places /\ down \subseteq Keys
    BY DEF Places
  <2> QED
    BY <2>1, <2>2, <2>3 DEF TypeOK
<1>3. ActiveInv /\ DeviceInv /\ FrameInv
  BY DEF ActiveInv, DeviceInv, FrameInv, Sending, None
<1>4. TicketInv
  <2>1. ASSUME NEW t \in Tickets PROVE 0 <= EventsTotal(req[t])
    <3>1. 1 \in 1..FrameCount(NoRequest)
      BY <1>1 DEF FrameCount, Requests
    <3> QED
      BY <1>1, <3>1, FrameArithmetic
  <2> QED
    BY <2>1 DEF TicketInv, Tickets, Terminal
<1> QED
  BY <1>2, <1>3, <1>4 DEF IInv

\* What IInv says of the batch being typed, with the arithmetic of its frames.
Typing ==
    LET r == req[active]
    IN  /\ active \in Tickets /\ active # None /\ r \in Requests
        /\ frame \in 1..FrameCount(r)
        /\ FrameCount(r) \in 1..(MaxCount + 3)
        /\ EventsOf(FrameAt(r, frame)) \in {2, 4}
        /\ EventsBefore(r, frame) \in Nat
        /\ EventsBefore(r, frame + 1) =
              EventsBefore(r, frame) + EventsOf(FrameAt(r, frame))
        /\ EventsBefore(r, frame + 1) <= EventsTotal(r)
        /\ EventsTotal(r) \in Nat
        /\ FrameAt(r, frame).key \in Keys

\* While a batch is being sent its request and its position are what they should be.
LEMMA TypingFacts == IInv /\ pc \in Sending => Typing
<1> SUFFICES ASSUME IInv, pc \in Sending PROVE Typing
  OBVIOUS
<1>1. /\ active \in Tickets /\ active # None /\ req[active] \in Requests
      /\ frame \in 1..FrameCount(req[active])
  BY DEF IInv, TypeOK, ActiveInv, FrameInv, Tickets, None, Sending
<1> QED
  BY <1>1, FrameArithmetic DEF Typing

\* Going on enters a frame of the batch; finishing a batch that no one stopped
\* means that its last frame was sent.
LEMMA NextFrameInv ==
    ASSUME IInv, Typing, GoesOn, NextFrame,
           delivered[active] = EventsBefore(req[active], frame + 1)
    PROVE  FrameInv'
<1> USE DEF NextFrame, GoesOn, client, device, Typing
<1>1. frame + 1 \in 1..FrameCount(req[active])
  OBVIOUS
<1>2. EventsOf(FrameAt(req[active], frame + 1)) \in {2, 4}
  BY <1>1, FrameArithmetic
<1>3. /\ req' = req /\ active' = active /\ delivered' = delivered
      /\ pc' = "write" /\ frame' = frame + 1 /\ offset' = 0
  OBVIOUS
<1> QED
  BY <1>1, <1>2, <1>3 DEF FrameInv

\* A batch that ends leaves every ticket with an outcome that fits what was delivered.
LEMMA FinishInv ==
    ASSUME IInv, Typing, pc \in Sending, ~GoesOn, Finish,
           delivered[active] = EventsBefore(req[active], frame + 1)
    PROVE  TicketInv'
<1> USE InjectorAssumption DEF IInv, TypeOK, ActiveInv, Typing, client, device
<1>1. /\ Outcome(active) \in {"Cancelled", "Complete"}
      /\ Outcome(active) = "Complete" => delivered[active] = EventsTotal(req[active])
  <2>1. CASE frame < FrameCount(req[active])
    BY <2>1 DEF GoesOn, Interrupted, Outcome
  <2>2. CASE frame = FrameCount(req[active])
    BY <2>2 DEF EventsTotal, Outcome
  <2> QED
    BY <2>1, <2>2
<1>2. /\ req' = req /\ next' = next /\ delivered' = delivered /\ active' = None
      /\ queue' \subseteq queue
      /\ \A t \in Tickets : state'[t] \in
            IF t \in queue \ queue' THEN {"Cancelled"}
            ELSE IF t = active THEN {Outcome(active)} ELSE {state[t]}
  BY DEF Finish, Leave, TicketInv, Tickets
<1>3. ASSUME NEW t \in queue'
      PROVE  t < next' /\ active' < t /\ state'[t] = "Queued" /\ delivered'[t] = 0
  <2>1. /\ t \in queue /\ t \in Tickets /\ t \in Nat /\ 0 < t /\ t # active
        /\ t < next /\ state[t] = "Queued" /\ delivered[t] = 0
    BY <1>2, <1>3 DEF TicketInv, Tickets, None
  <2>2. state'[t] = state[t]
    BY <1>2, <1>3, <2>1
  <2> QED
    BY <1>2, <2>1, <2>2 DEF None
<1>4. ASSUME NEW t \in Tickets
      PROVE  /\ t >= next' => state'[t] = "Free" /\ delivered'[t] = 0
             /\ t < next' /\ t \notin queue' /\ t # active' => state'[t] \in Terminal
             /\ state'[t] = "Complete" => delivered'[t] = EventsTotal(req'[t])
             /\ delivered'[t] <= EventsTotal(req'[t])
  BY <1>1, <1>2, <1>4 DEF TicketInv, Tickets, Terminal
<1> QED
  BY <1>3, <1>4 DEF TicketInv

\* Every step preserves it, one action at a time.
LEMMA NextIInv == IInv /\ [Next]_vars => IInv'
<1> SUFFICES ASSUME IInv, [Next]_vars PROVE IInv'
  OBVIOUS
<1> USE InjectorAssumption
<1> USE DEF IInv
<1>1. ASSUME Start PROVE IInv'
  <2> USE <1>1 DEF Start, client, device, sending
  <2>1. TypeOK'
    BY DEF TypeOK, ActiveInv, FrameInv, Tickets, None, States, Places, Sending, Terminal,
           Requests
  <2>2. ActiveInv'
    BY DEF ActiveInv, TypeOK, TicketInv, DeviceInv, Tickets, None, Sending
  <2>3. DeviceInv'
    BY DEF DeviceInv, ActiveInv, TypeOK, Tickets, None, Sending
  <2>4. FrameInv'
    BY DEF FrameInv, TypeOK, ActiveInv, TicketInv, Tickets, None, Sending
  <2>5. TicketInv'
    BY DEF TicketInv, TypeOK, ActiveInv, DeviceInv, FrameInv, Tickets, None, Sending, Terminal
  <2> QED
    BY <2>1, <2>2, <2>3, <2>4, <2>5
<1>2. ASSUME NEW o \in Owners, NEW n \in 1..MaxCount, NEW e \in BOOLEAN, NEW s \in BOOLEAN,
             Submit(o, n, e, s) PROVE IInv'
  <2> USE <1>2 DEF Submit, Accepts, client, device, sending
  <2>1. TypeOK'
    BY DEF TypeOK, ActiveInv, FrameInv, Tickets, None, States, Places, Sending, Terminal,
           Requests
  <2>2. ActiveInv'
    BY DEF ActiveInv, TypeOK, TicketInv, DeviceInv, Tickets, None, Sending
  <2>3. DeviceInv'
    BY DEF DeviceInv, ActiveInv, TypeOK, Tickets, None, Sending
  <2>4. FrameInv'
    BY DEF FrameInv, TypeOK, ActiveInv, TicketInv, Tickets, None, Sending
  <2>5. TicketInv'
    <3>1. req'[next] \in Requests /\ 1 \in 1..FrameCount(req'[next])
      BY DEF TypeOK, Requests, FrameCount
    <3>2. 0 <= EventsTotal(req'[next])
      BY <3>1, FrameArithmetic
    <3> QED
      BY <3>1, <3>2 DEF TicketInv, TypeOK, ActiveInv, Tickets, None, Terminal
  <2> QED
    BY <2>1, <2>2, <2>3, <2>4, <2>5
<1>3. ASSUME NEW o \in Owners, Cancel(o) PROVE IInv'
  <2> USE <1>3 DEF Cancel, client, device, sending
  <2>1. TypeOK'
    BY DEF TypeOK, ActiveInv, FrameInv, Tickets, None, States, Places, Sending, Terminal,
           Requests
  <2>2. ActiveInv'
    BY DEF ActiveInv, TypeOK, TicketInv, DeviceInv, Tickets, None, Sending
  <2>3. DeviceInv'
    BY DEF DeviceInv, ActiveInv, TypeOK, Tickets, None, Sending
  <2>4. FrameInv'
    BY DEF FrameInv, TypeOK, ActiveInv, TicketInv, Tickets, None, Sending
  <2>5. TicketInv'
    BY DEF TicketInv, TypeOK, ActiveInv, DeviceInv, FrameInv, Tickets, None, Sending, Terminal
  <2> QED
    BY <2>1, <2>2, <2>3, <2>4, <2>5
<1>4. ASSUME Stop PROVE IInv'
  <2> USE <1>4 DEF Stop, client, device, sending
  <2>1. TypeOK'
    BY DEF TypeOK, ActiveInv, FrameInv, Tickets, None, States, Places, Sending, Terminal,
           Requests
  <2>2. ActiveInv'
    BY DEF ActiveInv, TypeOK, TicketInv, DeviceInv, Tickets, None, Sending
  <2>3. DeviceInv'
    BY DEF DeviceInv, ActiveInv, TypeOK, Tickets, None, Sending
  <2>4. FrameInv'
    BY DEF FrameInv, TypeOK, ActiveInv, TicketInv, Tickets, None, Sending
  <2>5. TicketInv'
    BY DEF TicketInv, TypeOK, ActiveInv, DeviceInv, FrameInv, Tickets, None, Sending, Terminal
  <2> QED
    BY <2>1, <2>2, <2>3, <2>4, <2>5
<1>5. ASSUME Begin PROVE IInv'
  <2> USE <1>5 DEF Begin, Reopen, Leave, client, device, sending
  <2>1. TypeOK'
    BY DEF TypeOK, ActiveInv, FrameInv, Tickets, None, States, Places, Sending, Terminal,
           Requests
  <2>2. ActiveInv'
    BY DEF ActiveInv, TypeOK, TicketInv, DeviceInv, Tickets, None, Sending
  <2>3. DeviceInv'
    BY DEF DeviceInv, ActiveInv, TypeOK, Tickets, None, Sending
  <2>4. FrameInv'
    BY DEF FrameInv, TypeOK, ActiveInv, TicketInv, Tickets, None, Sending
  <2>5. TicketInv'
    BY DEF TicketInv, TypeOK, ActiveInv, DeviceInv, FrameInv, Tickets, None, Sending, Terminal
  <2> QED
    BY <2>1, <2>2, <2>3, <2>4, <2>5
<1>6. ASSUME OpenDevice PROVE IInv'
  <2> USE <1>6 DEF OpenDevice, client, device, sending
  <2>1. TypeOK'
    BY DEF TypeOK, ActiveInv, FrameInv, Tickets, None, States, Places, Sending, Terminal,
           Requests
  <2>2. ActiveInv'
    BY DEF ActiveInv, TypeOK, TicketInv, DeviceInv, Tickets, None, Sending
  <2>3. DeviceInv'
    BY DEF DeviceInv, ActiveInv, TypeOK, Tickets, None, Sending
  <2>4. FrameInv'
    BY DEF FrameInv, TypeOK, ActiveInv, TicketInv, Tickets, None, Sending
  <2>5. TicketInv'
    BY DEF TicketInv, TypeOK, ActiveInv, DeviceInv, FrameInv, Tickets, None, Sending, Terminal
  <2> QED
    BY <2>1, <2>2, <2>3, <2>4, <2>5
<1>7. ASSUME CloseRefused PROVE IInv'
  <2> USE <1>7 DEF CloseRefused, client, device, sending
  <2>1. TypeOK'
    BY DEF TypeOK, ActiveInv, FrameInv, Tickets, None, States, Places, Sending, Terminal,
           Requests
  <2>2. ActiveInv'
    BY DEF ActiveInv, TypeOK, TicketInv, DeviceInv, Tickets, None, Sending
  <2>3. DeviceInv'
    BY DEF DeviceInv, ActiveInv, TypeOK, Tickets, None, Sending
  <2>4. FrameInv'
    BY DEF FrameInv, TypeOK, ActiveInv, TicketInv, Tickets, None, Sending
  <2>5. TicketInv'
    BY DEF TicketInv, TypeOK, ActiveInv, DeviceInv, FrameInv, Tickets, None, Sending, Terminal
  <2> QED
    BY <2>1, <2>2, <2>3, <2>4, <2>5
<1>8. ASSUME RetryOver PROVE IInv'
  <2> USE <1>8 DEF RetryOver, Reopen, Leave, client, device, sending
  <2>1. TypeOK'
    BY DEF TypeOK, ActiveInv, FrameInv, Tickets, None, States, Places, Sending, Terminal,
           Requests
  <2>2. ActiveInv'
    BY DEF ActiveInv, TypeOK, TicketInv, DeviceInv, Tickets, None, Sending
  <2>3. DeviceInv'
    BY DEF DeviceInv, ActiveInv, TypeOK, Tickets, None, Sending
  <2>4. FrameInv'
    BY DEF FrameInv, TypeOK, ActiveInv, TicketInv, Tickets, None, Sending
  <2>5. TicketInv'
    BY DEF TicketInv, TypeOK, ActiveInv, DeviceInv, FrameInv, Tickets, None, Sending, Terminal
  <2> QED
    BY <2>1, <2>2, <2>3, <2>4, <2>5
<1>9. ASSUME WarmupOver PROVE IInv'
  <2> USE <1>9 DEF WarmupOver, Leave, client, device, sending
  <2>1. TypeOK'
    BY DEF TypeOK, ActiveInv, FrameInv, Tickets, None, States, Places, Sending, Terminal,
           Requests
  <2>2. ActiveInv'
    BY DEF ActiveInv, TypeOK, TicketInv, DeviceInv, Tickets, None, Sending
  <2>3. DeviceInv'
    BY DEF DeviceInv, ActiveInv, TypeOK, Tickets, None, Sending
  <2>4. FrameInv'
    BY DEF FrameInv, TypeOK, ActiveInv, TicketInv, Tickets, None, Sending
  <2>5. TicketInv'
    BY DEF TicketInv, TypeOK, ActiveInv, DeviceInv, FrameInv, Tickets, None, Sending, Terminal
  <2> QED
    BY <2>1, <2>2, <2>3, <2>4, <2>5
<1>10. ASSUME TakeBatch PROVE IInv'
  <2> USE <1>10 DEF TakeBatch, NoFrame, IsFront, client, device, sending
  <2>1. TypeOK'
    BY DEF TypeOK, ActiveInv, FrameInv, Tickets, None, States, Places, Sending, Terminal,
           Requests
  <2>2. ActiveInv'
    BY DEF ActiveInv, TypeOK, TicketInv, DeviceInv, Tickets, None, Sending
  <2>3. DeviceInv'
    BY DEF DeviceInv, ActiveInv, TypeOK, Tickets, None, Sending
  <2>4. FrameInv'
    <3>1. req'[active'] \in Requests /\ 1 \in 1..FrameCount(req'[active'])
      BY DEF TypeOK, Requests, FrameCount
    <3>2. /\ EventsBefore(req'[active'], 1) = 0
          /\ 0 < EventsOf(FrameAt(req'[active'], 1))
      BY <3>1, FrameArithmetic
    <3> QED
      BY <3>1, <3>2 DEF FrameInv, TypeOK, ActiveInv, TicketInv, Tickets, None, Sending
  <2>5. TicketInv'
    BY DEF TicketInv, TypeOK, ActiveInv, DeviceInv, FrameInv, Tickets, None, Sending, Terminal
  <2> QED
    BY <2>1, <2>2, <2>3, <2>4, <2>5
<1>11. ASSUME WaitStopped PROVE IInv'
  <2> USE <1>11 DEF WaitStopped, Leave, client, device, sending
  <2>1. TypeOK'
    BY DEF TypeOK, ActiveInv, FrameInv, Tickets, None, States, Places, Sending, Terminal,
           Requests
  <2>2. ActiveInv'
    BY DEF ActiveInv, TypeOK, TicketInv, DeviceInv, Tickets, None, Sending
  <2>3. DeviceInv'
    BY DEF DeviceInv, ActiveInv, TypeOK, Tickets, None, Sending
  <2>4. FrameInv'
    BY DEF FrameInv, TypeOK, ActiveInv, TicketInv, Tickets, None, Sending
  <2>5. TicketInv'
    BY DEF TicketInv, TypeOK, ActiveInv, DeviceInv, FrameInv, Tickets, None, Sending, Terminal
  <2> QED
    BY <2>1, <2>2, <2>3, <2>4, <2>5
<1>12. ASSUME Write PROVE IInv'
  <2> USE <1>12 DEF Write, Held, client, device, sending
  <2>0. pc \in Sending
    BY DEF Sending
  <2>t. Typing
    BY <2>0, TypingFacts
  <2> USE <2>0, <2>t DEF CurrentFrame, Typing
  <2>1. TypeOK'
    <3>1. /\ frame' \in 1..(MaxCount + 3) /\ offset' \in 0..3
          /\ retries' \in 0..MaxRetries /\ result' \in -1..4
      BY DEF TypeOK, FrameInv, Sending
    <3>2. /\ state' \in [Tickets -> States] /\ req' \in [Tickets -> Requests]
          /\ delivered' \in [Tickets -> Nat] /\ down' \subseteq Keys
      BY DEF TypeOK, States
    <3>3. /\ next' \in 1..(MaxTickets + 1) /\ queue' \subseteq Tickets
          /\ active' \in Tickets \cup {None} /\ pc' \in Places
          /\ available' \in BOOLEAN /\ stopping' \in BOOLEAN /\ opened' \in BOOLEAN
      BY DEF TypeOK, Places
    <3> QED
      BY <3>1, <3>2, <3>3 DEF TypeOK
  <2>2. ActiveInv'
    BY DEF ActiveInv, TypeOK, TicketInv, DeviceInv, Tickets, None, Sending
  <2>3. DeviceInv'
    BY DEF DeviceInv, ActiveInv, TypeOK, Tickets, None, Sending
  <2>4. FrameInv'
    BY DEF FrameInv, TypeOK, ActiveInv, TicketInv, Tickets, None, Sending
  <2>5. TicketInv'
    <3>1. /\ state[active] \in {"Queued", "Cancelled"}
          /\ active \notin queue /\ active < next
      BY DEF ActiveInv, TicketInv, TypeOK, Tickets
    <3>2. /\ \A t \in Tickets \ {active} : delivered'[t] = delivered[t]
          /\ delivered'[active] <= EventsTotal(req[active])
      BY DEF FrameInv, TypeOK
    <3> QED
      BY <3>1, <3>2 DEF TicketInv, Tickets, TypeOK
  <2> QED
    BY <2>1, <2>2, <2>3, <2>4, <2>5
<1>13. ASSUME ShortWrite PROVE IInv'
  <2> USE <1>13 DEF ShortWrite, client, device, sending
  <2>0. pc \in Sending
    BY DEF Sending
  <2>t. Typing
    BY <2>0, TypingFacts
  <2> USE <2>0, <2>t DEF CurrentFrame, Typing
  <2>1. TypeOK'
    <3>1. /\ frame' \in 1..(MaxCount + 3) /\ offset' \in 0..3
          /\ retries' \in 0..MaxRetries /\ result' \in -1..4
      BY DEF TypeOK, FrameInv, Sending
    <3>2. /\ state' \in [Tickets -> States] /\ req' \in [Tickets -> Requests]
          /\ delivered' \in [Tickets -> Nat] /\ down' \subseteq Keys
      BY DEF TypeOK, States
    <3>3. /\ next' \in 1..(MaxTickets + 1) /\ queue' \subseteq Tickets
          /\ active' \in Tickets \cup {None} /\ pc' \in Places
          /\ available' \in BOOLEAN /\ stopping' \in BOOLEAN /\ opened' \in BOOLEAN
      BY DEF TypeOK, Places
    <3> QED
      BY <3>1, <3>2, <3>3 DEF TypeOK
  <2>2. ActiveInv'
    BY DEF ActiveInv, TypeOK, TicketInv, DeviceInv, Tickets, None, Sending
  <2>3. DeviceInv'
    BY DEF DeviceInv, ActiveInv, TypeOK, Tickets, None, Sending
  <2>4. FrameInv'
    BY DEF FrameInv, TypeOK, ActiveInv, TicketInv, Tickets, None, Sending
  <2>5. TicketInv'
    BY DEF TicketInv, TypeOK, ActiveInv, DeviceInv, FrameInv, Tickets, None, Sending, Terminal
  <2> QED
    BY <2>1, <2>2, <2>3, <2>4, <2>5
<1>14. ASSUME SentAndPace PROVE IInv'
  <2> USE <1>14 DEF SentAndPace, FrameSent, NoFrame, client, device, sending
  <2>0. pc \in Sending
    BY DEF Sending
  <2>t. Typing
    BY <2>0, TypingFacts
  <2> USE <2>0, <2>t DEF CurrentFrame, Typing
  <2>1. TypeOK'
    <3>1. /\ frame' \in 1..(MaxCount + 3) /\ offset' \in 0..3
          /\ retries' \in 0..MaxRetries /\ result' \in -1..4
      BY DEF TypeOK, FrameInv, Sending
    <3>2. /\ state' \in [Tickets -> States] /\ req' \in [Tickets -> Requests]
          /\ delivered' \in [Tickets -> Nat] /\ down' \subseteq Keys
      BY DEF TypeOK, States
    <3>3. /\ next' \in 1..(MaxTickets + 1) /\ queue' \subseteq Tickets
          /\ active' \in Tickets \cup {None} /\ pc' \in Places
          /\ available' \in BOOLEAN /\ stopping' \in BOOLEAN /\ opened' \in BOOLEAN
      BY DEF TypeOK, Places
    <3> QED
      BY <3>1, <3>2, <3>3 DEF TypeOK
  <2>2. ActiveInv'
    BY DEF ActiveInv, TypeOK, TicketInv, DeviceInv, Tickets, None, Sending
  <2>3. DeviceInv'
    BY DEF DeviceInv, ActiveInv, TypeOK, Tickets, None, Sending
  <2>4. FrameInv'
    BY DEF FrameInv, TypeOK, ActiveInv, TicketInv, Tickets, None, Sending
  <2>5. TicketInv'
    BY DEF TicketInv, TypeOK, ActiveInv, DeviceInv, FrameInv, Tickets, None, Sending, Terminal
  <2> QED
    BY <2>1, <2>2, <2>3, <2>4, <2>5
<1>15. ASSUME SentAndGoOn PROVE IInv'
  <2> USE <1>15 DEF SentAndGoOn, FrameSent, NextFrame, GoesOn, Paced, client, device, sending
  <2>0. pc \in Sending
    BY DEF Sending
  <2>t. Typing
    BY <2>0, TypingFacts
  <2> USE <2>0, <2>t DEF CurrentFrame, Typing
  <2>1. TypeOK'
    <3>1. /\ frame' \in 1..(MaxCount + 3) /\ offset' \in 0..3
          /\ retries' \in 0..MaxRetries /\ result' \in -1..4
      BY DEF TypeOK, FrameInv, Sending
    <3>2. /\ state' \in [Tickets -> States] /\ req' \in [Tickets -> Requests]
          /\ delivered' \in [Tickets -> Nat] /\ down' \subseteq Keys
      BY DEF TypeOK, States
    <3>3. /\ next' \in 1..(MaxTickets + 1) /\ queue' \subseteq Tickets
          /\ active' \in Tickets \cup {None} /\ pc' \in Places
          /\ available' \in BOOLEAN /\ stopping' \in BOOLEAN /\ opened' \in BOOLEAN
      BY DEF TypeOK, Places
    <3> QED
      BY <3>1, <3>2, <3>3 DEF TypeOK
  <2>2. ActiveInv'
    BY DEF ActiveInv, TypeOK, TicketInv, DeviceInv, Tickets, None, Sending
  <2>3. DeviceInv'
    BY DEF DeviceInv, ActiveInv, TypeOK, Tickets, None, Sending
  <2>4. FrameInv'
    <3>1. delivered[active] = EventsBefore(req[active], frame + 1)
      BY DEF FrameInv, TypeOK
    <3> QED
      BY <3>1, NextFrameInv DEF Interrupted
  <2>5. TicketInv'
    BY DEF TicketInv, TypeOK, ActiveInv, DeviceInv, FrameInv, Tickets, None, Sending, Terminal
  <2> QED
    BY <2>1, <2>2, <2>3, <2>4, <2>5
<1>16. ASSUME SentAndFinish PROVE IInv'
  <2> USE <1>16 DEF SentAndFinish, FrameSent, Finish, Leave, GoesOn, Paced, Outcome,
                    NoFrame, Interrupted, client, device, sending
  <2>0. pc \in Sending
    BY DEF Sending
  <2>t. Typing
    BY <2>0, TypingFacts
  <2> USE <2>0, <2>t DEF CurrentFrame, Typing
  <2>1. TypeOK'
    <3>1. /\ frame' \in 1..(MaxCount + 3) /\ offset' \in 0..3
          /\ retries' \in 0..MaxRetries /\ result' \in -1..4
      BY DEF TypeOK, FrameInv, Sending
    <3>2. /\ state' \in [Tickets -> States] /\ req' \in [Tickets -> Requests]
          /\ delivered' \in [Tickets -> Nat] /\ down' \subseteq Keys
      BY DEF TypeOK, States
    <3>3. /\ next' \in 1..(MaxTickets + 1) /\ queue' \subseteq Tickets
          /\ active' \in Tickets \cup {None} /\ pc' \in Places
          /\ available' \in BOOLEAN /\ stopping' \in BOOLEAN /\ opened' \in BOOLEAN
      BY DEF TypeOK, Places
    <3> QED
      BY <3>1, <3>2, <3>3 DEF TypeOK
  <2>2. ActiveInv'
    BY DEF ActiveInv, TypeOK, TicketInv, DeviceInv, Tickets, None, Sending
  <2>3. DeviceInv'
    BY DEF DeviceInv, ActiveInv, TypeOK, Tickets, None, Sending
  <2>4. FrameInv'
    BY DEF FrameInv, TypeOK, ActiveInv, TicketInv, Tickets, None, Sending
  <2>5. TicketInv'
    <3>1. delivered[active] = EventsBefore(req[active], frame + 1)
      BY DEF FrameInv, TypeOK
    <3> QED
      BY <3>1, FinishInv
  <2> QED
    BY <2>1, <2>2, <2>3, <2>4, <2>5
<1>17. ASSUME PaceOver PROVE IInv'
  <2> USE <1>17 DEF PaceOver, NextFrame, Finish, Leave, GoesOn, Paced, Outcome, NoFrame,
                    Interrupted, client, device, sending
  <2>0. pc \in Sending
    BY DEF Sending
  <2>t. Typing
    BY <2>0, TypingFacts
  <2> USE <2>0, <2>t DEF CurrentFrame, Typing
  <2>1. TypeOK'
    <3>1. /\ frame' \in 1..(MaxCount + 3) /\ offset' \in 0..3
          /\ retries' \in 0..MaxRetries /\ result' \in -1..4
      BY DEF TypeOK, FrameInv, Sending
    <3>2. /\ state' \in [Tickets -> States] /\ req' \in [Tickets -> Requests]
          /\ delivered' \in [Tickets -> Nat] /\ down' \subseteq Keys
      BY DEF TypeOK, States
    <3>3. /\ next' \in 1..(MaxTickets + 1) /\ queue' \subseteq Tickets
          /\ active' \in Tickets \cup {None} /\ pc' \in Places
          /\ available' \in BOOLEAN /\ stopping' \in BOOLEAN /\ opened' \in BOOLEAN
      BY DEF TypeOK, Places
    <3> QED
      BY <3>1, <3>2, <3>3 DEF TypeOK
  <2>2. ActiveInv'
    BY DEF ActiveInv, TypeOK, TicketInv, DeviceInv, Tickets, None, Sending
  <2>3. DeviceInv'
    BY DEF DeviceInv, ActiveInv, TypeOK, Tickets, None, Sending
  <2>4. FrameInv'
    <3>1. delivered[active] = EventsBefore(req[active], frame + 1)
      BY DEF FrameInv, TypeOK
    <3>2. CASE GoesOn
      BY <3>1, <3>2, NextFrameInv
    <3>3. CASE ~GoesOn
      BY <3>3 DEF FrameInv, Sending
    <3> QED
      BY <3>2, <3>3
  <2>5. TicketInv'
    <3>1. delivered[active] = EventsBefore(req[active], frame + 1)
      BY DEF FrameInv, TypeOK
    <3>2. CASE GoesOn
      BY <3>2 DEF TicketInv, TypeOK
    <3>3. CASE ~GoesOn
      BY <3>1, <3>3, FinishInv
    <3> QED
      BY <3>2, <3>3
  <2> QED
    BY <2>1, <2>2, <2>3, <2>4, <2>5
<1>18. ASSUME Backoff PROVE IInv'
  <2> USE <1>18 DEF Backoff, RetryLimit, client, device, sending
  <2>0. pc \in Sending
    BY DEF Sending
  <2>t. Typing
    BY <2>0, TypingFacts
  <2> USE <2>0, <2>t DEF CurrentFrame, Typing
  <2>1. TypeOK'
    <3>1. /\ frame' \in 1..(MaxCount + 3) /\ offset' \in 0..3
          /\ retries' \in 0..MaxRetries /\ result' \in -1..4
      BY DEF TypeOK, FrameInv, Sending
    <3>2. /\ state' \in [Tickets -> States] /\ req' \in [Tickets -> Requests]
          /\ delivered' \in [Tickets -> Nat] /\ down' \subseteq Keys
      BY DEF TypeOK, States
    <3>3. /\ next' \in 1..(MaxTickets + 1) /\ queue' \subseteq Tickets
          /\ active' \in Tickets \cup {None} /\ pc' \in Places
          /\ available' \in BOOLEAN /\ stopping' \in BOOLEAN /\ opened' \in BOOLEAN
      BY DEF TypeOK, Places
    <3> QED
      BY <3>1, <3>2, <3>3 DEF TypeOK
  <2>2. ActiveInv'
    BY DEF ActiveInv, TypeOK, TicketInv, DeviceInv, Tickets, None, Sending
  <2>3. DeviceInv'
    BY DEF DeviceInv, ActiveInv, TypeOK, Tickets, None, Sending
  <2>4. FrameInv'
    BY DEF FrameInv, TypeOK, ActiveInv, TicketInv, Tickets, None, Sending
  <2>5. TicketInv'
    BY DEF TicketInv, TypeOK, ActiveInv, DeviceInv, FrameInv, Tickets, None, Sending, Terminal
  <2> QED
    BY <2>1, <2>2, <2>3, <2>4, <2>5
<1>19. ASSUME BackoffOver PROVE IInv'
  <2> USE <1>19 DEF BackoffOver, client, device, sending
  <2>1. TypeOK'
    BY DEF TypeOK, ActiveInv, FrameInv, Tickets, None, States, Places, Sending, Terminal,
           Requests
  <2>2. ActiveInv'
    BY DEF ActiveInv, TypeOK, TicketInv, DeviceInv, Tickets, None, Sending
  <2>3. DeviceInv'
    BY DEF DeviceInv, ActiveInv, TypeOK, Tickets, None, Sending
  <2>4. FrameInv'
    BY DEF FrameInv, TypeOK, ActiveInv, TicketInv, Tickets, None, Sending
  <2>5. TicketInv'
    BY DEF TicketInv, TypeOK, ActiveInv, DeviceInv, FrameInv, Tickets, None, Sending, Terminal
  <2> QED
    BY <2>1, <2>2, <2>3, <2>4, <2>5
<1>20. ASSUME SendFails PROVE IInv'
  <2> USE <1>20 DEF SendFails, NoFrame, RetryLimit, client, device, sending
  <2>0. pc \in Sending
    BY DEF Sending
  <2>t. Typing
    BY <2>0, TypingFacts
  <2> USE <2>0, <2>t DEF CurrentFrame, Typing
  <2>1. TypeOK'
    <3>1. /\ frame' \in 1..(MaxCount + 3) /\ offset' \in 0..3
          /\ retries' \in 0..MaxRetries /\ result' \in -1..4
      BY DEF TypeOK, FrameInv, Sending
    <3>2. /\ state' \in [Tickets -> States] /\ req' \in [Tickets -> Requests]
          /\ delivered' \in [Tickets -> Nat] /\ down' \subseteq Keys
      BY DEF TypeOK, States
    <3>3. /\ next' \in 1..(MaxTickets + 1) /\ queue' \subseteq Tickets
          /\ active' \in Tickets \cup {None} /\ pc' \in Places
          /\ available' \in BOOLEAN /\ stopping' \in BOOLEAN /\ opened' \in BOOLEAN
      BY DEF TypeOK, Places
    <3> QED
      BY <3>1, <3>2, <3>3 DEF TypeOK
  <2>2. ActiveInv'
    BY DEF ActiveInv, TypeOK, TicketInv, DeviceInv, Tickets, None, Sending
  <2>3. DeviceInv'
    BY DEF DeviceInv, ActiveInv, TypeOK, Tickets, None, Sending
  <2>4. FrameInv'
    BY DEF FrameInv, TypeOK, ActiveInv, TicketInv, Tickets, None, Sending
  <2>5. TicketInv'
    BY DEF TicketInv, TypeOK, ActiveInv, DeviceInv, FrameInv, Tickets, None, Sending, Terminal
  <2> QED
    BY <2>1, <2>2, <2>3, <2>4, <2>5
<1>21. ASSUME CloseFailed PROVE IInv'
  <2> USE <1>21 DEF CloseFailed, client, device, sending
  <2>1. TypeOK'
    BY DEF TypeOK, ActiveInv, FrameInv, Tickets, None, States, Places, Sending, Terminal,
           Requests
  <2>2. ActiveInv'
    BY DEF ActiveInv, TypeOK, TicketInv, DeviceInv, Tickets, None, Sending
  <2>3. DeviceInv'
    BY DEF DeviceInv, ActiveInv, TypeOK, Tickets, None, Sending
  <2>4. FrameInv'
    BY DEF FrameInv, TypeOK, ActiveInv, TicketInv, Tickets, None, Sending
  <2>5. TicketInv'
    BY DEF TicketInv, TypeOK, ActiveInv, DeviceInv, FrameInv, Tickets, None, Sending, Terminal
  <2> QED
    BY <2>1, <2>2, <2>3, <2>4, <2>5
<1>22. ASSUME CloseExit PROVE IInv'
  <2> USE <1>22 DEF CloseExit, client, device, sending
  <2>1. TypeOK'
    BY DEF TypeOK, ActiveInv, FrameInv, Tickets, None, States, Places, Sending, Terminal,
           Requests
  <2>2. ActiveInv'
    BY DEF ActiveInv, TypeOK, TicketInv, DeviceInv, Tickets, None, Sending
  <2>3. DeviceInv'
    BY DEF DeviceInv, ActiveInv, TypeOK, Tickets, None, Sending
  <2>4. FrameInv'
    BY DEF FrameInv, TypeOK, ActiveInv, TicketInv, Tickets, None, Sending
  <2>5. TicketInv'
    BY DEF TicketInv, TypeOK, ActiveInv, DeviceInv, FrameInv, Tickets, None, Sending, Terminal
  <2> QED
    BY <2>1, <2>2, <2>3, <2>4, <2>5
<1>23. CASE UNCHANGED vars
  BY <1>23 DEF vars, TypeOK, ActiveInv, DeviceInv, FrameInv, TicketInv
<1> QED
  BY <1>1, <1>2, <1>3, <1>4, <1>5, <1>6, <1>7, <1>8, <1>9, <1>10, <1>11, <1>12, <1>13, <1>14,
     <1>15, <1>16, <1>17, <1>18, <1>19, <1>20, <1>21, <1>22, <1>23
     DEF Next, Client, Worker, Terminated

\* TypeOK, and with it the worker's bookkeeping, holds in every reachable state.
THEOREM Invariance == Spec => []IInv
<1>1. Init => IInv
  BY InitIInv
<1>2. IInv /\ [Next]_vars => IInv'
  BY NextIInv
<1> QED
  BY <1>1, <1>2, PTL DEF Spec

\* The variables of uinput_injector.cpp keep their types: the retries, the
\* frames and the partial writes stay within the code's limits.
THEOREM TypeCorrect == Spec => []TypeOK
<1>1. IInv => TypeOK
  BY DEF IInv
<1> QED
  BY <1>1, Invariance, PTL

\* No accepted request is forgotten: while it is Queued, run() has it waiting or
\* is typing it.
THEOREM NothingOrphaned == Spec => []NoOrphan
<1>1. IInv => NoOrphan
  BY DEF IInv, TypeOK, TicketInv, NoOrphan, Tickets, Terminal
<1> QED
  BY <1>1, Invariance, PTL

\* A batch waits only behind a device that is open: none is left to a device
\* that is being closed or opened again.
THEOREM QueueServable == Spec => []QueueSound
<1>1. IInv => QueueSound
  BY DEF IInv, TypeOK, TicketInv, DeviceInv, QueueSound, Places, Sending
<1> QED
  BY <1>1, Invariance, PTL

\* Complete means typed: every event of the batch was taken by the kernel,
\* once, through every sequence of short writes, retries and interruptions.
THEOREM CompletionExact == Spec => []CompleteIsExact
<1>1. IInv => CompleteIsExact
  BY DEF IInv, TicketInv, CompleteIsExact
<1> QED
  BY <1>1, Invariance, PTL

\* A ticket that has ended never revives, and never turns into Complete.
THEOREM TerminalFinal == Spec => TerminalIsFinal
<1> DEFINE Final ==
      \A t \in Tickets :
          /\ state[t] = "Complete" => state'[t] = "Complete"
          /\ state[t] \in Terminal => state'[t] \in Terminal
          /\ state[t] \in {"Failed", "Cancelled"} => state'[t] # "Complete"
<1>1. IInv /\ [Next]_vars => [Final]_vars
  <2> SUFFICES ASSUME IInv, [Next]_vars, NEW t \in Tickets, state[t] \in Terminal
               PROVE  /\ state[t] = "Complete" => state'[t] = "Complete"
                      /\ state'[t] \in Terminal
                      /\ state[t] \in {"Failed", "Cancelled"} => state'[t] # "Complete"
    BY DEF Terminal
  <2>1. t < next /\ t \notin queue /\ t \in Nat
    BY DEF IInv, TypeOK, TicketInv, Terminal, Tickets
  <2>2. t = active => state[t] \in {"Failed", "Cancelled"} /\ pc \in Sending \cup {"closeFail"}
    BY <2>1 DEF IInv, ActiveInv, None, TypeOK, Tickets, Terminal
  <2> USE DEF Terminal
  <2>3. CASE UNCHANGED state
    BY <2>3
  <2>4. ASSUME NEW o \in Owners, NEW n \in 1..MaxCount, NEW e \in BOOLEAN, NEW s \in BOOLEAN,
               Submit(o, n, e, s)
        PROVE  state'[t] = state[t]
    BY <2>1, <2>4 DEF Submit, IInv, TypeOK
  <2>5. ASSUME NEW o \in Owners, Cancel(o)
        PROVE  state'[t] = state[t] \/ (state'[t] = "Cancelled" /\ t = active)
    BY <2>1, <2>5 DEF Cancel
  <2>6. CASE Begin \/ RetryOver \/ WarmupOver \/ WaitStopped
    BY <2>1, <2>6 DEF Begin, RetryOver, WarmupOver, WaitStopped, Reopen, Leave
  <2>7. CASE SentAndFinish \/ PaceOver
    <3>1. Finish \/ UNCHANGED state
      BY <2>7 DEF SentAndFinish, PaceOver, NextFrame
    <3>2. state[active] = "Cancelled" => Outcome(active) = "Cancelled"
      BY DEF Outcome
    <3>3. t = active => state[t] = "Cancelled"
      BY <2>2, <2>7 DEF IInv, ActiveInv, SentAndFinish, FrameSent, PaceOver, Sending
    <3> QED
      BY <2>1, <3>1, <3>2, <3>3 DEF Finish, Leave, IInv, TypeOK
  <2>8. CASE SendFails \/ CloseFailed
    BY <2>1, <2>2, <2>8 DEF SendFails, CloseFailed, IInv, TypeOK
  <2>9. \/ UNCHANGED state
        \/ \E o \in Owners, n \in 1..MaxCount, e, s \in BOOLEAN : Submit(o, n, e, s)
        \/ \E o \in Owners : Cancel(o)
        \/ Begin \/ RetryOver \/ WarmupOver \/ WaitStopped
        \/ SentAndFinish \/ PaceOver \/ SendFails \/ CloseFailed
    BY DEF Next, Client, Worker, Terminated, vars, Start, Stop, OpenDevice, CloseRefused,
           TakeBatch, Write, ShortWrite, SentAndPace, SentAndGoOn, NextFrame, Backoff,
           BackoffOver, CloseExit
  <2> QED
    BY <2>2, <2>3, <2>4, <2>5, <2>6, <2>7, <2>8, <2>9
<1> QED
  BY <1>1, Invariance, PTL DEF TerminalIsFinal, Spec

\* Batches are typed one at a time and in the order in which the engine's
\* requests were accepted, whichever input contexts they came from.
THEOREM InOrder == Spec => TypedInOrder
<1> DEFINE Ordered ==
      \A t \in Tickets : delivered'[t] # delivered[t] =>
          /\ t = active
          /\ \A u \in 1..(t - 1) : state[u] \in Terminal
          /\ state[t] \in {"Queued", "Cancelled"}
<1>1. IInv /\ [Next]_vars => [Ordered]_vars
  <2> SUFFICES ASSUME IInv, [Next]_vars, NEW t \in Tickets, delivered'[t] # delivered[t]
               PROVE  /\ t = active
                      /\ \A u \in 1..(t - 1) : state[u] \in Terminal
                      /\ state[t] \in {"Queued", "Cancelled"}
    OBVIOUS
  <2>1. Write
    BY DEF Next, Client, Worker, Terminated, vars, device, Start, Submit, Cancel, Stop,
           Begin, OpenDevice, CloseRefused, RetryOver, WarmupOver, TakeBatch, WaitStopped,
           ShortWrite, SentAndPace, SentAndGoOn, SentAndFinish, PaceOver, NextFrame, Finish,
           Backoff, BackoffOver, SendFails, CloseFailed, CloseExit
  <2>2. pc \in Sending /\ active \in Tickets /\ active < next /\ t = active
    BY <2>1 DEF Write, IInv, TypeOK, ActiveInv, Sending, None, Tickets
  <2>3. ASSUME NEW u \in 1..(t - 1) PROVE state[u] \in Terminal
    <3>1. u \in Tickets /\ u < next /\ u # active /\ u < active
      BY <2>2, InjectorAssumption DEF IInv, TypeOK, Tickets
    <3>2. u \notin queue
      BY <2>2, <3>1 DEF IInv, TicketInv, Tickets
    <3> QED
      BY <3>1, <3>2 DEF IInv, TicketInv
  <2> QED
    BY <2>2, <2>3 DEF IInv, ActiveInv
<1> QED
  BY <1>1, Invariance, PTL DEF TypedInOrder, Spec

\* A cancelled batch types nothing beyond the frame in which the cancel found it.
THEOREM CancelStops == Spec => CancelStopsAtFrame
<1> DEFINE Stops ==
      active # None /\ active' = active /\ state[active] = "Cancelled" => frame' <= frame
<1>1. IInv /\ [Next]_vars => [Stops]_vars
  <2> SUFFICES ASSUME IInv, [Next]_vars, active # None, active' = active,
                      state[active] = "Cancelled"
               PROVE  frame' <= frame
    OBVIOUS
  <2>1. frame \in Nat /\ frame >= 1
    BY InjectorAssumption DEF IInv, TypeOK
  <2>2. ~GoesOn
    BY DEF GoesOn, Interrupted
  <2>3. ~TakeBatch
    BY DEF TakeBatch, IInv, ActiveInv, Sending
  <2>4. frame' = frame \/ frame' = 1
    BY <2>2, <2>3 DEF Next, Client, Worker, Terminated, vars, sending, Start, Submit, Cancel,
           Stop, Begin, OpenDevice, CloseRefused, RetryOver, WarmupOver, WaitStopped, Write,
           ShortWrite, SentAndPace, SentAndGoOn, SentAndFinish, PaceOver, Finish, NoFrame,
           Backoff, BackoffOver, SendFails, CloseFailed, CloseExit
  <2> QED
    BY <2>1, <2>4
<1> QED
  BY <1>1, Invariance, PTL DEF CancelStopsAtFrame, Spec

---------------------------------------------------------------------------
(* UinputInjector implements InjectionService, one step for one step.      *)

\* A step that leaves the tickets, the turn and what was typed alone is not seen.
LEMMA Unseen ==
    ASSUME UNCHANGED <<req, state, active, delivered>>
    PROVE  UNCHANGED Service!svars
<1>1. \A t \in Tickets : Taken(t)' = Taken(t)
  BY DEF Taken
<1> QED
  BY <1>1 DEF Service!svars

\* Tickets end, and perhaps the turn of one of them.
LEMMA SettleSeen ==
    ASSUME IInv, state' \in [Tickets -> States], UNCHANGED <<req, delivered>>,
           active' = active \/ (active' = None /\ state'[active] \in Terminal),
           \A t \in Tickets :
              \/ state'[t] = state[t]
              \/ /\ state[t] \in {"Queued", "Failed", "Cancelled"}
                 /\ state'[t] \in {"Failed", "Cancelled"}
              \/ /\ state[t] = "Queued" /\ state'[t] = "Complete" /\ active = t /\ active' = None
                 /\ delivered[t] = EventsTotal(req[t]) /\ delivered[t] > 0
    PROVE  Service!ServiceNext
<1> USE InjectorAssumption DEF Tickets, Service!Tickets, Terminal, Service!Ended, None, Service!None
<1>1. UNCHANGED [t \in Tickets |-> Taken(t)]
  BY DEF Taken
<1>2. state' \in [Tickets -> {"Free", "Queued"} \cup Terminal]
  BY DEF States
<1>3. \A t \in Tickets : Service!MayBecome(t, state'[t])
  BY DEF Service!MayBecome, Taken
<1>4. Service!Settle
  BY <1>1, <1>2, <1>3 DEF Service!Settle
<1> QED
  BY <1>4 DEF Service!ServiceNext

\* A request that is accepted is the next one.
LEMMA SubmitSeen ==
    ASSUME IInv, NEW o \in Owners, NEW n \in 1..MaxCount, NEW e \in BOOLEAN, NEW s \in BOOLEAN,
           Submit(o, n, e, s)
    PROVE  Service!ServiceNext
<1> USE InjectorAssumption DEF Submit, IInv, TypeOK, Tickets, device
<1>1. next \in Tickets /\ state[next] = "Free" /\ delivered[next] = 0
  BY DEF TicketInv
<1>2. UNCHANGED [t \in Tickets |-> Taken(t)]
  BY <1>1 DEF Taken
<1>3. \A t \in 1..(next - 1) : t \in Tickets /\ state[t] # "Free"
  <2> SUFFICES ASSUME NEW t \in Tickets, t < next PROVE state[t] # "Free"
    OBVIOUS
  <2>1. CASE t = active
    BY <2>1 DEF ActiveInv, None
  <2>2. CASE t # active
    BY <2>2 DEF TicketInv, Terminal
  <2> QED
    BY <2>1, <2>2
<1>4. Service!Accept(next)
  BY <1>1, <1>2, <1>3 DEF Service!Accept
<1> QED
  BY <1>1, <1>4 DEF Service!ServiceNext, Service!Tickets

\* cancel() ends tickets that wait, and marks the active one.
LEMMA CancelSeen ==
    ASSUME IInv, NEW o \in Owners, Cancel(o)
    PROVE  Service!ServiceNext
<1> USE DEF Cancel, client, device
<1>1. \A t \in Tickets : state'[t] = state[t] \/ (state'[t] = "Cancelled"
                            /\ state[t] \in {"Queued", "Failed", "Cancelled"})
  BY DEF IInv, TypeOK, ActiveInv, TicketInv, None, Tickets
<1>2. state' \in [Tickets -> States]
  BY DEF IInv, TypeOK, States
<1> QED
  BY <1>1, <1>2, SettleSeen

\* The first ticket that waits gets the turn; those before it have ended.
LEMMA TakeSeen == ASSUME IInv, TakeBatch PROVE Service!ServiceNext
<1> USE InjectorAssumption DEF TakeBatch, IInv, TypeOK, Tickets, client, device
<1>1. PICK u \in queue : IsFront(u) /\ active' = u
  OBVIOUS
<1>2. u \in Tickets /\ active = None /\ state[u] = "Queued" /\ u < next
  BY <1>1 DEF ActiveInv, TicketInv, Sending, None
<1>3. \A t \in 1..(u - 1) : state[t] \in Terminal
  <2> SUFFICES ASSUME NEW t \in Tickets, t < u PROVE state[t] \in Terminal
    BY <1>2
  <2>1. t < next /\ t \notin queue /\ t # active
    BY <1>1, <1>2 DEF IsFront, None
  <2> QED
    BY <2>1 DEF TicketInv
<1>4. UNCHANGED [t \in Tickets |-> Taken(t)]
  BY DEF Taken
<1>5. Service!Take(u)
  BY <1>1, <1>2, <1>3, <1>4 DEF Service!Take, Service!Ended, Terminal, Service!None, None
<1> QED
  BY <1>2, <1>5 DEF Service!ServiceNext, Service!Tickets

\* What the kernel takes is typed in the turn of the active ticket, which has not had all.
LEMMA WriteSeen ==
    ASSUME IInv, Write
    PROVE  Service!ServiceNext \/ UNCHANGED Service!svars
<1> USE DEF Write, client
<1>1. PICK n \in -1..(EventsOf(CurrentFrame) - offset) : Write!2!(n)
  OBVIOUS
<1>2. CASE n <= 0
  BY <1>1, <1>2, Unseen
<1>3. CASE n > 0
  <2>1. Typing
    BY TypingFacts DEF Sending
  <2>2. PICK u \in Tickets : u = active
    BY <2>1 DEF Typing
  <2>3. /\ delivered[u] \in Nat /\ delivered'[u] = delivered[u] + n
        /\ \A t \in Tickets \ {u} : delivered'[t] = delivered[t]
    BY <1>1, <1>3, <2>2 DEF IInv, TypeOK
  <2>4. delivered[u] < EventsTotal(req[u])
    BY <2>1, <2>2 DEF IInv, FrameInv, Typing, TypeOK, Sending
  <2>5. [t \in Tickets |-> Taken(t)]' = [[t \in Tickets |-> Taken(t)] EXCEPT ![u] = Taken(u)']
    BY <2>3 DEF Taken
  <2>6. Taken(u) # "all" /\ Taken(u)' \in {"some", "all"}
    BY <1>3, <2>3, <2>4 DEF Taken
  <2>7. state[u] \in {"Queued", "Cancelled"}
    BY <2>2 DEF IInv, ActiveInv, Sending
  <2>8. Service!Type(u)
    BY <2>2, <2>5, <2>6, <2>7 DEF Service!Type
  <2> QED
    BY <2>8 DEF Service!ServiceNext, Service!Tickets, Tickets
<1> QED
  BY <1>1, <1>2, <1>3

\* A batch whose last frame was sent, or that was interrupted, ends its turn; Complete means
\* that all of it was typed.
LEMMA FinishSeen ==
    ASSUME IInv, pc \in Sending, ~GoesOn, Finish, state' \in [Tickets -> States],
           delivered[active] = EventsBefore(req[active], frame + 1)
    PROVE  Service!ServiceNext
<1>1. Typing
  BY TypingFacts
<1>2. /\ Outcome(active) \in {"Cancelled", "Complete"}
      /\ Outcome(active) = "Complete" => /\ delivered[active] = EventsTotal(req[active])
                                         /\ state[active] = "Queued"
  <2>1. CASE frame < FrameCount(req[active])
    BY <1>1, <2>1 DEF GoesOn, Interrupted, Outcome, Typing
  <2>2. CASE frame = FrameCount(req[active])
    BY <1>1, <2>2 DEF EventsTotal, Outcome, IInv, ActiveInv
  <2> QED
    BY <1>1, <2>1, <2>2 DEF Typing, IInv, TypeOK
<1>3. delivered[active] > 0
  BY <1>1, InjectorAssumption DEF Typing
<1>4. /\ UNCHANGED <<req, delivered>> /\ active' = None
      /\ \A t \in Tickets : state'[t] \in
            IF t = active THEN {Outcome(active)}
            ELSE IF t \in queue THEN {state[t], "Cancelled"} ELSE {state[t]}
  BY <1>1 DEF Finish, Leave, client, device, IInv, TypeOK, TicketInv, Typing, Tickets
<1>5. active \in Tickets /\ state[active] \in {"Queued", "Cancelled"}
      /\ \A t \in queue : state[t] = "Queued"
  BY <1>1 DEF Typing, IInv, ActiveInv, TicketInv
<1> QED
  BY <1>2, <1>3, <1>4, <1>5, SettleSeen DEF Terminal

\* run() and its queue are an injection service: whatever the engine may conclude from a
\* ticket of InjectionService it may conclude from one of backspaces() and shiftSelect().
THEOREM IsInjectionService == Spec => ImplementsService
<1>1. Init => Service!ServiceInit
  BY DEF Init, Service!ServiceInit, Taken, Tickets, Service!Tickets, None, Service!None
<1>2. IInv /\ [Next]_vars => [Service!ServiceNext]_(Service!svars)
  <2> SUFFICES ASSUME IInv, [Next]_vars
               PROVE  Service!ServiceNext \/ UNCHANGED Service!svars
    OBVIOUS
  <2>1. state' \in [Tickets -> States]
    BY NextIInv DEF IInv, TypeOK
  <2> USE DEF client, device, sending
  <2>2. CASE Begin \/ RetryOver \/ WarmupOver \/ WaitStopped
    <3>1. active = None
      BY <2>2 DEF Begin, RetryOver, WarmupOver, WaitStopped, IInv, ActiveInv, Sending
    <3>2. /\ UNCHANGED <<req, delivered>> /\ active' = active
          /\ \A t \in Tickets : state'[t] = state[t] \/ (t \in queue /\ state'[t] = "Cancelled")
      BY <2>2, <3>1 DEF Begin, RetryOver, WarmupOver, WaitStopped, Reopen, Leave, IInv, TypeOK
    <3> QED
      BY <2>1, <3>1, <3>2, SettleSeen DEF IInv, TicketInv
  <2>3. CASE SentAndFinish
    <3>1. pc \in Sending
      BY <2>3 DEF SentAndFinish, FrameSent, Sending
    <3>2. Typing
      BY <3>1, TypingFacts
    <3>3. delivered[active] = EventsBefore(req[active], frame + 1)
      BY <2>3, <3>2 DEF SentAndFinish, FrameSent, CurrentFrame, IInv, TypeOK, FrameInv, Typing
    <3> QED
      BY <2>1, <2>3, <3>1, <3>3, FinishSeen DEF SentAndFinish
  <2>4. CASE PaceOver
    BY <2>1, <2>4, FinishSeen, Unseen DEF PaceOver, NextFrame, IInv, FrameInv, Sending
  <2>5. CASE SendFails
    BY <2>1, <2>5, SettleSeen DEF SendFails, IInv, TypeOK, ActiveInv, Sending
  <2>6. CASE CloseFailed
    BY <2>1, <2>6, SettleSeen
       DEF CloseFailed, IInv, TypeOK, ActiveInv, TicketInv, Terminal, Tickets, None
  <2>7. CASE \/ UNCHANGED vars \/ Start \/ Stop \/ OpenDevice \/ CloseRefused \/ ShortWrite
             \/ SentAndPace \/ SentAndGoOn \/ Backoff \/ BackoffOver \/ CloseExit
    BY <2>7, Unseen DEF vars, Start, Stop, OpenDevice, CloseRefused, ShortWrite, SentAndPace,
           SentAndGoOn, NextFrame, Backoff, BackoffOver, CloseExit
  <2> QED
    BY <2>2, <2>3, <2>4, <2>5, <2>6, <2>7, SubmitSeen, CancelSeen, TakeSeen, WriteSeen
       DEF Next, Client, Worker, Terminated
<1> QED
  BY <1>1, <1>2, Invariance, PTL DEF Spec, ImplementsService, Service!ServiceSpec

===========================================================================
