--------------------------- MODULE LibeiInjector ---------------------------
(***************************************************************************)
(* The Wayland half of src/native_injector.cpp.  A worker runs a GLib main *)
(* loop that opens a keyboard through the desktop portal (create, start,   *)
(* connect to the EIS server, wait for a device) and types the batches it  *)
(* finds in a slot for one.  There is no ticket: a batch whose generation  *)
(* or deadline has passed is dropped without a word.                       *)
(*                                                                         *)
(* The client (the engine's thread) shares stop, ready and generation with *)
(* the worker as atomics, the slot under a mutex, and wakes the loop by    *)
(* counting up an eventfd.  The desktop answers, pauses devices and hangs  *)
(* up when it likes, and the whole process may be killed at any moment.    *)
(*                                                                         *)
(* Names that XTestInjector, the other half of the file, has too begin     *)
(* with Portal or are others here (caller, place, session, tapped), so     *)
(* that one module can prove the theorems of both.                         *)
(***************************************************************************)
EXTENDS Integers

CONSTANTS
    MaxBatches,  \* bound on the batches that are accepted
    MaxTaps,     \* Backspaces of a batch: up to 64 in the code
    MaxCancels,  \* bound on the calls of cancel()
    MaxDevices,  \* bound on the keyboards the server gives us
    MaxCloses,   \* bound on the times the session is reported as closed
    MaxRuns      \* bound on the times the process is started

ASSUME LibeiAssumption ==
    /\ MaxBatches \in Nat /\ MaxTaps \in Nat \ {0} /\ MaxCancels \in Nat
    /\ MaxDevices \in Nat /\ MaxCloses \in Nat /\ MaxRuns \in Nat \ {0}

NoDevice == 0
Devices == 1..MaxDevices

\* device (history) is the worker's keyboard when the batch was accepted.
Batches == [count : 0..MaxTaps, escape : BOOLEAN, generation : Nat,
            device : Devices \cup {NoDevice}]
NoBatch == [count |-> 0, escape |-> FALSE, generation |-> 0, device |-> NoDevice]

VARIABLES
    stop,        \* Impl::stop
    portalReady, \* Impl::ready
    generation,  \* Impl::generation
    slot,        \* Impl::batch
    wake,        \* the count of the eventfd wakeFd is not zero
    caller,      \* where the engine's thread is
    place,       \* where the worker is
    session,     \* how far the portal session is
    aborted,     \* cancellable is cancelled
    keyboard,    \* the device that keyboard points to, or NoDevice
    batch,       \* b of commands()
    tapped,      \* i of commands()
    late,        \* taps since the batch was cancelled or stop was set (history)
    live,        \* the device of the EIS server that accepts keys, or NoDevice
    file,        \* the restore token on the disk
    tmp,         \* this process's temporary file next to it
    used         \* how many of the bounded events have happened

clientVars == <<stop, generation, slot, caller>>
workerVars == <<portalReady, place, session, aborted, keyboard, batch, tapped, late>>
diskVars == <<file, tmp>>
portalVars == <<stop, portalReady, generation, slot, wake, caller, place, session, aborted,
                keyboard, batch, tapped, late, live, file, tmp, used>>

PortalInit ==
    /\ stop = FALSE /\ portalReady = FALSE /\ generation = 0
    /\ slot = NoBatch /\ wake = FALSE
    /\ caller = "idle" /\ place = "off"
    /\ session = "none" /\ aborted = FALSE /\ keyboard = NoDevice
    /\ batch = NoBatch /\ tapped = 0 /\ late = 0
    /\ live = NoDevice
    /\ file \in {"absent", "whole"} /\ tmp = "absent"
    /\ used = [batches |-> 0, cancels |-> 0, devices |-> 0, closes |-> 0,
               runs |-> 1, full |-> 0]

Use(event) == used' = [used EXCEPT ![event] = @ + 1]

---------------------------------------------------------------------------
(* The client.                                                             *)

\* start(), from the engine's first use of the transport or, with a restore
\* token on the disk, from restoreSession().
PortalStart ==
    /\ caller = "idle" /\ place = "off"
    /\ place' = "boot"
    /\ UNCHANGED <<stop, portalReady, generation, slot, wake, caller, session, aborted,
                   keyboard, batch, tapped, late, live, diskVars, used>>

RestoreSession == file = "whole" /\ PortalStart

\* backspaces(), up to the lock.
Ask ==
    /\ caller = "idle" /\ portalReady /\ used.batches < MaxBatches
    /\ caller' = "asked"
    /\ UNCHANGED <<stop, generation, slot, wake, workerVars, live, diskVars, used>>

\* ... under the lock: a batch that waits is not replaced.
Accept ==
    /\ caller = "asked"
    /\ \/ /\ slot.count > 0 \/ slot.escape
          /\ caller' = "idle"
          /\ UNCHANGED <<slot, used>>
       \/ /\ slot.count = 0 /\ ~slot.escape
          /\ \E count \in 0..MaxTaps, escape \in BOOLEAN :
                slot' = [count |-> count, escape |-> escape, generation |-> generation,
                         device |-> keyboard]
          /\ caller' = "wake" /\ Use("batches")
    /\ UNCHANGED <<stop, generation, wake, workerVars, live, diskVars>>

\* ... and the wake() that follows.
Wake ==
    /\ caller \in {"wake", "quit"}
    /\ wake' = TRUE
    /\ caller' = IF caller = "wake" THEN "idle" ELSE "join"
    /\ UNCHANGED <<stop, generation, slot, workerVars, live, diskVars, used>>

\* cancel(): the batch under way and the one that waits are of an older generation.
PortalCancel ==
    /\ caller = "idle" /\ used.cancels < MaxCancels
    /\ generation' = generation + 1 /\ Use("cancels")
    /\ UNCHANGED <<stop, slot, wake, caller, workerVars, live, diskVars>>

\* The destructor: stop, wake(), join().
Quit ==
    /\ caller = "idle" /\ place # "off"
    /\ stop' = TRUE /\ caller' = "quit"
    /\ UNCHANGED <<generation, slot, wake, workerVars, live, diskVars, used>>

Join ==
    /\ caller = "join" /\ place = "done"
    /\ caller' = "gone"
    /\ UNCHANGED <<stop, generation, slot, wake, workerVars, live, diskVars, used>>

---------------------------------------------------------------------------
(* The worker: opening the portal session.                                 *)

\* mutant: a device that is lost leaves the batches that were meant for it valid
FailSameGeneration ==
    /\ portalReady' = FALSE
    /\ UNCHANGED generation

\* fail()
Fail ==
    /\ portalReady' = FALSE
    /\ generation' = generation + 1

Pending == session \in {"creating", "starting"}

\* run() up to its loop: without a session bus there is no portal.
Boot ==
    /\ place = "boot"
    /\ \/ place' = "loop" /\ session' = "creating" /\ UNCHANGED <<portalReady, generation>>
       \/ place' = "closing" /\ Fail /\ UNCHANGED session
    /\ UNCHANGED <<stop, slot, wake, caller, aborted, keyboard, batch, tapped, late, live,
                   diskVars, used>>

\* created()
Created ==
    /\ place = "loop" /\ session = "creating"
    /\ \/ ~aborted /\ session' = (IF stop THEN "idle" ELSE "starting")
          /\ UNCHANGED <<portalReady, generation>>
       \/ session' = "refused" /\ Fail
    /\ UNCHANGED <<stop, slot, wake, caller, place, aborted, keyboard, batch, tapped, late,
                   live, diskVars, used>>

\* started(), up to saveToken(): a portal without persistence has no token.
Started ==
    /\ place = "loop" /\ session = "starting"
    /\ \/ ~aborted /\ session' = "granted" /\ place' \in {"saveOpen", "connect"}
          /\ UNCHANGED <<portalReady, generation>>
       \/ session' = "failed" /\ Fail /\ UNCHANGED place
    /\ UNCHANGED <<stop, slot, wake, caller, aborted, keyboard, batch, tapped, late, live,
                   diskVars, used>>

\* mutant: the token is written in place
SaveInPlace ==
    /\ place = "saveOpen"
    /\ \/ place' = "connect" /\ UNCHANGED <<file, tmp>>
       \/ place' = "saveWrite" /\ file' = "torn" /\ UNCHANGED tmp
    /\ UNCHANGED <<clientVars, wake, portalReady, session, aborted, keyboard, batch, tapped,
                   late, live, used>>

\* saveToken() opens the temporary file, which truncates it, or cannot.
SaveOpen ==
    /\ place = "saveOpen"
    /\ \/ place' = "connect" /\ UNCHANGED tmp
       \/ place' = "saveWrite" /\ tmp' = "torn"
    /\ UNCHANGED <<clientVars, wake, portalReady, session, aborted, keyboard, batch, tapped,
                   late, live, file, used>>

\* It is not asked whether the token could be written: the disk may be full.
SaveWrite ==
    /\ place = "saveWrite"
    /\ place' = "saveRename"
    /\ \/ tmp' = "whole" /\ UNCHANGED used
       \/ used.full = 0 /\ UNCHANGED tmp /\ Use("full")
    /\ UNCHANGED <<clientVars, wake, portalReady, session, aborted, keyboard, batch, tapped,
                   late, live, file>>

SaveRename ==
    /\ place = "saveRename"
    /\ place' = "connect" /\ tmp' = "absent"
    /\ file' \in {tmp, file}
    /\ UNCHANGED <<clientVars, wake, portalReady, session, aborted, keyboard, batch, tapped,
                   late, live, used>>

\* The rest of started(): the EIS connection is made, or is not.
Connect ==
    /\ place = "connect" /\ place' = "loop"
    /\ \/ stop /\ session' = "idle" /\ UNCHANGED <<portalReady, generation>>
       \/ ~stop /\ session' = "connected" /\ UNCHANGED <<portalReady, generation>>
       \/ ~stop /\ session' = "failed" /\ Fail
    /\ UNCHANGED <<stop, slot, wake, caller, aborted, keyboard, batch, tapped, late, live,
                   diskVars, used>>

---------------------------------------------------------------------------
(* The worker: events of the EIS connection and of the portal.             *)

\* input(): a device has been resumed.  A second one is not taken.
Resumed ==
    /\ place = "loop" /\ session = "connected" /\ live # NoDevice /\ keyboard = NoDevice
    /\ keyboard' = live /\ portalReady' = TRUE
    /\ UNCHANGED <<clientVars, wake, place, session, aborted, batch, tapped, late, live,
                   diskVars, used>>

\* input(): our device was paused or removed.
Paused ==
    /\ place = "loop" /\ session = "connected" /\ keyboard # NoDevice /\ live # keyboard
    /\ Fail /\ keyboard' = NoDevice
    /\ UNCHANGED <<stop, slot, wake, caller, place, session, aborted, batch, tapped, late,
                   live, diskVars, used>>

\* input(): the server disconnects or hangs up; the keyboard is not given back,
\* so that no other will be taken.
Disconnected ==
    /\ place = "loop" /\ session = "connected"
    /\ Fail /\ session' = "failed" /\ live' = NoDevice
    /\ UNCHANGED <<stop, slot, wake, caller, place, aborted, keyboard, batch, tapped, late,
                   diskVars, used>>

---------------------------------------------------------------------------
(* The worker: commands().                                                 *)

\* The eventfd is read first: what is set after that counts it up again.
ReadWake ==
    /\ place = "loop" /\ wake
    /\ wake' = FALSE /\ place' = "woken"
    /\ UNCHANGED <<clientVars, portalReady, session, aborted, keyboard, batch, tapped, late,
                   live, diskVars, used>>

SeeStop ==
    /\ place = "woken"
    /\ \/ stop /\ aborted' = TRUE /\ place' = "loop"
       \/ ~stop /\ place' = "take" /\ UNCHANGED aborted
    /\ UNCHANGED <<clientVars, wake, portalReady, session, keyboard, batch, tapped, late,
                   live, diskVars, used>>

\* The slot is emptied, and what was in it is typed unless it is out of date.
Take ==
    /\ place = "take"
    /\ slot' = NoBatch
    /\ \/ /\ portalReady /\ slot.generation = generation /\ (slot.count > 0 \/ slot.escape)
          /\ batch' = slot
          /\ place' = IF slot.escape THEN "escape" ELSE "next"
       \/ /\ batch' = NoBatch /\ place' = "loop"  \* it may be past its deadline, too
    /\ UNCHANGED <<stop, portalReady, generation, wake, caller, session, aborted, keyboard,
                   tapped, late, live, diskVars, used>>

OutOfDate == stop \/ batch.generation # generation \/ ~portalReady

\* One key pressed and released.
Tap ==
    /\ place \in {"escape", "tap"}
    /\ place' = "next"
    /\ tapped' = IF place = "tap" THEN tapped + 1 ELSE tapped
    /\ late' = IF OutOfDate THEN late + 1 ELSE late
    /\ UNCHANGED <<clientVars, wake, portalReady, session, aborted, keyboard, batch, live,
                   diskVars, used>>

\* mutant: a batch once begun is typed to its end
NextTapAnyway ==
    /\ place = "next"
    /\ IF tapped < batch.count
       THEN place' = "tap" /\ UNCHANGED batch
       ELSE place' = "loop" /\ batch' = NoBatch
    /\ IF place' = "tap" THEN UNCHANGED <<tapped, late>> ELSE tapped' = 0 /\ late' = 0
    /\ UNCHANGED <<clientVars, wake, portalReady, session, aborted, keyboard, live,
                   diskVars, used>>

\* mutant: the wake-ups that came while a batch was typed are read with its own
NextTapAndRead ==
    /\ place = "next"
    /\ \/ tapped < batch.count /\ ~OutOfDate /\ place' = "tap"
          /\ UNCHANGED <<batch, tapped, late, wake>>
       \/ /\ tapped >= batch.count \/ OutOfDate
          /\ place' = "loop" /\ batch' = NoBatch /\ tapped' = 0 /\ late' = 0
          /\ wake' = FALSE
    /\ UNCHANGED <<clientVars, portalReady, session, aborted, keyboard, live, diskVars,
                   used>>

\* The head of the loop over the Backspaces.
NextTap ==
    /\ place = "next"
    /\ \/ tapped < batch.count /\ ~OutOfDate /\ place' = "tap"
          /\ UNCHANGED <<batch, tapped, late>>
       \/ /\ tapped >= batch.count \/ OutOfDate
          /\ place' = "loop" /\ batch' = NoBatch /\ tapped' = 0 /\ late' = 0
    /\ UNCHANGED <<clientVars, wake, portalReady, session, aborted, keyboard, live,
                   diskVars, used>>

---------------------------------------------------------------------------
\* run() leaves its loop, but not while a portal call is under way.
Leave ==
    /\ place = "loop" /\ stop /\ ~Pending
    /\ place' = "closing"
    /\ UNCHANGED <<clientVars, wake, portalReady, session, aborted, keyboard, batch, tapped,
                   late, live, diskVars, used>>

\* The end of run(); its iterations may still report that the session is closed.
Close ==
    /\ place = "closing"
    /\ place' = "done" /\ portalReady' = FALSE /\ session' = "none"
    /\ keyboard' = NoDevice /\ live' = NoDevice
    /\ UNCHANGED <<clientVars, wake, aborted, batch, tapped, late, diskVars, used>>

---------------------------------------------------------------------------
(* The desktop and the system.                                             *)

\* The EIS server offers a keyboard, in place of one it has paused.
Offer ==
    /\ session = "connected" /\ live = NoDevice /\ used.devices < MaxDevices
    /\ live' = used.devices + 1 /\ Use("devices")
    /\ UNCHANGED <<clientVars, wake, workerVars, diskVars>>

\* It pauses or removes the one it has.
Pause ==
    /\ live # NoDevice
    /\ live' = NoDevice
    /\ UNCHANGED <<clientVars, wake, workerVars, diskVars, used>>

\* closed(): the session there is ends, at any moment of the worker's iterations.
Closed ==
    /\ place \in {"loop", "closing"}
    /\ session \in {"starting", "connected", "failed", "idle"}
    /\ used.closes < MaxCloses
    /\ Fail /\ Use("closes")
    /\ UNCHANGED <<stop, slot, wake, caller, place, session, aborted, keyboard, batch,
                   tapped, late, live, diskVars>>

\* The process is killed, and started again; the temporary file of the next one
\* has another name.
Crash ==
    /\ place # "off" /\ used.runs < MaxRuns
    /\ stop' = FALSE /\ portalReady' = FALSE /\ generation' = 0
    /\ slot' = NoBatch /\ wake' = FALSE
    /\ caller' = "idle" /\ place' = "off"
    /\ session' = "none" /\ aborted' = FALSE /\ keyboard' = NoDevice
    /\ batch' = NoBatch /\ tapped' = 0 /\ late' = 0
    /\ live' = NoDevice
    /\ tmp' = "absent" /\ Use("runs")
    /\ UNCHANGED file

PortalTerminated == caller = "gone" /\ UNCHANGED portalVars

PortalClient ==
    PortalStart \/ RestoreSession \/ Ask \/ Accept \/ Wake \/ PortalCancel \/ Quit \/ Join
Portal == Boot \/ Created \/ Started \/ SaveOpen \/ SaveWrite \/ SaveRename \/ Connect
Events == Resumed \/ Paused \/ Disconnected \/ Closed
Commands == ReadWake \/ SeeStop \/ Take \/ Tap \/ NextTap \/ Leave \/ Close
Desktop == Offer \/ Pause \/ Crash

PortalNext == PortalClient \/ Portal \/ Events \/ Commands \/ Desktop \/ PortalTerminated

\* The loop serves what is ready; a portal call that is cancelled returns, one
\* that is not may wait for the user for ever.  A thread in backspaces() or in
\* the destructor goes on.
PortalFairness ==
    /\ WF_portalVars(Boot \/ SaveOpen \/ SaveWrite \/ SaveRename \/ Connect)
    /\ WF_portalVars(aborted /\ (Created \/ Started))
    /\ WF_portalVars(Commands)
    /\ WF_portalVars(Accept \/ Wake \/ Join)

PortalSpec == PortalInit /\ [][PortalNext]_portalVars
PortalFairSpec == PortalSpec /\ PortalFairness

---------------------------------------------------------------------------
Places == {"off", "boot", "loop", "saveOpen", "saveWrite", "saveRename", "connect", "woken",
           "take", "escape", "tap", "next", "closing", "done"}

PortalTypeOK ==
    /\ stop \in BOOLEAN /\ portalReady \in BOOLEAN /\ wake \in BOOLEAN /\ aborted \in BOOLEAN
    /\ generation \in Nat /\ tapped \in 0..MaxTaps /\ late \in Nat
    /\ slot \in Batches /\ batch \in Batches
    /\ caller \in {"idle", "asked", "wake", "quit", "join", "gone"} /\ place \in Places
    /\ session \in {"none", "creating", "starting", "granted", "connected", "idle",
                    "failed", "refused"}
    /\ keyboard \in Devices \cup {NoDevice} /\ live \in Devices \cup {NoDevice}
    /\ file \in {"absent", "torn", "whole"} /\ tmp \in {"absent", "torn", "whole"}
    /\ used \in [batches : Nat, cancels : Nat, devices : Nat, closes : Nat, runs : Nat,
                 full : Nat]

\* After cancel(), or once the injector is being destroyed, the batch under way
\* types at most the key it was about to tap: a Backspace after that would
\* delete from whatever the engine does next.
StopsAtTap == late <= 1

\* A batch is never typed to another keyboard than the one that was there when it
\* was accepted: between the two the user may have closed the session.
OneDevice ==
    place \in {"escape", "tap"} =>
        keyboard # NoDevice /\ batch.device \in {NoDevice, keyboard}

\* "a killed Fcitx must not leave a zero-length token that looks like a valid
\* restore state": whenever the process dies, the token on the disk is whole.
TokenWhole == file = "torn" => used.full > 0

\* The slot is emptied again.
SlotDrains == (slot.count > 0 \/ slot.escape) ~> (slot = NoBatch \/ stop)

\* The engine's thread gets back from the worker.
PortalJoins == (caller = "join") ~> (caller # "join")

\* The slot is emptied, whatever becomes of its batch, as otherwise every later batch
\* is refused; and the engine's thread does not wait for ever for the worker, not even
\* when the portal's question to the user is never answered.
PortalProgress == SlotDrains /\ PortalJoins

---------------------------------------------------------------------------
(* The inductive invariant behind the safety properties.                   *)

\* A batch was accepted in this generation or in an earlier one, and one that was meant
\* for a keyboard that is not there any more is of an earlier one: whatever takes the
\* keyboard away counts the generation up.
SlotInv ==
    /\ slot.generation <= generation /\ batch.generation <= generation
    /\ place # "done" /\ slot.device \notin {NoDevice, keyboard} =>
            slot.generation < generation

\* While a batch is typed the keyboard stays; what is out of date remains so, because
\* neither a generation nor readiness comes back before the next iteration of the loop.
TypingInv ==
    /\ portalReady => keyboard # NoDevice
    /\ place \in {"escape", "tap", "next"} =>
            keyboard # NoDevice /\ batch.device \in {NoDevice, keyboard}
    /\ place = "tap" => tapped < batch.count
    /\ late > 0 => place = "next" /\ late = 1 /\ OutOfDate

\* The temporary file is incomplete when it takes the token's place only if the disk was full.
TokenInv == TokenWhole /\ (place = "saveRename" /\ tmp = "torn" => used.full > 0)

PortalInv == PortalTypeOK /\ SlotInv /\ TypingInv /\ TokenInv
===========================================================================
