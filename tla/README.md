# skey: a TLA+ verification project

skey (VSKey) is a Vietnamese input method for fcitx5. It composes the word being
typed, and when a letter changes what is already on the screen it deletes the changed
suffix from the application and types it anew. fcitx5 offers no reliable way to delete
text in every application, so skey has several: it presses Backspace itself, through a
virtual keyboard of the kernel (uinput), through X11's XTest extension or through the
desktop portal (libei); it asks the application to delete (surrounding text); or it keeps
the word in a preedit. The keys it injects come back to it through the same stream as the
user's own, and what it knows of the application comes late and from several sources.
Getting the text right therefore depends on the order of events between the user, worker
threads, timers, the application and the accessibility bus. This directory models those
parts in TLA+, checks them with TLC and proves the main properties of most of them with
TLAPS. File names below are relative to `src/src/` unless they begin with `docs/` or
`test`.

## 1. The system

### Components, their state and their operations

| component | code | state | operations |
|---|---|---|---|
| UinputInjector | `uinput_injector.cpp` | queue of batches, active batch, device, `available`, `stopping` | `backspaces`, `shiftSelect`, `cancel`, destructor; worker `run` |
| NativeInjector, XTest | `native_injector.cpp` | queue, `active`, `Work::cancelled`, connection | `submitBackspaces`, `submitShiftSelect`, `cancel`, destructor; worker `runX` |
| NativeInjector, libei | `native_injector.cpp` | one-batch slot, generation, portal session, restore token | `backspaces`, `cancel`, destructor; portal and libei callbacks |
| SKeyState: replacement | `engine.cpp` 3830–5060, 5480–5730, 8370–8890 | counters of injected keys, pending suffix, two queues of held keys, timers, ticket | `keyEvent`, settle/safety/replay/request/cycle timers, `activate`, `deactivate` |
| SKeyState: surrounding text | `engine.cpp` 6830–7000, 7981–8800 | deferred commit, native deletion, verification of the word | `surroundingCommit`, `deferCommit`, repairs, reports of the application |
| SKeyState: address bar | `engine.cpp` 522–840, 5900–6030, 7561–7977 | what precedes the word, one-shot marks, focus cycle | `scheduleAddrBarReplacement`, `tryShiftSelectReplace`, `tryX11ForwardedReplacement` |
| SKeyState: output mode | `engine.cpp` 2230–3310, `process_markers.h`, `x11_app_name.cpp` | cached facts of the application, pending decision | `effectiveMode`, `detectAutoMode`, `editRoute`, invalidations |
| SKeyState: history | `engine.cpp` | last words with what follows them | `saveLastWord`, `reclaimLastWord`, `restoreReclaimedWord` |
| A11yTextCache | `a11y_text_cache.h` | focused entry, generation, demand lease, snapshot, backoff | `focus`, `blur`, `setEnabled`, `changed`, `beginPoll`, `finishPoll`, `read` |
| A11yMonitor | `a11y_monitor.cpp` | focus identity and verdict, subscription, ancestor caches | loop `threadFunc`, signal handlers, `start`, `stop`, queries of the key thread |
| Sheets cell tracker | `sheets_cell_tracker.h` | cell observed, delayed events | `observe`, `event` |
| UinputDeleteAck | `uinput_delete_ack.h` | expected text, evidence so far | `start`, `observe` |
| App delay statistics | `engine.cpp`, `app_delay_key.h` | EWMA per application, ring of sleeps | `noteAppSleep`, `noteAppDelay`, periodic save |
| Vietnamese wrapper | `vietnamese.cpp`, `viet_*.cpp` | composed word, undo and fallback state | `processKey`, `backspace`, `reset` over an external Rust library |
| Engine, configuration | `engine.cpp`, `config.h` | configuration, tray actions | `reloadConfig`, `setConfig` |
| Settings application | `settings/*.cpp` | widgets, updater stages, files | single-threaded Qt; atomic writes in `config_io.cpp` |
| Packaging | `scripts/`, `packaging/` | none at run time | installation |

### How they interact

- `SKeyState` **calls** an injector, which returns a ticket or refuses, and **polls** the
  ticket (`InjectionRequest`: an atomic state and an atomic count). Tickets are the only
  thing the worker and the engine share besides the injector's mutex.
- The injector's keys return through the kernel, the compositor and fcitx5 as ordinary
  **key events**. `SKeyState` counts them; there is no other acknowledgement from a
  transport that types into whatever has the focus.
- The application **reports** its text and caret (surrounding text) when it likes, or never.
  A deletion asked of it natively is acknowledged by nothing but such a report.
- The engine's **timers** (settle, safety, replay, request watch, grace, deferred commit,
  focus cycle) run on the main loop between key events; the injector's worker and the
  accessibility monitor are threads.
- The monitor fills `A11yTextCache` and publishes the focused accessible with its verdict
  (address bar, web page, spreadsheet, password field) from D-Bus replies that may take
  seconds; `SKeyState` **reads** both from the key thread and, in the desync guard,
  **waits** on a condition variable.
- fcitx5 calls `activate`, `deactivate` and `reset` at any time between key events.
  Browsers cause deactivations that mean nothing.

### What is hard, and the properties that make each part correct

- *Worker against client* (the three injectors): cancels race verdicts, writes fail midway,
  devices and sessions vanish, the destructor joins. A batch is typed at most once, in order,
  and completely if it says so; every ticket ends; no key stays down; the join returns.
- *Injected against typed keys* (replacement): keys look alike, may be late, lost or
  eaten; the worker may be cancelled while some are on their way. The text converges to
  the word the engine believes in; no key is lost or reordered; no commit overtakes its
  deletions or reaches another field; every replacement ends.
- *Requests without an answer* (surrounding text): a deletion may be dropped in whole or in
  part, and the report that tells may be old. What stood before the word is never deleted;
  the word on the screen is the one the user meant; a healthy word is not thrown away.
- *Evidence* (address bar, output mode): what precedes the caret and which transport the
  application supports is inferred from facts that change under a word. A replacement
  deletes the word and nothing else; one word has one transport.
- *Slow replies* (text cache, focus identity, cells): a reply may come after the focus
  moved or the demand lapsed. Nothing of an earlier focus is used for a later one.
- The complete list, with lines, is `hazards` in `PROJECT.json`.

## 2. The modules

| module | models | kind |
|---|---|---|
| `InjectionService` | what an injector promises the engine | abstract specification |
| `UinputInjector` | `uinput_injector.cpp`, `injection_request.h` | detailed; implements `InjectionService` |
| `UinputInjectorProofs` | its theorems | TLAPS |
| `XTestInjector` | the XTest half of `native_injector.cpp` | detailed; implements `InjectionService` |
| `LibeiInjector` | the portal half of `native_injector.cpp`, and the token's file | detailed |
| `NativeInjectorProofs` | the theorems of both; the names of `LibeiInjector` are its own for that | TLAPS |
| `UinputReplacement` | the replacement transaction of `SKeyState`, with an abridged worker, wire, user and desktop | composition |
| `UinputReplacementSafety` | its invariant, and the theorems that follow from it | TLAPS |
| `UinputReplacementProofs` | the screen, the order of the keys and their number; what a ticket of `InjectionService` tells the engine | TLAPS |
| `SurroundingText` | the replacement by requests to the application, with the application and its reports | composition |
| `AddressBar` | what `SKeyState` knows of the text in a browser's address bar, with the bar | composition |
| `AddressBarProofs` | its theorems | TLAPS |
| `OutputMode` | the transport of each word, with everything the decision looks at | composition |
| `OutputModeProofs` | its theorems | TLAPS |
| `A11yTextCache` | `a11y_text_cache.h`, the loop of `a11y_monitor.cpp` that feeds it, the desync guard of `keyEvent` that reads it | composition |
| `A11yTextCacheProofs` | its theorems | TLAPS |
| `A11yFocus` | the published focus of `a11y_monitor.cpp`, with the applications and the bus | composition |
| `SheetsCells` | EXTENDS `A11yFocus` with the key thread that ends a word on a change of cell or page | composition |
| `SheetsCellsProofs` | theorems of `A11yFocus` and `SheetsCells` | TLAPS |
| `MC*` and `*.cfg` | small instances for TLC | |

Operators in each module marked `mutant:` are plausible faults of the code; replacing
the operator that follows them by the mutant makes TLC violate the property named in
`PROJECT.json`, which shows that the property depends on that piece of code.

Variables named history in the modules (`delivered`, `down`, `erased`, `harm`, `late`,
`want`...) have no counterpart in the code: the properties are about them.

### InjectionService

A set of tickets, each Free, Queued, or ended (Complete, Failed, Cancelled), at most one
of which has its `turn`; what was typed of each is none, some or all. A ticket ends once;
only the one whose turn it is is typed, and Complete means that all of it was. The two
workers with tickets implement this by a refinement mapping, checked as the property
`ImplementsService` of their runs and proved.

### UinputInjector

One action per stretch of code between two points where the worker gives up the mutex
(`pause`, `write(2)`, opening and closing the device), named after what happens there.
`pc` is the place. A batch is a sequence of frames (`FrameAt`): a tap is four events, a
press or release two. `Write` lets the kernel take all of a frame, a part of it, nothing
(EAGAIN) or fail; `offset`, `retries` and `result` are the locals of `send()`.
`Interrupted`, `Cancel`, `Submit` and `Accepts` are the functions of the same name (or
of the public interface). `delivered` and `down` are history: what the kernel took, and
which keys it holds down.

### XTestInjector

As above for `runX()`, with an action for each call on the X connection. The focus is a
variable that the user moves at any time, so that the look at the focus (`TapFocus`) and
the press (`TapDown`) are two steps between which it may move. The modifiers, the
key map and write errors are up to the server: an attempt is counted before it is made,
and one that is reported as failed may have reached the server nevertheless (`Emit`).
`landed` and `stray` are history: the presses that arrived, and where.

### LibeiInjector

The worker is a GLib main loop; an action is one iteration's callback, or the part of a
callback between two accesses to what the client shares (`stop`, `ready`, `generation`,
the slot under its mutex, the eventfd). The portal's dialogue is the variable `stage`:
each call may be answered, refused, aborted by the cancellable, or never answered.
Batches have no ticket: `device` in a batch (history) is the keyboard at its acceptance,
and `late` counts taps after a cancel. `file` and `tmp` are the restore token and its
temporary file, written in steps between which the process may be killed (`Crash`).

### UinputReplacement

The state of one input context is a record `ic` whose fields are the members of
`SKeyState`; a handler is an operator from a context to the next one, so that handlers
call one another as in the code (`Deliver` → `KeyEvent` → `Abort`, `Dispatch` →
`WhileDeleting` or `Type` → `Replace` → `Send`). `wire` is the stream of key events that
the desktop has yet to deliver, the user's and the injected ones. A glyph on the screen is
the set of keys that made it: a letter either extends the word or is merged into a glyph
of its last `d`, which is what the replacement rewrites. `effect` stands for the
composition library, whose answer (`d`, or the end of the word) is free.

The worker is abridged to taking, typing, completing, failing; `UinputInjector` shows how
it does this. Times are abstracted to order: a timer that is armed may fire at any later
time, with one exception, the grace after a cancellation (400 ms), which is assumed to
outlast the injected keys that are on their way, and those that joined the keys waiting to
be replayed: these are replayed at most 20 ms apart (`GraceEnds`). A Backspace of ours that
stood behind some twenty waiting keys would be replayed after the grace, and delete.

Browsers give up the focus and take it again while their page rebuilds an editor.
`CycleBegins` and `CycleEnds` are such a cycle, `Deactivate` a genuine loss; `Leave` is
what `deactivate()` does in either case, `CycleExpires` the 500 ms timer that tells them
apart. On Wayland (`page`) what is committed to a deactivated context is dropped
(`disabled`). Assumed: keys wait for the end of a cycle, and a browser's own cycle ends
within the 500 ms.

A browser that cycled its focus may send the key that started a replacement once more, and
a guard drops it: `handlePendingUinputBackspace` while deletions are under way (4144),
`keyEvent` at other times (5737). The guard knows such a key by its letter, by a deadline
and, where they can be trusted, by timestamps. `armed` is the guard, `Guarded` the
applications where timestamps do not tell a second press: on Wayland every browser, but only
during a replacement, and on XWayland an Electron application (`electron`), at any time
(`RepeatsTyping`). `again` holds the keys that are the same letter pressed again in time, a free
choice when a key is pressed; `dropped` is the history of what the guard took. The keys
that a browser really sends again are not modelled: where the guard sees one it is gone.

### SurroundingText

The same record of handlers for the replacements that ask the application to delete
(`delete`), forward Backspaces as keys (`backs`) or only append. The application takes
requests in its own time from `wire`, drops deletions in whole or in part, and puts its
text into `reports`; the engine's view is `cache`. Kinds of applications differ in what
they report and in the route the code gives them. `want` is the text the user meant; and
`harm` records the circumstances in which the code is known to fail (section 5), each at
the place where it happens, so that `Converges` excuses nothing else. The uinput
transaction that serves as the fallback is one step here (`Inject`, `Anchored`).
`deactivate()` commits what is deferred and gives up what is injected (`Deactivate`,
`GivenUp`); for a Chromium it holds the injection (`away`), which goes on when `activate()`
comes within 500 ms (`Activate`) and is discarded when it does not (`CycleExpires`). No
commit is made while it is held (`Anchored`), and a `reset()` in a Chromium does not touch an
injection. After an activation nothing is left of what a deferred commit or its verification
remembered (`unwatched` where a deletion was still being watched).
Assumed: the 20 ms look and the adaptive delay before a deferred commit are long enough
for an application that answers at all, every report that is not late comes within the 250 ms
of quiet that the verification waits for (so `VerifySparesHealthy` says nothing of one that
lags longer), keys come to the context that has the focus, and forwarded Backspaces do not
overtake requests made earlier. `BaseKept` is about the repetition after a deferred commit
(8112–8128) and the repairs (`RepairDropped`); the repetition on the main thread (8202) reads
an old report by construction and is excused by `eager` (section 5).

### AddressBar

`bar` is the omnibox (text, selection, inline suggestion), `eng` what the engine
remembers of it; `Evidence` is what a replacement may look at (the client's surrounding
text, the accessible text, the caret's position), any part of which may be absent. The
plan of a replacement (`Planned`) is the number of Backspaces it asks for; the replacement
itself is one step. The caret stays at the end, pixels are counted in characters
(`EdgeSlack`, `JumpSlack`). A suggestion appears after the first word of a bar and never
after a Backspace, as the comment at `engine.cpp:6040` has it. `lost` is history: the text
was changed by something that counting cannot follow.

### OutputMode

`world` holds the facts a decision looks at (platform, program, capabilities, accessible
with the focus, configuration), `ctx` the caches of a context; every event that changes a
fact, and every one that invalidates a cache, is an action, and keys come between them.
`EffectiveMode` and `DetectAuto` are the functions of those names. Functions take the context
and the world, so that a key may be asked about in another state than the present one.

### A11yTextCache

Time is a variable; `read`, `beginPoll` and `finishPoll` compare it with the lease of the
demand, the age of the snapshot and the end of the backoff. The monitor's loop reads
clocks and flags at several points of a round, and each is an action: `Wakes`,
`TextSignal`, `FocusLost`, `FocusGained`, `Walked`, `Subscribe`, `BeginPoll`, `Answer`,
`FinishPoll`. Every operation of the cache holds its mutex and is atomic. `Skew` bounds
the time by which a caller's clock reading is older than the operation it is used in.

### A11yFocus and SheetsCells

`desk` is the environment: applications on bus connections send gains, blurs, cell
selections and exits, in order on one connection and in any order between two. `monitor`
is the thread: it drains a batch of signals, and a gain takes a series of blocking queries
(role, process, ancestors, id, name box), each of which may fail. `pub` is what it
publishes; an action is a group of stores between which a reader may fall. `SheetsCells`
adds the key thread, which takes the identity, asks for the cell for up to 30 ms and
compares again. Assumed: the capability or the caret, not the monitor, tells of the
browser's own address bar.

## 3. What TLC checks

Deadlock is checked in the three injector runs: a worker that waits for ever shows up as
one, because only a destroyed injector may stop (`Terminated`). The other systems may rest
(the user owes no key, events are bounded), so their runs say `CHECK_DEADLOCK FALSE`.

| run | what it shows | bounds |
|---|---|---|
| `uinput_injector` | tickets are not orphaned by a device that is lost or being opened; a cancel takes effect at the next frame; every batch ends and the join returns; implements `InjectionService` | two owners, two batches (Backspace, Escape and Backspace, or a selection) that may wait together, one EAGAIN |
| `xtest_injector` | the same for XTest, and: a ticket that ended with `emittedEvents = 0` typed nothing; each move of the focus lets at most one press go astray; keys are released unless the server refuses the release | two owners, two batches (Escape and two Backspaces, or a selection), one move of the focus, one event reported as failed |
| `libei_injector` | a cancelled batch types at most the key it was about to tap; a batch goes to the keyboard it was accepted for; the token on the disk is whole after a kill; the slot is emptied and the engine's thread returns from the worker | two batches of a Backspace, an Escape or both, one cancel, two keyboards, one closed session, one kill |
| `replacement` | text converges, no key is lost but to the re-delivery guard, keys take effect in order | four keys, one of which may be a fast second press of the same letter, one user Backspace, suffixes up to two glyphs; a plain application, one with ordered replay, a blind browser that eats one Backspace, a Chromium on X11, a page on Wayland and an Electron application on XWayland whose focus cycles once |
| `replacement_faults` | no commit before its deletions are typed or into a field without focus; no stray deletion; replacements end and waiting keys are served | three keys, one of which may be a fast second press, one user Backspace, two lost loopbacks, one failed batch, three forced commits, one loss of the focus, genuine or a cycle; four kinds of applications |
| `surrounding` | the text ends as the user meant it, though deletions are dropped; what stood before is never deleted; a healthy word is not thrown away; everything settles | four keys, five kinds of applications, one deletion dropped whole or in part (or all of them), one late and one empty report, one reset, one focus loss with or without a return |
| `output_mode` | a word keeps its transport, and it is the one the user chose; cells of a spreadsheet are written by injected keys; a program is written off only for what it showed | three programs, two platforms, three sets of capabilities, five kinds of accessibles, three settings, two events between the keys |
| `text_cache` | a stored text belongs to the focused entry and the present demand; readers get it only while fresh; the backoff holds against text signals | two entries, one edit each, four ticks of the clock, generations up to three |
| `a11y_focus` | the published focus converges and never outlives its focus; key thread: letters of a word go to one cell, nothing of an earlier focus is used, a word of the address bar ends in the page | one browser with its address bar and two interchangeable spreadsheets, one native application; three moves, one fault |
| `address_bar` | a replacement that sees the text is exact; what stands before a word is never deleted; the first word is replaced whole; the count of characters before the word is right | texts and words up to three characters; Wayland, X11 with injected and with forwarded Backspaces |
| `uinput_stuck_key`, `address_bar_cleared` | each violates one statement of the repository: section 5 | the smallest that show it |

Why the bounds are enough: two batches are what every property of a queue compares (two
owners, an active and a waiting one, first and second); one tolerated EAGAIN separates
the retry from giving up; two Backspaces make a loop body run again. In
`UinputReplacement` four keys are a letter, the letter that starts a replacement, a key
that waits for it and one that starts another replacement when it is replayed; the same
four in `SurroundingText` let a second replacement meet the first one's deferred commit.
The clock of `text_cache` is long enough for a lease of three ticks to lapse between the
start and the end of a poll. Three moves of `a11y_focus` are a gain, a second one during
its analysis, and a return. Three characters of `AddressBar` are a prefix, a letter and a
marked one, or a word that is longer than what precedes it. Two events of `OutputMode` are
one that makes a decision stale and one that hides it; keys and time are not counted.

### Bounds of the modules

`MaxTickets`, `MaxBatches`, `MaxMoves`, `MaxErrors`, `MaxKeys`, `MaxBackspaces`,
`MaxEaten`, `MaxLost`, `MaxFails`, `MaxForced`, `MaxLeaves` (with `Losses`), `MaxRepeats`,
`MaxCancels`,
`MaxDevices`, `MaxCloses`, `MaxRuns`, `MaxReports`, `MaxDrops`, `MaxLate`, `MaxBlank`,
`MaxResets`, `MaxChanges`, `MaxFaults`, `MaxText`, `MaxTime`, `MaxGeneration` and
`MaxEdits` bound the environment and have no counterpart in the code.
`QueueCap`, `MaxCount`, `MaxRetries`, `BufferCap`, `MaxFailures`, `Drain`, `EdgeSlack`,
`JumpSlack` and the times of `A11yTextCache` stand for constants of the code, scaled
down. `MaxForced` is as large as the number of replacements that three keys can start, so
that the bound never keeps a timer from firing in the liveness run.

### Fairness

- uinput and XTest: weak fairness of the worker as a whole (`WF_vars(Worker)`). Each of its
  waits is timed or ends with a notification that `cancel`, `submit` and the destructor
  send under the mutex, and a system call returns. The client owes nothing: liveness is
  of the form "if accepted, then ended" and "if being destroyed, then joined".
- libei: weak fairness of the loop's iterations, of the steps inside a batch, of the end of
  a portal call that was aborted, and of both threads' steps towards the join. The portal
  owes no answer to a call that is not aborted.
- `UinputReplacement`: weak fairness of each timer that is armed, of the delivery of keys,
  of each step of the worker and of the end of a browser's own cycle. fcitx5's event loop
  serves every timer; the compositor delivers what it has. The user, `Lose`, `Fail` and
  the eating of a Backspace are not fair.
- `SurroundingText`: weak fairness of `Serve`, the disjunction of what the application and
  the timers have to do, the end of the hold for a Chromium included; each step of it makes
  one of them smaller, so that none is starved. Nothing has to take the focus back
  (`Activate`).
- The other modules have safety properties only, and no fairness.

## 4. What TLAPS proves

For every value of the constants that satisfies the named assumptions
(`InjectorAssumption`, `XTestAssumption`, `LibeiAssumption`, `ReplacementAssumption`,
`BarAssumption`, `CacheAssumption`, `FocusAssumption`, `BrowserAssumption`,
`OutputModeAssumption`; TLC evaluates each in a run):

| module | theorems |
|---|---|
| `UinputInjectorProofs` | `TypeCorrect`, `NothingOrphaned`, `QueueServable`, `CompletionExact`, `TerminalFinal`, `InOrder`, `CancelStops`, `IsInjectionService` |
| `NativeInjectorProofs` | of XTest: `TypeCorrect`, `KeysReleased`, `FallbackSafe`, `FewStrayPresses`, `IsInjectionService`; of libei: `PortalTypes`, `CancelStopsTyping`, `BatchKeepsItsDevice`, `TokenSurvivesCrash` |
| `UinputReplacementSafety` | `TypeCorrect`, `NothingStray`, `CommittedInTime`, `NothingCommittedAway` |
| `UinputReplacementProofs` | `ScreenConverges`, `OrderKept`, `NothingLost`, and `TicketsAreTrue` of `InjectionService` |
| `AddressBarProofs` | `TypeCorrect`, `WordTakenInSight`, `NothingBeforeTaken`, `FirstWordTaken`, `CountRight` |
| `OutputModeProofs` | `TypeCorrect`, `OneTransport`, `WrittenOff`, `CellsInjected` |
| `A11yTextCacheProofs` | `TypeCorrect`, `SnapshotOwned`, `ReadsFresh`, `BackoffKept` |
| `SheetsCellsProofs` | `TypeCorrect`, `NothingOutlives`, `OneCell`, `NoEarlierFocus`, `LateEvents`, `BarEnds`, `FocusConverges` |

For each specification `Invariance` (`PortalInvariance`) says that its inductive invariant
`IInv` (`PortalInv`) holds, with one lemma per action (or per operator that several actions
share); the other theorems follow from it, the action properties with a look at the actions
that change the variables they are about. The invariant is a conjunction of named parts,
checked by TLC on the module's run before it was proved. It is needed because none of the
properties is inductive:

*The abstract service.* `TicketsAreTrue` says that `InjectionService` keeps `ServiceSafe`,
for any number of tickets; it stands beside the replacement, which relies on it, and needs
`TurnInv`: a turn is given when every earlier ticket has ended. With `IsInjectionService`
of the two workers it is what the engine may conclude from a ticket, whichever of them
issued it. The refinements are proved step by step: a step of the worker hands out a ticket,
gives it its turn, types some of it, ends it, or leaves the four abstract variables alone.

*uinput.* Whether Complete is exact depends on where the worker is in its batch. A batch is
active exactly at the places where `run()` types it or buries its failure (`ActiveInv`);
batches wait only behind a device that is open and not failing (`DeviceInv`); the number of
events the kernel took is that of the frames before the current one plus the offset
(`FrameInv`); every ticket is free, waiting, active or ended (`TicketInv`).

*XTest.* A key is down only if a local of `runX()` says so, and then only at the places that
lead to its release (`KeysInv`); where the worker is in its batch follows from `done` and
the kind of the batch (`StageInv`), and from that the number of presses the server took
(`PressInv`, `LandedInv`); a press goes astray only after a move of the focus that no press
has gone astray for (`FocusInv`).

*libei.* A batch meant for a keyboard that is gone is of an earlier generation (`SlotInv`),
since whatever takes the keyboard away counts the generation up; what is out of date
remains so until the next iteration of the loop (`TypingInv`). A temporary file that is
incomplete takes the token's place only if the disk was full (`TokenInv`).

*The replacement.* A stray Backspace does harm when it is taken for one of the user's.
`CountInv` says that it cannot be: the Backspaces of the user that have come pay for the
glyphs that are gone outside a replacement and for those that waiting Backspaces may delete,
and the injected ones that are still to come are awaited, or come in the grace in which
they are swallowed. It needs the state of the batch (`BatchInv`: a replacement has a ticket,
the engine waits for as many keys as its counters say, nothing is deleted in the grace or
during a replay), what is held while a browser may return (`FocusInv`), and that each
letter comes once (`KeyInv`). Handlers are functions of the context and call one another, so
the lemmas are about contexts in order (`Fine`, for the letters that came and the Backspaces
that pay): each handler keeps them so, from `Reset` up to `SettleCommit`. `ReplayBuffered`
folds `KeyEvent` over the keys that waited. Its lemma is `Folded`: what holds of the first
context and is kept by each key holds of the last, by the least number of keys for which it
would not. `CommitAfterBatch` and `NothingWhileAway` follow from what each step does to the
text, given the invariant: a commit needs a batch that is complete, and away from the focus
only a timer that a browser's cycle keeps alive can reach one.

`OrderKept` is `KeysInOrder`, and `ScreenConverges` is `Converges`, in every application. Both
follow from `IInv /\ OrderInv /\ TrackInv` (`ScreenInvariance`), which every step keeps.
`OrderInv` puts what the keys pass through in one order: the keys that have had their
effect, with those of the word and of the old word, then the buffer, then the settled keys,
then the wire (`Orderly`). Inside a handler a fold holds some keys that are in none of
these; they have a place of their own in that order. Nothing waits in the buffer but for a
replacement or a replay (`Waits`). `TrackInv` speaks of the steps before a Backspace is eaten
or a commit forced. It says that the word is a suffix of what is shown (`Tracks`); that a
context whose commits the compositor drops is that of a page that is away, with a
replacement that waits for its return or with nothing to lose (`Parked`); and what a blind
browser needs (`Clean`). There a report of a missed deletion starts a repair, which searches
the text for the old word. The report may be false, and the repair must then find nothing.
That holds because each key is in one glyph (`Neat`) and a glyph of the old word
is gone from the screen (`Replaced`), unless nothing is under way and no key waits (`Idle`);
to show that a new replacement makes `Replaced` true takes the order of the keys.

`NothingLost` is `NoKeyLost`, from the same three and `KeptInv` (`KeptInvariance`): every key
that came is in a glyph that is shown, in one that the user deleted, in a queue, or is one
that the re-delivery guard dropped and that repeats in time the letter it was armed with
(`Kept`, with `dropped` cut down to `again`): the guard drops no other key, though two
handlers ask it and the keys replayed from the settling queue pass both. The code drops keys
elsewhere, too: where a Backspace is eaten, a batch fails, a commit is forced (the grace it
starts refuses the next replacement, which resets the context), a focus is lost for good, or
the buffer is full. `Faultless` names these, and the theorem is about the steps before the
first of them; lost loopbacks, cycles of the focus, replays that start replacements and, in a
blind browser, false reports of a missed deletion are all inside it. The proof shows that the
branches that drop keys are not reached until then (`Sound`). That the buffer has room for a
key takes the order of the keys: those in it came before it, each once, so there are fewer
than `BufferCap` (`Room`). That a key shown stays shown takes `TrackInv`: a suffix that is
replaced is a suffix of the word, and it is committed again with the letter in it. TLC checked
`KeptInv` with both runs of the replacement.

*The text cache.* `SnapshotBelongs` survives a slow reply because a reply counts only if its
generation is the present one, and whatever moves the focus or ends the demand moves the
generation. `RequestInv` says that a request of the present generation is one for the
focused entry, begun in the present demand, and that its answer is no older than the
request; `DemandInv` that a demand is renewed, not back-dated. `ReadsFresh` adds the test in
`read()`. `Skew` is in the statements because callers read the clock before they take the
mutex. `BackoffInv` keeps the deadline beside the failures of the present run, as far apart as
the code's table of delays says; while the run is unbroken no poll begins before it
(`BackoffKept`).

*Focus and cells.* While a gain is in work its accessible is the published one, with neither
a verdict that may be used nor a polled text (`WorkInv`); a verdict that may be used was
stored for the accessible published now (`VerdictInv`); a monitor outside its loop has
withdrawn the identity (`StoppedInv`). For the key thread, the generation it took first
tells accessibles apart (`LookInv`), and the letters that are known to have gone to a cell
went to that of the baseline (`WordInv`). Serial numbers of published accessibles are
compared by their order, so that the proof of the last part goes by the least number at
which an accessible could have been published twice.

`FocusConverges` is `Converges`. Signals of different connections overtake one another, so
what is known before the monitor is at rest is what is under way (`CourseInv`): a gain of an
accessible that lost the focus is followed by its blur or the exit of its application on the
same connection, on the wire, in the queue, or in the batch at work, and the gain of the one
that has the focus is followed by nothing that would take it away. With nothing under way
this says who is published. A coalesced batch leaves out signals that later ones make
pointless; the lemma about it is that it ends with what the queue would have ended with.
Each connection carries its own signals (`PathInv`); the verdict is followed through the
queries that make it (`TruthInv`), and what is remembered of an application is true while it
runs. TLC checked `RestInv`, the three of them, with the run of `SheetsCells`.

*The address bar.* `CountInv` says that a count, while it can be known, is the number of
characters before the word, and that the word is in step with the screen; the mark of a key
that clears the bar is only there with a count of nothing. That gives `PrefixCounted`, and
with what each plan asks for (`PlanX11Is`, `PlanWaylandIs`) and what a deletion leaves
(`LeftOfWord`) that no replacement takes of what is before its word. That a first word goes
as a whole needs that nothing speaks against its being the first (`FirstInv`): the bar was
cleared, a Backspace was seen, or the engine remembers no text, space or caret. A word begins
with a letter and replaces a selection (`WordInv`). The words are sequences of keys and the
bar shows glyphs; how many glyphs a key adds, marks or takes are lemmas of their own, by the
cardinality of a set of positions.

*Output mode.* Within a word the decision stands and is the one its first letter went by
(`Steady`); what was read of the user's choice is still what the file says (`Learnt`); a
decision no older than the choice follows it (`Follows`); the time to decide is over only
for a focus that had it (`Timely`). Handlers are functions of the context, so the lemmas
are about the functions (`Looking`, `Found`, `Failure`...): each keeps a context `Good`.

Proof attempts corrected the project in seven places; the first four were then confirmed by
TLC.

- `Chosen` was false of an excluded program whose address bar hands the word back.
- `StickyEarned` was false of a program that changes its name twice while its decision is
  put off; the third disjunct names the case.
- `NothingWhileAway` was false with four keys (in a page on Wayland): see section 5.
- `NoStrayDeletion` with four keys showed that the grace has to outlast the injected keys
  that wait for replay, too; `GraceEnds` now states that assumption.
- `UinputReplacement` had a `CASE` with arms that overlap, which TLC takes in order and the
  logic leaves open, and a set of glyphs, `SUBSET Keys \ {{}}`, that TLC and TLAPS parse
  differently. The first is an `IF` chain now, as in the code; the second has parentheses.
- `NoKeyLost` held only by the bounds of its run, which has no failed batch and room for
  every key; it names its conditions now (`Faultless`).
- `AddressBar` typed its lengths and pixels by `MaxText`, which holds only of texts no longer
  than that; they are numbers now. What a word looks like is defined by positions, since
  `SelectSeq` is recursive.

Only model-checked:

- Liveness (`Progress` of uinput, XTest and the replacement, `PortalProgress`, `Settles`):
  fairness and ENABLED are outside the prover's logic.
- `SurroundingText`: its properties compare sequences that handlers rewrite, by searching
  the text, with one that the user meant.

## 5. Disagreements between the code and what the repository says

Two are runs that TLC refutes; `findings` in `PROJECT.json` quotes the line.

1. `NoStuckKey` (`uinput_injector.cpp:200`): a selection cancelled while Shift is held
   skips the release. The comment at line 96 says that no key stays pressed.
2. `ClearedWordAlone` (`engine.cpp:7693`): the one-shot mark that a clear shortcut leaves
   is not taken away by a digit, a punctuation mark or a space typed before the word, and
   is believed before the count of characters: Ctrl+L, `2`, `a`, tone key deletes the `2`.

The others were met while modelling. They have no run of their own: either the module
excuses exactly the circumstance (named below), or it is outside what the module covers.

*Replacement.*
- The check that the deleted word is still in the field finds it anywhere in the field, and
  compares with a word that replayed keys do not update (4577, against 4572–4574 and
  `uinput_delete_ack.h:11`). A stale miss report then deletes a good letter; `Converges`
  and `NoKeyLost` (by `Faultless`) excuse the case with an eaten Backspace.
- The blind repair arms no safety timer after the anchor reset it (4579, against 8460); if
  its keys are lost, the context holds every later key back. `Progress` is checked without
  blind browsers.
- The forced commit arms the grace in which new deletions are refused, and then replays
  the keys that waited; the first that needs a deletion is refused, and resets the context
  with the letters (8865 and 3854, against `docs/uinput-migration-validation.md:75`).
- On X11 outside the forwarded and native transports nothing holds the settle timer back
  while a Chromium's return is awaited, and nowhere the safety timer: a commit may go to
  the focus that was lost (4506, 8861, against 4982–4985 "discard the replacement instead of
  committing it into a stale focus"). `NothingWhileAway` excuses Chromium on X11 for these
  500 ms. On Wayland what is committed then is dropped and its letters are lost, and the
  safety timer, which does not ask for the focus, replays the keys that waited: the oldest is
  forwarded as a key (4719) into whatever has the focus.
- A Backspace of ours that joined some twenty keys waiting to be replayed (20 ms apart) is
  replayed after the grace of 400 ms and deletes a letter. `GraceEnds` assumes the queue short.
- A browser's focus cycle between a commit and the replay of the keys that waited for it
  loses them: `deactivate()` clears `settledKeys_` (5019–5048). `CycleBegins` leaves it out.
- The re-delivery guard exempts a key with a timestamp of its own during a replacement only
  if `!isWayland()` (4147), so that in a browser on Wayland the second of two equal letters,
  typed within half a second of the replacement that the first one started, is dropped
  while the deletions are under way. Neither is a new press told from an old one in an
  Electron application on XWayland. The comment on the other guard says that taking every
  fast repeat for a replay "drops the second a in ddaay" (5748–5750) and lets native Wayland
  timestamps count (so does the test `waylandRepeatedLetter`,
  `test_engine_performance.cpp:1154`, where no deletion is under way). `NoKeyLost` names such
  a key, and no other: `dropped \cap again`.
- The wait of the forwarded and native transports for a browser's return is five times 2 ms,
  the timer it waits for is 500 ms (4506–4513, 4976–4990), and `forwardedFocusRetries_` is
  not reset for Native.

*Surrounding text.* The values of `harm` name the places.
- `eager`: `repairNativeDeletes` waits 20 ms on the main thread, so no fresh report can
  come in; the old one is read again and the characters are deleted twice (8202, against
  8204–8208). `raced`, `overtaken`: a repair does not wait for keys already committed, nor
  for forwarded Backspaces still on their way.
- `prefix`: a prefix that changed while the commit was deferred is committed again with the
  whole word (8363–8370). `tail`: after `reset()` the next letter overwrites or overtakes
  the deferred tail (5866–5870). `lost`, `stuck`: `deactivate()` in Firefox leaves keys
  waiting (4930), `reset()` drops those in `settledKeys_`; `lost` is also what a key deferred
  between a loss of the focus and the return, and a replacement whose browser does not
  return in time. `unwatched`: `activate()` ends the verification of a native deletion (3744),
  so that a drop which shows later is not repaired.
- `part`: `missingNativeDeleteChars` looks for a suffix, but a deletion applied in part
  leaves a prefix (8173, 8731). `merged`, `stale`, `late`, `blank`, `verify`: the
  verification after the commit compares with a word that went on, or with an empty or
  late report.

*Output mode.*
- The guard against flickering hints needs `modeCacheValid_`, but `detectAutoMode()` runs
  only when it is false (2851, against 2831–2834): dead code.
- A program's own "Auto" is lost when the general mode is explicit (2262–2273 override
  3727): `AutoLost` in `CellsAreInjected`. The tray's `setOutputMode` (1511) invalidates no decision;
  a reload in the middle of a word leaves `modeCacheValid_` (2234).
- A Chromium without a name is written off at once when its decision is pending
  (3064–3079); the verdict on a terminal is cached under the empty name (3275–3297); a
  change of the name keeps `cachedIsChromium_`; re-including an excluded program keeps its
  old override; a cycle of the focus on Wayland, or a failure of surrounding text, decides
  anew within a word (`disturbed`).

*Accessibility.*
- The desync guard accepts a text when the stamp moved, but a stamp is the start of a poll:
  one under way when the key arrived ends with a text from before it (6975, against 6971
  and 6943–6945). The monitor subscribes and polls by two checks of the demand; a demand
  that begins in between is polled without being listened to (`a11y_monitor.cpp:1692`,
  against 1406).
- The flags are read without a lock after the check of relevance, so a reader may get the
  verdict on a later focus; a failed query of the ancestors publishes a page as a field of
  the browser (1624, against 1675–1677); a failed query of the process is cached as "web
  runtime" for the connection; a gain that another application's gain overtakes leaves no
  identity at rest; the end of the thread and the exit of an application do not blur the
  text cache. A word whose first key comes before the monitor has seen the address bar is
  not marked as begun there. `Converges` and `BarWordEnds` are stated around these.

*Address bar.*
- The Escape that goes first adds a Backspace for a suggestion that it dismissed
  (7794–7800, against 7767–7769): excluded in `ExactWithText`. After Backspaces the word
  model may differ from the screen (a glyph marked twice, a mark on an earlier letter
  popped with the last one, 5979–6009): `InStep`. A Backspace that a suggestion ate leaves
  a word the guard cannot see (6929–6936).
- `addrBarContentUnknown_` is dead after an activation, as `deactivate()` has zeroed
  `committedLen_` (5046, against 3638 and 3645); an unarmed cycle does not keep the
  composition (against 3623–3629), as `deactivate()` has reset it; Escape while composing
  forgets the word but not the prefix.
- A coincidence of the bar's beginning with the word, with the selection unknown, deletes a
  character (`Coincides`).

*Preedit.* `pendingPreedits_` is kept per program and `preeditWasPending_` per context
(3601–3621, against 3612–3614); a newer word is not saved (5037); the branches for cycles
leave the flag set. *Settings.* If `pkexec` fails to start, the updater's button stays
disabled; `onRestartFcitx5` restores a state that may be old; `file.write` is not checked.

## 6. What is not modelled

- The composition library is external; its result is an input (`effect`, `Effects`).
- Replacement: the selection transport, auto-restore's own starts, the post-commit
  verification over uinput; the overflow of the buffer of held keys, which drops the key
  (the run types no more keys than the buffer holds); keys that a browser sends once more (the
  guard against them is modelled, with the new presses it takes for them), and Electron
  applications on native Wayland.
- Surrounding text: selections, cell selection, macros, Preedit.
- Address bar: the XIM hand-back, the modes Select and Preedit, macros, the undo of a tone,
  the return to an earlier word, movements of the caret other than to the end. A deletion is
  refused only where Backspaces are not forwarded, and a whole replacement is finished
  before the next key.
- Output mode: the relay of gnome-shell, password and lock-screen pass-through, the reading
  of `/proc` and X properties. Firefox, office, terminal and document programs are in the
  module but not in the run's sets, to keep it small.
- Monitor: the cache of ancestors (its entries may always have expired), the registration
  of events, pokes; `SheetsCellTracker`, whose result is only logged. The blur of the focus
  and that of the text cache are one step.
- `waitMillis()` of the text cache: a poll may begin at any moment, earlier than it would.
- `UinputDeleteAck` is the free verdict `missed` of `UinputReplacement`. The retroactive
  history is sequential and lives on the external library; the delay statistics are
  floating-point averages, and the models let every delay take any value.
- Widgets, the updater, packaging, D-Bus plumbing, icons, logging.

## 7. Plan

Done: the three injectors, the replacement over uinput with focus cycles, the replacement
by requests, the address bar, the output mode, the text cache, the monitor's focus and the
cells. Next:

1. Proofs: `BaseKept` of `SurroundingText`.
2. `UinputDeleteAck` as a module in place of the free verdict of `UinputReplacement`; the
   post-commit verification over uinput.
3. The updater's stages and the atomic replacement of configuration files; the retroactive
   history.
