----------------------------- MODULE A11yFocus -----------------------------
(***************************************************************************)
(* The accessibility monitor of src/a11y_monitor.cpp: which accessible has *)
(* the focus, and what it is.  A thread takes batches of signals from the  *)
(* accessibility bus and, for a gain of the focus, asks the application    *)
(* about the accessible: calls that block, may fail, and during which      *)
(* other signals arrive.  What it learns it publishes for the key handlers *)
(* of the engine, which read it without waiting.                           *)
(*                                                                         *)
(* The applications, their connections and the bus are the environment:    *)
(* one connection's signals arrive in order, those of two in any.          *)
(*                                                                         *)
(* Reads of the flags are not locked; the actions are the groups of stores *)
(* a reader may fall between.  The roles and states of an accessible are   *)
(* its kind.  The cache of parents saves questions for 30 s and is left    *)
(* out: its entries may always have expired.                               *)
(***************************************************************************)
EXTENDS Naturals, Sequences, FiniteSets

CONSTANTS
    Buses,       \* connections to the accessibility bus, an application each
    Elements,    \* accessibles that take the focus
    Nobody,      \* no accessible
    BusOf,       \* the connection an accessible is on
    KindOf,      \* what it is
    Cells,       \* the cells of a spreadsheet
    Drain,       \* signals taken at once: 256
    MaxChanges,  \* moves of the user, of the focus or the cell, exits, restarts
    MaxFaults    \* queries that get no answer, and lost connections

\* A field of the browser itself, a field of a native application, Vivaldi's address
\* field (a page of the browser's), an input of a page, a grid of a page, the editor of
\* a spreadsheet's cells.
Kinds == {"toolbar", "native", "vivaldi", "input", "grid", "sheet"}
WebKinds == Kinds \ {"toolbar", "native"}
Grids == {"grid", "sheet"}

ASSUME FocusAssumption ==
    /\ Nobody \notin Elements /\ Nobody \notin Buses
    /\ BusOf \in [Elements -> Buses] /\ KindOf \in [Elements -> Kinds]
    /\ Cells # {}
    /\ Drain \in Nat \ {0} /\ MaxChanges \in Nat /\ MaxFaults \in Nat

Sheets == {e \in Elements : KindOf[e] = "sheet"}
Maybe == Elements \cup {Nobody}
Signals == [kind : {"gain", "blur", "select"}, of : Elements]
           \cup [kind : {"gone"}, of : Buses]
Queries == {"role", "pid", "walk", "id", "box"}

VARIABLES
    desk,     \* the desktop: a record, see Desks
    monitor,  \* the monitor's thread: a record, see Threads
    known,    \* its caches: a record, see Caches
    pub       \* what it publishes: a record, see Published

mvars == <<desk, monitor, known, pub>>

Desks ==
    [focus : Maybe,                       \* the accessible with the focus
     cell : [Sheets -> Cells],            \* the cell selected in each spreadsheet
     wire : [Buses -> Seq(Signals)],      \* signals sent, not yet on the bus
     alive : SUBSET Buses,                \* applications that run
     apps : SUBSET Buses,                 \* those that had the focus (history)
     missed : BOOLEAN,                    \* a signal found no thread (history)
     changes : 0..MaxChanges, faults : 0..MaxFaults]

Threads ==
    [at : {"off", "connect", "poll", "batch", "queries", "flags", "stamp", "leaving"},
     queue : Seq(Signals),                \* signals that have arrived
     batch : Seq(Signals),                \* messages, those left of it
     target : Maybe,                      \* sender and path of the gain in work
     failed : SUBSET Queries]             \* its queries without an answer

Caches ==
    [pid : SUBSET Buses,                  \* connectionPids
     native : SUBSET Buses,               \* webRuntimes, those that answered no
     asked : SUBSET Buses,                \* webRuntimes, all
     boxes : SUBSET Sheets]               \* sheetsNameBoxes

\* The flags with the generation they were stored for; 0 is cleared.
Flags == [gen : Nat, ui : BOOLEAN, web : BOOLEAN, entry : BOOLEAN]

Published ==
    [running : BOOLEAN,                   \* running_
     stop : {"no", "joining", "yes"},     \* stopRequested_, and whether stop() waits
     ident : Maybe, gen : Nat,            \* focusBus_ and focusPath_, focusGeneration_
     fresh : BOOLEAN, settled : BOOLEAN,  \* focusSnapshotUsec_ is set, 300 ms ago
     pid : BOOLEAN,                       \* focusProcessId_ is known
     flags : Flags,                       \* browserUIFocused_, focusInWebDoc_, ...
     sheet : BOOLEAN,                     \* sheetsEditorFocused_
     editor : Maybe, box : BOOLEAN,       \* sheetsBus_ and sheetsPath_, sheetsNameBoxPath_
     container : Maybe,                   \* cellContainerBus, cellContainerPath
     serial : Nat,                        \* cellSelectionSerial_
     polled : Maybe]                      \* the entry of the text cache

Cleared == [gen |-> 0, ui |-> FALSE, web |-> FALSE, entry |-> FALSE]
-----------------------------------------------------------------------------
(***************************************************************************)
(* The desktop.                                                            *)
(***************************************************************************)
Send(d, b, signals) == [d EXCEPT !.wire[b] = @ \o signals]

Change(d) == [d EXCEPT !.changes = @ + 1]

\* The accessible that loses the focus and the one that takes it both say so; two of
\* one application in either order.
MovedTo(d, e) ==
    LET old == d.focus
        blur == IF old = Nobody THEN <<>> ELSE <<[kind |-> "blur", of |-> old]>>
        gain == IF e = Nobody THEN <<>> ELSE <<[kind |-> "gain", of |-> e]>>
        moved == [d EXCEPT !.focus = e, !.apps = IF e = Nobody THEN @ ELSE @ \cup {BusOf[e]}]
    IN  IF old # Nobody /\ e # Nobody /\ BusOf[old] = BusOf[e]
        THEN {Send(moved, BusOf[e], blur \o gain), Send(moved, BusOf[e], gain \o blur)}
        ELSE {IF e = Nobody THEN Send(moved, BusOf[old], blur)
              ELSE IF old = Nobody THEN Send(moved, BusOf[e], gain)
              ELSE Send(Send(moved, BusOf[old], blur), BusOf[e], gain)}

MoveFocus ==
    \E e \in Maybe \ {desk.focus} :
        /\ desk.changes < MaxChanges
        /\ e # Nobody => BusOf[e] \in desk.alive
        /\ desk' \in MovedTo(Change(desk), e)
        /\ UNCHANGED <<monitor, known, pub>>

\* A click on another cell: the spreadsheet keeps the focus and says, later, that its
\* selection changed.
MoveCell ==
    /\ desk.changes < MaxChanges /\ desk.focus \in Sheets
    /\ \E c \in Cells \ {desk.cell[desk.focus]} :
        desk' = Send([Change(desk) EXCEPT !.cell[desk.focus] = c], BusOf[desk.focus],
                     <<[kind |-> "select", of |-> desk.focus]>>)
    /\ UNCHANGED <<monitor, known, pub>>

\* An application leaves the bus, which says so after all it has sent.
Quit(b) ==
    /\ desk.changes < MaxChanges /\ b \in desk.alive
    /\ desk' = Send([Change(desk) EXCEPT
                        !.alive = @ \ {b},
                        !.focus = IF @ # Nobody /\ BusOf[@] = b THEN Nobody ELSE @],
                    b, <<[kind |-> "gone", of |-> b]>>)
    /\ UNCHANGED <<monitor, known, pub>>

\* A monitor that is not connected misses it.
Deliver(b) ==
    /\ desk.wire[b] # <<>>
    /\ LET deaf == monitor.at \in {"off", "connect", "leaving"}
       IN  /\ desk' = [desk EXCEPT !.wire[b] = Tail(@), !.missed = @ \/ deaf]
           /\ monitor' = IF deaf THEN monitor
                         ELSE [monitor EXCEPT !.queue = Append(@, Head(desk.wire[b]))]
    /\ UNCHANGED <<known, pub>>

Desktop == MoveFocus \/ MoveCell \/ \E b \in Buses : Quit(b) \/ Deliver(b)
-----------------------------------------------------------------------------
(***************************************************************************)
(* The identity: beginFocus() and invalidateFocus() hold focusIdentityMutex_, *)
(* as focusIdentity() does.                                                *)
(***************************************************************************)
ClearFocusFlags(p) ==
    [p EXCEPT !.fresh = FALSE, !.settled = FALSE, !.pid = FALSE, !.flags = Cleared, !.sheet = FALSE]

\* mutant: the flags of the previous accessible stay until the next are stored
BeginFocusStale(p, e) ==
    [p EXCEPT !.ident = e, !.gen = IF p.ident = e THEN @ ELSE @ + 1]

BeginFocus(p, e) ==
    LET c == ClearFocusFlags(p)
    IN  IF c.ident = e THEN c ELSE [c EXCEPT !.ident = e, !.gen = @ + 1]

Invalidated(p) ==
    [ClearFocusFlags(p) EXCEPT !.ident = Nobody, !.gen = @ + 1]

\* mutant: any blur or exit clears the identity
InvalidateFocusAlways(p, leaving) == Invalidated(p)

\* A blur or an exit of an accessible that is not the current one clears nothing.
InvalidateFocus(p, leaving) == IF p.ident \in leaving THEN Invalidated(p) ELSE p

Blurred(p, e) ==
    [InvalidateFocus(p, {e}) EXCEPT !.polled = IF @ = e THEN Nobody ELSE @]

FocusIdentity(p) == IF p.fresh THEN p.ident ELSE Nobody
-----------------------------------------------------------------------------
(***************************************************************************)
(* A batch.  Of the gains in it only the last is looked at; everything     *)
(* else keeps its place.                                                   *)
(***************************************************************************)
LastGain(batch) ==
    LET gains == {i \in DOMAIN batch : batch[i].kind = "gain"}
    IN  IF gains = {} THEN 0 ELSE CHOOSE i \in gains : \A j \in gains : j <= i

Coalesced(batch) ==
    LET kept == {i \in DOMAIN batch : batch[i].kind # "gain" \/ i = LastGain(batch)}
        nth(n) == CHOOSE i \in kept : Cardinality({j \in kept : j <= i}) = n
    IN  [n \in 1..Cardinality(kept) |-> batch[nth(n)]]

Take ==
    /\ monitor.at = "poll" /\ monitor.queue # <<>> /\ pub.stop = "no"
    /\ LET n == IF Len(monitor.queue) < Drain THEN Len(monitor.queue) ELSE Drain
       IN  monitor' = [monitor EXCEPT
                        !.at = "batch",
                        !.batch = Coalesced(SubSeq(monitor.queue, 1, n)),
                        !.queue = SubSeq(monitor.queue, n + 1, Len(monitor.queue))]
    /\ UNCHANGED <<desk, known, pub>>

Signal(kind) ==
    /\ monitor.at = "batch" /\ monitor.batch # <<>>
    /\ Head(monitor.batch).kind = kind

\* The message is done with; at the end of the batch, back to poll(2).
Handled(m) == [m EXCEPT !.at = IF m.batch = <<>> THEN "poll" ELSE "batch"]

Blur ==
    /\ Signal("blur")
    /\ pub' = Blurred(pub, Head(monitor.batch).of)
    /\ monitor' = Handled([monitor EXCEPT !.batch = Tail(@)])
    /\ UNCHANGED <<desk, known>>

\* A selection in anything but the tracked grid is not a change of the cell.
Select ==
    /\ Signal("select")
    /\ pub' = IF pub.container = Head(monitor.batch).of
              THEN [pub EXCEPT !.serial = @ + 1] ELSE pub
    /\ monitor' = Handled([monitor EXCEPT !.batch = Tail(@)])
    /\ UNCHANGED <<desk, known>>

\* NameOwnerChanged: what was known of the connection goes with it, and its focus.
Gone ==
    /\ Signal("gone")
    /\ LET b == Head(monitor.batch).of
           its == {e \in Elements : BusOf[e] = b}
       IN  /\ known' = [known EXCEPT !.pid = @ \ {b}, !.native = @ \ {b}, !.asked = @ \ {b}]
           /\ pub' = InvalidateFocus(pub, its)
    /\ monitor' = Handled([monitor EXCEPT !.batch = Tail(@)])
    /\ UNCHANGED desk
-----------------------------------------------------------------------------
(***************************************************************************)
(* A gain.                                                                 *)
(***************************************************************************)
\* mutant: the text cache goes on polling the previous entry
BeginPolling ==
    /\ Signal("gain")
    /\ LET e == Head(monitor.batch).of
       IN  /\ monitor' = [monitor EXCEPT !.batch = Tail(@), !.target = e, !.at = "queries"]
           /\ pub' = BeginFocus(pub, e)
    /\ UNCHANGED <<desk, known>>

\* Forget the verdicts before the slow questions, and what the text cache polls.
Begin ==
    /\ Signal("gain")
    /\ LET e == Head(monitor.batch).of
       IN  /\ monitor' = [monitor EXCEPT !.batch = Tail(@), !.target = e, !.at = "queries"]
           /\ pub' = [BeginFocus(pub, e) EXCEPT !.polled = Nobody]
    /\ UNCHANGED <<desk, known>>

NativeApp(b) == \A e \in Elements : BusOf[e] = b => KindOf[e] \notin WebKinds \cup {"toolbar"}

\* One query may find the application, or the daemon, too slow.  A connection that is
\* gone answers none.
Failures(b) ==
    IF b \notin desk.alive THEN {Queries}
    ELSE {{}} \cup (IF desk.faults < MaxFaults THEN {{q} : q \in Queries} ELSE {})

\* The answers to the questions about e: the connection's process and its runtime, the
\* walk to the document, the id.
PidKnown(e, failed) == BusOf[e] \in known.pid \/ "pid" \notin failed
SkipsWalk(e, failed) ==
    IF BusOf[e] \in known.asked THEN BusOf[e] \in known.native
    ELSE PidKnown(e, failed) /\ NativeApp(BusOf[e])
Walks(e, failed) == ~SkipsWalk(e, failed) /\ "walk" \notin failed
InDocument(e, failed) == KindOf[e] \in WebKinds /\ Walks(e, failed)
Identified(e, kind, failed) ==
    KindOf[e] = kind /\ InDocument(e, failed) /\ failed \cap {"role", "id"} = {}

SheetsEditor(e, failed) == Identified(e, "sheet", failed)
VivaldiAddressBar(e, failed) == Identified(e, "vivaldi", failed)
TextEntry(e, failed) == KindOf[e] \notin Grids /\ "role" \notin failed
BrowserUI(e, failed) == ~InDocument(e, failed) \/ VivaldiAddressBar(e, failed)
NameBox(e, failed) ==
    SheetsEditor(e, failed) /\ (e \in known.boxes \/ "box" \notin failed)

\* The answers are remembered, a runtime also when its process could not be told, and
\* what concerns spreadsheets is published.
Ask ==
    /\ monitor.at = "queries"
    /\ LET e == monitor.target
           b == BusOf[e]
       IN  \E failed \in Failures(b) :
            /\ monitor' = [monitor EXCEPT !.failed = failed, !.at = "flags"]
            /\ desk' = [desk EXCEPT !.faults = IF Cardinality(failed) = 1 THEN @ + 1 ELSE @]
            /\ known' = [known EXCEPT
                !.pid = IF PidKnown(e, failed) THEN @ \cup {b} ELSE @,
                !.asked = @ \cup {b},
                !.native = IF SkipsWalk(e, failed) THEN @ \cup {b} ELSE @,
                !.boxes = IF NameBox(e, failed) THEN @ \cup {e} ELSE @]
            /\ pub' = [pub EXCEPT
                !.sheet = SheetsEditor(e, failed),
                !.editor = IF SheetsEditor(e, failed) THEN e ELSE Nobody,
                !.box = NameBox(e, failed),
                !.container = IF InDocument(e, failed) /\ KindOf[e] \in Grids
                                 /\ "role" \notin failed
                              THEN e ELSE Nobody]

PublishFlags ==
    /\ monitor.at = "flags"
    /\ monitor' = [monitor EXCEPT !.at = "stamp"]
    /\ LET e == monitor.target
           failed == monitor.failed
       IN  pub' = [pub EXCEPT
            !.pid = BusOf[e] \in known.pid,
            !.flags = [gen |-> pub.gen, ui |-> BrowserUI(e, failed),
                       web |-> ~BrowserUI(e, failed), entry |-> TextEntry(e, failed)]]
    /\ UNCHANGED <<desk, known>>

\* The stamp comes last: now the verdict may be used, and the text of a field of the
\* browser be polled.
Stamp ==
    /\ monitor.at = "stamp"
    /\ monitor' = Handled([monitor EXCEPT !.target = Nobody, !.failed = {}])
    /\ pub' = [pub EXCEPT
        !.fresh = TRUE,
        !.polled = IF pub.flags.ui /\ pub.flags.entry THEN monitor.target ELSE @]
    /\ UNCHANGED <<desk, known>>

Settle ==
    /\ pub.fresh /\ ~pub.settled
    /\ pub' = [pub EXCEPT !.settled = TRUE]
    /\ UNCHANGED <<desk, monitor, known>>
-----------------------------------------------------------------------------
(***************************************************************************)
(* Starting and stopping.                                                  *)
(***************************************************************************)
\* A queue that nobody reads again, or a focus no signal will tell of.
Deserted == [desk EXCEPT !.missed = TRUE]

\* The thread leaves its loop: it was told to, or the bus is lost.
Leave ==
    /\ monitor.at = "poll"
    /\ \/ pub.stop # "no" /\ desk' = Deserted
       \/ /\ pub.stop = "no" /\ desk.faults < MaxFaults
          /\ desk' = [Deserted EXCEPT !.faults = @ + 1]
    /\ pub' = Invalidated(pub)
    /\ monitor' = [monitor EXCEPT !.at = "leaving", !.queue = <<>>]
    /\ UNCHANGED known

Left ==
    /\ monitor.at = "leaving"
    /\ pub' = [pub EXCEPT !.running = FALSE]
    /\ monitor' = [monitor EXCEPT !.at = "off"]
    /\ UNCHANGED <<desk, known>>

\* reloadConfig(), when accessibility is turned off, or on, or the thread had ended.
Stop ==
    /\ pub.running /\ pub.stop = "no" /\ desk.changes < MaxChanges
    /\ pub' = [pub EXCEPT !.stop = "joining"]
    /\ desk' = Change(desk)
    /\ UNCHANGED <<monitor, known>>

Join ==
    /\ pub.stop = "joining" /\ monitor.at = "off"
    /\ pub' = [Invalidated(pub) EXCEPT !.stop = "yes"]
    /\ UNCHANGED <<desk, monitor, known>>

Start ==
    /\ ~pub.running /\ monitor.at = "off" /\ pub.stop # "joining"
    /\ desk.changes < MaxChanges
    /\ pub' = [pub EXCEPT !.running = TRUE, !.stop = "no"]
    /\ desk' = Change(desk)
    /\ monitor' = [monitor EXCEPT !.at = "connect"]
    /\ UNCHANGED known

\* The caches are the thread's own, and begin empty.
Connect ==
    /\ monitor.at = "connect"
    /\ \/ /\ monitor' = [monitor EXCEPT !.at = "poll"]
          /\ pub' = [pub EXCEPT !.container = Nobody]
          /\ UNCHANGED desk
       \/ /\ desk.faults < MaxFaults
          /\ desk' = [desk EXCEPT !.faults = @ + 1]
          /\ monitor' = [monitor EXCEPT !.at = "off"]
          /\ pub' = [pub EXCEPT !.running = FALSE, !.container = Nobody]
    /\ known' = [pid |-> {}, native |-> {}, asked |-> {}, boxes |-> {}]
-----------------------------------------------------------------------------
MonitorInit ==
    /\ desk = [focus |-> Nobody, cell |-> [e \in Sheets |-> CHOOSE c \in Cells : TRUE],
               wire |-> [b \in Buses |-> <<>>], alive |-> Buses, apps |-> {}, missed |-> FALSE,
               changes |-> 0, faults |-> 0]
    /\ monitor = [at |-> "poll", queue |-> <<>>, batch |-> <<>>, target |-> Nobody,
                  failed |-> {}]
    /\ known = [pid |-> {}, native |-> {}, asked |-> {}, boxes |-> {}]
    /\ pub = [running |-> TRUE, stop |-> "no", ident |-> Nobody, gen |-> 1,
              fresh |-> FALSE, settled |-> FALSE, pid |-> FALSE, flags |-> Cleared,
              sheet |-> FALSE, editor |-> Nobody, box |-> FALSE, container |-> Nobody,
              serial |-> 0, polled |-> Nobody]

Monitor ==
    \/ Take \/ Blur \/ Select \/ Gone
    \/ Begin \/ Ask \/ PublishFlags \/ Stamp
    \/ Settle \/ Leave \/ Left \/ Connect

-----------------------------------------------------------------------------
(***************************************************************************)
(* Properties.                                                             *)
(***************************************************************************)
MonitorTypeOK ==
    /\ desk \in Desks /\ monitor \in Threads /\ known \in Caches /\ pub \in Published

AtRest ==
    /\ \A b \in Buses : desk.wire[b] = <<>>
    /\ monitor.at = "poll" /\ monitor.queue = <<>> /\ pub.stop = "no"

Truth(e) ==
    [ui |-> KindOf[e] \in {"toolbar", "native", "vivaldi"},
     web |-> KindOf[e] \in WebKinds \ {"vivaldi"}, entry |-> KindOf[e] \notin Grids]

Judged == [ui |-> pub.flags.ui, web |-> pub.flags.web, entry |-> pub.flags.entry]

\* With nothing left to read, the published accessible is the one that has the focus,
\* or none, in whatever order the connections' gains, blurs and exits came; it is exactly
\* the focus while one application had it and the thread was there to hear of it.  Its
\* verdict is complete, and true if every query was answered (a11y_monitor.cpp:1088 "a
\* late blur/disconnect from a background app must not clear the new one").
Converges ==
    AtRest =>
        /\ pub.ident \in {desk.focus, Nobody}
        /\ Cardinality(desk.apps) <= 1 /\ ~desk.missed => pub.ident = desk.focus
        /\ pub.ident # Nobody => pub.fresh
        /\ pub.ident # Nobody /\ desk.faults = 0 =>
            /\ Judged = Truth(pub.ident)
            /\ pub.sheet = (pub.ident \in Sheets)

\* While a verdict may be used, the text that is polled is that of its accessible: the
\* text of the field that had the focus before is never taken for it.
TextFollowsFocus == pub.fresh => pub.polled \in {pub.ident, Nobody}

\* A monitor that does not run says nothing of the focus: isRunning() is false only once
\* the identity is withdrawn, so that a restart cannot bring an old one back.
SilentWhenStopped == ~pub.running => ~pub.fresh /\ pub.ident = Nobody /\ pub.flags = Cleared

\* Neither the polled text nor a stopped monitor speaks for a focus that is gone.
NothingOutlivesFocus == TextFollowsFocus /\ SilentWhenStopped
-----------------------------------------------------------------------------
(***************************************************************************)
(* The parts of the inductive invariant that speak of the monitor.         *)
(***************************************************************************)
\* While a gain is in work its accessible is the published one, without a verdict that
\* may be used and without a text that is polled.
WorkInv ==
    /\ monitor.at \in {"queries", "flags", "stamp"} =>
        /\ monitor.target \in Elements /\ pub.ident = monitor.target
        /\ ~pub.fresh /\ pub.polled = Nobody
    /\ monitor.at = "stamp" => pub.flags.gen = pub.gen

\* A verdict that may be used was stored for the accessible now published; a spreadsheet
\* is tracked only as the editor it is.
VerdictInv ==
    /\ pub.fresh => pub.flags.gen = pub.gen /\ pub.polled \in {pub.ident, Nobody}
    /\ pub.sheet => pub.editor \in Sheets

\* Whoever is not in its loop has withdrawn the identity first.
StoppedInv ==
    /\ ~pub.running <=> monitor.at = "off"
    /\ monitor.at \in {"off", "connect", "leaving"} =>
        ~pub.fresh /\ pub.ident = Nobody /\ pub.flags = Cleared

MonitorInv == MonitorTypeOK /\ WorkInv /\ VerdictInv /\ StoppedInv
-----------------------------------------------------------------------------
(***************************************************************************)
(* Why the identity converges: what the signals that are still under way   *)
(* will make of it.                                                        *)
(***************************************************************************)
GainOf(e) == [kind |-> "gain", of |-> e]
Gains == [kind : {"gain"}, of : Elements]
Losses(e) == {[kind |-> "blur", of |-> e], [kind |-> "gone", of |-> BusOf[e]]}

\* Whether e has the identity once the signals of q are handled, if it had it before
\* them: those in "over" take it away.
Held(q, e, over, before) ==
    \/ \E i \in DOMAIN q : q[i] = GainOf(e) /\ \A j \in DOMAIN q : j > i => q[j] \notin over
    \/ before /\ \A j \in DOMAIN q : q[j] \notin over

\* The signals of e's connection, and those of the others that are already in line.
HeldInTheEnd(e, over) ==
    Held(desk.wire[BusOf[e]], e, over,
         Held(monitor.queue, e, over, Held(monitor.batch, e, over, pub.ident = e)))

\* It may end with e unless a loss follows its gain; it will if no other gain does.
MayEndWith(e) == HeldInTheEnd(e, Losses(e))
WillEndWith(e) == HeldInTheEnd(e, Losses(e) \cup Gains)

\* A signal s of the connection b on the desktop d.
OnBus(d, s, b) ==
    /\ s.kind = "gone" => s.of = b
    /\ s.kind # "gone" => BusOf[s.of] = b /\ b \in d.apps

OneApp == \A b, c \in desk.apps : b = c

\* Each connection carries its own signals, and a batch is there only while it is in
\* work; a thread that is not in its loop has missed something.
PathInv ==
    /\ IsFiniteSet(desk.apps)
    /\ desk.focus # Nobody => BusOf[desk.focus] \in desk.alive \cap desk.apps
    /\ \A b \in Buses : \A i \in DOMAIN desk.wire[b] : OnBus(desk, desk.wire[b][i], b)
    /\ monitor.at \notin {"batch", "queries", "flags", "stamp"} => monitor.batch = <<>>
    /\ monitor.at \in {"off", "connect", "leaving"} => monitor.queue = <<>> /\ desk.missed

\* Of an accessible that lost the focus a loss is under way, behind any gain; the one
\* that has it has the last word, unless another application or a deaf thread took it.
CourseInv ==
    /\ \A e \in Elements \ {desk.focus} : ~MayEndWith(e)
    /\ desk.focus # Nobody /\ OneApp /\ ~desk.missed => WillEndWith(desk.focus)

\* While every query was answered, what is remembered of a running application and what
\* is published of its accessible is the truth; an identity without a verdict is in work.
TruthInv ==
    /\ pub.ident # Nobody /\ ~pub.fresh => monitor.at \in {"queries", "flags", "stamp"}
    /\ known.native \subseteq known.asked
    /\ desk.faults = 0 =>
        /\ \A b \in desk.alive \cap known.asked : b \in known.native <=> NativeApp(b)
        /\ pub.ident # Nobody /\ BusOf[pub.ident] \in desk.alive =>
            /\ monitor.at = "flags" => monitor.failed = {} /\ BusOf[pub.ident] \in known.asked
            /\ pub.fresh \/ monitor.at \in {"flags", "stamp"} => pub.sheet = (pub.ident \in Sheets)
            /\ pub.fresh \/ monitor.at = "stamp" => Judged = Truth(pub.ident)

RestInv == PathInv /\ CourseInv /\ TruthInv
=============================================================================
