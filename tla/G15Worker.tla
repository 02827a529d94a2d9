------------------------------ MODULE G15Worker ------------------------------
(***************************************************************************)
(* The keyboard worker and the view that owns it: MonglView on the GTK     *)
(* main thread (init, monitors_update, unrealize, close, the notification) *)
(* and G15Worker::do_work on a thread of its own, with one more, detached, *)
(* thread for every command a G key starts.  They share the worker object  *)
(* without a lock.                                                         *)
(*                                                                         *)
(* The driver below getPressedKeys and writePixmapToLCD is module G15Usb;  *)
(* here a poll returns a set of keys or an error, and a page handed to the *)
(* driver is sent or not, and if sent it arrives later or not at all.      *)
(***************************************************************************)
EXTENDS Naturals

CONSTANTS
    NPages,     \* page.size(): 8, or 9 with a TempMonitor
    Pressable,  \* the keys the user presses
    MaxEmits    \* bound: commands are started below this many notifications

LKeys == {"L1", "L2", "L3", "L4", "L5"}
GKeys == {"G1", "G2", "G3", "G4", "G5", "G6"}
Commands == GKeys \cup {"M1"}

ASSUME NPagesAssumption == NPages \in Nat /\ NPages >= 4
ASSUME PressableAssumption == Pressable \subseteq LKeys \cup Commands
ASSUME MaxEmitsAssumption == MaxEmits \in Nat

VARIABLES
    mpc,           \* where the main thread is
    wpc,           \* where the worker thread is
    worker,        \* MonglView::worker, uninitialised at first
    running,       \* G15Worker's fields of these names ...
    dorefresh,
    display,       \* ... g15display
    lastDisplay,   \* do_work's local, 0 between two rounds
    netstart,
    m_cmd,         \* the command of the last error message, or "g15init"
    cmdErrorCode,  \* "ok", or the command whose exit status it holds
    job,           \* rundirect, per command
    emits,         \* notifications the main loop has not handled yet
    written,       \* the page that was last handed to writePixmapToLCD
    transfer,      \* "flying" while libusb is still sending it, "over" afterwards
    lcd,           \* the page the keyboard shows
    current        \* which of the page being drawn, "frame", and the page in written,
                   \* "written", show the data of the last update

vars == <<mpc, wpc, worker, running, dorefresh, display, lastDisplay, netstart,
          m_cmd, cmdErrorCode, job, emits, written, transfer, lcd, current>>
select == <<display, lastDisplay, netstart>>
commands == <<m_cmd, cmdErrorCode, job, emits>>
page == <<written, transfer, lcd>>
screen == <<written, transfer, lcd, current>>

Pages == 0 .. NPages - 1
NoPage == NPages
FilesysPage == 1        \* lists DiskInfos::m_mounts
SensorPage == 8         \* lists TempMonitor::m_actSensors

InDoWork == {"init", "loop", "polling", "m1", "decide", "draw", "drawn", "exit"}

TypeOK ==
    /\ mpc \in {"init", "running", "unrealized", "joining", "closed", "crashed"}
    /\ wpc \in {"starting", "done"} \cup InDoWork
    /\ worker \in {"garbage", "object", "NULL"}
    /\ running \in BOOLEAN /\ dorefresh \in BOOLEAN
    /\ display \in Pages /\ lastDisplay \in Pages
    /\ netstart \in BOOLEAN
    /\ m_cmd \in Commands \cup {"none", "g15init"}
    /\ cmdErrorCode \in Commands \cup {"ok"}
    /\ job \in [Commands -> {"idle", "running", "stored", "told"}]
    /\ emits \in Nat
    /\ written \in Pages \cup {NoPage} /\ lcd \in Pages \cup {NoPage}
    /\ transfer \in {"flying", "over"}
    /\ current \subseteq {"frame", "written"}

\* MonglView::init has just created the thread; nothing of it has run.
Init ==
    /\ mpc = "init" /\ wpc = "starting" /\ worker = "garbage"
    /\ running = TRUE /\ dorefresh = TRUE
    /\ display = 0 /\ lastDisplay = 0 /\ netstart = FALSE
    /\ m_cmd = "none" /\ cmdErrorCode = "ok"
    /\ job = [c \in Commands |-> "idle"]
    /\ emits = 0
    /\ written = NoPage /\ transfer = "over" /\ lcd = NoPage
    /\ current = {}

-----------------------------------------------------------------------------
(* The main thread.                                                        *)

\* The main thread changes a container while the worker iterates over it.
Racing(pages) == wpc = "draw" /\ display \in pages

\* monitors_update: once from init, then from the timer.  The first calls may find
\* worker uninitialised; what they then write to is lost or crashes.
MonitorsUpdate ==
    /\ mpc \in {"init", "running"}
    /\ \/ /\ mpc' = "running"
          /\ dorefresh' = IF worker = "object" THEN TRUE ELSE dorefresh
       \/ /\ worker = "garbage" \/ Racing({FilesysPage})
          /\ mpc' = "crashed"
          /\ UNCHANGED dorefresh
    /\ current' = {}
    /\ UNCHANGED <<wpc, worker, running, select, commands, page>>

\* on_notification_from_worker_thread: the dialog runs the main loop while it is open.
Notification ==
    /\ mpc = "running"
    /\ emits > 0
    /\ emits' = emits - 1
    /\ UNCHANGED <<mpc, wpc, worker, running, dorefresh, select, m_cmd, cmdErrorCode,
                   job, screen>>

\* unrealize: no timer any more, the settings of the worker are saved, and the monitors'
\* and disks' containers are cleared although the worker still shows pages.
Unrealize ==
    /\ mpc = "running"
    /\ \/ mpc' = "unrealized"
       \/ /\ worker = "garbage" \/ Racing({FilesysPage, SensorPage})
          /\ mpc' = "crashed"
    /\ UNCHANGED <<wpc, worker, running, dorefresh, select, commands, screen>>

\* close, up to the join.  An uninitialised pointer that happens to be 0 skips it.
Close ==
    /\ mpc = "unrealized"
    /\ IF worker = "object"
       THEN mpc' = "joining" /\ running' = FALSE
       ELSE mpc' \in {"closed", "crashed"} /\ UNCHANGED running
    /\ UNCHANGED <<wpc, worker, dorefresh, select, commands, screen>>

\* The rest of close: join, then delete the thread and the worker.
Join ==
    /\ mpc = "joining"
    /\ wpc = "done"
    /\ worker' = "NULL"
    /\ mpc' = "closed"
    /\ UNCHANGED <<wpc, running, dorefresh, select, commands, screen>>

-----------------------------------------------------------------------------
(* The worker thread.                                                      *)

\* The thread's function: new G15Worker, read_config, setLog.  A view that is gone by
\* now is written to.
StartWorker ==
    /\ wpc = "starting"
    /\ IF mpc = "closed" THEN mpc' = "crashed" ELSE UNCHANGED mpc
    /\ worker' = "object"
    /\ running' = TRUE
    /\ dorefresh' = TRUE
    /\ wpc' = "init"
    /\ UNCHANGED <<select, commands, screen>>

\* A variant that sets running again before the loop.
InitUsbRunning ==
    /\ wpc = "init"
    /\ \/ wpc' = "loop" /\ running' = TRUE
       \/ wpc' = "done" /\ running' = FALSE
    /\ UNCHANGED <<mpc, worker, dorefresh, select, commands, screen>>

\* initLibG15: without a keyboard the thread ends; any other error is told, too.
InitUsb ==
    /\ wpc = "init"
    /\ \/ /\ wpc' = "loop"
          /\ UNCHANGED <<running, commands>>
       \/ /\ wpc' = "done" /\ running' = FALSE
          /\ \/ UNCHANGED commands
             \/ /\ m_cmd' = "g15init" /\ emits' = emits + 1
                /\ UNCHANGED <<cmdErrorCode, job>>
    /\ UNCHANGED <<mpc, worker, dorefresh, select, screen>>

\* The loop's condition.
Loop ==
    /\ wpc = "loop"
    /\ wpc' = IF running THEN "polling" ELSE "exit"
    /\ UNCHANGED <<mpc, worker, running, dorefresh, select, commands, screen>>

\* getPressedKeys returned an error: wait and poll again.
PollError ==
    /\ wpc = "polling"
    /\ wpc' = "loop"
    /\ UNCHANGED <<mpc, worker, running, dorefresh, select, commands, screen>>

\* A variant of Turned that lets L1 run past the last page.
TurnedPast(d, keys) ==
    IF "L5" \in keys THEN 3
    ELSE IF "L4" \in keys THEN 2
    ELSE IF "L3" \in keys THEN 1
    ELSE IF "L2" \in keys THEN 0
    ELSE IF "L1" \notin keys THEN d
    ELSE IF d < NPages THEN d + 1 ELSE 0

\* The page the L keys of one report select; the highest one wins.
Turned(d, keys) ==
    IF "L5" \in keys THEN 3
    ELSE IF "L4" \in keys THEN 2
    ELSE IF "L3" \in keys THEN 1
    ELSE IF "L2" \in keys THEN 0
    ELSE IF "L1" \notin keys THEN d
    ELSE IF d < NPages - 1 THEN d + 1 ELSE 0

\* A command of a key is not started again while it runs, and none while MaxEmits
\* notifications wait (a bound; the code starts any number).
Startable(keys) ==
    \A c \in keys \cap Commands : job[c] = "idle" /\ emits < MaxEmits

\* A variant that takes the page to compare with after the keys.
PressedSwapped(keys) ==
    /\ wpc = "polling"
    /\ Startable(keys)
    /\ lastDisplay' = Turned(display, keys)
    /\ display' = Turned(display, keys)
    /\ job' = [c \in Commands |-> IF c \in keys THEN "running" ELSE job[c]]
    /\ wpc' = IF "M1" \in keys THEN "m1" ELSE "decide"
    /\ UNCHANGED <<mpc, worker, running, dorefresh, netstart, m_cmd, cmdErrorCode,
                   emits, screen>>

\* getPressedKeys reported keys: L keys select, G keys each detach a thread for their
\* command, M1 runs its command on this thread.
Pressed(keys) ==
    /\ wpc = "polling"
    /\ Startable(keys)
    /\ lastDisplay' = display
    /\ display' = Turned(display, keys)
    /\ job' = [c \in Commands |-> IF c \in keys THEN "running" ELSE job[c]]
    /\ wpc' = IF "M1" \in keys THEN "m1" ELSE "decide"
    /\ UNCHANGED <<mpc, worker, running, dorefresh, netstart, m_cmd, cmdErrorCode,
                   emits, screen>>

\* rundirect(m1on or m1off) returns cmdErrorCode, as it is by then.
M1Return ==
    /\ wpc = "m1"
    /\ job["M1"] = "told"
    /\ job' = [job EXCEPT !["M1"] = "idle"]
    /\ IF cmdErrorCode = "ok"
       THEN /\ netstart' = ~netstart
            /\ display' = IF netstart THEN display ELSE NPages - 4
       ELSE UNCHANGED <<netstart, display>>
    /\ wpc' = "decide"
    /\ UNCHANGED <<mpc, worker, running, dorefresh, lastDisplay, m_cmd, cmdErrorCode,
                   emits, screen>>

\* A variant that draws only when another page was selected.
DecideTurned ==
    /\ wpc = "decide"
    /\ dorefresh' = (dorefresh \/ lastDisplay # display)
    /\ wpc' = IF running /\ lastDisplay # display THEN "draw" ELSE "loop"
    /\ current' = IF wpc' = "draw" THEN current \cup {"frame"} ELSE current
    /\ lastDisplay' = 0
    /\ UNCHANGED <<mpc, worker, running, display, netstart, commands, page>>

\* Another page, or a refresh that was asked for, is drawn.
Decide ==
    /\ wpc = "decide"
    /\ dorefresh' = (dorefresh \/ lastDisplay # display)
    /\ wpc' = IF running /\ dorefresh' THEN "draw" ELSE "loop"
    /\ current' = IF wpc' = "draw" THEN current \cup {"frame"} ELSE current
    /\ lastDisplay' = 0
    /\ UNCHANGED <<mpc, worker, running, display, netstart, commands, page>>

\* g15_update: the page is drawn and handed to the driver, current says from which
\* data.  The driver first finishes or cancels the page before, and then sends this one,
\* or not: without a keyboard, after a failed submit, or behind a page that hangs.  An
\* error is only logged.
Draw(outcome) ==
    /\ wpc = "draw"
    /\ written' = display
    /\ transfer' = outcome
    /\ lcd' \in {lcd} \cup (IF transfer = "flying" THEN {written} ELSE {})
    /\ current' = IF "frame" \in current THEN {"written"} ELSE {}
    /\ wpc' = "drawn"
    /\ UNCHANGED <<mpc, worker, running, dorefresh, select, commands>>

\* dorefresh = FALSE, after the page was written.
Drawn ==
    /\ wpc = "drawn"
    /\ dorefresh' = FALSE
    /\ wpc' = "loop"
    /\ UNCHANGED <<mpc, worker, running, select, commands, screen>>

\* exitLibG15, and the end of do_work.
ExitUsb ==
    /\ wpc = "exit"
    /\ running' = FALSE
    /\ wpc' = "done"
    /\ UNCHANGED <<mpc, worker, dorefresh, select, commands, screen>>

-----------------------------------------------------------------------------
(* The keyboard, through libusb.                                           *)

\* The page is sent.
PageArrives ==
    /\ transfer = "flying"
    /\ lcd' = written
    /\ transfer' = "over"
    /\ UNCHANGED <<mpc, wpc, worker, running, dorefresh, select, commands, written,
                   current>>

\* Sending ends with an error, or the keyboard is pulled out; one that is plugged in again
\* shows no page.
PageLost ==
    /\ transfer = "flying" \/ lcd # NoPage
    /\ lcd' \in {lcd, NoPage}
    /\ transfer' = "over"
    /\ UNCHANGED <<mpc, wpc, worker, running, dorefresh, select, commands, written,
                   current>>

-----------------------------------------------------------------------------
(* rundirect, on the worker's thread for M1 and on a detached one for a G  *)
(* key.  A detached one may outlive the worker whose fields it uses.       *)

Dangling(c) == c # "M1" /\ worker = "NULL"

\* system returned: success, or a failure that is this command's.
CommandEnds(c) ==
    /\ job[c] = "running"
    /\ job' = [job EXCEPT ![c] = "stored"]
    /\ cmdErrorCode' \in {"ok", c}
    /\ mpc' \in {mpc} \cup (IF Dangling(c) THEN {"crashed"} ELSE {})
    /\ UNCHANGED <<wpc, worker, running, dorefresh, select, m_cmd, emits, screen>>

\* if (cmdErrorCode != 0): the command is noted and the main loop notified.
CommandTells(c) ==
    /\ job[c] = "stored"
    /\ job' = [job EXCEPT ![c] = IF c = "M1" THEN "told" ELSE "idle"]
    /\ IF cmdErrorCode = "ok"
       THEN UNCHANGED <<m_cmd, emits>>
       ELSE m_cmd' = c /\ emits' = emits + 1
    /\ mpc' \in {mpc} \cup (IF Dangling(c) THEN {"crashed"} ELSE {})
    /\ UNCHANGED <<wpc, worker, running, dorefresh, select, cmdErrorCode, screen>>

-----------------------------------------------------------------------------
Alive == mpc # "crashed"

PollReturns == \E keys \in SUBSET Pressable : Pressed(keys)

DrawAny == \E outcome \in {"flying", "over"} : Draw(outcome)

WorkerStep ==
    /\ Alive
    /\ \/ StartWorker \/ InitUsb \/ Loop \/ PollError \/ PollReturns
       \/ M1Return \/ Decide \/ DrawAny \/ Drawn \/ ExitUsb

CommandStep(c) == Alive /\ (CommandEnds(c) \/ CommandTells(c))

KeyboardStep == Alive /\ (PageArrives \/ PageLost)

Next ==
    \/ Alive /\ (MonitorsUpdate \/ Notification \/ Unrealize \/ Close \/ Join)
    \/ WorkerStep
    \/ \E c \in Commands : CommandStep(c)
    \/ KeyboardStep

Spec == Init /\ [][Next]_vars

\* The threads run, commands end, the timer ticks, the user does not hold close up; a poll
\* does not fail forever (a missing keyboard is no failure: it reports no key), nor are all
\* pages refused or lost on the way.
FairSpec ==
    /\ Spec
    /\ WF_vars(WorkerStep)
    /\ SF_vars(Alive /\ PollReturns)
    /\ \A c \in Commands : WF_vars(CommandStep(c))
    /\ WF_vars(Alive /\ (Close \/ Join))
    /\ WF_vars(Alive /\ MonitorsUpdate)
    /\ SF_vars(Alive /\ Draw("flying"))
    /\ SF_vars(Alive /\ PageArrives)

-----------------------------------------------------------------------------
(* Properties.                                                             *)

\* Whenever the worker is about to poll with no refresh pending, the page it last handed to
\* the driver is the selected one, whichever key of a report, or M1's late result, selected
\* it.  (The driver may still lose that page: see SelectionShown.)
SelectedPageWritten ==
    (wpc \in {"loop", "polling"} /\ ~dorefresh /\ running) => written = display

\* A selection that stays is on the keyboard in the end, and again and again, although
\* do_work forgets the refresh of a page that could not be written or got lost: the timer
\* asks for another one.
SelectionShown ==
    \/ []<><<display' # display>>_vars
    \/ []<>(lcd = display \/ mpc # "running" \/ wpc = "done")

\* A quit ends: close gets past the join whatever the worker is doing, a command of M1
\* and a poll included.
ShutdownEnds == (mpc = "joining") ~> (mpc = "closed")

\* A refresh the main thread asked for is served by a new drawing unless the program
\* stops, also when keys and commands arrive all the time.
RefreshServed ==
    (mpc = "running" /\ worker = "object" /\ dorefresh /\ wpc \in InDoWork \ {"init", "drawn"})
        ~> (wpc = "draw" \/ mpc # "running")

\* monitors_update says of worker->refresh(): "sync these updates".  While nothing is
\* pending, the page last handed to the driver then shows the data of the last update.
UpdatesSynced ==
    (mpc = "running" /\ wpc \in {"loop", "polling"} /\ ~dorefresh) => "written" \in current

\* G15Worker.hpp calls getCmdErrorCode() the "last error for cmd": what a pending
\* notification will show is the error of the command it names.
ErrorOfCommand ==
    (mpc = "running" /\ emits > 0 /\ m_cmd \in Commands) => cmdErrorCode = m_cmd
=============================================================================
