# Verification of monglmm

monglmm is a system monitor for Linux: a GTK window that draws graphs, processes, disks
and network connections with OpenGL, and, built with `-Dlibg15=true`, pages on the display
of a Logitech G15 keyboard. This directory holds TLA+ modules of its parts, the TLC
configurations that check them on small instances, and proofs checked by TLAPS that some of
the properties hold for every instance. `PROJECT.json` maps every definition that models
code to the lines it was translated from. Paths below are relative to the repository, the
sources are in `src/src/` of this tree.

The modules follow the control of the program: what is read when, what is stored, the
early returns, and the calls that can fail with what the code then does or forgets. What is
left out of a modelled part is listed under "Abstractions" and "Not modelled". Texts,
colours, geometry and measured values are left out unless a property is about them.

## The system

Everything runs on the GTK main thread, with these exceptions: the keyboard worker has a
thread of its own; each command a G key starts has one more, detached; libusb moves data in
the background, but its callbacks run inside `handle_transfer_events` on the worker; the
GIO resolver answers on the main loop some time after it was asked; and the kernel changes
`/proc` at any moment, between any two reads.

A timer calls `MonglView::monitors_update` once per interval. It updates the diagrams, the
processes, the disks, the file systems and the network list in that order, asks for a
redraw and tells the worker to refresh. Drawing is a call of its own from the main loop.
Configuration and detail dialogs run nested main loops, so timers and drawing go on below
them.

| Component | State it keeps | Operations | Interacts with |
|---|---|---|---|
| Keyboard driver, `libg15.c` | device handle, the key and the display transfer with `active`, `free` and `result` | poll for keys, write a page, reattach, exit, two callbacks | libusb; called by the worker only |
| Keyboard worker, `G15Worker`, `Page` | `running`, `dorefresh`, selected page, last error | `do_work`, `refresh`, `stop`, `rundirect` for commands | the view by shared fields without a lock, a `Glib::Dispatcher` for errors; reads monitors and mounts while it draws |
| View, `MonglView`, `MonglAppWindow`, `MonglApp` | monitors, infos, timer, configuration, pointer to the worker | init, timer, draw, unrealize, close, configuration | owns everything else |
| Process table, `ProcessesBase`, `Processes`, `Process` | map pid -> entry with stage, mark and parent pointer; top lists | update (mark, scan `/proc`, sweep, build tree, find top) | `/proc`; drawn as a tree; the process dialog keeps a table of its own |
| Disks, `DiskInfos`, `DiskInfo`, `Filesyses` | devices with their previous counters, mounts with a mark, geometry of displayed devices | read `/proc/diskstats`, read `/proc/mounts` and `statvfs`, sweep, show | the disk monitor asks for devices; the worker prints the mounts |
| Network, `NetInfo`, `BaseNetInfo`, `NetConnection`, `NetNode`, `NetworkProperties` | list of connections per window, shared cache of addresses with names and pending lookups, tree of nodes | read `/proc/net/tcp*`, look up, answer, evict, draw the tree | the resolver; the network dialog has a list of its own |
| Monitors and diagrams | ring buffer per value, previous counters, chosen device | sample, display, load and save settings | `/proc`, `/sys`, libgtop |
| Temperature sensors | the sensors found, the selected ones by slot | read, select, load and save | lm_sensors or VideoCore |
| GPU counters | two slots, requests, the running query, the cells of the counters | choose, update, close | OpenGL driver |
| Process dialog | a selected process, a table of its own | show, refresh, signal, show network | `/proc`, the network dialog |
| Kernel parameters | tree of `/proc/sys`, compressed kernel configuration | list, search | files, zlib |
| Log view | rows up to a limit, filters | read, refresh | the log library |

What is hard here, and what each component has to get right:

- **Keyboard driver.** A transfer is active, finished, cancelled or freed, and the flags in
  the program must agree with libusb through submit errors, timeouts, refused cancels and a
  keyboard that is pulled out at any moment. No key press may get lost between two polls,
  and a keyboard that comes back must be listened to again.
- **Worker and view.** Shutdown must end from every state of the worker; the selected page
  must be written, and be on the keyboard in the end although pages are refused or lost on
  the way; no request may be lost.
- **Process table.** The scan is not atomic. No process that lives through an update may be
  missed, dead ones must go, pids are used again, files and `/proc` itself may not open, parents are linked by plain
  pointers.
- **Disks.** Three readings at three moments; devices and mounts come, go and are stacked.
  What is displayed must be what is mounted.
- **Network.** An answer comes through a plain pointer to an object that two lists and a
  cache may have dropped; names change under a tree that is updated in place.
- **Monitors, sensors.** Differences of counters at the first reading, after a change of
  device and at a wrap; selections that must survive a save and a load.
- **GPU counters.** Requests of objects that are made and dropped wait for the end of a
  running query; the report must be matched with what was selected when the query began,
  may be empty, and may hold types nobody handles.
- **Opening the keyboard.** Many ways to fail half-way, each of which must leave the
  interfaces as they were for the next attempt.
- **Dialogs.** A list that is loaded again while its source grows or fails, a tree of
  processes that die and are adopted while it is read, a timer that outlives a selection, a
  search over chunks.

The full list, with its lines, is under "hazards" in `PROJECT.json`.

## Modules

| Module | Models | How |
|---|---|---|
| `G15Usb` | the driver in `libg15.c` | One state for the worker (`pc`: between calls, inside `handle_transfer_events` of a poll or a write, in the exit), one record per transfer. `Poll...` and `Write...` are the stretches of `getPressedKeys` and `writePixmapToLCD` between two calls of libusb; `KeyCallback` and `LcdCallback` are the callbacks; `Unplug` and `Plug` are external. |
| `G15Worker` | `G15Worker::do_work` and the parts of `MonglView` it meets | A program counter for the main thread, one for the worker and one per command; each action is a stretch without a read or write of a shared field in between. A page is handed to the driver, which sends it or not; what is sent arrives later or is lost. |
| `EntryLife` | what the display is promised about an entry | The abstract specification of the process table. |
| `ProcessRegistry` | `ProcessesBase::update`, `Process::update`, `buildTree`, `findMax` | Begin, one action per directory entry, one each for `status` and `stat`, end; `Fork` and `Exit` interleave. `UpdateUnread` is the update whose `opendir` fails, `SweepCrash` the removal from a parent that was destroyed. |
| `Disks` | `DiskInfos`, `DiskInfo`, `Filesyses::update` | `UpdateDiskStat`, `ListMounts`, one `Refresh` per mount, `Sweep`, `Show`; plugging and mounting interleave. |
| `NetInfo` | connections, address cache, lookups, the two windows | One action per call from the main loop: `Update`, `Refresh`, `CloseDialog`, `Answer`, `Draw`; `Tick` for the time. |
| `G15Open` | `findAndOpenG15`, `findAndOpenDevice`, `find_config` in `libg15.c` | `goMode` says in which of the nested loops the search is, `goAt` its position; one action per step of a loop and outcome of a call. Claims are pairs of a handle and an interface. |
| `GpuCounters` | `GpuMonitor`, `GpuCounterGroup`, `GpuAmdExtMonitor`, `GpuGLquery` | One action per call: choose, update, close, start. The report of the driver is a sequence of words in the order the driver likes, or empty; `read` walks over it, and goes on inside the value of a counter of an unhandled type. |
| `Settings` | configuration in `MonglView`, `Monitor`, `TempMonitor` and the G15 worker | The key file, the object and the values of each part; start, change, save and end of the program. |
| `LogView` | `LogProperties` | Show, control, close; a load may end anywhere with an exception. |
| `KernelParam` | `KernelParamDlg`, `KernelParameter` | One action per kind of query, with one parameter for all of a kind; the search of `zcat` has a step per output of `inflate`, of any length, and one per way to stop. |
| `ProcessDialog` | `ProcessProperties` with its own table | Extends `ProcessRegistry`, whose table it is, with all of its steps: a refresh begins an update, which forks and exits interleave with, and makes the rows at its end; show, select, stop, network, close. |
| `NetRate` | `NetMonitor` | The interfaces with their counters; update, change of the device. |
| `CpuClock` | `ClkMonitor` | Drivers and their counters by step; one update computes every core. |
| `MCMainLoop` | | Extends these eight; see below. |
| `NetTree` | `NetInfo::handle`, `group`, `createNode`, `clearUntouched` | Extends `NetInfo` with the tree; the recursion of the code is a recursive operator, so the module holds no theorems. |
| `MC...` | | Constants of the runs. |
| `...Proofs` | | Theorems and their proofs: one module for each of the components with runs of their own (except `NetTree`); `ProcessDialogProofs`, on `ProcessRegistryProofs`; `MonitorProofs` (lemmas about loops, `NetRate`, `GpuCounters`, `Settings`, `CpuClock`); `MainLoopProofs` (`KernelParam`, `LogView`, `G15Open`, and the parts together). |

`NetTree` composes with `NetInfo` (every step of one is a step of the other);
`ProcessDialog` extends `ProcessRegistry`, which instantiates `EntryLife`; `G15Worker` takes a
poll and a write as the outcomes `G15Usb` gives them (keys, an error, a page that is sent or
not); `G15Usb` takes opening the device as one outcome, `G15Open` has the steps.

Operators whose comment begins with "A variant" are used by no specification. They are
the code with a plausible mistake; "mutants" in `PROJECT.json` says which definition each
replaces and which property is then violated.

### Abstractions a reader should know

- `G15Usb`: `ERROR` stands for the statuses ERROR, STALL and OVERFLOW, which the code treats
  alike. Opening and claiming is one outcome. The slow write path is left out:
  `enospc_slowdown` is never set. A keyboard without a display is `NoWrite`. What libusb does
  with a transfer that was freed while flying is undefined: the model crashes or runs the
  callback on the static struct.
- `G15Worker`: the LEDs are left out. The pointer `worker` is uninitialised until the thread
  has set it: a use before that is lost or crashes. That the process ends after `unrealize`
  follows the comment in `MonglView.cpp:340`. The worker's iteration over the map of mounts
  races with the main thread; it is a possible crash.
- `ProcessRegistry`: `readdir` lists pids in ascending order. Values (cpu, memory) only decide
  the order of the top list and are a free choice there. The sweep calls a parent through a
  plain pointer, whose node may be gone: the program may crash or go on.
- `ProcessDialog`: the rows are a set of pids, their order is left out. The signals of the stop
  button change nothing but the life of processes, which may end at any time. Once parent
  links lead in a circle the recursion of `addProcess` does not end (`endless`).
- `Disks`: the mark of a new mount entry is uninitialised and so either value. A mount point
  with a blank is escaped in `/proc/mounts`, so `statvfs` fails for it. The match of names by
  prefix is left out.
- `NetInfo`: an address object is its address and a number, so that two objects made for one
  address one after the other differ. The switch that hides the connections is read by the
  update and by the drawing: either may happen or not. Lines of listening sockets only
  decide the direction of a connection at first sight; it never changes later.
- `NetTree`: connections are numbered in the order of their keys.
- `G15Open`: a setting is whether it is of an input device and which endpoints it has. Other
  programs may claim and release interfaces at any moment. The control transfers of lights and
  contrast and the table of keys are left out: they keep no state.
- `GpuCounters`: a shown value is fresh (measured by the query of the last tick), stale, not
  its own (a word of another counter) or absent. The driver may report the selected counters
  in any order, or nothing. Two words that are taken for a group and a counter name any
  handled counter or none. Groups are one: the requests of all of them are passed on by the
  same update.
- `Settings`: the update interval stands for every value the view writes into `m_config` as
  soon as it changes, one command for those of the G keys. A save while the worker's pointer
  is not set is an end of the program.
- `LogView`: an entry is its level and whether the search text is in it. Source and boot
  are chosen or not. The message box after an exception runs a loop of its own and is not
  modelled.
- `KernelParam`: of a query it keeps of which parameter the text is; values and errors are not
  told apart. A position in the unpacked configuration is a number, so that a line may lie
  across outputs, and an output has any length: `inflate` gets the file in chunks, and the last
  output of each is short.
- `NetRate` models the build without libgtop; `/proc/net/dev` can be opened (else the monitor
  switches itself off). Received bytes are counted; of sent ones it keeps whether there are
  any, which is what the choice of a device without a name looks at.
- `CpuClock`: times are ticks of a step. What is undefined (an uninitialised difference) is
  shown as `undefined` and not as an average.

## Runs

All bounds are constants of the modules. Every passing run also checks the type invariant.

| Run | Result | What it shows |
|---|---|---|
| `MCG15Usb` | passes, about 126,500 states | `ActiveIsFlying`, `FreedWithDevice`, `KeysReported`, `DefinedWhilePresent`, `Reattached`. Two keys tell a kept key from a lost one; one return of the keyboard reaches everything a reattach can meet, since all state of the driver is rebuilt by it. |
| `G15UsbUnplug` | violates `UnplugSurvived` | Finding: `getPressedKeys` reads the status of a transfer its callback has freed (`libg15.c:1106`). |
| `MCG15Worker` | passes, about 355,900 states | `SelectedPageWritten`, `SelectionShown`, `ShutdownEnds`, `RefreshServed`. The keys are one that turns the page, the blocking M1, which selects one when its command has ended, and a detached G key; four pages are the fewest M1 allows; one pending error message is enough to have another command run on. |
| `G15WorkerSync` | violates `UpdatesSynced` | Finding: a refresh during a drawing is cleared unserved (`G15Worker.cpp:267`). |
| `G15WorkerErrors` | violates `ErrorOfCommand` | Finding: two commands share one error code (`G15Worker.cpp:166`). |
| `MCProcessRegistry` | passes, about 186,100 states | `LivingFound`, `TopAreActive`, `ParentLinked`, `DeadRemoved` and the refinement `KeepsEntryLife`. Two permanent and two free pids with two forks give parent and child, a reused pid and an adopted orphan; every read, and the opening of `/proc`, may fail. |
| `ProcessReuse` | violates `LivingActive` | Finding: a pid used again keeps the closing entry of the old process (`Process.cpp:129`). |
| `MCDisks` | passes, about 1,316,600 states | `GeometryOfMounted`, `HeldFollowsTable`, `MountedStays`. Two devices, two mount points and two mounts give an overmount, a device with two mounts and a mount that moves; two pluggings give a replaced device. |
| `DisksRemount` | violates `MountsAssociated` | Finding: a mount point is never associated with another device (`DiskInfos.cpp:181`). |
| `DisksHotplug` | violates `RatesMeasured` | Finding: the first rate of a device that appears later (`DiskInfo.cpp:222`). Readings do not fail in this run, and the trace plugs the device in after the first update. |
| `MCNetTree` | passes, about 94,500 states | `PendingCached`, `SplitCurrent`, `NamesArrive`, `DrawnTree`. Two connections from one host to a server here: they share nodes, or a leaf, or neither, depending on their directions and on the incarnation of the address; the delay of one tick and two objects give an eviction, a second lookup and two names of one address side by side. |
| `MCMainLoop` | passes, about 2,079,800 states | The fourteen properties of the table below. |

`CHECK_DEADLOCK FALSE` is set where the program ends (driver, worker), where it may crash
(process table), where closing ends it (disks), and in `MCMainLoop`, where a part may reach its
bounds; elsewhere a deadlock would be reported.

### The parts of the main loop in one run

The eight modules of `MCMainLoop` share no variable, and none of the properties relates two
of them. An interleaving of independent parts violates such a property only if the part does
on its own, so each behaviour moves one part, named by the variable `focus`, and the states
add up instead of multiplying. The parts that do share state have runs of their own above.

| Property | Module | What it says | Bounds |
|---|---|---|---|
| `MainTypeOK` | all | the state of every part is well formed | |
| `SelectionFollows` | `GpuCounters` | the driver measures what the slots show | two slots, a narrow, a wide and an unhandled counter, one OpenGL target: same counter twice, exchange, one after the other |
| `MeasuredSoon` | | two updates after the last choice a value is fresh, or the driver had no result, or a type in it is not handled | a third counter is of an unhandled type; updates without a choice are counted to three |
| `QueryRecovers` | | a target left active by a dropped query is usable again | |
| `SavedIsLoaded` | `Settings` | what is saved is what a start shows | two slots with defaults, two sensors of which any may be missing at a start |
| `OnlyAbsentLost` | | a stored sensor is lost only if dropped, absent or unreadable | |
| `ListShowsSelection` | `LogView` | the list is what the controls ask for, up to the limit | three entries with limits 0, 1 and 2: below, at and above |
| `EntryFound` | `KernelParam` | a line is found unless it is spread over three outputs | outputs of 0 to 3 in a configuration of 7, a line of 3 at each position: within one, across two, across more with short ones between |
| `TextOfSelected` | | text and timer belong to the selected parameter | one parameter of each kind, two of files |
| `RowsAreSubtree` | `ProcessDialog` | the rows hold what was below the root all through the scan, and every active one is below a parent it had during the scan | three pids with three forks: a grandchild, an adoption during the scan, a pid used again, links in a circle |
| `RootGone` | | a dialog whose root was missing from two scans is empty and idle | |
| `RateOfChosen` | `NetRate` | a rate is of the chosen interface | four interfaces, a text for three of them, for one, and none, one removal and return |
| `ClockOfUsedSteps` | `CpuClock` | an average is of steps the core ran at | one core (cores do not meet), two drivers with one and two steps, one without, none |
| `ClaimedIsUsed` | `G15Open` | no claim stays behind | three devices: one with three interfaces that complete each other, one incomplete, one shared; two handles, one retry |

### Fairness

- `G15Usb`: the worker goes on (weak fairness of poll and page write); libusb returns the
  key transfer of a lost device, and a submit to a device that is there and can be opened does
  not fail for ever (strong: both may be disabled by the user in between). Nothing is
  assumed of the user, the keys or the page transfer.
- `G15Worker`: the scheduler runs the worker and the commands, commands end, the main thread
  gets through `close`; the timer ticks; a poll does not fail for ever, and not every page is
  refused or lost on its way (`SelectionShown` needs the last two: the code itself does nothing
  about a lost page, only the next tick writes another one).
- `ProcessRegistry` and `Disks`: the timer goes on calling. `ProcessRegistry` further needs
  `/proc` to open now and then, `Disks` that `/proc/diskstats` can be read now and then.
- `NetTree`: the resolver answers every query. Nothing is assumed of updates or drawings: a
  lookup starts in the step that lists its connection.

## Proofs

The theorems hold for any value of the constants that satisfies the named assumptions (those
say no more than that bounds are numbers, keys and pids are what they are, for `NetInfo`
that the resolver's patience does not exceed the 30 minutes an address stays cached, for `Settings` that no sensor is called like
the mark of a missing key, for `CpuClock` that every table of steps has a line and every
maximum is positive, and for `G15Open` that a device has a configuration, a configuration an
interface and an interface a setting, as USB demands). `NoClaimLeaks` says nothing of devices with
several configurations or alternate settings: the property itself excludes them, since there
the code does leave claims behind (see below).

| Module | Theorems | Inductive invariant |
|---|---|---|
| `G15UsbProofs` | `TypeCorrect`, `ActiveFlagCorrect`, `DeviceTakesTransfers`, `NoKeyLost`, `PresentIsDefined` | `TypeOK`, `ActiveIsFlying` and `FreedWithDevice` together: a callback runs with an open handle because of the second, a freed transfer is not flying because of the first. Lemmas say what allocating, freeing, cancelling and a callback do to one transfer; there is one lemma per operation. `PresentIsDefined` adds, for the device of the start: its handle is live, libusb works on no freed transfer, and the key transfer is never being cancelled, so that its callback frees nothing. |
| `G15WorkerProofs` | `TypeCorrect`, `SelectionWritten` | adds `PageInRound`: inside a round the page last handed to the driver is the one the round began with. |
| `ProcessRegistryProofs` | `TypeCorrect`, `ScanComplete`, `TreeLinked`, `TopsActive`, `ImplementsEntryLife` | adds how far the scan got (`ScanProgress`), what has been read of an entry (`EntryRead`), that a new entry is touched, and that processes counted as stable live. The refinement needs that: without it an entry could be closed that is still new. |
| `ProcessDialogProofs` | `DialogTypeCorrect`, `RowsFollowTree`, `RootIsGone` | The invariant of the table, since a step of the dialog is one of its table, leaves it or makes a new one. `HistoryInv`: whom the scan has passed was seen there, and a ppid that was read is a parent the pid had since the scan began. `RowsMade`: between refreshes the rows are the entries below the root. So a process that stayed below the root is linked to a row, by induction over the subset that defines `Subtree`. `RootInv`: a root that one scan missed is closing or has no entry, so the next one takes the entry away, and the timer with it. |
| `DisksProofs` | `TypeCorrect`, `DisplayFollowsMounts`, `HeldExplained` | adds why a mount is marked (`statvfs` answered for it in this update, or it is new and the mark was never set), that mounts from before are still held until the sweep, that new ones were listed, and what is known of a geometry between sweep and show. |
| `MonitorProofs`, network rate | `RateTypeCorrect`, `RateIsOfChosen` | `RateInv`: the previous reading was made for the present text, of an interface of that name, and its counter has not fallen since unless the interface went. |
| `MonitorProofs`, GPU | `GpuTypeCorrect`, `MeasuresShown`, `CountersMeasured`, `QueriesRecover` | `RequestsInv`: what waits for selection is shown, since a dropped counter takes its request along. `MeasureInv`: one update after a choice no request waits, so that the report of the next one is of what is shown; that `read` finds every counter in it, in any order and with values of one or two words, is an invariant of its rounds, if it is not empty and holds no unhandled type. `QueryInv`: an OpenGL query alone on its target has its object after one update and is the active one after two, whichever slot is updated first. |
| `MonitorProofs`, settings | `SettingsTypeCorrect`, `SaveRoundTrip`, `StoredStays` | `SetInv`: the slots hold only sensors found at this start, and a stored sensor that was found and not dropped is in a slot. |
| `MonitorProofs`, clock | `ClockTypeCorrect`, `ClockIsOfUsed` | `ClockInv`: if the recorded steps are those of the present driver, a counter that passed its recorded time belongs to a step the core used since. |
| `MainLoopProofs`, kernel parameters | `KpTypeCorrect`, `DifferencesAddUp`, `BorderLineFound`, `TextIsOfSelected` | Three independent invariants. `WindowInv`, the search: over how many outputs the part of the line unpacked so far is spread (`SpreadOf`): none if it begins later, one if in the latest, two if in the one before; so a line that is unpacked and not found has been spread over three. `SelectionInv`, the text: a closed dialog has no timer, nor has a search. `CounterInv`: type and sum. |
| `MainLoopProofs`, log view | `LogTypeCorrect`, `ListIsSelection` | `ListInv`: the rows are what a load makes of a beginning of the log, of all of it unless the load failed. |
| `MainLoopProofs`, opening the keyboard | `OpenTypeCorrect`, `NoClaimLeaks` | `SearchTyped`: in which loops the search is, its position lies inside them. `ClaimInv` adds that nothing is claimed while the search goes on and that a lost device has no claims: the claim that completes the endpoints ends every loop, so no later step can fail with it. |
| `MainLoopProofs`, composition | `MainRunsParts`, `MainTypeCorrect` | none: a step of the main loop is a step of one part and leaves the others, so a behaviour of it is one of each part, and what is proved of a part holds in the composition. |
| `NetInfoProofs` | `TypeCorrect`, `LookupsCached`, `PartsCurrent` | adds that an address was last touched no longer ago than its lookup started, and that the main window lists no connection whose lookup was not started; so a lookup starts only for an address the same update has touched. |

The step lemma of each module has one case per action; the temporal step is the usual
`Init => Inv`, `Inv /\ [Next]_vars => Inv'`.

### Loops

Much of what is proved is about loops of the code: rows added one by one, vectors without
their gaps, the words of a report, sums over a table. The models write such a loop as a
recursive function of the rounds gone. TLA+ gives it a meaning by `CHOOSE`, so that a proof
needs two things which the provers do not have: that a function with this equation exists,
and induction over its argument. `MonitorProofs` first proves both from the library's fact that `<`
is well-founded on the numbers, with sets and functions in the place of operators
(`LeastNumber`, `BoundedInduction`, `LoopValue`). A proof about a loop then states what holds
after a round as a set of rounds, and induction carries it to the last one. `Parsed` walks forward for
this reason, and `Subtree` is stated as the least set that holds the root and with an entry
its children, which is what the recursion of `addProcess` visits.

### Only model-checked

The liveness properties (`Reattached`, `SelectionShown`, `ShutdownEnds`, `RefreshServed`,
`DeadRemoved`, `MountedStays`, `NamesArrive`), which the prover cannot treat under fairness; and `DrawnTree`,
since the recursion of `handle` is a recursive operator. The violated properties are of course
not proved. Every other property of a run is a theorem.

## Met while modelling

These are properties of the code as it is, in the models but not among the findings, since
no line of the repository promises otherwise, or since the properties exclude them.

- **libg15.** `findAndOpenDevice` drops a handle without closing it (`libg15.c:378`); opening
  succeeds with endpoints 0 when no interface for input devices is there; before a second
  configuration the endpoints are forgotten but not the claim, and a second alternate setting
  can fail after the first was kept; endpoints spread over two interfaces leave one unclaimed;
  `shared_device` is never cleared, and closing does not give the kernel its driver back.
- **GPU.** Two slots with one AMD counter disturb each other: dropping it in one deselects it
  for both. Two slots with one OpenGL target do so, too. A counter chosen again first shows
  its value from before. `isResultAvailable` is to wait "not indefinitely"
  (`GpuExtAmdCounter.cpp:481`), but its counter is never incremented. At a counter of an
  unhandled type `read` says "Stop reading as we don't know how to handle rest!" and goes on
  (`exit = false`, `:582`), so that another counter may get a word that is not its own. The
  bits of a float are converted as a number (`:560`).
- **Settings.** A save before the worker has read its settings writes empty commands. After
  a configuration that could not be read the next save replaces all of it. A sensor that is
  missing at a start is forgotten by the next save.
- **Kernel parameters.** `zcat` keeps only the output before the present one ("concat last to
  avoid missing line when hitting border", `KernelParameter.cpp:174`): a line that crosses a
  short output at the end of a chunk is spread over three and missed, which `EntryFound`
  excepts. The output that ends the stream is never searched, and after it, or after an error
  of gzip, it reads at the end of the file for ever, with the window not answering. A
  directory that is missing ends the program by an exception nobody catches.
- **Process table and dialog.** An entry erased by the sweep is removed from its parent
  through a plain pointer, whose node the same sweep or an earlier one may have destroyed
  (`ProcessesBase.cpp:96`). Parent links come from different moments of a scan: by pids that
  are used again they can lead in a circle, which `addProcess` then follows for ever. If
  `/proc` does not open at a refresh of a dialog without an entry for its root, its timer
  stops for good. The stop button signals the selected process and every sibling after it
  (`ProcessProperties.cpp:101`).
- **Worker.** "In case of error reinitalize", a comment says (`G15Worker.cpp:143`), but a page
  that could not be written is only logged, and `dorefresh` is cleared (`:267`): the keyboard keeps the old page until the next tick. The
  detached commands of G keys may use the worker object after `close` deleted it.
- **Disks.** The first rate of a device is also wrong when it was there and the first read of
  `/proc/diskstats` failed.
- **Network rate.** The first reading is recognised by the received bytes twice
  (`NetMonitor.cpp:219`), so that one with only sent bytes counts as none. Only names with
  their colon in column 7 are read. An interface that is back shows an enormous rate once.
- **Clock.** The first difference is uninitialised; after a change of the driver it stays
  undefined; a core that counted nothing shows a division by 0; a number of four digits
  directly followed by its unit is not decoded as the maximum.

## Not modelled

- *OpenGL geometry, shaders, texts and fonts, window and menu set-up*: there is nothing to
  decide in them that could be stated apart from how it looks.
- *Line readers, name and value parsing, the info page* (`FileByLine`, `NameValue`, `Infos`,
  `InfoPage`): input and output without state of their own.
- *CPU and memory monitors, ring buffers*: each value is computed from one reading and the one
  before it of the same file; the buffers are written in turn and drawn.
- *The packing of pixels into a page, the bits of a key report, the control transfers of the
  lights* and the slow writing of a page in `libg15.c`: the first ones are tables and arithmetic
  on bits that a test reaches completely, the last is never switched on.
- *The match of devices by prefix* (`DiskInfos.cpp:123`), *the order of the top list* and *the
  load values of a process*: the models leave the values out that these depend on.
- *The external libraries* (libusb, GIO, GTK, lm_sensors, zlib, the log and tree libraries)
  beyond what the code relies on.

## What would come next

The order is that of the value expected: that the worker takes only steps the driver allows,
as a refinement between `G15Worker` and `G15Usb`; the steps of `G15Open` inside the reattach of
`G15Usb`; the tree of `NetTree` as a function of its depth, which would make it provable.
