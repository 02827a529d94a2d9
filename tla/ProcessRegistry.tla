--------------------------- MODULE ProcessRegistry ---------------------------
(***************************************************************************)
(* ProcessesBase: the table of processes that is kept in step with /proc   *)
(* by a mark and sweep once per timer tick, and the tree and the top lists *)
(* built from it.  The scan is not atomic: processes are born, die and are *)
(* reparented, and pids are used again, between readdir, the read of       *)
(* status and the read of stat.                                            *)
(*                                                                         *)
(* The kernel's side is external.  readdir lists /proc by ascending pid.   *)
(* The tree nodes (TreeNode2) are external too; a node's parent is a plain *)
(* pointer to another node.                                                *)
(***************************************************************************)
EXTENDS Integers, FiniteSets

CONSTANTS
    Pids,        \* the process ids; 1 is ROOT_PID
    Permanent,   \* the ids of processes that never end (1, kernel threads)
    TopProc,     \* TOP_PROC
    MaxForks,    \* bound: how many processes are started
    MayFail      \* /proc or the files of a living process can be unreadable

ASSUME PidsAssumption == Pids \subseteq Nat \ {0} /\ 1 \in Permanent /\ Permanent \subseteq Pids
ASSUME TopAssumption == TopProc \in Nat /\ TopProc <= Cardinality(Permanent) /\ IsFiniteSet(Pids)
ASSUME BoundsAssumption == MaxForks \in Nat /\ MayFail \in BOOLEAN

VARIABLES
    os,       \* the parent of every living process, Dead for a free pid
    forks,    \* how many were started
    stable,   \* the processes alive ever since the latest scan of /proc began
    reg,      \* mProcesses, with NoEntry for a pid that is not in the map
    top,      \* m_topMem (and in the same way m_topCpu)
    pc,       \* where ProcessesBase::update is
    cursor    \* where readdir is; the pid being read

vars == <<os, forks, stable, reg, top, pc, cursor>>
kernel == <<os, forks, stable>>

Dead == -1
Freed == -1       \* a parent pointer whose node was destroyed
Null == 0         \* also the ppid of processes the kernel started

Entry ==
    [stage   : {"absent", "New", "Running", "Finished", "Close"},
     touched : BOOLEAN,
     ppid    : Pids \cup {Null},
     parent  : Pids \cup {Null, Freed}]

NoEntry == [stage |-> "absent", touched |-> FALSE, ppid |-> Null, parent |-> Null]

isActive(e) == e.stage \in {"New", "Running"}     \* stage < Finished
Alive == {p \in Pids : os[p] # Dead}

TypeOK ==
    /\ os \in [Pids -> Pids \cup {Null, Dead}]
    /\ forks \in 0..MaxForks
    /\ stable \subseteq Pids
    /\ reg \in [Pids -> Entry]
    /\ \A p \in Pids : reg[p].stage = "absent" => reg[p] = NoEntry
    /\ top \in [1..TopProc -> Pids \cup {Null}]
    /\ pc \in {"idle", "scan", "status", "stat", "crashed"}
    /\ cursor \in Nat
    /\ pc \in {"status", "stat"} => cursor \in Pids

Init ==
    /\ os = [p \in Pids |-> IF p \in Permanent THEN Null ELSE Dead]
    /\ forks = 0
    /\ stable = {}
    /\ reg = [p \in Pids |-> NoEntry]
    /\ top = [i \in 1..TopProc |-> Null]
    /\ pc = "idle"
    /\ cursor = 0

-----------------------------------------------------------------------------
(* The kernel.                                                             *)

Fork(p, q) ==
    /\ p \in Alive
    /\ q \notin Alive
    /\ forks < MaxForks
    /\ os' = [os EXCEPT ![q] = p]
    /\ forks' = forks + 1
    /\ UNCHANGED <<stable, reg, top, pc, cursor>>

\* A process ends and is reaped; init adopts its children.
Exit(p) ==
    /\ p \in Alive \ Permanent
    /\ os' = [q \in Pids |-> IF q = p THEN Dead ELSE IF os[q] = p THEN 1 ELSE os[q]]
    /\ stable' = stable \ {p}
    /\ UNCHANGED <<forks, reg, top, pc, cursor>>

-----------------------------------------------------------------------------
(* ProcessesBase::update, up to the sweep.                                 *)

\* A variant that resets touched of active entries only.
MarkedActive(e) ==
    IF isActive(e) THEN [e EXCEPT !.stage = "Running", !.touched = FALSE] ELSE e

\* What the first loop does to an entry of the map.
Marked(e) ==
    [e EXCEPT !.stage = IF isActive(e) THEN "Running" ELSE @, !.touched = FALSE]

\* /proc could be opened.
BeginUpdate ==
    /\ pc = "idle"
    /\ reg' = [p \in Pids |-> Marked(reg[p])]
    /\ stable' = Alive
    /\ pc' = "scan"
    /\ cursor' = 0
    /\ UNCHANGED <<os, forks, top>>

\* readdir's next entry.
Listed(p) == p \in Alive /\ p > cursor /\ \A q \in Alive : q > cursor => q >= p

\* A variant that asks isActive before it sets touched.
FoundInactive(e) ==
    IF e.stage = "absent" THEN [NoEntry EXCEPT !.stage = "New", !.touched = TRUE]
    ELSE IF isActive(e) THEN [e EXCEPT !.touched = TRUE]
    ELSE e

\* The entry of a listed pid, created if there is none, and touched.
Found(e) ==
    IF e.stage = "absent" THEN [NoEntry EXCEPT !.stage = "New", !.touched = TRUE]
    ELSE [e EXCEPT !.touched = TRUE]

\* readdir lists a process; one that is finished or closing is not read again.
Visit(p) ==
    /\ pc = "scan"
    /\ Listed(p)
    /\ reg' = [reg EXCEPT ![p] = Found(@)]
    /\ cursor' = p
    /\ pc' = IF isActive(reg'[p]) THEN "status" ELSE "scan"
    /\ UNCHANGED <<kernel, top>>

\* A read of one of the files of the process.
Readable(ok) == IF ok THEN cursor \in Alive ELSE cursor \notin Alive \/ MayFail

\* A variant that takes the ppid without asking whether the file could be read.
ReadStatusUnchecked(ok) ==
    /\ pc = "status"
    /\ Readable(ok)
    /\ reg' = [reg EXCEPT ![cursor].ppid = os[cursor],
                          ![cursor].stage = IF ok THEN @ ELSE "Finished"]
    /\ pc' = "stat"
    /\ UNCHANGED <<kernel, top, cursor>>

\* update_status; what cannot be read is not asked again.
ReadStatus(ok) ==
    /\ pc = "status"
    /\ Readable(ok)
    /\ reg' = [reg EXCEPT ![cursor] =
                  IF ok THEN [@ EXCEPT !.ppid = os[cursor]]
                  ELSE [@ EXCEPT !.stage = "Finished"]]
    /\ pc' = "stat"
    /\ UNCHANGED <<kernel, top, cursor>>

\* update_stat, also when status could not be read.
ReadStat(ok) ==
    /\ pc = "stat"
    /\ Readable(ok)
    /\ reg' = [reg EXCEPT ![cursor] = IF ok THEN @ ELSE [@ EXCEPT !.stage = "Finished"]]
    /\ pc' = "scan"
    /\ UNCHANGED <<kernel, top, cursor>>

-----------------------------------------------------------------------------
(* The rest of the call, in one step: nothing of it looks at /proc.        *)

Actives(r) == {p \in Pids : isActive(r[p])}
Entries(r) == {p \in Pids : r[p].stage # "absent"}

\* An entry that was not touched and is closing already.
Erased(p) == reg[p].stage = "Close" /\ ~reg[p].touched

\* The erased entry is removed from its parent through a pointer whose node is destroyed:
\* by an earlier sweep, or just now by this one, which goes by ascending pid.
Dangling(p) ==
    /\ Erased(p)
    /\ \/ reg[p].parent = Freed
       \/ reg[p].parent \in Pids /\ reg[p].parent < p /\ Erased(reg[p].parent)

\* What an entry's parent pointer is worth after the sweep.
Pointer(p) == IF reg[p].parent \in Pids /\ Erased(reg[p].parent) THEN Freed ELSE reg[p].parent

\* A variant that removes a dead process at once.
SweptAtOnce(p) ==
    IF reg[p].stage = "absent" \/ ~reg[p].touched THEN NoEntry
    ELSE [reg[p] EXCEPT !.parent = Pointer(p)]

\* The sweep: the entry of a process that died is closed, one update later it goes.
Swept(p) ==
    IF reg[p].stage = "absent" \/ Erased(p) THEN NoEntry
    ELSE [reg[p] EXCEPT !.stage = IF reg[p].touched THEN @ ELSE "Close",
                        !.parent = Pointer(p)]

\* A variant that looks for a parent only once.
LinkedOnce(r, p) ==
    IF r[p].stage = "absent" THEN r[p]
    ELSE [r[p] EXCEPT !.parent =
             IF r[p].ppid \in Entries(r) /\ @ = Null THEN r[p].ppid ELSE @]

\* buildTree: every entry of the table r whose ppid is in r goes below that one.
Linked(r, p) ==
    IF r[p].stage = "absent" THEN r[p]
    ELSE [r[p] EXCEPT !.parent = IF r[p].ppid \in Entries(r) THEN r[p].ppid ELSE @]

\* A variant without the null entries the vector of candidates starts with.
TopUnpadded(r, t, i) == IF i <= Cardinality(Actives(r)) THEN Actives(r) ELSE {t[i]}

\* findMax, the candidates for place i: first the active entries, in an order that
\* depends on their usage, then the null pointers the vector was created with (one for
\* every entry); a place beyond these keeps what it had.
TopPlace(r, t, i) ==
    IF i <= Cardinality(Actives(r)) THEN Actives(r)
    ELSE IF i <= Cardinality(Actives(r)) + Cardinality(Entries(r)) THEN {Null}
    ELSE {t[i]}

\* buildTree and findMax on a table.
ShowTable(r) ==
    /\ reg' = [p \in Pids |-> Linked(r, p)]
    /\ top' \in [1..TopProc -> Pids \cup {Null}]
    /\ \A i \in 1..TopProc : top'[i] \in TopPlace(reg', top, i)
    /\ \A i, j \in 1..TopProc :
          (i < j /\ j <= Cardinality(Actives(reg'))) => top'[i] # top'[j]

ScanDone == pc = "scan" /\ \A p \in Alive : p <= cursor

EndUpdate ==
    /\ ScanDone
    /\ ShowTable([p \in Pids |-> Swept(p)])
    /\ pc' = "idle"
    /\ cursor' = 0
    /\ UNCHANGED kernel

\* What the dangling pointer leads to is undefined: EndUpdate, or the end of the program.
SweepCrash ==
    /\ ScanDone
    /\ \E p \in Pids : Dangling(p)
    /\ pc' = "crashed"
    /\ UNCHANGED <<kernel, reg, top, cursor>>

\* /proc could not be opened: nothing is marked, read or swept, but the tree and the lists
\* are made again from the table as it is.
UpdateUnread ==
    /\ pc = "idle"
    /\ MayFail
    /\ ShowTable(reg)
    /\ UNCHANGED <<kernel, pc, cursor>>

-----------------------------------------------------------------------------
Kernel ==
    \/ \E p \in Pids, q \in Pids \ Permanent : Fork(p, q)
    \/ \E p \in Pids : Exit(p)

Reads == \E ok \in BOOLEAN : ReadStatus(ok) \/ ReadStat(ok)

Update ==
    \/ BeginUpdate \/ (\E p \in Pids : Visit(p)) \/ Reads
    \/ EndUpdate \/ SweepCrash \/ UpdateUnread

Next == Kernel \/ Update

Spec == Init /\ [][Next]_vars

\* The timer keeps calling update, update is never suspended for good, and /proc can be
\* opened now and then.
FairSpec == Spec /\ WF_vars(Update) /\ SF_vars(BeginUpdate)

-----------------------------------------------------------------------------
(* Properties.                                                             *)

\* After an update every process has an entry that was alive ever since the latest update
\* began that could open /proc, however the entries of its pid stood before and whichever
\* of its files could not be read.
LivingFound == pc = "idle" => \A p \in stable : reg[p].stage # "absent"

\* The top lists hold active entries of the map or null, never a process that is
\* finished, closing or gone: display dereferences them.
TopAreActive == pc = "idle" => \A i \in 1..TopProc : top[i] # Null => isActive(reg[top[i]])

\* An active entry hangs below the entry of its parent after every update, if that parent
\* is alive since the latest scan began, although the scan may have met the child first.
ParentLinked ==
    pc = "idle" =>
        \A p \in Pids : isActive(reg[p]) /\ reg[p].ppid \in stable =>
            reg[p].parent = reg[p].ppid /\ reg[reg[p].ppid].stage # "absent"

\* Every entry goes through the stages the display is promised.
Stage == [p \in Pids |-> reg[p].stage]
Promised == INSTANCE EntryLife WITH stage <- Stage
KeepsEntryLife == Promised!Spec

\* The entry of a process that died goes, unless its pid is used again (or the program
\* ends by a dangling parent).
DeadRemoved ==
    \A p \in Pids :
        (reg[p].stage # "absent" /\ p \notin Alive)
            ~> (reg[p].stage = "absent" \/ p \in Alive \/ pc = "crashed")

\* update says it will "find all the processes in /proc": a process that was alive all
\* through an update, and could be read, is then shown as a running one.
LivingActive == pc = "idle" => \A p \in stable : isActive(reg[p])
=============================================================================
