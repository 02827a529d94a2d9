----------------------------- MODULE ProcessDialog -----------------------------
(***************************************************************************)
(* The dialog of a process (ProcessProperties.cpp): it has a table of       *)
(* processes of its own, which its timer brings in step with /proc, and    *)
(* shows the tree below the process it was opened for.                     *)
(*                                                                         *)
(* The table is a ProcessesBase, which ProcessRegistry models; the top     *)
(* lists of the main window are not kept here (TopProc is 0).  The main    *)
(* loop waits for the scan, the processes do not.                          *)
(***************************************************************************)
EXTENDS ProcessRegistry

VARIABLES pdAt,      \* closed, in the refresh of the constructor, waiting in the main
                     \* loop, in a refresh by the timer, or lost in a tree without an end
          pdRoot,    \* m_processId
          pdRows,    \* the pids in m_properties
          pdSel,     \* the selected row
          pdTimer,   \* m_timer is connected
          pdNested,  \* a dialog runs above this one
          pdWas,     \* history: the parents a pid had in the latest scan, Dead while it was free
          pdMissed   \* history: scans in a row all through which the root's pid was free

pdVars == <<pdAt, pdRoot, pdRows, pdSel, pdTimer, pdNested, pdWas, pdMissed>>
dialogVars == <<vars, pdVars>>

PdTypeOK ==
    /\ TypeOK
    /\ pdAt \in {"closed", "first", "waiting", "refresh", "endless"}
    /\ pdRoot \in Pids /\ pdRows \subseteq Pids
    /\ pdSel \in Pids \cup {Null}
    /\ pdTimer \in BOOLEAN
    /\ pdNested \in BOOLEAN
    /\ pdWas \in [Pids -> SUBSET (Pids \cup {Null, Dead})]
    /\ pdMissed \in 0..2

NoHistory == [p \in Pids |-> {Dead}]

PdInit ==
    /\ Init
    /\ pdAt = "closed" /\ pdRoot = 1 /\ pdRows = {} /\ pdSel = Null /\ pdTimer = FALSE
    /\ pdNested = FALSE /\ pdWas = NoHistory /\ pdMissed = 0

---------------------------------------------------------------------------
\* The kernel moves at any time.  The history is of what is so during a scan.
PdKernel ==
    /\ Kernel
    /\ pdWas' = [p \in Pids |-> IF pc = "idle" THEN pdWas[p] ELSE pdWas[p] \cup {os'[p]}]
    /\ UNCHANGED <<pdAt, pdRoot, pdRows, pdSel, pdTimer, pdNested, pdMissed>>

---------------------------------------------------------------------------
\* refresh.

\* addProcess: the root and what is below it, if above[p] is the one p is below; which is
\* what every set has that holds the root and with a process those below it.
Holds(above, root, ps) == root \in ps /\ \A p \in Pids : above[p] \in ps => p \in ps
Subtree(above, root) == {p \in Pids : \A ps \in SUBSET Pids : Holds(above, root, ps) => p \in ps}

Rows(table, root) ==
    IF table[root].stage = "absent" THEN {}
    ELSE Subtree([p \in Pids |-> table[p].parent], root)

\* The row of the selected entry is selected again, if the entry is in the tree.
Selected(rows) == IF pdSel \in rows THEN pdSel ELSE Null

\* The rows are made again.  The timer stops if there is no entry for the root; the first
\* result is not used, and a timer is made then if there is an interval.  Links that lead
\* from the root back to it are followed for ever.
Redrawn ==
    /\ pdRows' = Rows(reg', pdRoot)
    /\ pdSel' = Selected(pdRows')
    /\ IF pdAt = "first" THEN pdTimer' \in BOOLEAN ELSE pdTimer' = (reg'[pdRoot].stage # "absent")
    /\ pdAt' = IF reg'[pdRoot].parent \in pdRows' THEN "endless" ELSE "waiting"
    /\ UNCHANGED <<pdRoot, pdNested, pdWas>>

Refreshes == pdAt = "first" \/ (pdAt = "waiting" /\ pdTimer)

PdBegin ==
    /\ Refreshes /\ BeginUpdate
    /\ pdAt' = IF pdAt = "first" THEN "first" ELSE "refresh"
    /\ pdWas' = [p \in Pids |-> {os[p]}]
    /\ UNCHANGED <<pdRoot, pdRows, pdSel, pdTimer, pdNested, pdMissed>>

PdScan == (Reads \/ \E p \in Pids : Visit(p)) /\ UNCHANGED pdVars

PdEnd ==
    /\ EndUpdate /\ Redrawn
    /\ pdMissed' = IF pdWas[pdRoot] # {Dead} THEN 0 ELSE IF pdMissed = 0 THEN 1 ELSE 2

\* A parent that is in a row is not destroyed while the table is swept.
PdCrash ==
    /\ \E p \in Pids : Dangling(p) /\ reg[p].parent \notin pdRows
    /\ SweepCrash /\ UNCHANGED pdVars

PdUnread == Refreshes /\ UpdateUnread /\ Redrawn /\ UNCHANGED pdMissed

---------------------------------------------------------------------------
\* The user, while the main loop waits.

\* The constructor, with a table that is empty.  The process may have ended since it was
\* selected.
PdShow(root) ==
    /\ pdAt = "closed" /\ pdAt' = "first" /\ pdRoot' = root
    /\ UNCHANGED <<vars, pdRows, pdSel, pdTimer, pdNested, pdWas, pdMissed>>

Ready == pdAt = "waiting" /\ ~pdNested

\* on_response stops the timer; the dialog is deleted with its table.
PdClose ==
    /\ Ready /\ pdAt' = "closed"
    /\ reg' = [p \in Pids |-> NoEntry] /\ stable' = {} /\ top' = [i \in 1..TopProc |-> Null]
    /\ pdRoot' = 1 /\ pdRows' = {} /\ pdSel' = Null /\ pdTimer' = FALSE
    /\ pdWas' = NoHistory /\ pdMissed' = 0
    /\ UNCHANGED <<os, forks, pc, cursor, pdNested>>

PdSelect(p) ==
    /\ Ready /\ p \in pdRows /\ pdSel' = p
    /\ UNCHANGED <<vars, pdAt, pdRoot, pdRows, pdTimer, pdNested, pdWas, pdMissed>>

\* stopProcess.  Without a selection a message asks for one; with one it sends signals, to
\* processes that may end at any time.
PdStop ==
    /\ Ready /\ pdSel = Null /\ pdNested' = TRUE
    /\ UNCHANGED <<vars, pdAt, pdRoot, pdRows, pdSel, pdTimer, pdWas, pdMissed>>

\* showNetwork, and the end of what is above; the timers go on below.
PdNetwork ==
    /\ Ready /\ pdNested' = TRUE
    /\ UNCHANGED <<vars, pdAt, pdRoot, pdRows, pdSel, pdTimer, pdWas, pdMissed>>
PdBack ==
    /\ pdAt = "waiting" /\ pdNested /\ pdNested' = FALSE
    /\ UNCHANGED <<vars, pdAt, pdRoot, pdRows, pdSel, pdTimer, pdWas, pdMissed>>

PdUpdate == PdBegin \/ PdScan \/ PdEnd \/ PdCrash \/ PdUnread
PdUser ==
    \/ PdClose \/ PdStop \/ PdNetwork \/ PdBack
    \/ \E p \in Pids : PdShow(p) \/ PdSelect(p)

PdNext == PdKernel \/ PdUpdate \/ PdUser

PdSpec == PdInit /\ [][PdNext]_dialogVars
---------------------------------------------------------------------------
\* Properties.

\* The process under which an active one was all through the latest scan.
SteadyParent(p) ==
    IF isActive(reg[p]) /\ \E q \in Pids : pdWas[p] = {q} /\ Dead \notin pdWas[q]
    THEN CHOOSE q \in Pids : pdWas[p] = {q} ELSE Null

\* The rows against what moved while /proc was read: a process is shown that could be read
\* and was below the root all through the scan, as were all between them; and an active
\* process is shown only below one that was its parent at some moment of the scan, if the
\* parent that was read for it has an entry.
RowsAreSubtree ==
    pdAt = "waiting" =>
      /\ Dead \notin pdWas[pdRoot] =>
           Subtree([p \in Pids |-> SteadyParent(p)], pdRoot) \subseteq pdRows
      /\ \A p \in pdRows \ {pdRoot} :
           isActive(reg[p]) /\ reg[p].ppid \in Entries(reg) => pdRows \cap pdWas[p] # {}

\* When there was no process of its pid all through two scans in a row, the dialog is empty,
\* nothing can be stopped, and no timer scans /proc any more.
RootGone == pdAt = "waiting" /\ pdMissed = 2 => pdRows = {} /\ pdSel = Null /\ ~pdTimer
=============================================================================
