-------------------------- MODULE ProcessDialogProofs --------------------------
(***************************************************************************)
(* Proofs about ProcessDialog, for any finite set of pids and any number   *)
(* of forks: the state keeps its form, the rows follow the processes that  *)
(* move while /proc is read, and a dialog whose process is gone is empty.  *)
(* The dialog moves its table as ProcessRegistry says, or makes a new one, *)
(* so that the invariant of the table is one of the dialog.                *)
(***************************************************************************)
EXTENDS ProcessDialog, ProcessRegistryProofs

\* The main loop does nothing else while the table is updated.
Placed == pc # "idle" => pdAt \in {"first", "refresh"}

PdForm ==
    /\ pdAt \in {"closed", "first", "waiting", "refresh", "endless"}
    /\ pdRoot \in Pids /\ pdRows \subseteq Pids
    /\ pdSel \in Pids \cup {Null}
    /\ pdNested \in BOOLEAN
    /\ pdMissed \in 0..2

\* The marks for no process are not pids.
LEMMA PidNumbers == Null \notin Pids /\ Dead \notin Pids /\ Null # Dead /\ 1 \in Pids
  BY PidsAssumption DEF Null, Dead

\* A step of the dialog is one of its table, or leaves it, or throws it away.
LEMMA TableSteps ==
    ASSUME [PdNext]_dialogVars
    PROVE  [Next]_vars \/ PdClose
<1>1. CASE PdKernel
  BY <1>1 DEF PdKernel, Next
<1>2. CASE PdUpdate
  BY <1>2 DEF PdUpdate, PdBegin, PdScan, PdEnd, PdCrash, PdUnread, Next, Update
<1>3. CASE PdUser
  BY <1>3 DEF PdUser, PdNetwork, PdBack, PdShow, PdSelect, PdStop
<1>4. CASE UNCHANGED dialogVars
  BY <1>4 DEF dialogVars
<1> QED
  BY <1>1, <1>2, <1>3, <1>4 DEF PdNext

\* A new table.
LEMMA CloseTable ==
    ASSUME IInv, Placed, PdClose
    PROVE  IInv'
<1>1. /\ pc = "idle" /\ reg' = [p \in Pids |-> NoEntry] /\ stable' = {}
      /\ top' = [i \in 1..TopProc |-> Null] /\ UNCHANGED <<os, forks, pc, cursor>>
  BY DEF PdClose, Ready, Placed
<1>2. reg' \in [Pids -> Entry] /\ \A p \in Pids : reg'[p] = NoEntry
  BY <1>1, NoEntryType
<1>3. top' \in [1..TopProc -> Pids \cup {Null}] /\ \A i \in 1..TopProc : top'[i] = Null
  BY <1>1
<1>4. TypeOK'
  BY <1>1, <1>2, <1>3 DEF IInv, TypeOK
<1>5. StableAlive'
  BY <1>1 DEF IInv, StableAlive, Alive
<1>6. ScanProgress' /\ EntryRead' /\ NewIsTouched'
  BY <1>1 DEF ScanProgress, EntryRead, NewIsTouched
<1>7. LivingFound' /\ ParentLinked' /\ TopAreActive'
  BY <1>1, <1>3 DEF LivingFound, ParentLinked, TopAreActive
<1> QED
  BY <1>4, <1>5, <1>6, <1>7 DEF IInv

LEMMA TableNext == ASSUME IInv, Placed, [PdNext]_dialogVars PROVE IInv'
  BY TableSteps, StepInv, CloseTable

LEMMA PlacedNext == ASSUME Placed, [PdNext]_dialogVars PROVE Placed'
<1>1. CASE PdKernel
  BY <1>1 DEF PdKernel, Kernel, Fork, Exit, Placed
<1>2. CASE PdBegin
  BY <1>2 DEF PdBegin, Placed
<1>3. CASE PdScan
  BY <1>3 DEF PdScan, Reads, ReadStatus, ReadStat, Visit, pdVars, Placed
<1>4. CASE PdEnd \/ PdUnread
  BY <1>4 DEF PdEnd, EndUpdate, PdUnread, UpdateUnread, Placed
<1>5. CASE PdCrash
  BY <1>5 DEF PdCrash, SweepCrash, ScanDone, pdVars, Placed
<1>6. CASE PdUser
  BY <1>6 DEF PdUser, PdClose, PdNetwork, PdBack, PdShow, PdSelect, PdStop, Ready, vars, Placed
<1>7. CASE UNCHANGED dialogVars
  BY <1>7 DEF dialogVars, vars, pdVars, Placed
<1> QED
  BY <1>1, <1>2, <1>3, <1>4, <1>5, <1>6, <1>7 DEF PdNext, PdUpdate

\* The subtree is of pids and holds its root.
LEMMA SubtreePids ==
    ASSUME NEW above, NEW root \in Pids
    PROVE  Subtree(above, root) \subseteq Pids /\ root \in Subtree(above, root)
  BY DEF Subtree, Holds

LEMMA RowsArePids == ASSUME NEW table, NEW root \in Pids PROVE Rows(table, root) \subseteq Pids
  BY SubtreePids DEF Rows

-----------------------------------------------------------------------------
(* The form of the state.                                                  *)

WasForm == pdWas \in [Pids -> SUBSET (Pids \cup {Null, Dead})]

\* What the rows are made of does not matter for their form.
LEMMA ShownForm ==
    ASSUME PdForm, Redrawn
    PROVE  /\ pdAt' \in {"waiting", "endless"}
           /\ pdRows' \subseteq Pids /\ pdSel' \in Pids \cup {Null} /\ pdTimer' \in BOOLEAN
           /\ UNCHANGED <<pdRoot, pdNested, pdWas>>
<1>1. pdRows' \subseteq Pids
  BY RowsArePids DEF Redrawn, PdForm
<1>2. pdSel' \in pdRows' \cup {Null}
  BY DEF Redrawn, Selected
<1>3. pdTimer' \in BOOLEAN
  BY DEF Redrawn
<1> QED
  BY <1>1, <1>2, <1>3 DEF Redrawn

LEMMA UserForm == ASSUME PdForm, PdUser PROVE PdForm'
<1>1. CASE PdClose
  BY <1>1, PidNumbers DEF PdClose, PdForm
<1>2. CASE \E p \in Pids : PdShow(p) \/ PdSelect(p)
  BY <1>2 DEF PdShow, PdSelect, PdForm
<1>3. CASE PdNetwork \/ PdBack \/ PdStop
  BY <1>3 DEF PdNetwork, PdBack, PdStop, PdForm
<1> QED
  BY <1>1, <1>2, <1>3 DEF PdUser

LEMMA FormNext == ASSUME PdForm, [PdNext]_dialogVars PROVE PdForm'
<1>1. CASE PdKernel
  BY <1>1 DEF PdKernel, PdForm
<1>2. CASE PdBegin
  BY <1>2 DEF PdBegin, PdForm
<1>3. CASE PdScan \/ PdCrash
  BY <1>3 DEF PdScan, PdCrash, pdVars, PdForm
<1>4. CASE PdEnd
  <2>1. pdMissed' \in 0..2 /\ Redrawn
    BY <1>4 DEF PdEnd
  <2> QED
    BY <2>1, ShownForm DEF PdForm
<1>5. CASE PdUnread
  <2>1. UNCHANGED pdMissed /\ Redrawn
    BY <1>5 DEF PdUnread
  <2> QED
    BY <2>1, ShownForm DEF PdForm
<1>6. CASE UNCHANGED dialogVars
  BY <1>6 DEF dialogVars, pdVars, PdForm
<1> QED
  BY <1>1, <1>2, <1>3, <1>4, <1>5, <1>6, UserForm DEF PdNext, PdUpdate

LEMMA TimerNext == ASSUME pdTimer \in BOOLEAN, PdForm, [PdNext]_dialogVars PROVE pdTimer' \in BOOLEAN
<1>1. CASE Redrawn
  BY <1>1, ShownForm
<1>2. CASE PdClose
  BY <1>2 DEF PdClose
<1>3. CASE UNCHANGED pdTimer
  BY <1>3
<1>4. Redrawn \/ PdClose \/ UNCHANGED pdTimer
  BY DEF PdNext, PdUpdate, PdUser, PdKernel, PdBegin, PdScan, PdEnd, PdCrash, PdUnread,
         PdNetwork, PdBack, PdShow, PdSelect, PdStop, dialogVars, pdVars
<1> QED
  BY <1>1, <1>2, <1>3, <1>4

LEMMA WasNext == ASSUME WasForm, IInv, IInv', [PdNext]_dialogVars PROVE WasForm'
<1>1. os \in [Pids -> Pids \cup {Null, Dead}] /\ os' \in [Pids -> Pids \cup {Null, Dead}]
  BY DEF IInv, TypeOK
<1>2. CASE PdKernel
  BY <1>1, <1>2 DEF PdKernel, WasForm
<1>3. CASE PdBegin
  BY <1>1, <1>3 DEF PdBegin, WasForm
<1>4. CASE PdClose
  BY <1>4 DEF PdClose, NoHistory, WasForm
<1>5. CASE UNCHANGED pdWas
  BY <1>5 DEF WasForm
<1>6. PdKernel \/ PdBegin \/ PdClose \/ UNCHANGED pdWas
  BY DEF PdNext, PdUpdate, PdUser, PdScan, PdEnd, PdCrash, PdUnread, Redrawn,
         PdNetwork, PdBack, PdShow, PdSelect, PdStop, dialogVars, pdVars
<1> QED
  BY <1>2, <1>3, <1>4, <1>5, <1>6

-----------------------------------------------------------------------------
(***************************************************************************)
(* The history against the table.  While /proc is read, a pid that was in   *)
(* use all the time is stable, one that was free all the time was not      *)
(* found, and the ppid of an entry that was read is one of the parents its *)
(* pid had.  Afterwards every process in use all through the scan has an   *)
(* entry, and every entry whose ppid has one hangs below it.               *)
(***************************************************************************)
ScanSeen ==
    pc # "idle" =>
        \A p \in Pids :
            /\ os[p] \in pdWas[p]
            /\ Dead \notin pdWas[p] => p \in stable
            /\ pdWas[p] = {Dead} => ~reg[p].touched

ReadSeen ==
    pc # "idle" =>
        \A p \in Pids :
            isActive(reg[p]) /\ reg[p].touched /\ ~(pc = "status" /\ p = cursor)
                => reg[p].ppid \in pdWas[p]

TableSeen ==
    pc = "idle" =>
        \A p \in Pids :
            /\ isActive(reg[p]) => reg[p].ppid \in pdWas[p]
            /\ Dead \notin pdWas[p] => reg[p].stage # "absent"
            /\ reg[p].stage # "absent" /\ reg[p].ppid \in Entries(reg) => reg[p].parent = reg[p].ppid

HistoryInv == ScanSeen /\ ReadSeen /\ TableSeen

LEMMA KernelHistory == ASSUME IInv, IInv', WasForm, HistoryInv, PdKernel PROVE HistoryInv'
<1>1. /\ pdWas' = [p \in Pids |-> IF pc = "idle" THEN pdWas[p] ELSE pdWas[p] \cup {os'[p]}]
      /\ UNCHANGED <<reg, pc, cursor>>
  BY DEF PdKernel, Kernel, Fork, Exit
<1>2. ASSUME NEW p \in Pids, p \in stable, p \notin stable' PROVE os'[p] = Dead
  BY <1>2 DEF PdKernel, Kernel, Fork, Exit
<1>3. CASE pc = "idle"
  <2>1. \A p \in Pids : pdWas'[p] = pdWas[p]
    BY <1>1, <1>3
  <2> QED
    BY <1>1, <1>3, <2>1 DEF HistoryInv, ScanSeen, ReadSeen, TableSeen, Entries
<1>4. CASE pc # "idle"
  <2>1. \A p \in Pids : pdWas'[p] = pdWas[p] \cup {os'[p]}
    BY <1>1, <1>4
  <2>2. ASSUME NEW p \in Pids
        PROVE  /\ os'[p] \in pdWas'[p]
               /\ Dead \notin pdWas'[p] => p \in stable'
               /\ pdWas'[p] = {Dead} => ~reg'[p].touched
    <3>1. os[p] \in pdWas[p] /\ (Dead \notin pdWas[p] => p \in stable) /\ (pdWas[p] = {Dead} => ~reg[p].touched)
      BY <1>4 DEF HistoryInv, ScanSeen
    <3>2. pdWas'[p] = {Dead} => pdWas[p] = {Dead}
      BY <2>1, <3>1
    <3> QED
      BY <1>1, <1>2, <2>1, <3>1, <3>2
  <2>3. ScanSeen'
    BY <2>2 DEF ScanSeen
  <2>4. ReadSeen'
    BY <1>1, <1>4, <2>1 DEF HistoryInv, ReadSeen
  <2> QED
    BY <1>1, <1>4, <2>3, <2>4 DEF HistoryInv, TableSeen
<1> QED
  BY <1>3, <1>4

LEMMA BeginHistory == ASSUME IInv, PdBegin PROVE HistoryInv'
<1>1. /\ reg' = [p \in Pids |-> Marked(reg[p])] /\ stable' = Alive /\ pc' = "scan"
      /\ pdWas' = [p \in Pids |-> {os[p]}] /\ UNCHANGED os
  BY DEF PdBegin, BeginUpdate
<1>2. ASSUME NEW p \in Pids PROVE ~reg'[p].touched
  <2>1. reg[p] \in Entry
    BY DEF IInv, TypeOK
  <2> QED
    BY <1>1, <2>1 DEF Marked, Entry
<1>3. ScanSeen'
  BY <1>1, <1>2 DEF ScanSeen, Alive
<1>4. ReadSeen'
  BY <1>2 DEF ReadSeen
<1> QED
  BY <1>1, <1>3, <1>4 DEF HistoryInv, TableSeen

LEMMA VisitHistory ==
    ASSUME IInv, HistoryInv, NEW p \in Pids, Visit(p), UNCHANGED pdWas
    PROVE  HistoryInv'
<1>1. /\ pc = "scan" /\ p \in Alive /\ cursor' = p
      /\ reg' = [reg EXCEPT ![p] = Found(reg[p])]
      /\ pc' = IF isActive(reg'[p]) THEN "status" ELSE "scan"
      /\ UNCHANGED <<os, stable>>
  BY DEF Visit, Listed, kernel
<1>2. \A q \in Pids : q # p => reg'[q] = reg[q]
  BY <1>1 DEF IInv, TypeOK
<1>3. pdWas[p] # {Dead}
  BY <1>1 DEF HistoryInv, ScanSeen, Alive
<1>4. ScanSeen'
  BY <1>1, <1>2, <1>3 DEF HistoryInv, ScanSeen
<1>5. ReadSeen'
  BY <1>1, <1>2 DEF HistoryInv, ReadSeen
<1>6. pc' # "idle"
  BY <1>1
<1> QED
  BY <1>4, <1>5, <1>6 DEF HistoryInv, TableSeen

\* The ppid that is read is the present one.
LEMMA ReadPpid ==
    ASSUME IInv, HistoryInv, NEW ok \in BOOLEAN, ReadStatus(ok) \/ ReadStat(ok),
           isActive(reg'[cursor])
    PROVE  reg'[cursor].ppid \in pdWas[cursor]
<1>1. cursor \in Pids /\ reg \in [Pids -> Entry] /\ reg[cursor] \in Entry /\ pc # "idle"
  BY DEF ReadStatus, ReadStat, IInv, TypeOK
<1>2. \A e \in Entry : ~isActive([e EXCEPT !.stage = "Finished"])
  BY DEF Entry, isActive
<1>3. CASE ReadStatus(ok)
  <2>1. reg'[cursor] = IF ok THEN [reg[cursor] EXCEPT !.ppid = os[cursor]]
                       ELSE [reg[cursor] EXCEPT !.stage = "Finished"]
    BY <1>1, <1>3 DEF ReadStatus
  <2>2. ok
    BY <1>1, <1>2, <2>1
  <2>3. reg'[cursor].ppid = os[cursor]
    BY <1>1, <2>1, <2>2 DEF Entry
  <2> QED
    BY <1>1, <2>3 DEF HistoryInv, ScanSeen
<1>4. CASE ReadStat(ok)
  <2>1. /\ pc = "stat"
        /\ reg'[cursor] = IF ok THEN reg[cursor] ELSE [reg[cursor] EXCEPT !.stage = "Finished"]
    BY <1>1, <1>4 DEF ReadStat
  <2>2. ok
    BY <1>1, <1>2, <2>1
  <2>3. reg'[cursor] = reg[cursor] /\ reg[cursor].touched
    BY <2>1, <2>2 DEF IInv, EntryRead
  <2> QED
    BY <1>1, <2>1, <2>3 DEF HistoryInv, ReadSeen
<1> QED
  BY <1>3, <1>4

LEMMA ReadHistory ==
    ASSUME IInv, HistoryInv, Reads, UNCHANGED pdWas
    PROVE  HistoryInv'
<1>1. PICK ok \in BOOLEAN : ReadStatus(ok) \/ ReadStat(ok)
  BY DEF Reads
<1>2. /\ pc \in {"status", "stat"} /\ cursor \in Pids
      /\ \A q \in Pids : q # cursor => reg'[q] = reg[q]
      /\ pc' \in {"stat", "scan"}
      /\ UNCHANGED <<os, stable, cursor>>
  BY <1>1, ReadEntry
<1>3. reg[cursor].touched
  BY <1>2 DEF IInv, EntryRead
<1>4. ScanSeen'
  BY <1>2, <1>3 DEF HistoryInv, ScanSeen
<1>5. ASSUME NEW p \in Pids, isActive(reg'[p]), reg'[p].touched PROVE reg'[p].ppid \in pdWas'[p]
  <2>1. CASE p = cursor
    BY <1>1, <1>5, <2>1, ReadPpid
  <2>2. CASE p # cursor
    BY <1>2, <1>5, <2>2 DEF HistoryInv, ReadSeen
  <2> QED
    BY <2>1, <2>2
<1>6. ReadSeen'
  BY <1>5 DEF ReadSeen
<1>7. pc' # "idle"
  BY <1>2
<1> QED
  BY <1>4, <1>6, <1>7 DEF HistoryInv, TableSeen

\* What is shown of a table: its links are made, the rest of it stays.
LEMMA ShownTable ==
    ASSUME NEW r, Table(r), ShowTable(r), pc' = "idle",
           \A p \in Pids : /\ isActive(r[p]) => r[p].ppid \in pdWas'[p]
                           /\ Dead \notin pdWas'[p] => r[p].stage # "absent"
    PROVE  /\ HistoryInv'
           /\ \A p \in Pids : reg'[p].stage = r[p].stage
<1>1. reg' = [p \in Pids |-> Linked(r, p)]
  BY DEF ShowTable
<1>2. \A p \in Pids : /\ reg'[p].stage = r[p].stage /\ reg'[p].ppid = r[p].ppid
                      /\ (r[p].stage # "absent" /\ r[p].ppid \in Entries(r))
                            => reg'[p].parent = r[p].ppid
  BY <1>1, LinkedEntry
<1>3. Entries(reg') = Entries(r)
  BY <1>2 DEF Entries
<1>4. TableSeen'
  BY <1>2, <1>3 DEF TableSeen, isActive
<1> QED
  BY <1>2, <1>4 DEF HistoryInv, ScanSeen, ReadSeen

LEMMA EndHistory ==
    ASSUME IInv, HistoryInv, EndUpdate, UNCHANGED pdWas
    PROVE  /\ HistoryInv'
           /\ \A p \in Pids : reg'[p].stage = Swept(p).stage
<1>1. ScanDone /\ ShowTable(SweptTable) /\ pc' = "idle" /\ pc = "scan"
  BY DEF EndUpdate, SweptTable, ScanDone
<1>2. Table(SweptTable) /\ TypeOK
  BY SweptTableType DEF IInv
<1>3. \A p \in Pids : SweptTable[p] = Swept(p)
  BY DEF SweptTable
<1>4. ASSUME NEW p \in Pids, isActive(Swept(p)) PROVE Swept(p).ppid \in pdWas'[p]
  <2>1. /\ Swept(p).stage = reg[p].stage /\ Swept(p).ppid = reg[p].ppid
    BY <1>2, <1>4, SweptEntry DEF isActive
  <2>2. reg[p].touched
    <3>1. reg[p].stage \in {"New", "Running"}
      BY <1>4, <2>1 DEF isActive
    <3>2. ~reg[p].touched => Swept(p).stage = "Close"
      BY <1>2, <3>1 DEF Swept, Erased, TypeOK, Entry
    <3> QED
      BY <2>1, <3>1, <3>2
  <2>3. isActive(reg[p])
    BY <1>4, <2>1 DEF isActive
  <2> QED
    BY <1>1, <2>1, <2>2, <2>3 DEF HistoryInv, ReadSeen
<1>5. ASSUME NEW p \in Pids, Dead \notin pdWas'[p] PROVE Swept(p).stage # "absent"
  <2>1. p \in stable
    BY <1>1, <1>5 DEF HistoryInv, ScanSeen
  <2> QED
    BY <1>1, <1>3, <2>1, StableKept DEF Entries
<1> QED
  BY <1>1, <1>2, <1>3, <1>4, <1>5, ShownTable

LEMMA UnreadHistory ==
    ASSUME IInv, HistoryInv, UpdateUnread, UNCHANGED pdWas
    PROVE  /\ HistoryInv'
           /\ \A p \in Pids : reg'[p].stage = reg[p].stage
<1>1. ShowTable(reg) /\ pc = "idle" /\ pc' = "idle"
  BY DEF UpdateUnread
<1>2. Table(reg)
  BY DEF IInv, TypeOK, Table
<1>3. \A p \in Pids : /\ isActive(reg[p]) => reg[p].ppid \in pdWas'[p]
                      /\ Dead \notin pdWas'[p] => reg[p].stage # "absent"
  BY <1>1 DEF HistoryInv, TableSeen
<1> QED
  BY <1>1, <1>2, <1>3, ShownTable

LEMMA CloseHistory == ASSUME Placed, PdClose PROVE HistoryInv'
<1>1. /\ pc' = "idle" /\ reg' = [p \in Pids |-> NoEntry] /\ pdWas' = [p \in Pids |-> {Dead}]
  BY DEF PdClose, Ready, Placed, NoHistory
<1>2. \A p \in Pids : reg'[p].stage = "absent" /\ Dead \in pdWas'[p]
  BY <1>1 DEF NoEntry
<1> QED
  BY <1>1, <1>2 DEF HistoryInv, ScanSeen, ReadSeen, TableSeen, isActive

LEMMA HistoryNext ==
    ASSUME IInv, IInv', Placed, WasForm, HistoryInv, [PdNext]_dialogVars
    PROVE  HistoryInv'
<1>1. CASE PdKernel
  BY <1>1, KernelHistory
<1>2. CASE PdBegin
  BY <1>2, BeginHistory
<1>3. CASE PdScan
  BY <1>3, VisitHistory, ReadHistory DEF PdScan, pdVars
<1>4. CASE PdEnd
  BY <1>4, EndHistory DEF PdEnd, Redrawn
<1>5. CASE PdUnread
  BY <1>5, UnreadHistory DEF PdUnread, Redrawn
<1>6. CASE PdClose
  BY <1>6, CloseHistory
<1>7. CASE PdCrash
  <2>1. pc = "scan" /\ pc' = "crashed" /\ UNCHANGED <<os, stable, reg, cursor, pdWas>>
    BY <1>7 DEF PdCrash, SweepCrash, ScanDone, kernel, pdVars
  <2> QED
    BY <2>1 DEF HistoryInv, ScanSeen, ReadSeen, TableSeen
<1>8. CASE UNCHANGED <<vars, pdWas>>
  BY <1>8 DEF vars, HistoryInv, ScanSeen, ReadSeen, TableSeen, Entries
<1>9. PdUser \/ UNCHANGED dialogVars => PdClose \/ UNCHANGED <<vars, pdWas>>
  BY DEF PdUser, PdNetwork, PdBack, PdShow, PdSelect, PdStop, dialogVars, pdVars
<1> QED
  BY <1>1, <1>2, <1>3, <1>4, <1>5, <1>6, <1>7, <1>8, <1>9 DEF PdNext, PdUpdate

-----------------------------------------------------------------------------
(***************************************************************************)
(* The rows are made of the table as it is, and a root that was missed      *)
(* once is closing or has no entry, unless the scan under way finds its    *)
(* pid again; the second time it loses its entry, and with it the rows,    *)
(* the selection and the timer.                                            *)
(***************************************************************************)
RowsMade == pdAt = "waiting" => pdRows = Rows(reg, pdRoot)

RootInv ==
    /\ pdAt \in {"closed", "first"} => pdMissed = 0
    /\ pdMissed # 0 =>
         \/ reg[pdRoot].stage \in {"absent", "Close"}
         \/ pc # "idle" /\ reg[pdRoot].touched
    /\ pdMissed = 2 => pdAt \in {"waiting", "endless"} /\ pdRows = {} /\ pdSel = Null /\ ~pdTimer

LEMMA RowsNext == ASSUME RowsMade, Placed, [PdNext]_dialogVars PROVE RowsMade'
<1>1. CASE Redrawn
  BY <1>1 DEF Redrawn, RowsMade
<1>2. CASE UNCHANGED <<reg, pdAt, pdRoot, pdRows>>
  BY <1>2 DEF RowsMade
<1>3. CASE pdAt' # "waiting"
  BY <1>3 DEF RowsMade
<1>4. CASE PdKernel
  BY <1>2, <1>4 DEF PdKernel, Kernel, Fork, Exit
<1>5. CASE PdScan
  BY <1>3, <1>5 DEF PdScan, Reads, ReadStatus, ReadStat, Visit, pdVars, Placed
<1>6. Redrawn \/ pdAt' # "waiting" \/ UNCHANGED <<reg, pdAt, pdRoot, pdRows>> \/ PdKernel \/ PdScan
  BY DEF PdNext, PdUpdate, PdUser, PdBegin, PdEnd, PdCrash, PdUnread, SweepCrash, PdClose,
         PdNetwork, PdBack, PdShow, PdSelect, PdStop, dialogVars, pdVars, vars
<1> QED
  BY <1>1, <1>2, <1>3, <1>4, <1>5, <1>6

\* Without an entry of the root nothing is shown and the timer stops.
LEMMA ShownWithoutRoot ==
    ASSUME Redrawn, reg'[pdRoot].stage = "absent", pdAt # "first"
    PROVE  pdAt' \in {"waiting", "endless"} /\ pdRows' = {} /\ pdSel' = Null /\ ~pdTimer'
  BY DEF Redrawn, Rows, Selected

LEMMA EndRoot ==
    ASSUME IInv, HistoryInv, Placed, PdForm, RootInv, PdEnd
    PROVE  RootInv'
<1>1. /\ EndUpdate /\ Redrawn /\ pc = "scan" /\ pc' = "idle" /\ UNCHANGED <<pdRoot, pdWas>>
      /\ pdMissed' = IF pdWas[pdRoot] # {Dead} THEN 0 ELSE IF pdMissed = 0 THEN 1 ELSE 2
      /\ pdAt' \in {"waiting", "endless"} /\ pdRoot \in Pids /\ pdMissed \in 0..2
  BY DEF PdEnd, EndUpdate, ScanDone, Redrawn, PdForm
<1>2. reg'[pdRoot].stage = Swept(pdRoot).stage
  BY <1>1, EndHistory
<1>3. CASE pdMissed' = 0
  BY <1>1, <1>3 DEF RootInv
<1>4. CASE pdMissed' # 0
  <2>1. ~reg[pdRoot].touched
    BY <1>1, <1>4 DEF HistoryInv, ScanSeen
  <2>2. /\ reg'[pdRoot].stage \in {"absent", "Close"}
        /\ reg[pdRoot].stage \in {"absent", "Close"} => reg'[pdRoot].stage = "absent"
    <3>1. reg[pdRoot] \in Entry /\ NoEntry.stage = "absent"
      BY <1>1 DEF IInv, TypeOK, NoEntry
    <3>2. CASE reg[pdRoot].stage \in {"absent", "Close"}
      BY <1>2, <2>1, <3>1, <3>2 DEF Swept, Erased
    <3>3. CASE reg[pdRoot].stage \notin {"absent", "Close"}
      <4>1. Swept(pdRoot).stage = "Close"
        BY <2>1, <3>1, <3>3 DEF Swept, Erased, Entry
      <4> QED
        BY <1>2, <3>3, <4>1
    <3> QED
      BY <3>2, <3>3
  <2>3. ASSUME pdMissed' = 2
        PROVE  pdAt' \in {"waiting", "endless"} /\ pdRows' = {} /\ pdSel' = Null /\ ~pdTimer'
    <3>1. pdMissed # 0
      BY <1>1, <2>3
    <3>2. pdAt # "first" /\ reg[pdRoot].stage \in {"absent", "Close"}
      BY <2>1, <3>1 DEF RootInv
    <3> QED
      BY <1>1, <2>2, <3>2, ShownWithoutRoot
  <2> QED
    BY <1>1, <2>2, <2>3 DEF RootInv
<1> QED
  BY <1>3, <1>4

LEMMA UnreadRoot ==
    ASSUME IInv, HistoryInv, PdForm, RootInv, PdUnread
    PROVE  RootInv'
<1>1. /\ Refreshes /\ UpdateUnread /\ UNCHANGED <<pdRoot, pdMissed, pdWas>> /\ pc = "idle"
      /\ pdAt' \in {"waiting", "endless"} /\ pdRoot \in Pids
  BY DEF PdUnread, UpdateUnread, Redrawn, PdForm
<1>2. reg'[pdRoot].stage = reg[pdRoot].stage
  BY <1>1, UnreadHistory
<1>3. pdMissed # 2
  BY <1>1 DEF Refreshes, RootInv
<1> QED
  BY <1>1, <1>2, <1>3 DEF RootInv

LEMMA ScanRoot ==
    ASSUME IInv, Placed, PdForm, RootInv, PdScan
    PROVE  RootInv'
<1>1. /\ pc # "idle" /\ pc' # "idle" /\ UNCHANGED <<pdAt, pdRoot, pdRows, pdSel, pdTimer, pdMissed>>
      /\ pdRoot \in Pids /\ pdMissed # 2
  BY DEF PdScan, Reads, ReadStatus, ReadStat, Visit, pdVars, PdForm, Placed, RootInv
<1>2. reg'[pdRoot] = reg[pdRoot] \/ reg'[pdRoot].touched
  <2>1. CASE Reads
    BY <1>1, <2>1, ReadEntry DEF Reads
  <2>2. ASSUME NEW p \in Pids, Visit(p) PROVE reg'[pdRoot] = reg[pdRoot] \/ reg'[pdRoot].touched
    <3>1. reg' = [reg EXCEPT ![p] = Found(reg[p])] /\ reg \in [Pids -> Entry]
      BY <2>2 DEF Visit, IInv, TypeOK
    <3>2. Found(reg[p]).touched
      BY <3>1, FoundEntry
    <3> QED
      BY <1>1, <3>1, <3>2
  <2> QED
    BY <2>1, <2>2 DEF PdScan
<1> QED
  BY <1>1, <1>2 DEF RootInv

LEMMA BeginRoot ==
    ASSUME IInv, PdForm, RootInv, PdBegin
    PROVE  RootInv'
<1>1. /\ Refreshes /\ pc = "idle" /\ reg' = [p \in Pids |-> Marked(reg[p])]
      /\ UNCHANGED <<pdRoot, pdMissed>> /\ pdRoot \in Pids
      /\ pdAt' = IF pdAt = "first" THEN "first" ELSE "refresh"
  BY DEF PdBegin, BeginUpdate, PdForm
<1>2. pdMissed # 2
  BY <1>1 DEF Refreshes, RootInv
<1>3. Marked(reg[pdRoot]).stage = IF isActive(reg[pdRoot]) THEN "Running" ELSE reg[pdRoot].stage
  BY <1>1, MarkedEntry DEF IInv, TypeOK
<1>4. reg[pdRoot].stage \in {"absent", "Close"} => reg'[pdRoot].stage = reg[pdRoot].stage
  BY <1>1, <1>3 DEF isActive
<1> QED
  BY <1>1, <1>2, <1>4 DEF RootInv

LEMMA UserRoot == ASSUME Placed, RootInv, PdUser PROVE RootInv'
<1>1. CASE PdClose
  BY <1>1 DEF PdClose, RootInv
<1>2. CASE \E p \in Pids : PdShow(p)
  BY <1>2 DEF PdShow, RootInv
<1>3. CASE \E p \in Pids : PdSelect(p)
  BY <1>3 DEF PdSelect, vars, RootInv
<1>4. CASE PdNetwork \/ PdBack \/ PdStop
  BY <1>4 DEF PdNetwork, PdBack, PdStop, vars, RootInv
<1> QED
  BY <1>1, <1>2, <1>3, <1>4 DEF PdUser

LEMMA RootNext ==
    ASSUME IInv, HistoryInv, Placed, PdForm, RootInv, [PdNext]_dialogVars
    PROVE  RootInv'
<1>1. CASE PdKernel
  BY <1>1 DEF PdKernel, Kernel, Fork, Exit, RootInv
<1>2. CASE PdCrash
  BY <1>2 DEF PdCrash, SweepCrash, ScanDone, pdVars, RootInv
<1>3. CASE UNCHANGED dialogVars
  BY <1>3 DEF dialogVars, vars, pdVars, RootInv
<1> QED
  BY <1>1, <1>2, <1>3, BeginRoot, ScanRoot, EndRoot, UnreadRoot, UserRoot DEF PdNext, PdUpdate

-----------------------------------------------------------------------------
(* All of it together.                                                     *)

DialogInv ==
    /\ IInv /\ Placed /\ PdForm /\ pdTimer \in BOOLEAN /\ WasForm
    /\ HistoryInv /\ RowsMade /\ RootInv

LEMMA InitDialog == PdInit => DialogInv
<1> SUFFICES ASSUME PdInit PROVE DialogInv
  OBVIOUS
<1>1. IInv /\ pc = "idle" /\ reg = [p \in Pids |-> NoEntry]
  BY InitInv DEF PdInit, Init
<1>2. /\ pdAt = "closed" /\ pdRoot = 1 /\ pdRows = {} /\ pdSel = Null /\ pdTimer = FALSE
      /\ pdNested = FALSE /\ pdWas = [p \in Pids |-> {Dead}] /\ pdMissed = 0
  BY DEF PdInit, NoHistory
<1>3. pdTimer \in BOOLEAN /\ pdNested \in BOOLEAN
  BY <1>2
<1>4. PdForm /\ WasForm
  BY <1>2, <1>3, PidNumbers DEF PdForm, WasForm
<1>5. \A p \in Pids : reg[p].stage = "absent" /\ Dead \in pdWas[p]
  BY <1>1, <1>2 DEF NoEntry
<1>6. HistoryInv
  BY <1>1, <1>5 DEF HistoryInv, ScanSeen, ReadSeen, TableSeen, isActive
<1>7. Placed /\ RowsMade /\ RootInv
  BY <1>1, <1>2 DEF Placed, RowsMade, RootInv
<1> QED
  BY <1>1, <1>3, <1>4, <1>6, <1>7 DEF DialogInv

LEMMA NextDialog == DialogInv /\ [PdNext]_dialogVars => DialogInv'
<1> SUFFICES ASSUME DialogInv, [PdNext]_dialogVars PROVE DialogInv'
  OBVIOUS
<1>1. IInv' /\ Placed'
  BY TableNext, PlacedNext DEF DialogInv
<1>2. PdForm' /\ pdTimer' \in BOOLEAN
  BY FormNext, TimerNext DEF DialogInv
<1>3. WasForm' /\ HistoryInv'
  BY <1>1, WasNext, HistoryNext DEF DialogInv
<1>4. RowsMade' /\ RootInv'
  BY RowsNext, RootNext DEF DialogInv
<1> QED
  BY <1>1, <1>2, <1>3, <1>4 DEF DialogInv

LEMMA DialogAlways == PdSpec => []DialogInv
  BY InitDialog, NextDialog, PTL DEF PdSpec

\* Table, rows, selection and root of the process dialog keep their form, whatever processes
\* are born and die during its scans.
THEOREM DialogTypeCorrect == PdSpec => []PdTypeOK
<1>1. DialogInv => PdTypeOK
  BY DEF DialogInv, IInv, PdForm, WasForm, PdTypeOK
<1> QED
  BY <1>1, DialogAlways, PTL

\* When there was no process of its pid all through two scans the process dialog is empty,
\* has nothing to stop and does not scan any more, for any processes and reused pids.
THEOREM RootIsGone == PdSpec => []RootGone
<1>1. DialogInv => RootGone
  BY DEF DialogInv, RootInv, RootGone
<1> QED
  BY <1>1, DialogAlways, PTL

\* What was below the root all through a scan, and could be read, is in the rows.
LEMMA SteadyRows ==
    ASSUME DialogInv, pdAt = "waiting", Dead \notin pdWas[pdRoot]
    PROVE  Subtree([p \in Pids |-> SteadyParent(p)], pdRoot) \subseteq pdRows
<1> DEFINE steady == [p \in Pids |-> SteadyParent(p)]
           parent == [p \in Pids |-> reg[p].parent]
<1>1. /\ pc = "idle" /\ TableSeen /\ pdRoot \in Pids /\ pdRows = Rows(reg, pdRoot)
      /\ reg \in [Pids -> Entry]
  BY DEF DialogInv, Placed, HistoryInv, PdForm, RowsMade, IInv, TypeOK
<1>2. ASSUME NEW p \in Pids, steady[p] \in Pids PROVE parent[p] = steady[p]
  <2>1. steady[p] = SteadyParent(p) /\ SteadyParent(p) # Null
    BY <1>2, PidNumbers
  <2>2. isActive(reg[p]) /\ \E q \in Pids : pdWas[p] = {q} /\ Dead \notin pdWas[q]
    BY <2>1 DEF SteadyParent
  <2>3. PICK q \in Pids : pdWas[p] = {q} /\ Dead \notin pdWas[q]
    BY <2>2
  <2>4. SteadyParent(p) = q
    <3>1. SteadyParent(p) = CHOOSE r \in Pids : pdWas[p] = {r}
      BY <2>2, <2>3 DEF SteadyParent
    <3>2. \A r \in Pids : pdWas[p] = {r} <=> r = q
      BY <2>3
    <3> QED
      BY <3>1, <3>2
  <2>5. reg[p].ppid = q /\ q \in Entries(reg) /\ reg[p].stage # "absent"
    BY <1>1, <2>2, <2>3 DEF TableSeen, Entries, isActive
  <2> QED
    BY <1>1, <2>1, <2>4, <2>5 DEF TableSeen
<1>3. pdRows = Subtree(parent, pdRoot)
  <2>1. reg[pdRoot].stage # "absent"
    BY <1>1 DEF TableSeen
  <2> QED
    BY <1>1, <2>1 DEF Rows
<1> HIDE DEF steady, parent
<1>4. Subtree(steady, pdRoot) \subseteq Subtree(parent, pdRoot)
  <2> SUFFICES ASSUME NEW p \in Subtree(steady, pdRoot), NEW ps \in SUBSET Pids, Holds(parent, pdRoot, ps)
               PROVE  p \in ps
    BY DEF Subtree
  <2>1. Holds(steady, pdRoot, ps)
    BY <1>2 DEF Holds
  <2> QED
    BY <2>1 DEF Subtree
<1> QED
  BY <1>3, <1>4 DEF steady

\* What hangs below the root hangs below a row.
LEMMA SubtreeParent ==
    ASSUME NEW above, NEW root \in Pids, NEW p \in Subtree(above, root), p # root
    PROVE  above[p] \in Subtree(above, root)
<1> DEFINE tree == Subtree(above, root)
           rest == tree \ {p}
<1>1. tree \subseteq Pids /\ root \in tree /\ p \in Pids
  BY SubtreePids
<1>2. ASSUME NEW q \in Pids, above[q] \in tree PROVE q \in tree
  <2> SUFFICES ASSUME NEW ps \in SUBSET Pids, Holds(above, root, ps) PROVE q \in ps
    BY DEF Subtree
  <2>1. above[q] \in ps
    BY <1>2 DEF Subtree
  <2> QED
    BY <2>1 DEF Holds
<1>3. SUFFICES ASSUME above[p] \notin tree PROVE FALSE
  OBVIOUS
<1> HIDE DEF tree
<1>4. Holds(above, root, rest)
  BY <1>1, <1>2, <1>3 DEF Holds
<1>5. rest \in SUBSET Pids /\ p \notin rest
  BY <1>1
<1>6. p \in tree
  BY DEF tree
<1> HIDE DEF rest
<1>7. p \in rest
  BY <1>4, <1>5, <1>6 DEF tree, Subtree
<1> QED
  BY <1>5, <1>7

LEMMA RowsExplained ==
    ASSUME DialogInv, pdAt = "waiting", NEW p \in pdRows \ {pdRoot}, isActive(reg[p]),
           reg[p].ppid \in Entries(reg)
    PROVE  pdRows \cap pdWas[p] # {}
<1> DEFINE parent == [q \in Pids |-> reg[q].parent]
<1>1. /\ pc = "idle" /\ TableSeen /\ pdRoot \in Pids /\ pdRows = Rows(reg, pdRoot)
      /\ pdRows \subseteq Pids
  BY DEF DialogInv, Placed, HistoryInv, PdForm, RowsMade
<1>2. pdRows = Subtree(parent, pdRoot)
  BY <1>1 DEF Rows
<1>3. parent[p] = reg[p].parent
  BY <1>1
<1> HIDE DEF parent
<1>4. reg[p].parent \in pdRows
  BY <1>1, <1>2, <1>3, SubtreeParent
<1>5. reg[p].parent \in pdWas[p]
  BY <1>1 DEF TableSeen, isActive
<1> QED
  BY <1>4, <1>5

\* Whatever moves while /proc is read: the rows hold every process that could be read and
\* was below the root all through the scan, in a tree of any depth, and an active process
\* only below one that was its parent at some moment of the scan (if the parent that was
\* read for it has an entry).
THEOREM RowsFollowTree == PdSpec => []RowsAreSubtree
<1>1. DialogInv => RowsAreSubtree
  BY SteadyRows, RowsExplained DEF RowsAreSubtree
<1> QED
  BY <1>1, DialogAlways, PTL
=============================================================================
