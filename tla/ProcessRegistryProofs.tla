------------------------ MODULE ProcessRegistryProofs ------------------------
(***************************************************************************)
(* Proofs about ProcessRegistry, for any finite set of pids and any number *)
(* of forks: type correctness, that the non-atomic scan misses no process  *)
(* that lives through it, that active entries hang below their parents,    *)
(* that the top lists are safe to display, and that the table implements   *)
(* EntryLife.                                                              *)
(***************************************************************************)
EXTENDS ProcessRegistry, FiniteSetTheorems, TLAPS

\* What the scan has done so far: behind the cursor every process that is alive since
\* the update began is in the map and touched.
ScanProgress ==
    pc # "idle" =>
        /\ Permanent \subseteq stable
        /\ \A p \in stable : p <= cursor => reg[p].stage # "absent" /\ reg[p].touched

\* The entry that is being read was found active; a failed read finishes it.
EntryRead ==
    /\ pc = "status" => isActive(reg[cursor]) /\ reg[cursor].touched
    /\ pc = "stat" => reg[cursor].stage \in {"New", "Running", "Finished"}
                          /\ reg[cursor].touched

\* During the scan an entry is New only if the scan itself created it.
NewIsTouched == pc # "idle" => \A p \in Pids : reg[p].stage = "New" => reg[p].touched

\* Nothing ends while it is counted as stable, and the permanent processes never.
StableAlive == stable \subseteq Alive /\ Permanent \subseteq Alive

IInv ==
    /\ TypeOK
    /\ StableAlive
    /\ ScanProgress
    /\ EntryRead
    /\ NewIsTouched
    /\ LivingFound
    /\ ParentLinked
    /\ TopAreActive

-----------------------------------------------------------------------------
(* The operators on entries.                                               *)

LEMMA NoEntryType == NoEntry \in Entry
  BY DEF NoEntry, Entry

\* The first loop.
LEMMA MarkedEntry ==
    ASSUME NEW e \in Entry, e.stage = "absent" => e = NoEntry
    PROVE  /\ Marked(e) \in Entry
           /\ Marked(e).stage = IF isActive(e) THEN "Running" ELSE e.stage
           /\ Marked(e).stage = "absent" => Marked(e) = NoEntry
           /\ Marked(e).stage # "New"
<1>1. CASE isActive(e)
  <2>1. Marked(e) = [e EXCEPT !.stage = "Running", !.touched = FALSE]
    BY <1>1 DEF Marked
  <2>2. Marked(e) \in Entry /\ Marked(e).stage = "Running"
    BY <2>1 DEF Entry
  <2> QED
    BY <1>1, <2>2
<1>2. CASE ~isActive(e)
  <2>1. Marked(e) = [e EXCEPT !.stage = e.stage, !.touched = FALSE]
    BY <1>2 DEF Marked
  <2>2. Marked(e) \in Entry /\ Marked(e).stage = e.stage
    BY <2>1 DEF Entry
  <2>3. e = NoEntry => Marked(e) = NoEntry
    <3> SUFFICES ASSUME e = NoEntry PROVE Marked(e) = NoEntry
      OBVIOUS
    <3>1. /\ NoEntry.stage = "absent" /\ NoEntry.touched = FALSE
      BY DEF NoEntry
    <3>2. Marked(e) = [NoEntry EXCEPT !.stage = NoEntry.stage, !.touched = NoEntry.touched]
      BY <2>1, <3>1
    <3> QED
      BY <3>2 DEF NoEntry
  <2>4. e.stage # "New"
    BY <1>2 DEF isActive
  <2> QED
    BY <1>2, <2>2, <2>3, <2>4
<1> QED
  BY <1>1, <1>2

\* The visit of an entry.
LEMMA FoundEntry ==
    ASSUME NEW e \in Entry
    PROVE  /\ Found(e) \in Entry
           /\ Found(e).touched
           /\ Found(e).stage = IF e.stage = "absent" THEN "New" ELSE e.stage
  BY DEF Found, Entry, NoEntry

\* The sweep of an entry.
LEMMA SweptEntry ==
    ASSUME TypeOK, NEW p \in Pids
    PROVE  /\ Swept(p) \in Entry
           /\ Swept(p).stage = "absent" => Swept(p) = NoEntry
           /\ reg[p].stage = "absent" => Swept(p).stage = "absent"
           /\ (reg[p].touched /\ reg[p].stage # "absent") => Swept(p).stage = reg[p].stage
           /\ Swept(p).stage # "absent" => Swept(p).ppid = reg[p].ppid
           /\ \/ Swept(p).stage = reg[p].stage
              \/ reg[p].stage = "Close" /\ Swept(p).stage = "absent"
              \/ /\ reg[p].stage \in {"New", "Running", "Finished"}
                 /\ ~reg[p].touched
                 /\ Swept(p).stage = "Close"
<1>1. reg[p] \in Entry /\ (reg[p].stage = "absent" => reg[p] = NoEntry)
  BY DEF TypeOK
<1>2. NoEntry.stage = "absent"
  BY DEF NoEntry
<1>3. CASE reg[p].stage = "absent" \/ Erased(p)
  <2>1. Swept(p) = NoEntry
    BY <1>3 DEF Swept
  <2>2. Erased(p) => ~reg[p].touched /\ reg[p].stage = "Close"
    BY DEF Erased
  <2> QED
    BY <1>2, <1>3, <2>1, <2>2, NoEntryType
<1>4. CASE reg[p].stage # "absent" /\ ~Erased(p)
  <2> DEFINE st == IF reg[p].touched THEN reg[p].stage ELSE "Close"
             pt == Pointer(p)
  <2>1. st \in {"absent", "New", "Running", "Finished", "Close"} /\ st # "absent"
    BY <1>1, <1>4 DEF Entry
  <2>2. pt \in Pids \cup {Null, Freed}
    BY <1>1 DEF Pointer, Entry
  <2>3. Swept(p) = [reg[p] EXCEPT !.stage = st, !.parent = pt]
    BY <1>4 DEF Swept
  <2>4. reg[p].touched => st = reg[p].stage
    OBVIOUS
  <2>5. ~reg[p].touched => st = "Close"
    OBVIOUS
  <2> HIDE DEF st, pt
  <2>6. Swept(p) \in Entry /\ Swept(p).stage = st /\ Swept(p).ppid = reg[p].ppid
    BY <1>1, <2>1, <2>2, <2>3 DEF Entry
  <2>7. ~reg[p].touched => reg[p].stage \in {"New", "Running", "Finished"}
    BY <1>1, <1>4 DEF Erased, Entry
  <2> QED
    BY <1>4, <2>1, <2>4, <2>5, <2>6, <2>7
<1> QED
  BY <1>3, <1>4

\* A table of entries.
Table(r) ==
    /\ r \in [Pids -> Entry]
    /\ \A p \in Pids : r[p].stage = "absent" => r[p] = NoEntry

\* buildTree moves an entry, and nothing else of it.
LEMMA LinkedEntry ==
    ASSUME NEW r, Table(r), NEW p \in Pids
    PROVE  /\ Linked(r, p) \in Entry
           /\ Linked(r, p).stage = r[p].stage
           /\ r[p].stage = "absent" => Linked(r, p) = NoEntry
           /\ Linked(r, p).ppid = r[p].ppid
           /\ (r[p].stage # "absent" /\ r[p].ppid \in Entries(r))
                 => Linked(r, p).parent = r[p].ppid
<1>1. r[p] \in Entry
  BY DEF Table
<1>2. CASE r[p].stage = "absent"
  BY <1>1, <1>2 DEF Linked, Table
<1>3. CASE r[p].stage # "absent"
  <2> DEFINE q == IF r[p].ppid \in Entries(r) THEN r[p].ppid ELSE r[p].parent
  <2>1. q \in Pids \cup {Null, Freed}
    BY <1>1 DEF Entry, Entries
  <2>2. Linked(r, p) = [r[p] EXCEPT !.parent = q]
    BY <1>3 DEF Linked
  <2>3. r[p].ppid \in Entries(r) => q = r[p].ppid
    OBVIOUS
  <2> HIDE DEF q
  <2> QED
    BY <1>1, <1>3, <2>1, <2>2, <2>3 DEF Entry
<1> QED
  BY <1>2, <1>3

-----------------------------------------------------------------------------
LEMMA InitInv == Init => IInv
<1> SUFFICES ASSUME Init PROVE IInv
  OBVIOUS
<1>1. TypeOK
  BY PidsAssumption, TopAssumption, BoundsAssumption, NoEntryType
     DEF Init, TypeOK, Dead, Null
<1>2. StableAlive
  BY PidsAssumption DEF Init, StableAlive, Alive, Dead, Null
<1>3. TopAreActive
  BY DEF Init, TopAreActive
<1>4. ParentLinked /\ LivingFound
  BY DEF Init, ParentLinked, LivingFound
<1> QED
  BY <1>1, <1>2, <1>3, <1>4 DEF Init, IInv, ScanProgress, EntryRead, NewIsTouched

\* The kernel changes no entry; what ends is not stable any more.
LEMMA KernelInv == ASSUME IInv, Kernel PROVE IInv'
<1> USE DEF IInv
<1>1. UNCHANGED <<reg, top, pc, cursor>>
  BY DEF Kernel, Fork, Exit
<1>2. /\ os' \in [Pids -> Pids \cup {Null, Dead}] /\ forks' \in 0..MaxForks
      /\ stable' \subseteq stable /\ stable' \subseteq Alive' /\ Permanent \subseteq Alive'
      /\ Permanent \subseteq stable => Permanent \subseteq stable'
  <2>1. CASE \E p \in Pids, q \in Pids \ Permanent : Fork(p, q)
    <3>1. PICK p \in Pids, q \in Pids \ Permanent : Fork(p, q)
      BY <2>1
    <3>2. os' = [os EXCEPT ![q] = p] /\ forks < MaxForks /\ forks' = forks + 1
          /\ stable' = stable
      BY <3>1 DEF Fork
    <3>3. forks' \in 0..MaxForks
      BY <3>2, BoundsAssumption DEF TypeOK
    <3>4. os' \in [Pids -> Pids \cup {Null, Dead}] /\ Alive \subseteq Alive'
      BY <3>2, PidsAssumption DEF TypeOK, Alive, Dead
    <3> QED
      BY <3>2, <3>3, <3>4 DEF StableAlive
  <2>2. CASE \E p \in Pids : Exit(p)
    <3>1. PICK p \in Pids : Exit(p)
      BY <2>2
    <3>2. /\ os' = [q \in Pids |-> IF q = p THEN Dead ELSE IF os[q] = p THEN 1 ELSE os[q]]
          /\ stable' = stable \ {p} /\ p \notin Permanent /\ forks' = forks
      BY <3>1 DEF Exit
    <3>3. os' \in [Pids -> Pids \cup {Null, Dead}]
      BY <3>2, PidsAssumption DEF TypeOK
    <3>4. Alive \ {p} \subseteq Alive'
      BY <3>2, PidsAssumption DEF TypeOK, Alive, Dead
    <3> QED
      BY <3>2, <3>3, <3>4 DEF StableAlive, TypeOK
  <2> QED
    BY <2>1, <2>2 DEF Kernel
<1>3. TypeOK' /\ StableAlive'
  BY <1>1, <1>2 DEF TypeOK, StableAlive
<1>4. ScanProgress' /\ LivingFound' /\ ParentLinked'
  BY <1>1, <1>2 DEF ScanProgress, LivingFound, ParentLinked, isActive
<1>5. EntryRead' /\ NewIsTouched' /\ TopAreActive'
  BY <1>1 DEF EntryRead, NewIsTouched, TopAreActive, isActive
<1> QED
  BY <1>3, <1>4, <1>5

LEMMA BeginInv == ASSUME IInv, BeginUpdate PROVE IInv'
<1> USE DEF IInv
<1>1. /\ reg' = [p \in Pids |-> Marked(reg[p])]
      /\ stable' = Alive /\ pc' = "scan" /\ cursor' = 0
      /\ UNCHANGED <<os, forks, top>>
  BY DEF BeginUpdate
<1>2. ASSUME NEW p \in Pids
      PROVE  /\ reg'[p] \in Entry
             /\ reg'[p].stage = "absent" => reg'[p] = NoEntry
             /\ reg'[p].stage # "New"
  BY <1>1, MarkedEntry DEF TypeOK
<1>3. TypeOK'
  BY <1>1, <1>2 DEF TypeOK, Alive
<1>4. StableAlive'
  BY <1>1 DEF StableAlive, Alive
<1>5. ScanProgress'
  BY <1>1, PidsAssumption DEF ScanProgress, StableAlive, Alive
<1>6. NewIsTouched'
  BY <1>1, <1>2 DEF NewIsTouched
<1> QED
  BY <1>1, <1>3, <1>4, <1>5, <1>6 DEF EntryRead, LivingFound, ParentLinked, TopAreActive

\* readdir goes on: what is behind the new cursor was behind the old one or is visited now.
LEMMA VisitInv == ASSUME IInv, NEW p \in Pids, Visit(p) PROVE IInv'
<1> USE DEF IInv
<1>1. /\ pc = "scan" /\ Listed(p) /\ cursor' = p
      /\ reg' = [reg EXCEPT ![p] = Found(reg[p])]
      /\ pc' = IF isActive(reg'[p]) THEN "status" ELSE "scan"
      /\ UNCHANGED <<os, forks, stable, top>>
  BY DEF Visit, kernel
<1>2. /\ reg'[p] = Found(reg[p]) /\ reg'[p] \in Entry
      /\ reg'[p].touched /\ reg'[p].stage # "absent"
  BY <1>1, FoundEntry DEF TypeOK
<1>3. \A q \in Pids : q # p => reg'[q] = reg[q]
  BY <1>1 DEF TypeOK
<1>4. TypeOK'
  <2>1. p \in Nat
    BY PidsAssumption
  <2>2. reg' \in [Pids -> Entry]
    BY <1>1, <1>2 DEF TypeOK
  <2>3. \A q \in Pids : reg'[q].stage = "absent" => reg'[q] = NoEntry
    BY <1>2, <1>3 DEF TypeOK
  <2> QED
    BY <1>1, <2>1, <2>2, <2>3 DEF TypeOK
<1>5. StableAlive'
  BY <1>1 DEF StableAlive, Alive
<1>6. ScanProgress'
  <2>1. Permanent \subseteq stable'
    BY <1>1 DEF ScanProgress
  <2>2. ASSUME NEW q \in stable', q <= cursor'
        PROVE  reg'[q].stage # "absent" /\ reg'[q].touched
    <3>1. q \in stable /\ q \in Alive /\ q \in Pids /\ q \in Nat /\ p \in Nat /\ cursor \in Nat
      BY <1>1, <2>2, PidsAssumption DEF StableAlive, TypeOK
    <3>2. CASE q <= cursor
      <4>1. q # p
        BY <1>1, <3>1, <3>2 DEF Listed
      <4> QED
        BY <1>1, <1>3, <3>1, <3>2, <4>1 DEF ScanProgress
    <3>3. CASE q > cursor
      <4>1. q = p
        BY <1>1, <2>2, <3>1, <3>3 DEF Listed
      <4> QED
        BY <1>2, <4>1
    <3> QED
      BY <3>1, <3>2, <3>3
  <2> QED
    BY <2>1, <2>2 DEF ScanProgress
<1>7. EntryRead' /\ NewIsTouched'
  BY <1>1, <1>2, <1>3 DEF EntryRead, NewIsTouched
<1>8. pc' # "idle"
  BY <1>1
<1> QED
  BY <1>4, <1>5, <1>6, <1>7, <1>8 DEF LivingFound, ParentLinked, TopAreActive

\* A read changes the ppid or finishes the entry at the cursor.
LEMMA ReadEntry ==
    ASSUME IInv, NEW ok \in BOOLEAN, ReadStatus(ok) \/ ReadStat(ok)
    PROVE  /\ pc \in {"status", "stat"}
           /\ cursor \in Pids
           /\ \A q \in Pids : q # cursor => reg'[q] = reg[q]
           /\ reg' \in [Pids -> Entry]
           /\ reg'[cursor].touched
           /\ reg'[cursor].stage \in {reg[cursor].stage, "Finished"}
           /\ reg[cursor].stage \in {"New", "Running", "Finished"}
           /\ pc' = IF pc = "status" THEN "stat" ELSE "scan"
           /\ UNCHANGED <<os, forks, stable, top, cursor>>
<1> USE DEF IInv
<1>1. /\ pc \in {"status", "stat"} /\ cursor \in Pids
      /\ reg \in [Pids -> Entry] /\ reg[cursor] \in Entry
      /\ reg[cursor].touched /\ reg[cursor].stage \in {"New", "Running", "Finished"}
  BY DEF ReadStatus, ReadStat, TypeOK, EntryRead, isActive
<1>2. CASE ReadStatus(ok)
  <2>1. /\ pc = "status" /\ pc' = "stat" /\ Readable(ok)
        /\ reg' = [reg EXCEPT ![cursor] =
                     IF ok THEN [reg[cursor] EXCEPT !.ppid = os[cursor]]
                     ELSE [reg[cursor] EXCEPT !.stage = "Finished"]]
        /\ UNCHANGED <<os, forks, stable, top, cursor>>
    BY <1>2 DEF ReadStatus, kernel
  <2>2. CASE ok
    <3>1. os[cursor] \in Pids \cup {Null}
      BY <2>1, <2>2, <1>1 DEF Readable, Alive, TypeOK
    <3>2. [reg[cursor] EXCEPT !.ppid = os[cursor]] \in Entry
      BY <1>1, <3>1 DEF Entry
    <3>3. reg' = [reg EXCEPT ![cursor] = [reg[cursor] EXCEPT !.ppid = os[cursor]]]
      BY <2>1, <2>2
    <3>4. reg'[cursor] = [reg[cursor] EXCEPT !.ppid = os[cursor]]
      BY <1>1, <3>3
    <3>5. reg'[cursor].stage = reg[cursor].stage /\ reg'[cursor].touched
      BY <1>1, <3>4 DEF Entry
    <3> QED
      BY <1>1, <2>1, <3>2, <3>3, <3>5
  <2>3. CASE ~ok
    <3>1. [reg[cursor] EXCEPT !.stage = "Finished"] \in Entry
      BY <1>1 DEF Entry
    <3>2. reg' = [reg EXCEPT ![cursor] = [reg[cursor] EXCEPT !.stage = "Finished"]]
      BY <2>1, <2>3
    <3>3. reg'[cursor] = [reg[cursor] EXCEPT !.stage = "Finished"]
      BY <1>1, <3>2
    <3>4. reg'[cursor].stage = "Finished" /\ reg'[cursor].touched
      BY <1>1, <3>3 DEF Entry
    <3> QED
      BY <1>1, <2>1, <3>1, <3>2, <3>4
  <2> QED
    BY <2>2, <2>3
<1>3. CASE ReadStat(ok)
  <2>1. /\ pc = "stat" /\ pc' = "scan"
        /\ reg' = [reg EXCEPT ![cursor] =
                     IF ok THEN reg[cursor] ELSE [reg[cursor] EXCEPT !.stage = "Finished"]]
        /\ UNCHANGED <<os, forks, stable, top, cursor>>
    BY <1>3 DEF ReadStat, kernel
  <2>2. CASE ok
    <3>1. reg' = reg
      BY <1>1, <2>1, <2>2
    <3> QED
      BY <1>1, <2>1, <3>1
  <2>3. CASE ~ok
    <3>1. [reg[cursor] EXCEPT !.stage = "Finished"] \in Entry
      BY <1>1 DEF Entry
    <3>2. reg' = [reg EXCEPT ![cursor] = [reg[cursor] EXCEPT !.stage = "Finished"]]
      BY <2>1, <2>3
    <3>3. reg'[cursor] = [reg[cursor] EXCEPT !.stage = "Finished"]
      BY <1>1, <3>2
    <3>4. reg'[cursor].stage = "Finished" /\ reg'[cursor].touched
      BY <1>1, <3>3 DEF Entry
    <3> QED
      BY <1>1, <2>1, <3>1, <3>2, <3>4
  <2> QED
    BY <2>2, <2>3
<1> QED
  BY <1>2, <1>3

LEMMA ReadInv == ASSUME IInv, Reads PROVE IInv'
<1> USE DEF IInv
<1>1. PICK ok \in BOOLEAN : ReadStatus(ok) \/ ReadStat(ok)
  BY DEF Reads
<1>2. /\ pc \in {"status", "stat"} /\ cursor \in Pids
      /\ \A q \in Pids : q # cursor => reg'[q] = reg[q]
      /\ reg' \in [Pids -> Entry] /\ reg'[cursor].touched
      /\ reg'[cursor].stage \in {reg[cursor].stage, "Finished"}
      /\ reg[cursor].stage \in {"New", "Running", "Finished"}
      /\ pc' = IF pc = "status" THEN "stat" ELSE "scan"
      /\ UNCHANGED <<os, forks, stable, top, cursor>>
  BY <1>1, ReadEntry
<1>3. reg'[cursor].stage \in {"New", "Running", "Finished"}
  BY <1>2
<1>4. TypeOK'
  <2>1. \A q \in Pids : reg'[q].stage = "absent" => reg'[q] = NoEntry
    BY <1>2, <1>3 DEF TypeOK
  <2> QED
    BY <1>2, <2>1 DEF TypeOK
<1>5. StableAlive'
  BY <1>2 DEF StableAlive, Alive
<1>6. ScanProgress'
  BY <1>2, <1>3 DEF ScanProgress, TypeOK
<1>7. EntryRead' /\ NewIsTouched'
  BY <1>2, <1>3 DEF EntryRead, NewIsTouched
<1>8. pc' # "idle"
  BY <1>2
<1> QED
  BY <1>4, <1>5, <1>6, <1>7, <1>8 DEF LivingFound, ParentLinked, TopAreActive

-----------------------------------------------------------------------------
(* The end of an update.                                                   *)

SweptTable == [p \in Pids |-> Swept(p)]

LEMMA SweptTableType == TypeOK => Table(SweptTable)
  BY SweptEntry DEF SweptTable, Table

\* The sweep leaves the entry of a stable process where it is.
LEMMA StableKept ==
    ASSUME IInv, ScanDone, NEW p \in stable
    PROVE  p \in Entries(SweptTable)
<1> USE DEF IInv
<1>1. p \in Pids /\ p \in Alive
  BY DEF TypeOK, StableAlive
<1>2. p <= cursor /\ pc # "idle"
  BY <1>1 DEF ScanDone
<1>3. reg[p].stage # "absent" /\ reg[p].touched
  BY <1>1, <1>2 DEF ScanProgress, ScanDone
<1>4. Swept(p).stage = reg[p].stage
  BY <1>1, <1>3, SweptEntry
<1> QED
  BY <1>1, <1>3, <1>4 DEF Entries, SweptTable

\* What a call shows, made from a table that holds the stable processes: either it holds
\* the permanent ones, too, so that the null entries of findMax are as many as there are
\* places, or the list is safe to keep.
LEMMA ShowInv ==
    ASSUME IInv, NEW r, Table(r), ShowTable(r), stable \subseteq Entries(r),
           \/ Permanent \subseteq Entries(r)
           \/ \A i \in 1..TopProc : top[i] # Null => top[i] \in Actives(r)
    PROVE  /\ reg' \in [Pids -> Entry]
           /\ \A p \in Pids : reg'[p].stage = "absent" => reg'[p] = NoEntry
           /\ top' \in [1..TopProc -> Pids \cup {Null}]
           /\ \A p \in stable : reg'[p].stage # "absent"
           /\ \A p \in Pids : isActive(reg'[p]) /\ reg'[p].ppid \in stable =>
                 reg'[p].parent = reg'[p].ppid /\ reg'[reg'[p].ppid].stage # "absent"
           /\ \A i \in 1..TopProc : top'[i] # Null => isActive(reg'[top'[i]])
<1> USE DEF IInv
<1>1. /\ reg' = [p \in Pids |-> Linked(r, p)]
      /\ top' \in [1..TopProc -> Pids \cup {Null}]
      /\ \A i \in 1..TopProc : top'[i] \in TopPlace(reg', top, i)
  BY DEF ShowTable
<1>2. \A p \in Pids : /\ reg'[p] \in Entry /\ reg'[p].stage = r[p].stage
                      /\ r[p].stage = "absent" => reg'[p] = NoEntry
                      /\ reg'[p].ppid = r[p].ppid
                      /\ (r[p].stage # "absent" /\ r[p].ppid \in Entries(r))
                            => reg'[p].parent = r[p].ppid
  BY <1>1, LinkedEntry
<1>3. Entries(reg') = Entries(r) /\ Actives(reg') = Actives(r)
  BY <1>2 DEF Entries, Actives, isActive
<1>4. stable \subseteq Pids
  BY DEF TypeOK
<1>5. \A p \in stable : reg'[p].stage # "absent"
  BY <1>3, <1>4 DEF Entries
<1>6. ASSUME NEW p \in Pids, isActive(reg'[p]), reg'[p].ppid \in stable
      PROVE  reg'[p].parent = reg'[p].ppid /\ reg'[reg'[p].ppid].stage # "absent"
  <2>1. r[p].stage # "absent" /\ r[p].ppid \in Entries(r)
    BY <1>2, <1>6 DEF isActive
  <2> QED
    BY <1>2, <1>5, <1>6, <2>1
<1>7. ASSUME NEW i \in 1..TopProc, top'[i] # Null
      PROVE  isActive(reg'[top'[i]])
  <2>1. top'[i] \in TopPlace(reg', top, i)
    BY <1>1
  <2>2. top'[i] \in Actives(reg')
    <3>1. CASE Permanent \subseteq Entries(r)
      <4>1. IsFiniteSet(Entries(reg')) /\ IsFiniteSet(Actives(reg'))
        BY TopAssumption, FS_Subset DEF Entries, Actives
      <4>2. Cardinality(Permanent) <= Cardinality(Entries(reg'))
        BY <1>3, <3>1, <4>1, FS_Subset
      <4>3. /\ Cardinality(Actives(reg')) \in Nat /\ Cardinality(Entries(reg')) \in Nat
            /\ Cardinality(Permanent) \in Nat
        BY <1>3, <3>1, <4>1, FS_Subset, FS_CardinalityType
      <4>4. i <= Cardinality(Actives(reg')) + Cardinality(Entries(reg'))
        BY <4>2, <4>3, TopAssumption
      <4> QED
        BY <1>7, <2>1, <4>4 DEF TopPlace
    <3>2. CASE \A k \in 1..TopProc : top[k] # Null => top[k] \in Actives(r)
      <4>1. top'[i] \in Actives(reg') \/ top'[i] = Null \/ top'[i] = top[i]
        BY <2>1 DEF TopPlace
      <4> QED
        BY <1>3, <1>7, <3>2, <4>1
    <3> QED
      BY <3>1, <3>2
  <2> QED
    BY <2>2 DEF Actives
<1> QED
  BY <1>1, <1>2, <1>5, <1>6, <1>7

LEMMA EndInv == ASSUME IInv, EndUpdate PROVE IInv'
<1> USE DEF IInv
<1>1. ScanDone /\ ShowTable(SweptTable) /\ pc' = "idle" /\ cursor' = 0
      /\ UNCHANGED <<os, forks, stable>>
  BY DEF EndUpdate, kernel, SweptTable
<1>2. Table(SweptTable)
  BY SweptTableType
<1>3. stable \subseteq Entries(SweptTable)
  BY <1>1, StableKept
<1>4. Permanent \subseteq Entries(SweptTable)
  BY <1>1, <1>3 DEF ScanDone, ScanProgress
<1>5. /\ reg' \in [Pids -> Entry]
      /\ \A p \in Pids : reg'[p].stage = "absent" => reg'[p] = NoEntry
      /\ top' \in [1..TopProc -> Pids \cup {Null}]
      /\ \A p \in stable : reg'[p].stage # "absent"
      /\ \A p \in Pids : isActive(reg'[p]) /\ reg'[p].ppid \in stable =>
            reg'[p].parent = reg'[p].ppid /\ reg'[reg'[p].ppid].stage # "absent"
      /\ \A i \in 1..TopProc : top'[i] # Null => isActive(reg'[top'[i]])
  BY <1>1, <1>2, <1>3, <1>4, ShowInv
<1>6. TypeOK'
  BY <1>1, <1>5 DEF TypeOK
<1>7. StableAlive'
  BY <1>1 DEF StableAlive, Alive
<1>8. LivingFound' /\ ParentLinked' /\ TopAreActive'
  BY <1>1, <1>5 DEF LivingFound, ParentLinked, TopAreActive
<1> QED
  BY <1>1, <1>6, <1>7, <1>8 DEF ScanProgress, EntryRead, NewIsTouched

\* An update that could not open /proc shows the table it has.
LEMMA UnreadInv == ASSUME IInv, UpdateUnread PROVE IInv'
<1> USE DEF IInv
<1>1. pc = "idle" /\ ShowTable(reg) /\ UNCHANGED <<os, forks, stable, pc, cursor>>
  BY DEF UpdateUnread, kernel
<1>2. Table(reg)
  BY DEF TypeOK, Table
<1>3. stable \subseteq Entries(reg)
  BY <1>1 DEF LivingFound, Entries, TypeOK
<1>4. \A i \in 1..TopProc : top[i] # Null => top[i] \in Actives(reg)
  BY <1>1 DEF TopAreActive, Actives, TypeOK
<1>5. /\ reg' \in [Pids -> Entry]
      /\ \A p \in Pids : reg'[p].stage = "absent" => reg'[p] = NoEntry
      /\ top' \in [1..TopProc -> Pids \cup {Null}]
      /\ \A p \in stable : reg'[p].stage # "absent"
      /\ \A p \in Pids : isActive(reg'[p]) /\ reg'[p].ppid \in stable =>
            reg'[p].parent = reg'[p].ppid /\ reg'[reg'[p].ppid].stage # "absent"
      /\ \A i \in 1..TopProc : top'[i] # Null => isActive(reg'[top'[i]])
  BY <1>1, <1>2, <1>3, <1>4, ShowInv
<1>6. TypeOK'
  BY <1>1, <1>5 DEF TypeOK
<1>7. StableAlive'
  BY <1>1 DEF StableAlive, Alive
<1>8. LivingFound' /\ ParentLinked' /\ TopAreActive'
  BY <1>1, <1>5 DEF LivingFound, ParentLinked, TopAreActive
<1> QED
  BY <1>1, <1>6, <1>7, <1>8 DEF ScanProgress, EntryRead, NewIsTouched

LEMMA CrashInv == ASSUME IInv, SweepCrash PROVE IInv'
<1>1. pc = "scan" /\ pc' = "crashed" /\ UNCHANGED <<os, forks, stable, reg, top, cursor>>
  BY DEF SweepCrash, ScanDone, kernel
<1> QED
  BY <1>1 DEF IInv, TypeOK, StableAlive, Alive, ScanProgress, EntryRead, NewIsTouched,
              LivingFound, ParentLinked, TopAreActive

LEMMA StepInv == IInv /\ [Next]_vars => IInv'
<1> SUFFICES ASSUME IInv, [Next]_vars PROVE IInv'
  OBVIOUS
<1>1. CASE Kernel
  BY <1>1, KernelInv
<1>2. CASE Update
  BY <1>2, BeginInv, VisitInv, ReadInv, EndInv, CrashInv, UnreadInv DEF Update
<1>3. CASE UNCHANGED vars
  BY <1>3 DEF IInv, TypeOK, StableAlive, Alive, ScanProgress, EntryRead, NewIsTouched,
              LivingFound, ParentLinked, TopAreActive, isActive, vars
<1> QED
  BY <1>1, <1>2, <1>3 DEF Next

-----------------------------------------------------------------------------
\* The invariant in every reachable state.
THEOREM Invariance == Spec => []IInv
  BY InitInv, StepInv, PTL DEF Spec

\* Type correctness.
THEOREM TypeCorrect == Spec => []TypeOK
  BY Invariance, PTL DEF IInv

\* The scan misses no process that is alive all through it.
THEOREM ScanComplete == Spec => []LivingFound
  BY Invariance, PTL DEF IInv

\* The tree links every active entry to its parent.
THEOREM TreeLinked == Spec => []ParentLinked
  BY Invariance, PTL DEF IInv

\* The top lists can be displayed.
THEOREM TopsActive == Spec => []TopAreActive
  BY Invariance, PTL DEF IInv

-----------------------------------------------------------------------------
(* The table implements EntryLife: a step of an update takes every entry   *)
(* one stage on, or leaves it.                                             *)

LEMMA InitLife == Init => Promised!Init
  BY DEF Init, Promised!Init, Stage, NoEntry

\* One entry, one step.
LEMMA EntryStep ==
    ASSUME IInv, Update, NEW p \in Pids
    PROVE  reg'[p].stage = reg[p].stage \/ <<reg[p].stage, reg'[p].stage>> \in Promised!Life
<1> USE DEF IInv
<1>1. reg[p] \in Entry
  BY DEF TypeOK
<1>2. CASE BeginUpdate
  <2>1. reg'[p] = Marked(reg[p])
    BY <1>2 DEF BeginUpdate
  <2>2. reg'[p].stage = IF isActive(reg[p]) THEN "Running" ELSE reg[p].stage
    BY <1>1, <2>1, MarkedEntry DEF TypeOK
  <2> QED
    BY <2>2 DEF isActive, Promised!Life
<1>3. CASE \E q \in Pids : Visit(q)
  <2>1. PICK q \in Pids : Visit(q)
    BY <1>3
  <2>2. reg' = [reg EXCEPT ![q] = Found(reg[q])]
    BY <2>1 DEF Visit
  <2>3. reg'[p] \in {reg[p], Found(reg[p])}
    BY <2>2 DEF TypeOK
  <2> QED
    BY <1>1, <2>3, FoundEntry DEF Promised!Life
<1>4. CASE Reads
  <2>1. PICK ok \in BOOLEAN : ReadStatus(ok) \/ ReadStat(ok)
    BY <1>4 DEF Reads
  <2>2. CASE p = cursor
    BY <2>1, <2>2, ReadEntry DEF Promised!Life
  <2>3. CASE p # cursor
    BY <2>1, <2>3, ReadEntry
  <2> QED
    BY <2>2, <2>3
<1>5. CASE EndUpdate
  <2>1. reg'[p] = Linked(SweptTable, p) /\ pc = "scan"
    BY <1>5 DEF EndUpdate, ShowTable, SweptTable, ScanDone
  <2>2. reg'[p].stage = Swept(p).stage
    BY <2>1, SweptTableType, LinkedEntry DEF SweptTable
  <2>3. reg[p].stage = "New" => reg[p].touched
    BY <2>1 DEF NewIsTouched
  <2> QED
    BY <2>2, <2>3, SweptEntry DEF Promised!Life
<1>6. CASE SweepCrash
  BY <1>6 DEF SweepCrash
<1>7. CASE UpdateUnread
  <2>1. reg'[p] = Linked(reg, p)
    BY <1>7 DEF UpdateUnread, ShowTable
  <2>2. Table(reg)
    BY DEF TypeOK, Table
  <2> QED
    BY <2>1, <2>2, LinkedEntry
<1> QED
  BY <1>2, <1>3, <1>4, <1>5, <1>6, <1>7 DEF Update

LEMMA StepLife == IInv /\ IInv' /\ [Next]_vars => [Promised!Next]_Stage
<1> SUFFICES ASSUME IInv, IInv', [Next]_vars PROVE [Promised!Next]_Stage
  OBVIOUS
<1>1. CASE Update
  <2>1. Stage' \in [Pids -> Promised!Stages]
    BY DEF IInv, TypeOK, Entry, Stage, Promised!Stages
  <2>2. \A p \in Pids : Stage'[p] = Stage[p] \/ <<Stage[p], Stage'[p]>> \in Promised!Life
    BY <1>1, EntryStep DEF Stage
  <2> QED
    BY <2>1, <2>2 DEF Promised!Next
<1>2. CASE Kernel \/ UNCHANGED vars
  <2>1. reg' = reg
    BY <1>2 DEF Kernel, Fork, Exit, vars
  <2> QED
    BY <2>1 DEF Stage
<1> QED
  BY <1>1, <1>2 DEF Next

\* A process's entry is New, Running, maybe Finished, closing for one update, and gone:
\* the table implements what the display is promised.
THEOREM ImplementsEntryLife == Spec => KeepsEntryLife
  BY InitLife, StepLife, Invariance, PTL DEF Spec, KeepsEntryLife, Promised!Spec
=============================================================================
