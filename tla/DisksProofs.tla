------------------------------ MODULE DisksProofs ------------------------------
(***************************************************************************)
(* Proofs about Disks: what is displayed after an update follows from what *)
(* was listed, for any devices, mount points and bounds.                   *)
(***************************************************************************)
EXTENDS Disks, SequenceTheorems, TLAPS

\* Between the reset of the marks and the sweep, an entry is marked only when its mount
\* point is listed on a known device, one that is older than this update only when statvfs
\* has answered for it too.
MarkedWhy ==
    \A mp \in MountPoints : mounts[mp].touched =>
        /\ \E i \in DOMAIN list : list[i].mp = mp /\ devices[list[i].dev].there
        /\ mp \in old => mp \in answered

\* No entry is dropped before the sweep, and a new one is of a device that is listed there.
OldHeld == \A mp \in old : Held(mp)
ListedAs(mp) == \E i \in DOMAIN list : list[i] = [dev |-> mounts[mp].dev, mp |-> mp]
NewListed == \A mp \in MountPoints : Held(mp) /\ mp \notin old => ListedAs(mp)

Marks == pc = "refresh" => MarkedWhy /\ OldHeld /\ NewListed

\* A DiskGeom exists only for a device that is there.
GeomOfDevice ==
    pc # "closed" => \A d \in Devices : geom[d] # "absent" => devices[d].there

\* After the sweep a geometry is left only for a device with a mount.
GeomOfUsed == pc = "show" => \A d \in Devices : geom[d] = "shown" => d \in Used(mounts)

Display == GeomOfDevice /\ GeomOfUsed /\ GeometryOfMounted
IInv == TypeOK /\ Marks /\ HeldFollowsTable /\ Display

LEMMA InitInv == Init => IInv
<1> SUFFICES ASSUME Init PROVE IInv
    OBVIOUS
<1>1. TypeOK
    <2>1. TableOK(table) /\ TableOK(list) /\ Len(list) = 0
        BY DEF Init, TableOK
    <2>2. devices \in [Devices -> Info] /\ plugs \in [Devices -> Nat]
        BY DEF Init, Info, NoInfo
    <2>3. mounts \in [MountPoints -> Entry] /\ \A mp \in MountPoints : mounts[mp] = NoEntry
        BY DEF Init, Entry, NoEntry
    <2>4. present \subseteq Devices
        BY DEF Init
    <2>5. made \in Nat /\ pos \in Nat \ {0} /\ pos <= Len(list) + 1
        BY <2>1 DEF Init
    <2>7. timed \in BOOLEAN /\ unread \in BOOLEAN /\ pc = "idle" /\ old = {} /\ answered = {}
        BY DEF Init
    <2>6. geom \in [Devices -> {"absent", "empty", "shown"}]
        BY DEF Init
    <2> QED
        BY <2>1, <2>2, <2>3, <2>4, <2>5, <2>6, <2>7, Zenon DEF TypeOK
<1>2. Marks /\ HeldFollowsTable
    BY DEF Init, Marks, HeldFollowsTable
<1>3. Display
    BY DEF Init, Display, GeomOfDevice, GeomOfUsed, GeometryOfMounted, Displayable, Used, NoEntry
<1> QED
    BY <1>1, <1>2, <1>3 DEF IInv

-----------------------------------------------------------------------------
\* The kernel changes nothing but its own state.
LEMMA KernelInv == ASSUME IInv, Kernel PROVE IInv'
<1>1. UNCHANGED <<devices, timed, mounts, geom, reading, pc>>
    BY DEF Kernel, Plug, Unplug, DoMount, Umount
<1>2. present' \subseteq Devices /\ plugs' \in [Devices -> Nat] /\ made' \in Nat
    <2>1. present \subseteq Devices /\ plugs \in [Devices -> Nat] /\ made \in Nat
        BY DEF IInv, TypeOK
    <2>2. CASE \E d \in Devices : Plug(d)
        BY <2>1, <2>2 DEF Plug
    <2>3. CASE \E d \in Devices : Unplug(d)
        BY <2>1, <2>3 DEF Unplug
    <2>4. CASE \E d \in Devices, mp \in MountPoints : DoMount(d, mp)
        BY <2>1, <2>4 DEF DoMount
    <2>5. CASE \E i \in DOMAIN table : Umount(i)
        BY <2>1, <2>5 DEF Umount
    <2> QED
        BY <2>2, <2>3, <2>4, <2>5 DEF Kernel
<1>3. TableOK(table')
    <2> USE DEF TableOK
    <2>1. table \in Seq(Mount)
        BY DEF IInv, TypeOK
    <2>2. CASE UNCHANGED table
        BY <2>1, <2>2
    <2>3. CASE \E d \in Devices, mp \in MountPoints : DoMount(d, mp)
        BY <2>1, <2>3 DEF DoMount, Mount
    <2>4. CASE \E i \in DOMAIN table : Umount(i)
        <3>1. PICK i \in DOMAIN table : Umount(i)
            BY <2>4
        <3>2. i \in 1..Len(table) /\ Len(table) \in Nat
            BY <2>1, <3>1
        <3>3. SubSeq(table, 1, i - 1) \in Seq(Mount)
            BY <2>1, <3>2, SubSeqProperties
        <3>4. SubSeq(table, i + 1, Len(table)) \in Seq(Mount)
            BY <2>1, <3>2, SubSeqProperties
        <3> QED
            BY <3>1, <3>3, <3>4, ConcatProperties DEF Umount
    <2> QED
        BY <2>2, <2>3, <2>4 DEF Kernel, Plug, Unplug
<1>4. TypeOK'
    BY <1>1, <1>2, <1>3 DEF IInv, TypeOK, reading
<1>5. (Marks /\ HeldFollowsTable)'
    BY <1>1 DEF IInv, Marks, MarkedWhy, OldHeld, NewListed, ListedAs, HeldFollowsTable, Held,
                reading
<1>6. Display'
    BY <1>1 DEF IInv, Display, GeomOfDevice, GeomOfUsed, GeometryOfMounted, Displayable, Used
<1> QED
    BY <1>4, <1>5, <1>6 DEF IInv

LEMMA StatsType == ASSUME TypeOK, NEW ok \in BOOLEAN PROVE Stats(ok) \in [Devices -> Info]
    BY DEF TypeOK, Stats, Stated, Info, NoInfo

LEMMA UpdateDiskStatInv == ASSUME IInv, NEW ok \in BOOLEAN, UpdateDiskStat(ok) PROVE IInv'
<1>1. devices' \in [Devices -> Info]
    BY StatsType DEF IInv, UpdateDiskStat
<1>2. geom' \in [Devices -> {"absent", "empty", "shown"}]
    BY DEF IInv, TypeOK, UpdateDiskStat
<1>3. TypeOK'
    BY <1>1, <1>2 DEF IInv, TypeOK, UpdateDiskStat, kernel, reading, TableOK
<1>4. (Marks /\ HeldFollowsTable)'
    BY DEF UpdateDiskStat, Marks, HeldFollowsTable
<1>5. Display'
    BY <1>2 DEF UpdateDiskStat, Display, GeomOfDevice, GeomOfUsed, GeometryOfMounted
<1> QED
    BY <1>3, <1>4, <1>5 DEF IInv

LEMMA ListMountsInv == ASSUME IInv, NEW ok \in BOOLEAN, ListMounts(ok) PROVE IInv'
<1>1. \A mp \in MountPoints : mounts[mp] \in Entry /\ (mounts[mp].dev = NoDev => mounts[mp] = NoEntry)
    BY DEF IInv, TypeOK
<1>2. /\ mounts' \in [MountPoints -> Entry]
      /\ \A mp \in MountPoints : ~mounts'[mp].touched
      /\ \A mp \in MountPoints : mounts'[mp].dev = NoDev => mounts'[mp] = NoEntry
    BY <1>1 DEF ListMounts, Entry, NoEntry
<1>3. TableOK(list') /\ pos' = 1 /\ Len(list') \in Nat
    BY DEF IInv, TypeOK, ListMounts, TableOK
<1>7. old' = {mp \in MountPoints : Held(mp)}
    BY DEF ListMounts
<1>4. TypeOK'
    BY <1>2, <1>3, <1>7 DEF IInv, TypeOK, ListMounts, kernel, TableOK
<1>8. \A mp \in MountPoints : Held(mp)' <=> Held(mp)
    BY <1>1 DEF ListMounts, Held, Entry
<1>5. (Marks /\ HeldFollowsTable)'
    <2>1. MarkedWhy'
        BY <1>2 DEF MarkedWhy
    <2>2. OldHeld' /\ NewListed'
        BY <1>7, <1>8 DEF OldHeld, NewListed
    <2> QED
        BY <2>1, <2>2 DEF ListMounts, Marks, HeldFollowsTable
<1>6. Display'
    BY DEF IInv, ListMounts, Display, GeomOfDevice, GeomOfUsed, GeometryOfMounted
<1> QED
    BY <1>4, <1>5, <1>6 DEF IInv

-----------------------------------------------------------------------------
\* The entry of a listed mount is well formed and belongs to a device: to its old one, or
\* if it is new to the one that is listed.
LEMMA RefreshedType ==
    ASSUME TypeOK, NEW m \in Mount, NEW e \in EntriesOf(m), NEW ok \in BOOLEAN
    PROVE  LET r == Refreshed(e, m.mp, ok)
           IN  /\ r \in Entry /\ r.dev # NoDev
               /\ r.dev = IF Held(m.mp) THEN mounts[m.mp].dev ELSE m.dev
               /\ Held(m.mp) /\ r.touched => mounts[m.mp].touched \/ ok
<1>1. m.mp \in MountPoints /\ m.dev \in Devices
    BY DEF Mount
<1>2. /\ e \in Entry /\ e.dev # NoDev
      /\ e.dev = IF Held(m.mp) THEN mounts[m.mp].dev ELSE m.dev
      /\ Held(m.mp) => e = mounts[m.mp]
    <2>1. CASE Held(m.mp)
        BY <1>1, <2>1 DEF EntriesOf, Held, TypeOK
    <2>2. CASE ~Held(m.mp)
        BY <1>1, <2>2, DevicesAssumption DEF EntriesOf, Entry, NoDev
    <2> QED
        BY <2>1, <2>2
<1> QED
    BY <1>2 DEF Refreshed, Entry

\* One entry of the list, of a known device: what changes of marks and entries.
LEMMA RefreshKnown ==
    ASSUME TypeOK, Marks, Refresh, devices[list[pos].dev].there
    PROVE  /\ mounts' \in [MountPoints -> Entry]
           /\ \A mp \in MountPoints : mounts'[mp].dev = NoDev => mounts'[mp] = NoEntry
           /\ answered' \subseteq MountPoints
           /\ MarkedWhy' /\ OldHeld' /\ NewListed'
<1>1. list \in Seq(Mount) /\ pos \in 1..Len(list) /\ Len(list) \in Nat /\ DOMAIN list = 1..Len(list)
    BY DEF TypeOK, Refresh, TableOK
<1>2. PICK m \in Mount : m = list[pos]
    BY <1>1
<1>3. m.mp \in MountPoints /\ m.dev \in Devices /\ m = [dev |-> m.dev, mp |-> m.mp]
    BY <1>2 DEF Mount
<1>4. PICK e \in EntriesOf(m), ok \in StatResults(m.mp) :
          /\ mounts' = [mounts EXCEPT ![m.mp] = Refreshed(e, m.mp, ok)]
          /\ answered' = IF ok THEN answered \cup {m.mp} ELSE answered
    BY <1>2 DEF Refresh
<1>5. ok \in BOOLEAN
    BY DEF StatResults
<1> DEFINE r == Refreshed(e, m.mp, ok)
<1>14. pos \in DOMAIN list /\ list[pos] = m
    BY <1>1, <1>2
<1>6. /\ r \in Entry /\ r.dev # NoDev
      /\ r.dev = IF Held(m.mp) THEN mounts[m.mp].dev ELSE m.dev
      /\ Held(m.mp) /\ r.touched => mounts[m.mp].touched \/ ok
    BY <1>2, <1>5, RefreshedType
<1>7. mounts \in [MountPoints -> Entry] /\ answered \subseteq MountPoints /\ old \subseteq MountPoints
    BY DEF TypeOK
<1>8. mounts'[m.mp] = r /\ \A mp \in MountPoints \ {m.mp} : mounts'[mp] = mounts[mp]
    BY <1>3, <1>4, <1>7
<1>9. MarkedWhy /\ OldHeld /\ NewListed /\ UNCHANGED <<devices, list, old>>
    BY DEF Refresh, Marks
<1>10. MarkedWhy'
    <2>1. ASSUME NEW mp \in MountPoints, mp # m.mp, mounts'[mp].touched
          PROVE  /\ \E i \in DOMAIN list : list[i].mp = mp /\ devices[list[i].dev].there
                 /\ mp \in old => mp \in answered'
        BY <2>1, <1>4, <1>8, <1>9 DEF MarkedWhy
    <2>2. ASSUME r.touched, m.mp \in old PROVE m.mp \in answered'
        <3>1. Held(m.mp)
            BY <2>2, <1>9 DEF OldHeld
        <3>2. mounts[m.mp].touched \/ ok
            BY <3>1, <2>2, <1>6
        <3> QED
            BY <3>2, <2>2, <1>3, <1>4, <1>9 DEF MarkedWhy
    <2>3. \E i \in DOMAIN list : list[i].mp = m.mp /\ devices[list[i].dev].there
        BY <1>14
    <2> QED
        BY <2>1, <2>2, <2>3, <1>8, <1>9 DEF MarkedWhy
<1>11. OldHeld'
    BY <1>6, <1>7, <1>8, <1>9 DEF OldHeld, Held
<1>12. NewListed'
    <2>1. ASSUME NEW mp \in MountPoints, mp # m.mp, Held(mp)', mp \notin old
          PROVE  ListedAs(mp)'
        BY <2>1, <1>8, <1>9 DEF NewListed, ListedAs, Held
    <2>2. ASSUME m.mp \notin old PROVE \E i \in DOMAIN list : list[i] = [dev |-> r.dev, mp |-> m.mp]
        <3>1. CASE Held(m.mp)
            <4>1. ListedAs(m.mp) /\ r.dev = mounts[m.mp].dev
                BY <3>1, <2>2, <1>3, <1>6, <1>9 DEF NewListed
            <4> QED
                BY <4>1 DEF ListedAs
        <3>2. CASE ~Held(m.mp)
            <4>1. list[pos] = [dev |-> r.dev, mp |-> m.mp]
                BY <3>2, <1>3, <1>6, <1>14
            <4> QED
                BY <4>1, <1>14
        <3> QED
            BY <3>1, <3>2
    <2>3. m.mp \notin old => ListedAs(m.mp)'
        BY <2>2, <1>8, <1>9 DEF ListedAs
    <2> QED
        BY <2>1, <2>3, <1>9 DEF NewListed
<1>13. /\ mounts' \in [MountPoints -> Entry]
       /\ \A mp \in MountPoints : mounts'[mp].dev = NoDev => mounts'[mp] = NoEntry
    BY <1>3, <1>4, <1>6, <1>7, <1>8 DEF TypeOK
<1> QED
    BY <1>3, <1>4, <1>7, <1>10, <1>11, <1>12, <1>13

LEMMA RefreshInv == ASSUME IInv, Refresh PROVE IInv'
<1>1. Len(list) \in Nat /\ pos \in Nat \ {0} /\ pos <= Len(list)
    BY DEF IInv, TypeOK, Refresh, TableOK
<1>2. /\ pos' = pos + 1 /\ pc = "refresh"
      /\ UNCHANGED <<kernel, devices, timed, geom, list, unread, old, pc>>
    BY DEF Refresh
<1>3. /\ mounts' \in [MountPoints -> Entry]
      /\ \A mp \in MountPoints : mounts'[mp].dev = NoDev => mounts'[mp] = NoEntry
      /\ answered' \subseteq MountPoints
      /\ MarkedWhy' /\ OldHeld' /\ NewListed'
    <2>1. CASE devices[list[pos].dev].there
        BY <2>1, RefreshKnown DEF IInv
    <2>2. CASE ~devices[list[pos].dev].there
        <3>1. UNCHANGED <<mounts, answered, devices, list, old>>
            BY <2>2 DEF Refresh
        <3> QED
            BY <3>1, <1>2 DEF IInv, TypeOK, Marks, MarkedWhy, OldHeld, NewListed, ListedAs, Held
    <2> QED
        BY <2>1, <2>2
<1>4. TypeOK'
    BY <1>1, <1>2, <1>3 DEF IInv, TypeOK, kernel, TableOK
<1>5. Marks' /\ HeldFollowsTable'
    BY <1>2, <1>3 DEF Marks, HeldFollowsTable
<1>6. Display'
    BY <1>2 DEF IInv, Display, GeomOfDevice, GeomOfUsed, GeometryOfMounted
<1> QED
    BY <1>4, <1>5, <1>6 DEF IInv

LEMMA SweepInv == ASSUME IInv, Sweep PROVE IInv'
<1>1. \A mp \in MountPoints : mounts[mp] \in Entry /\ (mounts[mp].dev = NoDev => mounts[mp] = NoEntry)
    BY DEF IInv, TypeOK
<1>2. /\ mounts' \in [MountPoints -> Entry]
      /\ \A mp \in MountPoints : mounts'[mp].dev = NoDev => mounts'[mp] = NoEntry
      /\ \A mp \in MountPoints : mounts'[mp].dev # NoDev => mounts[mp].touched
    BY <1>1 DEF Sweep, Swept, Entry, NoEntry, NoDev
<1>3. geom' = [d \in Devices |-> Left(d)]
    BY DEF Sweep
<1>4. geom \in [Devices -> {"absent", "empty", "shown"}]
    BY DEF IInv, TypeOK
<1>5. \A d \in Devices :
          /\ Left(d) \in {"absent", "empty", "shown"}
          /\ Left(d) # "absent" => geom[d] # "absent"
          /\ Left(d) = "shown" => d \in Used(mounts')
    BY <1>4 DEF Left
<1>6. TypeOK'
    BY <1>2, <1>3, <1>5 DEF IInv, TypeOK, Sweep, kernel, reading, TableOK
<1>7. Marks'
    BY DEF Sweep, Marks
<1>8. HeldFollowsTable'
    <2>1. UNCHANGED <<devices, list, old, answered>> /\ MarkedWhy /\ NewListed
        BY DEF IInv, Sweep, reading, Marks
    <2>2. ASSUME NEW mp \in MountPoints, Held(mp)'
          PROVE  mounts[mp].touched /\ mounts'[mp] = mounts[mp] /\ Held(mp)
        BY <2>2, <1>2 DEF Sweep, Swept, Held
    <2> QED
        BY <2>1, <2>2 DEF MarkedWhy, NewListed, ListedAs, HeldFollowsTable
<1>9. GeomOfUsed'
    BY <1>3, <1>5 DEF GeomOfUsed, Used
<1>10. GeomOfDevice' /\ GeometryOfMounted'
    BY <1>3, <1>5 DEF IInv, Sweep, Display, GeomOfDevice, GeometryOfMounted
<1> QED
    BY <1>6, <1>7, <1>8, <1>9, <1>10 DEF IInv, Display

LEMMA ShowInv == ASSUME IInv, Show PROVE IInv'
<1>1. /\ UNCHANGED <<kernel, devices, timed, mounts, list, unread, pos>>
      /\ pc = "show" /\ pc' = "idle" /\ old' = {} /\ answered' = {}
    BY DEF Show
<1>2. \A d \in Devices : geom'[d] = IF d \in Displayable THEN "shown" ELSE geom[d]
    BY DEF Show
<1>3. TypeOK'
    BY <1>1 DEF IInv, TypeOK, Show, kernel, TableOK
<1>4. (Marks /\ HeldFollowsTable)'
    BY <1>1 DEF Marks, HeldFollowsTable
<1>5. Displayable' = Displayable
    BY <1>1 DEF Displayable, Used
<1>6. \A d \in Devices : geom[d] = "shown" => d \in Displayable
    BY <1>1 DEF IInv, Display, GeomOfUsed, GeomOfDevice, Displayable
<1>7. GeometryOfMounted'
    BY <1>2, <1>5, <1>6 DEF GeometryOfMounted
<1>8. GeomOfDevice' /\ GeomOfUsed'
    BY <1>1, <1>2 DEF IInv, Display, GeomOfDevice, GeomOfUsed, Displayable
<1> QED
    BY <1>3, <1>4, <1>7, <1>8 DEF IInv, Display

LEMMA RemoveInv == ASSUME IInv, RemoveDiskInfos PROVE IInv'
<1>1. TypeOK'
    BY DEF IInv, TypeOK, RemoveDiskInfos, kernel, reading, TableOK, Info, NoInfo, Entry, NoEntry
<1>2. (Marks /\ HeldFollowsTable /\ Display)'
    BY DEF RemoveDiskInfos, Marks, HeldFollowsTable, Display, GeomOfDevice, GeomOfUsed,
           GeometryOfMounted
<1> QED
    BY <1>1, <1>2 DEF IInv

LEMMA StepInv == IInv /\ [Next]_vars => IInv'
<1> SUFFICES ASSUME IInv, [Next]_vars PROVE IInv'
    OBVIOUS
<1>1. CASE Kernel
    BY <1>1, KernelInv
<1>2. CASE Update
    BY <1>2, UpdateDiskStatInv, ListMountsInv, RefreshInv, SweepInv, ShowInv DEF Update
<1>3. CASE RemoveDiskInfos
    BY <1>3, RemoveInv
<1>4. CASE UNCHANGED vars
    <2>1. UNCHANGED <<devices, timed, mounts, geom, list, unread, pos, old, answered, pc>>
        BY <1>4 DEF vars
    <2>2. TypeOK'
        BY <1>4 DEF IInv, TypeOK, vars, TableOK
    <2>3. (Marks /\ HeldFollowsTable)'
        BY <2>1 DEF IInv, Marks, MarkedWhy, OldHeld, NewListed, ListedAs, HeldFollowsTable, Held
    <2>4. Display'
        BY <2>1 DEF IInv, Display, GeomOfDevice, GeomOfUsed, GeometryOfMounted, Displayable, Used
    <2> QED
        BY <2>2, <2>3, <2>4 DEF IInv
<1> QED
    BY <1>1, <1>2, <1>3, <1>4 DEF Next

-----------------------------------------------------------------------------
\* The inductive invariant holds in every behaviour: the steps above, by induction.
THEOREM Invariance == Spec => []IInv
    BY InitInv, StepInv, PTL DEF Spec

\* Every variable of the disk module keeps its form through every update and every change
\* of devices and mounts.
THEOREM TypeCorrect == Spec => []TypeOK
    BY Invariance, PTL DEF IInv

\* After an update the displayed devices are exactly those that are there and have a mount
\* in m_mounts: updateDiskStat, updateMounts and Filesyses::update agree.
THEOREM DisplayFollowsMounts == Spec => []GeometryOfMounted
    BY Invariance, PTL DEF IInv, Display

\* What survives the sweep of updateMounts is explained by what this update has read: its
\* mount point is listed on a known device, statvfs has answered for an entry that is older
\* than the update, and a new one is of a device that is listed there.
THEOREM HeldExplained == Spec => []HeldFollowsTable
    BY Invariance, PTL DEF IInv
=============================================================================
