--------------------------------- MODULE Disks ---------------------------------
(***************************************************************************)
(* DiskInfos and Filesyses: once per timer tick the devices are read from  *)
(* /proc/diskstats, then the mounts from /proc/mounts, then statvfs is     *)
(* asked about every mount point, and at last the devices with a mounted   *)
(* file system are displayed.  Devices come and go and file systems are    *)
(* mounted and unmounted at any moment in between, over one another too.   *)
(*                                                                         *)
(* The kernel's side and the OpenGL objects are external.                  *)
(***************************************************************************)
EXTENDS Naturals, Sequences

CONSTANTS
    Devices,       \* the block devices, as named below /dev
    MountPoints,
    Escaped,       \* the mount points statvfs does not find by their name in /proc/mounts
    MayFail,       \* the files of /proc can be unreadable
    MaxPlugs,      \* bound: how often a device is plugged in
    MaxMounts,     \* bound: how many mounts are made
    MaxTable       \* bound: the length of /proc/mounts

ASSUME DevicesAssumption == "none" \notin Devices
ASSUME EscapedAssumption == Escaped \subseteq MountPoints
ASSUME FailAssumption == MayFail \in BOOLEAN
ASSUME BoundsAssumption == MaxPlugs \in Nat /\ MaxMounts \in Nat /\ MaxTable \in Nat

VARIABLES
    present,    \* the devices of /proc/diskstats
    plugs,      \* per device, how often it was plugged in: each time its counters restart
    table,      \* /proc/mounts, in the order the mounts were made
    made,       \* how many mounts were made
    devices,    \* m_devices
    timed,      \* m_previous_diskstat_time > 0
    mounts,     \* m_mounts
    geom,       \* m_geom: no DiskGeom, one that was reset, one that is displayed
    list,       \* what getMounts returned
    unread,     \* the latest reading of /proc/mounts failed
    pos,        \* the entry of list to refresh next
    old,        \* history: the mount points that had an entry when this update began, ...
    answered,   \* ... and those statvfs answered for in it
    pc          \* where monitors_update is

vars == <<present, plugs, table, made, devices, timed, mounts, geom, list, unread, pos,
          old, answered, pc>>
kernel == <<present, plugs, table, made>>
reading == <<list, unread, pos, old, answered>>

NoDev == "none"

Mount == [dev : Devices, mp : MountPoints]
TableOK(t) == t \in Seq(Mount)

(***************************************************************************)
(* DiskInfo: prev is the device, by the number of its plugging, that       *)
(* previous_disk_stat was read from (0: from none, it is uninitialised);   *)
(* rate is what m_bytesReadPerS is worth.                                  *)
(***************************************************************************)
Info == [there : BOOLEAN, prev : Nat, rate : {"zero", "measured", "bogus"}]
NoInfo == [there |-> FALSE, prev |-> 0, rate |-> "zero"]

\* MountInfo: its device, and the mark.
Entry == [dev : Devices \cup {NoDev}, touched : BOOLEAN]
NoEntry == [dev |-> NoDev, touched |-> FALSE]

TypeOK ==
    /\ present \subseteq Devices
    /\ plugs \in [Devices -> Nat]
    /\ TableOK(table) /\ TableOK(list)
    /\ made \in Nat /\ pos \in Nat \ {0} /\ pos <= Len(list) + 1
    /\ devices \in [Devices -> Info]
    /\ timed \in BOOLEAN /\ unread \in BOOLEAN
    /\ mounts \in [MountPoints -> Entry]
    /\ \A mp \in MountPoints : mounts[mp].dev = NoDev => mounts[mp] = NoEntry
    /\ geom \in [Devices -> {"absent", "empty", "shown"}]
    /\ old \subseteq MountPoints /\ answered \subseteq MountPoints
    /\ pc \in {"idle", "list", "refresh", "show", "closed"}

Init ==
    /\ present \in SUBSET Devices
    /\ plugs = [d \in Devices |-> IF d \in present THEN 1 ELSE 0]
    /\ table = <<>>
    /\ made = 0
    /\ devices = [d \in Devices |-> NoInfo]
    /\ timed = FALSE
    /\ mounts = [mp \in MountPoints |-> NoEntry]
    /\ geom = [d \in Devices |-> "absent"]
    /\ list = <<>> /\ unread = FALSE
    /\ pos = 1
    /\ old = {} /\ answered = {}
    /\ pc = "idle"

-----------------------------------------------------------------------------
(* The kernel.                                                             *)

Plug(d) ==
    /\ d \notin present
    /\ plugs[d] < MaxPlugs
    /\ present' = present \cup {d}
    /\ plugs' = [plugs EXCEPT ![d] = @ + 1]
    /\ UNCHANGED <<table, made, devices, timed, mounts, geom, reading, pc>>

\* A device is pulled, mounted or not; its mounts stay in the table.
Unplug(d) ==
    /\ d \in present
    /\ present' = present \ {d}
    /\ UNCHANGED <<plugs, table, made, devices, timed, mounts, geom, reading, pc>>

\* A file system is mounted, maybe on top of another one.
DoMount(d, mp) ==
    /\ d \in present
    /\ made < MaxMounts /\ Len(table) < MaxTable
    /\ table' = Append(table, [dev |-> d, mp |-> mp])
    /\ made' = made + 1
    /\ UNCHANGED <<present, plugs, devices, timed, mounts, geom, reading, pc>>

Umount(i) ==
    /\ i \in DOMAIN table
    /\ table' = SubSeq(table, 1, i - 1) \o SubSeq(table, i + 1, Len(table))
    /\ UNCHANGED <<present, plugs, made, devices, timed, mounts, geom, reading, pc>>

Mounted(mp) == \E i \in DOMAIN table : table[i].mp = mp

\* What statvfs can return: it does not find an escaped name, and when the file system was
\* unmounted meanwhile it finds the directory below, unless that went as well.
StatResults(mp) ==
    IF mp \in Escaped THEN {FALSE}
    ELSE IF Mounted(mp) THEN {TRUE}
    ELSE BOOLEAN

-----------------------------------------------------------------------------
(* DiskInfos::updateDiskStat.                                              *)

\* readStat for a device of the list: a rate is computed from the second call on, from
\* the values of the last reading, for a new DiskInfo from uninitialised ones.
Stated(d) ==
    [there |-> TRUE,
     prev  |-> plugs[d],
     rate  |-> IF ~timed THEN devices[d].rate
               ELSE IF devices[d].prev = plugs[d] THEN "measured"
               ELSE "bogus"]

\* getDiskStats: devices that are not listed are removed; without the file nothing is done.
Stats(ok) ==
    IF ok THEN [d \in Devices |-> IF d \in present THEN Stated(d) ELSE NoInfo]
    ELSE devices

UpdateDiskStat(ok) ==
    /\ pc = "idle"
    /\ devices' = Stats(ok)
    /\ timed' = TRUE
    /\ geom' = [d \in Devices |-> IF devices'[d].there THEN geom[d] ELSE "absent"]
    /\ pc' = "list"
    /\ UNCHANGED <<kernel, mounts, reading>>

-----------------------------------------------------------------------------
(* DiskInfos::updateMounts.                                                *)

Held(mp) == mounts[mp].dev # NoDev

\* A variant that leaves the marks of the last update.
ListMountsMarked(ok) ==
    /\ pc = "list"
    /\ list' = IF ok THEN table ELSE <<>>
    /\ unread' = ~ok
    /\ pos' = 1
    /\ old' = {mp \in MountPoints : Held(mp)}
    /\ pc' = "refresh"
    /\ UNCHANGED <<kernel, devices, timed, mounts, geom, answered>>

\* A variant that goes on in the list where the last update ended.
ListMountsFrom(ok) ==
    /\ pc = "list"
    /\ mounts' = [mp \in MountPoints |-> [mounts[mp] EXCEPT !.touched = FALSE]]
    /\ list' = IF ok THEN table ELSE <<>>
    /\ unread' = ~ok
    /\ old' = {mp \in MountPoints : Held(mp)}
    /\ pc' = "refresh"
    /\ UNCHANGED <<kernel, devices, timed, geom, pos, answered>>

\* The marks are reset and /proc/mounts is read; without the file there are no mounts.
ListMounts(ok) ==
    /\ pc = "list"
    /\ mounts' = [mp \in MountPoints |-> [mounts[mp] EXCEPT !.touched = FALSE]]
    /\ list' = IF ok THEN table ELSE <<>>
    /\ unread' = ~ok
    /\ pos' = 1
    /\ old' = {mp \in MountPoints : Held(mp)}
    /\ pc' = "refresh"
    /\ UNCHANGED <<kernel, devices, timed, geom, answered>>

\* The entry of a listed mount: the one the map has for its mount point, or a new one,
\* whose mark nobody has initialised.
EntriesOf(m) ==
    IF Held(m.mp) THEN {mounts[m.mp]} ELSE [dev : {m.dev}, touched : BOOLEAN]

\* A variant that marks only entries it has just made.
RefreshedNew(e, mp, ok) == [e EXCEPT !.touched = @ \/ (ok /\ ~Held(mp))]

\* refreshFilesys: the entry is marked when statvfs succeeds.
Refreshed(e, mp, ok) == [e EXCEPT !.touched = @ \/ ok]

\* The next entry of the list; one of an unknown device is only reported.
Refresh ==
    /\ pc = "refresh"
    /\ pos <= Len(list)
    /\ LET m == list[pos]
       IN  IF devices[m.dev].there
           THEN \E e \in EntriesOf(m), ok \in StatResults(m.mp) :
                   /\ mounts' = [mounts EXCEPT ![m.mp] = Refreshed(e, m.mp, ok)]
                   /\ answered' = IF ok THEN answered \cup {m.mp} ELSE answered
           ELSE UNCHANGED <<mounts, answered>>
    /\ pos' = pos + 1
    /\ UNCHANGED <<kernel, devices, timed, geom, list, unread, old, pc>>

\* What the sweep leaves of an entry.
Swept(mp) == IF mounts[mp].touched THEN mounts[mp] ELSE NoEntry

\* The devices touchedDevices collects, and in the same way those getFilesyses(device)
\* finds a mount for.
Used(mts) == {mts[mp].dev : mp \in MountPoints} \ {NoDev}

\* A variant that compares with the mount table instead.
LeftTable(d) ==
    IF \E i \in DOMAIN list : list[i].dev = d THEN geom[d]
    ELSE IF geom[d] = "absent" THEN "absent" ELSE "empty"

\* removeGeometry for a DiskGeom none of whose file systems is mounted.
Left(d) ==
    IF d \in Used(mounts') THEN geom[d]
    ELSE IF geom[d] = "absent" THEN "absent" ELSE "empty"

Sweep ==
    /\ pc = "refresh"
    /\ pos = Len(list) + 1
    /\ mounts' = [mp \in MountPoints |-> Swept(mp)]
    /\ geom' = [d \in Devices |-> Left(d)]
    /\ pc' = "show"
    /\ UNCHANGED <<kernel, devices, timed, reading>>

-----------------------------------------------------------------------------
(* Filesyses::update, in the same call of monitors_update.                 *)

Displayable == {d \in Used(mounts) : devices[d].there}

\* Every device with a mount gets its geometry.  What is drawn on it, and when, is left out.
Show ==
    /\ pc = "show"
    /\ geom' = [d \in Devices |-> IF d \in Displayable THEN "shown" ELSE geom[d]]
    /\ old' = {} /\ answered' = {}
    /\ pc' = "idle"
    /\ UNCHANGED <<kernel, devices, timed, mounts, list, unread, pos>>

\* removeDiskInfos, from unrealize; there is no update any more.
RemoveDiskInfos ==
    /\ pc = "idle"
    /\ mounts' = [mp \in MountPoints |-> NoEntry]
    /\ devices' = [d \in Devices |-> NoInfo]
    /\ pc' = "closed"
    /\ UNCHANGED <<kernel, timed, geom, reading>>

-----------------------------------------------------------------------------
Kernel ==
    \/ \E d \in Devices : Plug(d) \/ Unplug(d) \/ \E mp \in MountPoints : DoMount(d, mp)
    \/ \E i \in DOMAIN table : Umount(i)

Update ==
    \/ \E ok \in {TRUE, ~MayFail} : UpdateDiskStat(ok) \/ ListMounts(ok)
    \/ Refresh \/ Sweep \/ Show

Next == Kernel \/ Update \/ RemoveDiskInfos

Spec == Init /\ [][Next]_vars

\* The timer keeps calling monitors_update, and /proc/diskstats can be opened at times.
FairSpec == Spec /\ WF_vars(Update) /\ SF_vars(UpdateDiskStat(TRUE))

-----------------------------------------------------------------------------
(* Properties.                                                             *)

\* After every update exactly the devices that are there and have a mount in m_mounts
\* are displayed, whatever came and went between the three readings.
GeometryOfMounted ==
    pc = "idle" => \A d \in Devices : geom[d] = "shown" <=> d \in Displayable

\* What m_mounts holds after the sweep is explained by the mount table this update has
\* read: the mount point is listed on a known device, and an entry that is older than the
\* update was answered for by statvfs in it, while a new one is of a device listed there.
\* So the mark nobody initialised keeps an entry for one update at most.
HeldFollowsTable ==
    pc = "show" =>
        \A mp \in MountPoints : Held(mp) =>
            /\ \E i \in DOMAIN list : list[i].mp = mp /\ devices[list[i].dev].there
            /\ IF mp \in old THEN mp \in answered
               ELSE \E i \in DOMAIN list : list[i] = [dev |-> mounts[mp].dev, mp |-> mp]

\* A mount point that stays mounted on a device that stays gets, and keeps, its entry, as
\* long as /proc/mounts can be read: marks left from before, failed readings of the
\* devices and overmounts do not make it blink.
MountedOn(d, mp) == d \in present /\ \E i \in DOMAIN table : table[i] = [dev |-> d, mp |-> mp]
MountedStays ==
    \A mp \in MountPoints \ Escaped :
        (\E d \in Devices : <>[](MountedOn(d, mp) /\ ~unread /\ pc # "closed")) => <>[]Held(mp)

\* updateMounts "shoud assoicate the mounts": an entry belongs to a device that was
\* mounted on its mount point when the table was read.
MountsAssociated ==
    pc = "idle" =>
        \A mp \in MountPoints : Held(mp) =>
            \E i \in DOMAIN list : list[i] = [dev |-> mounts[mp].dev, mp |-> mp]

\* "only update after init": a rate that is displayed was computed from two readings of
\* one device.
RatesMeasured == \A d \in Devices : devices[d].rate # "bogus"
=============================================================================
