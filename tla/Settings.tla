------------------------------- MODULE Settings -------------------------------
(***************************************************************************)
(* The settings between memory, the key file object m_config and the file  *)
(* mongl.conf (MonglView.cpp), for the three ways the parts keep them: the  *)
(* view writes into m_config when a value changes (the update interval     *)
(* stands for them), the keyboard worker keeps its commands itself and     *)
(* reads them in its thread, and the temperature monitor keeps a vector of  *)
(* sensors that is loaded without gaps and saved with them                 *)
(* (TempMonitor.cpp).  The program may end at any time and starts again    *)
(* with the sensors it then finds.                                         *)
(***************************************************************************)
EXTENDS Naturals, Sequences, FiniteSets

CONSTANTS Sensors,      \* names of sensors
          TempSlots,    \* number of colours, which is the number of slots
          DefaultOf,    \* default sensor of a slot, or NoSensor
          NoSensor

Missing == "missing"  \* no key in the file

ASSUME SettingsConstants ==
    /\ NoSensor \notin Sensors /\ Missing \notin Sensors \cup {NoSensor} /\ TempSlots \in Nat \ {0}
    /\ DefaultOf \in [1..TempSlots -> Sensors \cup {NoSensor}]

VARIABLES setUp,       \* the program runs
          setFile,     \* mongl.conf
          setConf,     \* m_config
          setWorker,   \* pointer worker: none, made; read: it has read its settings
          setCommand,  \* gcmd of the worker
          setFound,    \* sensors found when the program started
          setAct,      \* m_actSensors
          setRead,     \* history: the file could be read at the start
          setDropped   \* history: sensors taken out of a slot since the start

setVars == <<setUp, setFile, setConf, setWorker, setCommand, setFound, setAct, setRead, setDropped>>

Commands == {"", "command"}
SensorOrNone == Sensors \cup {NoSensor}
TempSlot == 1..TempSlots
Contents == [interval : {Missing, "set"}, command : Commands \cup {Missing},
             sensor : [TempSlot -> SensorOrNone \cup {Missing}]]
Empty == [interval |-> Missing, command |-> Missing, sensor |-> [i \in TempSlot |-> Missing]]

SetTypeOK ==
    /\ setUp \in BOOLEAN /\ setRead \in BOOLEAN
    /\ setFile \in Contents /\ setConf \in Contents
    /\ setWorker \in {"none", "made", "read"}
    /\ setCommand \in Commands
    /\ setFound \subseteq Sensors /\ setDropped \subseteq Sensors
    /\ setAct \in Seq(SensorOrNone) /\ Len(setAct) <= TempSlots

\* load_settings of TempMonitor for one slot: without a key the default, if it is found.
LoadedSlot(conf, found, i) ==
    LET name == IF conf.sensor[i] = Missing THEN DefaultOf[i] ELSE conf.sensor[i]
    IN IF name \in found THEN name ELSE NoSensor

\* The sensors of a vector in their order, one by one into another vector.
WithoutGaps(act) ==
    LET kept[n \in 0..Len(act)] ==
          IF n = 0 THEN <<>>
          ELSE IF act[n] = NoSensor THEN kept[n - 1] ELSE Append(kept[n - 1], act[n])
    IN kept[Len(act)]

\* A variant: loading takes the sensors up to the first gap.
LoadedToGap(conf, found) ==
    LET all == [i \in TempSlot |-> LoadedSlot(conf, found, i)]
    IN WithoutGaps([i \in TempSlot |->
         IF \A j \in 1..i : all[j] # NoSensor THEN all[i] ELSE NoSensor])

LoadedSensors(conf, found) ==
    WithoutGaps([i \in TempSlot |-> LoadedSlot(conf, found, i)])

\* What the diagram and the keyboard show: the slots in use, from the first on, with the
\* colours from the first on.
Displayed(act) == WithoutGaps(act)

SetInit ==
    /\ setUp = FALSE /\ setFile = Empty /\ setConf = Empty /\ setWorker = "none"
    /\ setCommand = "" /\ setFound = {} /\ setAct = <<>> /\ setRead = TRUE /\ setDropped = {}

\* Constructor and init of the view.  A file that cannot be read is taken as empty.
SetStart(found, readable) ==
    /\ ~setUp /\ setUp' = TRUE
    /\ setConf' = IF readable THEN setFile ELSE Empty
    /\ setFound' = found
    /\ setAct' = LoadedSensors(setConf', found)
    /\ setRead' = readable
    /\ setDropped' = {}
    /\ UNCHANGED <<setFile, setWorker, setCommand>>

\* The worker thread: the object is there before its settings are.
WorkerMade ==
    /\ setUp /\ setWorker = "none" /\ setWorker' = "made"
    /\ UNCHANGED <<setUp, setFile, setConf, setCommand, setFound, setAct, setRead, setDropped>>
WorkerReads ==
    /\ setUp /\ setWorker = "made" /\ setWorker' = "read"
    /\ setCommand' = IF setConf.command = Missing THEN setCommand ELSE setConf.command
    /\ UNCHANGED <<setUp, setFile, setConf, setFound, setAct, setRead, setDropped>>

\* update_interval_changed: into m_config at once.
IntervalChanged ==
    /\ setUp /\ setConf' = [setConf EXCEPT !.interval = "set"]
    /\ UNCHANGED <<setUp, setFile, setWorker, setCommand, setFound, setAct, setRead, setDropped>>

\* An entry of the keyboard page; the page is made only when there is a worker.
CommandChanged(c) ==
    /\ setUp /\ setWorker # "none" /\ setCommand' = c
    /\ UNCHANGED <<setUp, setFile, setConf, setWorker, setFound, setAct, setRead, setDropped>>

\* sensor_changed: the vector grows up to the index; an empty name clears the slot.
Grown(i) == [j \in 1..(IF i > Len(setAct) THEN i ELSE Len(setAct)) |->
                IF j <= Len(setAct) THEN setAct[j] ELSE NoSensor]
SensorChanged(i, s) ==
    /\ setUp /\ s \in setFound \cup {NoSensor}
    /\ s # (IF i <= Len(setAct) THEN setAct[i] ELSE NoSensor)
    /\ setAct' = [Grown(i) EXCEPT ![i] = s]
    /\ setDropped' = setDropped \cup ({Grown(i)[i]} \cap Sensors)
    /\ UNCHANGED <<setUp, setFile, setConf, setWorker, setCommand, setFound, setRead>>

\* A variant: an unused slot is saved without a key.
SavedSlotBare(i) == IF i <= Len(setAct) /\ setAct[i] # NoSensor THEN setAct[i] ELSE Missing

\* save_settings of TempMonitor: every slot gets a key, an unused one an empty name.
SavedSlot(i) == IF i <= Len(setAct) THEN setAct[i] ELSE NoSensor
Saved == [setConf EXCEPT !.command = setCommand, !.sensor = [i \in TempSlot |-> SavedSlot(i)]]

\* save_config, after a dialog.  Writing the file may fail; m_config keeps the values.
SaveConfig(written) ==
    /\ setUp /\ setWorker # "none"
    /\ setConf' = Saved
    /\ setFile' = IF written THEN setConf' ELSE setFile
    /\ UNCHANGED <<setUp, setWorker, setCommand, setFound, setAct, setRead, setDropped>>

\* The program ends: closed, killed, or save_config used the pointer before it was set.
SetEnd ==
    /\ setUp /\ setUp' = FALSE
    /\ setConf' = Empty /\ setWorker' = "none" /\ setCommand' = "" /\ setFound' = {}
    /\ setAct' = <<>> /\ setRead' = TRUE /\ setDropped' = {}
    /\ UNCHANGED setFile

SetNext ==
    \/ \E found \in SUBSET Sensors, readable \in BOOLEAN : SetStart(found, readable)
    \/ WorkerMade \/ WorkerReads
    \/ IntervalChanged
    \/ \E c \in Commands : CommandChanged(c)
    \/ \E i \in TempSlot, s \in SensorOrNone : SensorChanged(i, s)
    \/ \E written \in BOOLEAN : SaveConfig(written)
    \/ SetEnd

SetSpec == SetInit /\ [][SetNext]_setVars
---------------------------------------------------------------------------
\* Properties.

\* What a save writes gives back, at a start with the same sensors, the same sensors in the
\* same order (and so with the same colours), although gaps close up and slots without a key
\* get defaults; and the same commands and interval.
SavedIsLoaded ==
    [][setFile' # setFile =>
         /\ LoadedSensors(setFile', setFound') = Displayed(setAct')
         /\ setFile'.command = setCommand'
         /\ setFile'.interval = setConf'.interval]_setVars

Stored(f) == {f.sensor[i] : i \in TempSlot} \cap Sensors

\* A stored sensor disappears from the file only when the user took it out of a slot, when
\* it was not found at this start, or when the file could not be read at this start.
OnlyAbsentLost ==
    [][\A s \in Stored(setFile) \ Stored(setFile') :
         s \in setDropped \/ s \notin setFound \/ ~setRead]_setVars
=============================================================================
