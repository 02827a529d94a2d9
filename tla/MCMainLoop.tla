----------------------------- MODULE MCMainLoop -----------------------------
(***************************************************************************)
(* The parts of the program that the main loop drives and that share no    *)
(* state with each other.  Each behaviour moves one of them, the one in    *)
(* focus, and leaves the others as they began, so that the states of the   *)
(* parts add up and do not multiply.  A safety property of one part holds  *)
(* for all interleavings with the others if it holds without them.         *)
(***************************************************************************)
EXTENDS GpuCounters, Settings, LogView, KernelParam, ProcessDialog, NetRate, CpuClock, G15Open

CONSTANTS c1, c2, c3, q1, s1, s2, lo, eth0, eth1, wide, allNames, oneName, anyName, core, fine, coarse

MCPids == 1..3
MCPermanent == {1}
MCDefaultOf == <<s1, s2>>
MCNetOrder == <<lo, eth0, wide, eth1>>
MCNamedBy == [t \in {allNames, oneName, anyName} |->
                IF t = allNames THEN {eth0, eth1, wide} ELSE IF t = oneName THEN {eth1} ELSE {}]
MCStepsOf == [d \in {fine, coarse} |-> IF d = fine THEN <<2, 3>> ELSE <<3>>]
MCBrands == {<<"0", "0", "M">>, <<"x", "x", "0", "G">>}
MCSetting(h, k, l) == <<[hid |-> h, keys |-> k, lcd |-> l]>>
MCG15Devices ==
    <<[shared |-> FALSE,
       configs |-> <<<<MCSetting(FALSE, TRUE, TRUE), MCSetting(TRUE, TRUE, FALSE), MCSetting(TRUE, FALSE, TRUE)>>>>],
      [shared |-> FALSE, configs |-> <<<<MCSetting(TRUE, TRUE, FALSE)>>>>],
      [shared |-> TRUE, configs |-> <<<<MCSetting(TRUE, TRUE, TRUE)>>>>]>>

VARIABLE focus

Parts == {"gpu", "settings", "log", "kernel", "dialog", "net", "clock", "keyboard"}

MainInit ==
    /\ focus \in Parts
    /\ GpuInit /\ (focus # "gpu" => \A s \in Slot : gpuSlot[s] = NoCounter)
    /\ SetInit /\ (focus # "settings" => setFound = {})
    /\ LogInit
    /\ KpInit /\ (focus # "kernel" => kpEntry = 0)
    /\ PdInit
    /\ NetInit
    /\ ClockInit /\ (focus # "clock" => \A c \in Cores : ckDriver[c] = Absent)
    /\ OpenInit

MainNext ==
    \/ /\ focus = "gpu" /\ GpuNext
       /\ UNCHANGED <<focus, setVars, logVars, kpVars, dialogVars, nrVars, ckVars, openVars>>
    \/ /\ focus = "settings" /\ SetNext
       /\ UNCHANGED <<focus, gpuVars, logVars, kpVars, dialogVars, nrVars, ckVars, openVars>>
    \/ /\ focus = "log" /\ LogNext
       /\ UNCHANGED <<focus, gpuVars, setVars, kpVars, dialogVars, nrVars, ckVars, openVars>>
    \/ /\ focus = "kernel" /\ KpNext
       /\ UNCHANGED <<focus, gpuVars, setVars, logVars, dialogVars, nrVars, ckVars, openVars>>
    \/ /\ focus = "dialog" /\ PdNext
       /\ UNCHANGED <<focus, gpuVars, setVars, logVars, kpVars, nrVars, ckVars, openVars>>
    \/ /\ focus = "net" /\ NetNext
       /\ UNCHANGED <<focus, gpuVars, setVars, logVars, kpVars, dialogVars, ckVars, openVars>>
    \/ /\ focus = "clock" /\ ClockNext
       /\ UNCHANGED <<focus, gpuVars, setVars, logVars, kpVars, dialogVars, nrVars, openVars>>
    \/ /\ focus = "keyboard" /\ OpenNext
       /\ UNCHANGED <<focus, gpuVars, setVars, logVars, kpVars, dialogVars, nrVars, ckVars>>

MainVars == <<focus, gpuVars, setVars, logVars, kpVars, dialogVars, nrVars, ckVars, openVars>>

MainSpec == MainInit /\ [][MainNext]_MainVars

\* The state of every part is well formed: the slots, queries and cells of the GPU diagram,
\* the key file and the sensors, the log, the dialogs of kernel parameters and of a
\* process, and what the monitors and the search for the keyboard keep.
MainTypeOK ==
    /\ GpuTypeOK /\ SetTypeOK /\ LogTypeOK /\ KpTypeOK /\ PdTypeOK
    /\ NetTypeOK /\ ClockTypeOK /\ OpenTypeOK
=============================================================================
