------------------------------ MODULE EntryLife ------------------------------
(***************************************************************************)
(* What the process display is promised about the entry of a process: it   *)
(* appears as New, becomes Running with the next update, may finish when   *)
(* it cannot be read any more, is shown as closing for one update and only *)
(* then goes.  Every step is one the user can see.                         *)
(***************************************************************************)
CONSTANT Pids

VARIABLE stage      \* of the entry of every pid, "absent" without one

Stages == {"absent", "New", "Running", "Finished", "Close"}

Life ==
    {<<"absent", "New">>,
     <<"New", "Running">>,
     <<"New", "Finished">>, <<"Running", "Finished">>,
     <<"Running", "Close">>, <<"Finished", "Close">>,
     <<"Close", "absent">>}

Init == stage = [p \in Pids |-> "absent"]

Next ==
    /\ stage' \in [Pids -> Stages]
    /\ \A p \in Pids : stage'[p] = stage[p] \/ <<stage[p], stage'[p]>> \in Life

Spec == Init /\ [][Next]_stage
=============================================================================
