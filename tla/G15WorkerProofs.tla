--------------------------- MODULE G15WorkerProofs ---------------------------
(***************************************************************************)
(* Proofs about G15Worker, for any number of pages from 4 on and any set   *)
(* of keys: the selected page stays within the vector of pages that        *)
(* g15_update indexes without a check, and the page last handed to the     *)
(* driver is the selected one whenever no refresh is pending.              *)
(***************************************************************************)
EXTENDS G15Worker, TLAPS

(***************************************************************************)
(* SelectedPageWritten speaks of the top of the loop.  Inside a round the  *)
(* page last written is the one the round began with (lastDisplay), and a  *)
(* round that begins without a page has its first refresh pending.         *)
(***************************************************************************)
PageInRound ==
    /\ wpc = "init" => dorefresh
    /\ (wpc \in {"m1", "decide"} /\ ~dorefresh /\ running) => written = lastDisplay
    /\ wpc = "drawn" => written = display

IInv == TypeOK /\ SelectedPageWritten /\ PageInRound

Main == MonitorsUpdate \/ Notification \/ Unrealize \/ Close \/ Join

-----------------------------------------------------------------------------
\* The L keys select a page that exists, whatever they are pressed together with.
LEMMA TurnedType ==
    ASSUME NEW d \in Pages, NEW keys
    PROVE  Turned(d, keys) \in Pages
  BY NPagesAssumption DEF Turned, Pages

\* The page M1 selects exists.
LEMMA M1PageType == NPages - 4 \in Pages
  BY NPagesAssumption DEF Pages

LEMMA InitInv == Init => IInv
<1> SUFFICES ASSUME Init PROVE IInv
  OBVIOUS
<1>1. 0 \in Pages /\ NoPage \in Pages \cup {NoPage}
  BY NPagesAssumption DEF Pages
<1> QED
  BY <1>1 DEF Init, IInv, TypeOK, SelectedPageWritten, PageInRound,
              InDoWork

\* The main thread neither selects nor draws a page.
LEMMA MainInv == ASSUME IInv, Main PROVE IInv'
<1> USE DEF IInv, TypeOK, SelectedPageWritten, PageInRound, InDoWork,
            select, commands, screen, page
<1>1. CASE MonitorsUpdate
  <2>1. dorefresh' \in BOOLEAN /\ (dorefresh => dorefresh')
    <3>1. dorefresh' = TRUE \/ dorefresh' = dorefresh
      BY <1>1 DEF MonitorsUpdate
    <3> QED
      BY <3>1
  <2>2. mpc' \in {"running", "crashed"} /\ current' = {}
    BY <1>1 DEF MonitorsUpdate
  <2>3. UNCHANGED <<wpc, worker, running, select, commands, page>>
    BY <1>1 DEF MonitorsUpdate
  <2>4. TypeOK'
    BY <2>1, <2>2, <2>3
  <2>5. SelectedPageWritten' /\ PageInRound'
    BY <2>1, <2>3
  <2> QED
    BY <2>4, <2>5
<1>2. CASE Notification
  BY <1>2 DEF Notification
<1>3. CASE Unrealize
  BY <1>3 DEF Unrealize
<1>4. CASE Close
  <2>1. CASE worker = "object"
    <3>1. TypeOK'
      BY <1>4, <2>1 DEF Close
    <3>2. SelectedPageWritten' /\ PageInRound'
      BY <1>4, <2>1 DEF Close
    <3> QED
      BY <3>1, <3>2
  <2>2. CASE worker # "object"
    BY <1>4, <2>2 DEF Close
  <2> QED
    BY <2>1, <2>2
<1>5. CASE Join
  BY <1>5 DEF Join
<1> QED
  BY <1>1, <1>2, <1>3, <1>4, <1>5 DEF Main

\* A round of do_work.
LEMMA WorkerInv == ASSUME IInv, WorkerStep PROVE IInv'
<1> USE DEF IInv, TypeOK, SelectedPageWritten, PageInRound, InDoWork,
            select, commands, screen, page
<1>1. CASE StartWorker
  BY <1>1 DEF StartWorker
<1>2. CASE InitUsb
  <2>1. m_cmd' \in Commands \cup {"none", "g15init"} /\ emits' \in Nat
    BY <1>2 DEF InitUsb
  <2>2. running' \in BOOLEAN
    BY <1>2 DEF InitUsb
  <2>3. TypeOK'
    BY <1>2, <2>1, <2>2 DEF InitUsb
  <2>4. SelectedPageWritten' /\ PageInRound'
    BY <1>2 DEF InitUsb
  <2> QED
    BY <2>3, <2>4
<1>3. CASE Loop
  BY <1>3 DEF Loop
<1>4. CASE PollError
  BY <1>4 DEF PollError
<1>5. CASE PollReturns
  <2>1. PICK keys \in SUBSET Pressable : Pressed(keys)
    BY <1>5 DEF PollReturns
  <2>2. display' \in Pages
    BY <2>1, TurnedType DEF Pressed
  <2>3. job' \in [Commands -> {"idle", "running", "stored", "told"}]
    BY <2>1 DEF Pressed
  <2> QED
    BY <2>1, <2>2, <2>3 DEF Pressed
<1>6. CASE M1Return
  <2>1. netstart' \in BOOLEAN /\ display' \in Pages
    BY <1>6, M1PageType DEF M1Return
  <2>2. TypeOK'
    BY <1>6, <2>1 DEF M1Return
  <2>3. SelectedPageWritten' /\ PageInRound'
    BY <1>6 DEF M1Return
  <2> QED
    BY <2>2, <2>3
<1>7. CASE Decide
  <2>1. 0 \in Pages
    BY NPagesAssumption DEF Pages
  <2> QED
    BY <1>7, <2>1 DEF Decide
<1>8. CASE DrawAny
  <2>1. PICK outcome \in {"flying", "over"} : Draw(outcome)
    BY <1>8 DEF DrawAny
  <2>2. TypeOK'
    BY <2>1 DEF Draw
  <2>3. SelectedPageWritten' /\ PageInRound'
    BY <2>1 DEF Draw
  <2> QED
    BY <2>2, <2>3
<1>9. CASE Drawn
  <2>1. TypeOK'
    BY <1>9 DEF Drawn
  <2>2. SelectedPageWritten' /\ PageInRound'
    BY <1>9 DEF Drawn
  <2> QED
    BY <2>1, <2>2
<1>10. CASE ExitUsb
  <2>1. TypeOK'
    BY <1>10 DEF ExitUsb
  <2>2. SelectedPageWritten' /\ PageInRound'
    BY <1>10 DEF ExitUsb
  <2> QED
    BY <2>1, <2>2
<1> QED
  BY <1>1, <1>2, <1>3, <1>4, <1>5, <1>6, <1>7, <1>8, <1>9, <1>10 DEF WorkerStep

\* A command changes the error fields only, or ends everything.
LEMMA CommandInv == ASSUME IInv, NEW c \in Commands, CommandStep(c) PROVE IInv'
<1> USE DEF IInv, TypeOK, SelectedPageWritten, PageInRound, InDoWork,
            select, commands, screen, page
<1>1. CASE CommandEnds(c)
  BY <1>1 DEF CommandEnds
<1>2. CASE CommandTells(c)
  BY <1>2 DEF CommandTells
<1> QED
  BY <1>1, <1>2 DEF CommandStep

\* What becomes of a page on its way changes nothing in the program.
LEMMA KeyboardInv == ASSUME IInv, KeyboardStep PROVE IInv'
<1> USE DEF IInv, TypeOK, SelectedPageWritten, PageInRound, InDoWork, select, commands
<1>1. CASE PageArrives
  BY <1>1 DEF PageArrives
<1>2. CASE PageLost
  BY <1>2 DEF PageLost
<1> QED
  BY <1>1, <1>2 DEF KeyboardStep

LEMMA StepInv == IInv /\ [Next]_vars => IInv'
<1> SUFFICES ASSUME IInv, [Next]_vars PROVE IInv'
  OBVIOUS
<1>1. CASE Main
  BY <1>1, MainInv
<1>2. CASE WorkerStep
  BY <1>2, WorkerInv
<1>3. CASE \E c \in Commands : CommandStep(c)
  BY <1>3, CommandInv
<1>4. CASE KeyboardStep
  BY <1>4, KeyboardInv
<1>5. CASE UNCHANGED vars
  BY <1>5 DEF IInv, TypeOK, SelectedPageWritten, PageInRound, vars,
              select, commands, screen, page
<1> QED
  BY <1>1, <1>2, <1>3, <1>4, <1>5 DEF Next, Main

-----------------------------------------------------------------------------
\* The invariant in every reachable state.
THEOREM Invariance == Spec => []IInv
  BY InitInv, StepInv, PTL DEF Spec

\* Type correctness; in particular page[g15display] of g15_update is always a page.
THEOREM TypeCorrect == Spec => []TypeOK
  BY Invariance, PTL DEF IInv

\* No selection of a page is lost between the keys, the command of M1 and the refresh: it
\* has been handed to the driver when nothing is pending.
THEOREM SelectionWritten == Spec => []SelectedPageWritten
  BY Invariance, PTL DEF IInv
=============================================================================
