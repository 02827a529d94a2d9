--------------------------- MODULE MainLoopProofs ---------------------------
(***************************************************************************)
(* Proofs about the kernel parameters, the log view and the search for the  *)
(* keyboard, and about all parts of the main loop together.  KernelParam,   *)
(* for any sizes of the configuration, of the outputs and of the line, and  *)
(* any number of pages: the search finds a line that lies in two outputs,   *)
(* the text is of the selected parameter, and the shown differences add up. *)
(* LogView, for any limits: the list shows what is selected.                *)
(* G15Open, for any table of devices, any number of handles and any         *)
(* retries: the driver keeps no interface but the one that it releases.     *)
(* MainSpec lets each part behave as its own specification says.            *)
(***************************************************************************)
EXTENDS MCMainLoop, MonitorProofs, ProcessDialogProofs

(***************************************************************************)
(* The search: as long as the line has not ended, it is spread over no      *)
(* output when it has not begun, and when over one only it begins in the    *)
(* window, so that the next output completes it in the window; so one that  *)
(* has ended and was not found is spread over more than two.               *)
(***************************************************************************)
SpreadOf ==
    /\ kpTo < kpEntry => kpSpread = 0
    /\ kpEntry <= kpTo => kpSpread >= 1
    /\ kpSpread = 1 => kpFrom < kpEntry
WindowInv == kpFrom <= kpTo /\ (kpEntry # 0 => SpreadOf) /\ EntryFound

(***************************************************************************)
(* The text: a closed dialog has no timer, and what is searched for is the  *)
(* parameter of the packed configuration, which has none either.           *)
(***************************************************************************)
SelectionInv ==
    /\ TextOfSelected
    /\ kpMode = "closed" => ~kpTimer /\ kpSelected = First
    /\ kpMode \in {"searching", "ended", "hangs"} => kpSelected \in PackedConfig

CounterInv == KpTypeOK /\ IoAddsUp

\* The search goes no further, but to its end.
KpStops == KpStreamEnd \/ KpGzipError \/ KpFileEnd

Unwindowed == KpPaging \/ (\E ok \in BOOLEAN : KpTimer(ok)) \/ KpShow
              \/ (\E p \in Parameters \ Timed : KpQuery(p))
              \/ (\E p \in Timed, ok \in BOOLEAN : KpQueryTimed(p, ok))
              \/ KpStops

KpEnds == KpClose \/ KpKilled \/ \E p \in Directories : KpNoDirectory(p)
KpSearches == \E p \in PackedConfig, entry \in 0..ConfigSize :
                 entry + EntrySize <= ConfigSize + 1 /\ KpSearch(p, entry)

-----------------------------------------------------------------------------
\* The first parameter is read from files, and the statistics are of a kind of their own.
LEMMA ParameterNames ==
    /\ First \in Parameters \ Timed
    /\ PackedConfig \subseteq Parameters /\ Timed \subseteq Parameters
    /\ Timed \cap PackedConfig = {}
  BY DEF First, Parameters, Files, Directories, PackedConfig, Timed

LEMMA OutcomeType == \A p \in Parameters : Outcome(p) \in Texts
  BY DEF Outcome, Texts

-----------------------------------------------------------------------------
\* Types and counters.

LEMMA EndState ==
    ASSUME KpEnds
    PROVE  /\ kpMode' = "closed" /\ kpSelected' = First /\ kpTimer' = FALSE
           /\ kpText' = Outcome(First) /\ kpLast' = 0 /\ kpSum' = 0
           /\ kpEntry' = 0 /\ kpFrom' = 0 /\ kpTo' = 0 /\ kpSpread' = 0
           /\ kpPages' = kpPages
  BY DEF KpEnds, KpClose, KpKilled, KpNoDirectory, KpGone, KpNoWindow

LEMMA InitCounters == KpInit => CounterInv
<1> SUFFICES ASSUME KpInit PROVE CounterInv
  OBVIOUS
<1>1. First \in Parameters /\ Outcome(First) \in Texts
  BY ParameterNames, OutcomeType
<1>2. 0 \in 0..MaxPages /\ 0 \in 0..ConfigSize /\ 0 \in 0..TooMany /\ 0 <= 0
  BY KernelConstants DEF TooMany
<1>3. /\ kpMode = "closed" /\ kpSelected = First /\ kpTimer = FALSE /\ kpText = Outcome(First)
      /\ kpPages = 0 /\ kpLast = 0 /\ kpSum = 0
      /\ kpFrom = 0 /\ kpTo = 0 /\ kpSpread = 0 /\ kpEntry = 0
  BY DEF KpInit
<1> QED
  BY <1>1, <1>2, <1>3 DEF CounterInv, KpTypeOK, IoAddsUp

\* A reading counts what the counter grew by since the one before.
LEMMA TimedReadCounts ==
    ASSUME CounterInv, NEW ok \in BOOLEAN, TimedRead(ok), kpPages' = kpPages
    PROVE  kpLast' \in 0..MaxPages /\ kpSum' \in 0..MaxPages /\ IoAddsUp'
<1>1. kpPages \in Nat /\ kpLast \in Nat /\ MaxPages \in Nat /\ kpPages <= MaxPages /\ kpLast <= kpPages
      /\ kpSum = kpLast
  BY KernelConstants DEF CounterInv, KpTypeOK, IoAddsUp
<1>2. CASE ok
  BY <1>1, <1>2 DEF TimedRead, IoAddsUp
<1>3. CASE ~ok
  BY <1>1, <1>3 DEF TimedRead, IoAddsUp
<1> QED
  BY <1>2, <1>3

LEMMA CountersInv == CounterInv /\ [KpNext]_kpVars => CounterInv'
<1> SUFFICES ASSUME CounterInv, [KpNext]_kpVars PROVE CounterInv'
  OBVIOUS
<1> USE DEF CounterInv, IoAddsUp
<1>1. CASE KpEnds
  <2>1. First \in Parameters /\ Outcome(First) \in Texts /\ 0 \in 0..TooMany
    BY ParameterNames, OutcomeType DEF TooMany
  <2> QED
    BY <1>1, <2>1, EndState, KernelConstants DEF KpTypeOK
<1>2. CASE KpPaging
  <2>1. kpPages' \in 0..MaxPages /\ kpLast' <= kpPages'
    BY <1>2, KernelConstants DEF KpPaging, KpTypeOK
  <2> QED
    BY <1>2, <2>1 DEF KpPaging, KpTypeOK, kpWindow
<1>3. CASE KpShow
  <2>1. First \in Parameters /\ Outcome(First) \in Texts
    BY ParameterNames, OutcomeType
  <2> QED
    BY <1>3, <2>1 DEF KpShow, KpTypeOK, kpWindow
<1>4. CASE \E p \in Parameters \ Timed : KpQuery(p)
  <2>1. PICK p \in Parameters \ Timed : KpQuery(p)
    BY <1>4
  <2>2. kpText' \in Texts /\ kpTimer' \in BOOLEAN /\ kpSelected' = p
    BY <2>1, OutcomeType DEF KpQuery, Choose, TimerAfter
  <2> QED
    BY <2>1, <2>2 DEF KpQuery, KpTypeOK, kpWindow
<1>5. CASE \E p \in Timed, ok \in BOOLEAN : KpQueryTimed(p, ok)
  <2>1. PICK p \in Timed, ok \in BOOLEAN : KpQueryTimed(p, ok)
    BY <1>5
  <2>2. kpLast' \in 0..MaxPages /\ kpSum' \in 0..MaxPages /\ IoAddsUp'
    BY <2>1, TimedReadCounts DEF KpQueryTimed
  <2>3. kpText' \in Texts /\ kpSelected' \in Parameters /\ kpTimer' \in BOOLEAN
    BY <2>1, ParameterNames, OutcomeType DEF KpQueryTimed, Choose, TimerAfter
  <2> QED
    BY <2>1, <2>2, <2>3 DEF KpQueryTimed, KpTypeOK, kpWindow
<1>6. CASE \E ok \in BOOLEAN : KpTimer(ok)
  <2>1. PICK ok \in BOOLEAN : KpTimer(ok)
    BY <1>6
  <2>2. kpLast' \in 0..MaxPages /\ kpSum' \in 0..MaxPages /\ IoAddsUp'
    <3>1. CASE kpSelected \in Timed
      BY <2>1, <3>1, TimedReadCounts DEF KpTimer
    <3>2. CASE kpSelected \notin Timed
      BY <2>1, <3>2 DEF KpTimer, KpTypeOK
    <3> QED
      BY <3>1, <3>2
  <2>3. kpText' \in Texts
    <3>1. kpText' = [kpText EXCEPT !.added = @ \cup {kpSelected}]
      BY <2>1 DEF KpTimer
    <3>2. kpText \in [of : Parameters, added : SUBSET Parameters] /\ kpSelected \in Parameters
      BY DEF KpTypeOK, Texts
    <3> QED
      BY <3>1, <3>2 DEF Texts
  <2> QED
    BY <2>1, <2>2, <2>3 DEF KpTimer, KpTypeOK, kpWindow
<1>8. CASE KpSearches
  <2>1. PICK p \in PackedConfig, entry \in 0..ConfigSize : KpSearch(p, entry)
    BY <1>8 DEF KpSearches
  <2>2. 0 \in 0..ConfigSize /\ 0 \in 0..TooMany
    BY KernelConstants DEF TooMany
  <2>3. kpSelected' \in Parameters /\ kpTimer' \in BOOLEAN
    BY <2>1, ParameterNames DEF KpSearch, Choose, TimerAfter
  <2> QED
    BY <2>1, <2>2, <2>3 DEF KpSearch, KpTypeOK
<1>9. CASE \E k \in 0..OutSize : KpOutput(k)
  <2>1. PICK k \in 0..OutSize : KpOutput(k)
    BY <1>9
  <2>2. kpTo + k \in 0..ConfigSize /\ 0 \in 0..ConfigSize /\ 0 \in 0..TooMany
    BY <2>1, KernelConstants DEF KpOutput, KpTypeOK, TooMany
  <2>3. Outcome(kpSelected) \in Texts
    BY OutcomeType DEF KpTypeOK
  <2>4. UNCHANGED <<kpSelected, kpTimer, kpPages, kpLast, kpSum>>
    BY <2>1 DEF KpOutput
  <2>5. CASE KpFound(kpTo + k)
    BY <2>1, <2>2, <2>3, <2>4, <2>5 DEF KpOutput, KpSearched, KpNoWindow, KpTypeOK
  <2>6. CASE ~KpFound(kpTo + k)
    <3>1. kpSpread' \in 0..TooMany
      BY <2>1, <2>6 DEF KpOutput, KpTypeOK, TooMany
    <3> QED
      BY <2>1, <2>2, <2>4, <2>6, <3>1 DEF KpOutput, KpTypeOK
  <2> QED
    BY <2>5, <2>6
<1>10. CASE KpStops
  BY <1>10 DEF KpStops, KpStreamEnd, KpGzipError, KpNoMore, KpFileEnd, KpTypeOK, kpWindow
<1>12. CASE KpReadFails
  <2>1. Outcome(kpSelected) \in Texts /\ 0 \in 0..ConfigSize /\ 0 \in 0..TooMany
    BY OutcomeType, KernelConstants DEF KpTypeOK, TooMany
  <2> QED
    BY <1>12, <2>1 DEF KpReadFails, KpSearched, KpNoWindow, KpTypeOK
<1>11. CASE UNCHANGED kpVars
  BY <1>11 DEF kpVars, KpTypeOK
<1> QED
  BY <1>1, <1>2, <1>3, <1>4, <1>5, <1>6, <1>8, <1>9, <1>10, <1>11, <1>12
     DEF KpNext, KpEnds, KpStops, KpSearches

-----------------------------------------------------------------------------
\* The search.

LEMMA NoWindow == kpEntry = 0 /\ kpFrom = 0 /\ kpTo = 0 => WindowInv
  BY DEF WindowInv, EntryFound, Unpacked

LEMMA InitWindow == KpInit => WindowInv
  BY NoWindow DEF KpInit

\* An output in which the line was not found has not completed it, unless it is spread over
\* more than two.
LEMMA OutputWindow ==
    ASSUME KpTypeOK, WindowInv, NEW k \in 0..OutSize, KpOutput(k)
    PROVE  WindowInv'
<1>1. /\ kpEntry \in Nat /\ kpFrom \in Nat /\ kpTo \in Nat /\ kpSpread \in 0..3
      /\ k \in Nat /\ EntrySize \in Nat \ {0}
  BY KernelConstants DEF KpTypeOK, TooMany
<1>2. CASE KpFound(kpTo + k)
  <2>1. (kpEntry = 0 /\ kpFrom = 0 /\ kpTo = 0)'
    BY <1>2 DEF KpOutput, KpSearched, KpNoWindow
  <2> QED
    BY <2>1 DEF WindowInv, EntryFound, Unpacked
<1>3. CASE ~KpFound(kpTo + k)
  <2>1. /\ kpFrom' = kpTo /\ kpTo' = kpTo + k /\ kpEntry' = kpEntry
        /\ kpSpread' = IF Touched(kpTo + k) /\ kpSpread < 3 THEN kpSpread + 1 ELSE kpSpread
    BY <1>3 DEF KpOutput, TooMany
  <2>2. CASE kpEntry = 0
    BY <1>1, <2>1, <2>2 DEF WindowInv, EntryFound, Unpacked
  <2>3. CASE kpEntry # 0
    <3>1. /\ kpTo < kpEntry => kpSpread = 0
          /\ kpEntry <= kpTo => kpSpread >= 1
          /\ kpSpread = 1 => kpFrom < kpEntry
          /\ kpFrom <= kpTo
          /\ kpEntry + EntrySize - 1 <= kpTo => kpSpread >= 3
      BY <2>3 DEF WindowInv, SpreadOf, EntryFound, Unpacked, TooMany
    <3>2. ~(kpEntry > kpFrom /\ kpEntry + EntrySize - 1 <= kpTo + k)
      BY <1>3, <2>3 DEF KpFound, InWindow
    <3>3. Touched(kpTo + k) <=> kpEntry <= kpTo + k /\ kpEntry + EntrySize - 1 > kpTo
      BY <2>3 DEF Touched
    <3>4. kpFrom' <= kpTo' /\ SpreadOf'
      BY <1>1, <2>1, <2>3, <3>1, <3>2, <3>3 DEF SpreadOf
    <3>5. kpEntry + EntrySize - 1 <= kpTo + k => kpSpread' >= 3
      BY <1>1, <2>1, <2>3, <3>1, <3>2, <3>3
    <3> QED
      BY <2>1, <3>4, <3>5 DEF WindowInv, EntryFound, Unpacked, TooMany
  <2> QED
    BY <2>2, <2>3
<1> QED
  BY <1>2, <1>3

LEMMA WindowNext == KpTypeOK /\ WindowInv /\ [KpNext]_kpVars => WindowInv'
<1> SUFFICES ASSUME KpTypeOK, WindowInv, [KpNext]_kpVars PROVE WindowInv'
  OBVIOUS
<1>1. CASE KpEnds \/ KpReadFails
  <2>1. (kpEntry = 0 /\ kpFrom = 0 /\ kpTo = 0)'
    BY <1>1, EndState DEF KpReadFails, KpSearched, KpNoWindow
  <2> QED
    BY <2>1 DEF WindowInv, EntryFound, Unpacked
<1>2. CASE Unwindowed \/ UNCHANGED kpVars
  <2>1. UNCHANGED <<kpEntry, kpFrom, kpTo, kpSpread>>
    BY <1>2 DEF Unwindowed, KpPaging, KpTimer, KpShow, KpQuery, KpQueryTimed, KpStops, KpStreamEnd,
                KpGzipError, KpNoMore, KpFileEnd, kpVars, kpWindow
  <2> QED
    BY <2>1 DEF WindowInv, SpreadOf, EntryFound, Unpacked
<1>3. CASE KpSearches
  <2>1. PICK entry \in 0..ConfigSize : kpEntry' = entry /\ kpFrom' = 0 /\ kpTo' = 0 /\ kpSpread' = 0
    BY <1>3 DEF KpSearches, KpSearch
  <2>2. entry \in Nat /\ EntrySize \in Nat \ {0}
    BY KernelConstants
  <2>3. entry # 0 => ~(entry <= 0) /\ ~(entry + EntrySize - 1 <= 0)
    BY <2>2
  <2> QED
    BY <2>1, <2>2, <2>3 DEF WindowInv, SpreadOf, EntryFound, Unpacked
<1>4. CASE \E k \in 0..OutSize : KpOutput(k)
  BY <1>4, OutputWindow
<1> QED
  BY <1>1, <1>2, <1>3, <1>4 DEF KpNext, KpEnds, KpStops, KpSearches, Unwindowed

-----------------------------------------------------------------------------
\* The text.

LEMMA InitSelection == KpInit => SelectionInv
  BY DEF KpInit, SelectionInv, TextOfSelected

\* A query shows its own outcome, and connects the timer for its own parameter only.
LEMMA ChosenSelection ==
    ASSUME NEW p, kpSelected' = p, kpMode' = "idle", kpText' = Outcome(p), kpTimer' = TimerAfter(p)
    PROVE  SelectionInv'
  BY DEF SelectionInv, TextOfSelected, Outcome, TimerAfter

\* So does a search that ends.
LEMMA SearchedSelection ==
    ASSUME SelectionInv, kpMode \in {"searching", "ended"}, KpSearched, UNCHANGED <<kpSelected, kpTimer>>
    PROVE  SelectionInv'
<1>1. kpSelected \in PackedConfig /\ ~kpTimer /\ kpSelected \notin Timed
  BY ParameterNames DEF SelectionInv, TextOfSelected
<1> QED
  BY <1>1 DEF KpSearched, SelectionInv, TextOfSelected, Outcome

LEMMA SelectionNext == KpTypeOK /\ SelectionInv /\ [KpNext]_kpVars => SelectionInv'
<1> SUFFICES ASSUME KpTypeOK, SelectionInv, [KpNext]_kpVars PROVE SelectionInv'
  OBVIOUS
<1>1. CASE KpEnds
  BY <1>1, EndState DEF SelectionInv, TextOfSelected
<1>2. CASE KpPaging \/ UNCHANGED kpVars
  BY <1>2 DEF KpPaging, kpVars, SelectionInv, TextOfSelected
<1>3. CASE KpShow
  <2>1. kpTimer' = FALSE /\ First \notin Timed
    BY <1>3, ParameterNames DEF KpShow, SelectionInv, KpTypeOK
  <2> QED
    BY <1>3, <2>1 DEF KpShow, SelectionInv, TextOfSelected, Outcome
<1>4. CASE \E p \in Parameters \ Timed : KpQuery(p)
  BY <1>4, ChosenSelection DEF KpQuery, Choose
<1>5. CASE \E p \in Timed, ok \in BOOLEAN : KpQueryTimed(p, ok)
  BY <1>5, ChosenSelection DEF KpQueryTimed, Choose
<1>6. CASE \E ok \in BOOLEAN : KpTimer(ok)
  <2>1. /\ kpMode = "idle" /\ kpText' = [kpText EXCEPT !.added = @ \cup {kpSelected}]
        /\ UNCHANGED <<kpMode, kpSelected, kpTimer>>
    BY <1>6 DEF KpTimer
  <2>2. kpText'.of = kpText.of /\ kpText'.added = kpText.added \cup {kpSelected}
    BY <2>1 DEF KpTypeOK, Texts
  <2> QED
    BY <2>1, <2>2 DEF SelectionInv, TextOfSelected
<1>8. CASE KpSearches
  <2>1. PICK p \in PackedConfig : kpMode' = "searching" /\ kpSelected' = p /\ kpTimer' = (p \in Timed)
    BY <1>8 DEF KpSearches, KpSearch, Choose, TimerAfter
  <2>2. p \notin Timed
    BY <2>1, ParameterNames
  <2> QED
    BY <2>1, <2>2 DEF SelectionInv, TextOfSelected
<1>9. CASE \E k \in 0..OutSize : KpOutput(k)
  <2>1. PICK k \in 0..OutSize : KpOutput(k)
    BY <1>9
  <2>2. kpMode = "searching" /\ UNCHANGED <<kpSelected, kpTimer>>
    BY <2>1 DEF KpOutput
  <2>3. CASE KpFound(kpTo + k)
    BY <2>1, <2>2, <2>3, SearchedSelection DEF KpOutput
  <2>4. CASE ~KpFound(kpTo + k)
    <3>1. kpMode' = "searching"
      BY <2>1, <2>2, <2>4 DEF KpOutput
    <3> QED
      BY <2>2, <3>1 DEF SelectionInv, TextOfSelected
  <2> QED
    BY <2>3, <2>4
<1>10. CASE KpStops
  BY <1>10 DEF KpStops, KpStreamEnd, KpGzipError, KpNoMore, KpFileEnd, SelectionInv, TextOfSelected
<1>11. CASE KpReadFails
  BY <1>11, SearchedSelection DEF KpReadFails
<1> QED
  BY <1>1, <1>2, <1>3, <1>4, <1>5, <1>6, <1>8, <1>9, <1>10, <1>11
     DEF KpNext, KpEnds, KpStops, KpSearches

-----------------------------------------------------------------------------
\* The dialog's state stays well formed for any sizes of the configuration and the line.
THEOREM KpTypeCorrect == KpSpec => []KpTypeOK
<1>1. CounterInv => KpTypeOK
  BY DEF CounterInv
<1> QED
  BY <1>1, InitCounters, CountersInv, PTL DEF KpSpec

\* The differences of pages that a dialog showed add up to the last reading.
THEOREM DifferencesAddUp == KpSpec => []IoAddsUp
<1>1. CounterInv => IoAddsUp
  BY DEF CounterInv
<1> QED
  BY <1>1, InitCounters, CountersInv, PTL DEF KpSpec

\* zcat finds a line that lies in one output or in two, one after the other, for every size
\* of line, buffer and configuration and outputs of any length: one that was unpacked and
\* missed is spread over three outputs or more.
THEOREM BorderLineFound == KpSpec => []EntryFound
<1>1. WindowInv => EntryFound
  BY DEF WindowInv
<1> QED
  BY <1>1, KpTypeCorrect, InitWindow, WindowNext, PTL DEF KpSpec

\* The dialog shows the text of the selected parameter, and its timer runs for that only.
THEOREM TextIsOfSelected == KpSpec => []TextOfSelected
<1>1. SelectionInv => TextOfSelected
  BY DEF SelectionInv
<1> QED
  BY <1>1, KpTypeCorrect, InitSelection, SelectionNext, PTL DEF KpSpec

-----------------------------------------------------------------------------
\* Sequences by their elements: a beginning of a sequence.
Begins(s, t) == Len(s) <= Len(t) /\ \A i \in 1..Len(s) : s[i] = t[i]

LEMMA BeginsIsPrefix ==
    ASSUME NEW S, NEW s \in Seq(S), NEW t \in Seq(S), Begins(s, t)
    PROVE  IsPrefix(s, t)
<1>1. Len(s) \in Nat /\ Len(t) \in Nat /\ Len(s) <= Len(t)
  BY DEF Begins
<1>2. SubSeq(s, 1, Len(s)) \in Seq(S) /\ Len(SubSeq(s, 1, Len(s))) = Len(s)
  BY <1>1
<1>3. SubSeq(t, 1, Len(s)) \in Seq(S) /\ Len(SubSeq(t, 1, Len(s))) = Len(s)
  BY <1>1
<1>4. \A i \in 1..Len(s) : SubSeq(s, 1, Len(s))[i] = s[i] /\ SubSeq(t, 1, Len(s))[i] = t[i]
  BY <1>1
<1>5. \A i \in 1..Len(s) : SubSeq(s, 1, Len(s))[i] = SubSeq(t, 1, Len(s))[i]
  BY <1>4 DEF Begins
<1>6. SubSeq(s, 1, Len(s)) = SubSeq(t, 1, Len(s))
  BY <1>2, <1>3, <1>5
<1> QED
  BY <1>1, <1>6 DEF IsPrefix

\* The row that says there is more is no entry of the log.
LEMMA RowKinds == \A e \in LogEntries : e # More
<1>1. DOMAIN More = {"level", "hit", "more"}
  BY DEF More
<1>2. \A e \in LogEntries : DOMAIN e = {"level", "hit"}
  BY DEF LogEntries
<1> QED
  BY <1>1, <1>2

\* The loop that Asked stands for.
AskedBy(c, store, N, g) ==
    /\ g \in [0..N -> Seq(LogEntries)] /\ g[0] = <<>>
    /\ \A n \in 1..N : g[n] = IF Matches(c, store[n]) THEN Append(g[n - 1], store[n]) ELSE g[n - 1]

LEMMA AskedValue ==
    ASSUME NEW c, NEW N \in Nat, NEW store, \A n \in 1..N : store[n] \in LogEntries
    PROVE  \E g : AskedBy(c, store, N, g)
<1> DEFINE X == Seq(LogEntries)
           Put(k, n) == IF Matches(c, store[n]) THEN Append(k, store[n]) ELSE k
           step == [n \in 1..N |-> [k \in X |-> Put(k, n)]]
           base == <<>>
<1>1. N \in Nat /\ base \in X
  OBVIOUS
<1>2. \A n \in 1..N, k \in X : Put(k, n) \in X
  OBVIOUS
<1> HIDE DEF X, Put
<1>3. step \in [1..N -> [X -> X]]
  BY <1>2
<1>4. \A n \in 1..N, k \in X : step[n][k] = Put(k, n)
  OBVIOUS
<1> HIDE DEF step, base
<1>b. IsLoop(N, X, base, step)
  BY <1>1, <1>3 DEF IsLoop
<1>c. PICK g : LoopOf(g, N, X, base, step)
  BY <1>b, LoopValue
<1>5. g \in [0..N -> X] /\ g[0] = base /\ \A n \in 1..N : g[n] = step[n][g[n - 1]]
  BY <1>c DEF LoopOf
<1>6. \A n \in 1..N : n - 1 \in 0..N /\ g[n - 1] \in X
  BY <1>1, <1>5
<1>7. \A n \in 1..N : g[n] = Put(g[n - 1], n)
  BY <1>4, <1>5, <1>6
<1> QED
  BY <1>5, <1>7 DEF X, Put, base, AskedBy

LEMMA AskedLoop ==
    ASSUME LogTypeOK, logSeen <= Len(logStore)
    PROVE  \E asked : AskedBy(logChosen, logStore, logSeen, asked) /\ Asked = asked[logSeen]
<1> DEFINE Put(k, n) == IF Matches(logChosen, logStore[n]) THEN Append(k, logStore[n]) ELSE k
           Eq(f) == f = [n \in 0..logSeen |-> IF n = 0 THEN <<>> ELSE Put(f[n - 1], n)]
           asked == CHOOSE f : Eq(f)
<1>1. Asked = asked[logSeen]
  BY DEF Asked
<1>2. logSeen \in Nat /\ \A n \in 1..logSeen : logStore[n] \in LogEntries
  BY DEF LogTypeOK
<1>11. PICK g : AskedBy(logChosen, logStore, logSeen, g)
  BY <1>2, AskedValue
<1>3. /\ g \in [0..logSeen -> Seq(LogEntries)] /\ g[0] = <<>>
      /\ \A n \in 1..logSeen : g[n] = Put(g[n - 1], n)
  BY <1>11 DEF AskedBy
<1>4. \A n \in 1..logSeen, k \in Seq(LogEntries) : Put(k, n) \in Seq(LogEntries)
  BY <1>2
<1> HIDE DEF Put
<1>5. Eq(g)
  BY <1>2, <1>3
<1> HIDE DEF Eq
<1>6. Eq(asked)
  BY <1>5
<1> HIDE DEF asked
<1>7. asked[0] = <<>> /\ \A n \in 1..logSeen : asked[n] = Put(asked[n - 1], n)
  BY <1>2, <1>6 DEF Eq
<1>8. <<>> \in Seq(LogEntries)
  OBVIOUS
<1>9. \A n \in 0..logSeen : asked[n] \in Seq(LogEntries)
  BY <1>2, <1>4, <1>7, <1>8, LoopType
<1>10. asked \in [0..logSeen -> Seq(LogEntries)]
  BY <1>6, <1>9 DEF Eq
<1> QED
  BY <1>1, <1>7, <1>10 DEF Put, AskedBy

Row == LogEntries \cup {More}
\* What is listed are entries, and perhaps the row that says there is more.
LEMMA RowAdded ==
    ASSUME NEW c, NEW limit, NEW rows \in Seq(Row), NEW e \in LogEntries
    PROVE  AddRow(c, limit, rows, e) \in Seq(Row)
  BY DEF AddRow, Row

\* The loop that Loaded stands for.
LoadedBy(c, limit, entries, rows) ==
    /\ rows \in [0..Len(entries) -> Seq(Row)] /\ rows[0] = <<>>
    /\ \A n \in 1..Len(entries) : rows[n] = AddRow(c, limit, rows[n - 1], entries[n])

LEMMA LoadedLoop ==
    ASSUME NEW c, NEW limit, NEW entries \in Seq(LogEntries), c.source /\ c.boot
    PROVE  \E rows : LoadedBy(c, limit, entries, rows) /\ Loaded(c, limit, entries) = rows[Len(entries)]
<1> DEFINE N == Len(entries)
           X == Seq(Row)
           Put(k, n) == AddRow(c, limit, k, entries[n])
           Eq(f) == f = [n \in 0..N |-> IF n = 0 THEN <<>> ELSE Put(f[n - 1], n)]
           rows == CHOOSE f : Eq(f)
           step == [n \in 1..N |-> [k \in X |-> Put(k, n)]]
           base == <<>>
<1>1. Loaded(c, limit, entries) = rows[N]
  BY DEF Loaded
<1>2. N \in Nat /\ base \in X
  OBVIOUS
<1>3. \A n \in 1..N, k \in X : Put(k, n) \in X
  BY RowAdded
<1> HIDE DEF N, X, Put
<1>4. step \in [1..N -> [X -> X]]
  BY <1>3
<1>a. \A n \in 1..N, k \in X : step[n][k] = Put(k, n)
  OBVIOUS
<1> HIDE DEF step, base
<1>b. IsLoop(N, X, base, step)
  BY <1>2, <1>4 DEF IsLoop
<1>c. PICK g : LoopOf(g, N, X, base, step)
  BY <1>b, LoopValue
<1>5. g \in [0..N -> X] /\ g[0] = base /\ \A n \in 1..N : g[n] = step[n][g[n - 1]]
  BY <1>c DEF LoopOf
<1>6. \A n \in 1..N : n - 1 \in 0..N /\ g[n - 1] \in X
  BY <1>2, <1>5
<1>7. \A n \in 1..N : g[n] = Put(g[n - 1], n)
  BY <1>a, <1>5, <1>6
<1>8. Eq(g)
  BY <1>2, <1>5, <1>7 DEF base
<1> HIDE DEF Eq
<1>9. Eq(rows)
  BY <1>8
<1> HIDE DEF rows
<1>10. rows[0] = <<>> /\ \A n \in 1..N : rows[n] = Put(rows[n - 1], n)
  BY <1>2, <1>9 DEF Eq
<1>11. \A n \in 0..N : rows[n] \in X
  BY <1>2, <1>3, <1>10, LoopType DEF base
<1>12. rows \in [0..N -> X]
  BY <1>9, <1>11 DEF Eq
<1> QED
  BY <1>1, <1>10, <1>12 DEF N, X, Put, LoadedBy

LEMMA LoadedType ==
    ASSUME NEW c, NEW limit, NEW entries \in Seq(LogEntries), c.source \in BOOLEAN, c.boot \in BOOLEAN
    PROVE  Loaded(c, limit, entries) \in Seq(Row)
<1>1. CASE c.source /\ c.boot
  <2>1. PICK rows : LoadedBy(c, limit, entries, rows) /\ Loaded(c, limit, entries) = rows[Len(entries)]
    BY <1>1, LoadedLoop
  <2> QED
    BY <2>1 DEF LoadedBy
<1>2. CASE ~(c.source /\ c.boot)
  BY <1>2 DEF Loaded
<1> QED
  BY <1>1, <1>2

\* What one more row does to a list that is as long as asked, or cut off.
Cut(limit, rows, asked) ==
    IF Len(asked) <= limit + 1 THEN rows = asked
    ELSE /\ Len(rows) = limit + 2 /\ rows[limit + 2] = More
         /\ \A i \in 1..(limit + 1) : rows[i] = asked[i]

LEMMA CutStep ==
    ASSUME NEW c, NEW limit \in Nat, NEW e \in LogEntries, NEW rows \in Seq(Row),
           NEW asked \in Seq(LogEntries), Cut(limit, rows, asked)
    PROVE  Cut(limit, AddRow(c, limit, rows, e), IF Matches(c, e) THEN Append(asked, e) ELSE asked)
<1>1. CASE Len(asked) > limit + 1
  <2>1. Stopped(rows)
    BY <1>1 DEF Stopped, Cut, Last
  <2>2. AddRow(c, limit, rows, e) = rows
    BY <2>1 DEF AddRow
  <2>3. CASE Matches(c, e)
    <3>1. /\ Len(Append(asked, e)) = Len(asked) + 1
          /\ \A i \in 1..(limit + 1) : Append(asked, e)[i] = asked[i]
      BY <1>1
    <3> QED
      BY <1>1, <2>2, <2>3, <3>1 DEF Cut
  <2>4. CASE ~Matches(c, e)
    BY <2>2, <2>4
  <2> QED
    BY <2>3, <2>4
<1>2. CASE Len(asked) <= limit + 1
  <2>1. rows = asked /\ Len(rows) \in Nat /\ rows \in Seq(LogEntries)
    BY <1>2 DEF Cut
  <2>2. ~Stopped(rows)
    <3> SUFFICES ASSUME rows # <<>> PROVE rows[Len(rows)] # More
      BY DEF Stopped, Last
    <3>1. rows[Len(rows)] \in LogEntries
      BY <2>1
    <3> QED
      BY <3>1, RowKinds
  <2>3. CASE ~Matches(c, e)
    <3>1. AddRow(c, limit, rows, e) = rows
      BY <2>3 DEF AddRow
    <3> QED
      BY <2>3, <3>1
  <2>4. CASE Matches(c, e)
    <3>1. AddRow(c, limit, rows, e) = Append(rows, IF Len(rows) <= limit THEN e ELSE More)
      BY <2>2, <2>4 DEF AddRow
    <3>2. Len(Append(asked, e)) = Len(asked) + 1
      OBVIOUS
    <3>3. CASE Len(rows) <= limit
      BY <2>1, <2>4, <3>1, <3>2, <3>3 DEF Cut
    <3>4. CASE Len(rows) > limit
      <4>1. Len(asked) = limit + 1 /\ Len(rows) = limit + 1
        BY <1>2, <2>1, <3>4
      <4>2. AddRow(c, limit, rows, e) = Append(rows, More)
        BY <3>1, <3>4, <4>1
      <4>3. /\ Len(Append(rows, More)) = limit + 2 /\ Append(rows, More)[limit + 2] = More
            /\ \A i \in 1..(limit + 1) : Append(rows, More)[i] = rows[i]
        BY <4>1
      <4>4. \A i \in 1..(limit + 1) : Append(asked, e)[i] = asked[i]
        BY <4>1
      <4> QED
        BY <2>1, <2>4, <3>2, <4>1, <4>2, <4>3, <4>4 DEF Cut
    <3> QED
      BY <2>1, <3>3, <3>4
  <2> QED
    BY <2>3, <2>4
<1> QED
  BY <1>1, <1>2

(***************************************************************************)
(* What is listed, told without a loop: a load of a beginning of the log    *)
(* as it was then, of all of it unless the load failed.                    *)
(***************************************************************************)
ListSelected == logOpen /\ logChosen.source /\ logChosen.boot
LoadedTo(n) == logRows = Loaded(logChosen, logLimit, SubSeq(logStore, 1, n))
ListInv ==
    /\ LogTypeOK /\ logSeen <= Len(logStore)
    /\ ~ListSelected => logRows = <<>>
    /\ ListSelected => \E n \in 0..logSeen : LoadedTo(n) /\ (n < logSeen => logFailed)

\* A list that a load made is what the controls ask for.
LEMMA ListOfLoad ==
    ASSUME LogTypeOK, logSeen <= Len(logStore), ListSelected, NEW n \in 0..logSeen, LoadedTo(n),
           n < logSeen => logFailed
    PROVE  ListShowsSelection
<1> DEFINE entries == SubSeq(logStore, 1, n)
<1>1. /\ logStore \in Seq(LogEntries) /\ Len(logStore) \in Nat /\ logSeen \in Nat /\ logSeen <= Len(logStore)
      /\ logLimit \in Nat /\ n \in Nat /\ n <= logSeen
  BY LogConstants DEF LogTypeOK
<1>2. /\ entries \in Seq(LogEntries) /\ Len(entries) = n
      /\ \A k \in 1..n : entries[k] = logStore[k] /\ logStore[k] \in LogEntries
  BY <1>1
<1>a. PICK asked : AskedBy(logChosen, logStore, logSeen, asked) /\ Asked = asked[logSeen]
  BY AskedLoop
<1>3. /\ asked \in [0..logSeen -> Seq(LogEntries)] /\ asked[0] = <<>> /\ Asked = asked[logSeen]
      /\ \A k \in 1..logSeen :
           asked[k] = IF Matches(logChosen, logStore[k]) THEN Append(asked[k - 1], logStore[k])
                      ELSE asked[k - 1]
  BY <1>a DEF AskedBy
<1> HIDE DEF entries
<1>b. logRows = Loaded(logChosen, logLimit, entries) /\ logChosen.source /\ logChosen.boot
  BY DEF LoadedTo, ListSelected, entries
<1>c. PICK rows : LoadedBy(logChosen, logLimit, entries, rows) /\ logRows = rows[Len(entries)]
  BY <1>2, <1>b, LoadedLoop
<1>4. /\ rows \in [0..n -> Seq(Row)] /\ rows[0] = <<>> /\ logRows = rows[n]
      /\ \A k \in 1..n : rows[k] = AddRow(logChosen, logLimit, rows[k - 1], entries[k])
  BY <1>2, <1>c DEF LoadedBy
<1> DEFINE T == {k \in 0..n : Cut(logLimit, rows[k], asked[k])}
<1>5. 0 \in T
  BY <1>1, <1>3, <1>4 DEF Cut
<1>6. ASSUME NEW k \in 1..n, k - 1 \in T PROVE k \in T
  <2>1. k - 1 \in 0..n /\ k - 1 \in 0..logSeen /\ k \in 1..logSeen /\ Cut(logLimit, rows[k - 1], asked[k - 1])
    BY <1>1, <1>6
  <2>2. rows[k - 1] \in Seq(Row) /\ asked[k - 1] \in Seq(LogEntries)
    BY <1>3, <1>4, <2>1
  <2>3. rows[k] = AddRow(logChosen, logLimit, rows[k - 1], logStore[k]) /\ logStore[k] \in LogEntries
    BY <1>2, <1>4
  <2>4. asked[k] = IF Matches(logChosen, logStore[k]) THEN Append(asked[k - 1], logStore[k]) ELSE asked[k - 1]
    BY <1>3, <2>1
  <2>5. Cut(logLimit, rows[k], asked[k])
    BY <1>1, <2>1, <2>2, <2>3, <2>4, CutStep
  <2> QED
    BY <2>5
<1> HIDE DEF T
<1>7. 0..n \subseteq T
  BY <1>1, <1>5, <1>6, BoundedInduction
<1>8. Cut(logLimit, logRows, asked[n]) /\ logRows \in Seq(Row) /\ asked[n] \in Seq(LogEntries)
  BY <1>1, <1>3, <1>4, <1>7 DEF T
<1> DEFINE U == {k \in 0..logSeen : k >= n => Begins(asked[n], asked[k])}
<1>9. 0 \in U
  BY <1>1, <1>8 DEF Begins
<1>10. ASSUME NEW k \in 1..logSeen, k - 1 \in U PROVE k \in U
  <2> SUFFICES ASSUME k >= n PROVE Begins(asked[n], asked[k])
    OBVIOUS
  <2>1. CASE k = n
    BY <1>8, <2>1 DEF Begins
  <2>2. CASE k > n
    <3>1. k - 1 \in 0..logSeen /\ k - 1 >= n /\ Begins(asked[n], asked[k - 1])
      BY <1>1, <1>10, <2>2
    <3>2. asked[k - 1] \in Seq(LogEntries) /\ logStore[k] \in LogEntries
      BY <1>1, <1>3, <3>1
    <3>3. asked[k] = IF Matches(logChosen, logStore[k]) THEN Append(asked[k - 1], logStore[k]) ELSE asked[k - 1]
      BY <1>3
    <3> DEFINE s == asked[n]
               t == asked[k - 1]
               e == logStore[k]
    <3>4. s \in Seq(LogEntries) /\ t \in Seq(LogEntries) /\ Begins(s, t)
      BY <1>8, <3>1, <3>2
    <3>5. Begins(s, Append(t, e))
      <4> HIDE DEF s, t, e
      <4>1. Len(Append(t, e)) = Len(t) + 1 /\ \A i \in 1..Len(t) : Append(t, e)[i] = t[i]
        BY <3>4
      <4>2. Len(s) \in Nat /\ Len(t) \in Nat
        BY <3>4
      <4> QED
        BY <3>4, <4>1, <4>2 DEF Begins
    <3> QED
      BY <3>1, <3>3, <3>5
  <2> QED
    BY <1>1, <2>1, <2>2
<1> HIDE DEF U
<1>11. 0..logSeen \subseteq U
  BY <1>1, <1>9, <1>10, BoundedInduction
<1>12. Begins(asked[n], Asked) /\ Asked \in Seq(LogEntries)
  BY <1>1, <1>3, <1>11 DEF U
<1>13. CASE Len(asked[n]) <= logLimit + 1
  <2>1. logRows = asked[n]
    BY <1>8, <1>13 DEF Cut
  <2>2. ~Stopped(logRows)
    <3> SUFFICES ASSUME logRows # <<>> PROVE logRows[Len(logRows)] # More
      BY DEF Stopped, Last
    <3>1. logRows[Len(logRows)] \in LogEntries
      BY <1>8, <2>1
    <3> QED
      BY <3>1, RowKinds
  <2>3. IsPrefix(logRows, Asked)
    BY <1>8, <1>12, <2>1, BeginsIsPrefix
  <2>4. logRows = Asked \/ logFailed
    BY <1>1, <1>3, <2>1
  <2> QED
    BY <2>2, <2>3, <2>4 DEF ListShowsSelection, ListSelected
<1>14. CASE Len(asked[n]) > logLimit + 1
  <2>1. /\ Len(logRows) = logLimit + 2 /\ logRows[logLimit + 2] = More
        /\ \A i \in 1..(logLimit + 1) : logRows[i] = asked[n][i]
    BY <1>1, <1>8, <1>14 DEF Cut
  <2>2. Stopped(logRows)
    BY <1>1, <1>8, <2>1 DEF Stopped, Last
  <2>3. /\ Front(logRows) \in Seq(Row) /\ Len(Front(logRows)) = logLimit + 1
        /\ \A i \in 1..(logLimit + 1) : Front(logRows)[i] = logRows[i]
    BY <1>1, <1>8, <2>1 DEF Front
  <2>4. /\ Len(asked[n]) \in Nat /\ Len(Asked) \in Nat /\ Len(asked[n]) <= Len(Asked)
        /\ \A i \in 1..Len(asked[n]) : asked[n][i] = Asked[i]
    BY <1>8, <1>12 DEF Begins
  <2>5. Begins(Front(logRows), Asked) /\ Asked \in Seq(Row) /\ Len(Front(logRows)) # Len(Asked)
    <3>1. ASSUME NEW i \in 1..(logLimit + 1) PROVE Front(logRows)[i] = Asked[i]
      <4>1. i \in 1..Len(asked[n])
        BY <1>1, <1>14, <2>4
      <4>2. Front(logRows)[i] = logRows[i] /\ logRows[i] = asked[n][i] /\ asked[n][i] = Asked[i]
        BY <2>1, <2>3, <2>4, <4>1
      <4> QED
        BY <4>2
    <3>2. Asked \in Seq(Row)
      BY <1>12 DEF Row
    <3> QED
      BY <1>1, <1>14, <2>3, <2>4, <3>1, <3>2 DEF Begins
  <2>6. IsStrictPrefix(Front(logRows), Asked)
    BY <2>3, <2>5, BeginsIsPrefix DEF IsStrictPrefix
  <2> QED
    BY <2>1, <2>2, <2>6 DEF ListShowsSelection, ListSelected
<1> QED
  BY <1>1, <1>8, <1>13, <1>14

LEMMA ListShown == ListInv => ListShowsSelection
  BY ListOfLoad DEF ListInv, ListSelected, ListShowsSelection

\* A load lists a beginning of the log.
LEMMA LoadList ==
    ASSUME LogTypeOK, NEW c \in Controls, NEW limit \in Nat, NEW n \in ReadTo(c), LoadWith(c, limit, n)
    PROVE  /\ n \in 0..Len(logStore) /\ logRows' \in Seq(Row)
           /\ logRows' = Loaded(c, limit, SubSeq(logStore, 1, n))
           /\ ~(c.source /\ c.boot) => logRows' = <<>>
           /\ logFailed' = (n < Len(logStore)) /\ logSeen' = Len(logStore)
<1>1. logStore \in Seq(LogEntries) /\ Len(logStore) \in Nat
  BY DEF LogTypeOK
<1>2. n \in 0..Len(logStore)
  BY <1>1 DEF ReadTo
<1>3. SubSeq(logStore, 1, n) \in Seq(LogEntries)
  BY <1>1, <1>2
<1>4. c.source \in BOOLEAN /\ c.boot \in BOOLEAN
  BY DEF Controls
<1>5. /\ logRows' = Loaded(c, limit, SubSeq(logStore, 1, n))
      /\ logFailed' = (n < Len(logStore)) /\ logSeen' = Len(logStore)
  BY DEF LoadWith
<1>6. logRows' \in Seq(Row)
  BY <1>3, <1>4, <1>5, LoadedType
<1>7. ~(c.source /\ c.boot) => logRows' = <<>>
  BY <1>5 DEF Loaded
<1> QED
  BY <1>2, <1>5, <1>6, <1>7

LEMMA FreshControls == \A boot \in BOOLEAN : Fresh(boot) \in Controls /\ ~Fresh(boot).source
  BY DEF Fresh, Controls, Levels

LEMMA InitList == LogInit => ListInv
<1> SUFFICES ASSUME LogInit PROVE ListInv
  OBVIOUS
<1>1. logOpen \in BOOLEAN /\ ~logOpen
  BY DEF LogInit
<1>2. logFailed \in BOOLEAN
  BY DEF LogInit
<1>3. /\ logStore \in Seq(LogEntries) /\ Len(logStore) = 0 /\ logSeen = 0 /\ logRows = <<>>
      /\ logRows \in Seq(LogEntries \cup {More}) /\ logLimit = DefaultLimit
  BY DEF LogInit
<1>4. logChosen \in Controls
  BY FreshControls DEF LogInit
<1>5. LogTypeOK
  BY <1>1, <1>2, <1>3, <1>4, LogConstants DEF LogTypeOK
<1> QED
  BY <1>1, <1>3, <1>5 DEF ListInv, ListSelected

\* The dialog lists nothing before a source is selected.
LEMMA ShowList ==
    ASSUME ListInv, NEW boot \in BOOLEAN, NEW limit \in LogLimits, LogShow(boot, limit)
    PROVE  ListInv'
<1>1. /\ LogTypeOK /\ Len(logStore) \in Nat /\ Len(logStore) <= MaxLog /\ logStore' = logStore
  BY DEF ListInv, LogTypeOK, LogShow
<1>2. Len(logStore) \in ReadTo(Fresh(boot))
  BY <1>1 DEF ReadTo
<1>3. /\ Fresh(boot) \in Controls /\ ~Fresh(boot).source /\ DefaultLimit \in Nat
      /\ LoadWith(Fresh(boot), DefaultLimit, Len(logStore))
  BY FreshControls, LogConstants DEF LogShow
<1>4. /\ logRows' \in Seq(Row) /\ logRows' = <<>> /\ logSeen' = Len(logStore)
      /\ logFailed' = (Len(logStore) < Len(logStore))
  BY <1>1, <1>2, <1>3, LoadList
<1>5. logOpen' \in BOOLEAN /\ logFailed' \in BOOLEAN /\ logChosen' = Fresh(boot) /\ logLimit' = limit
  BY <1>4 DEF LogShow
<1>6. LogTypeOK'
  BY <1>1, <1>3, <1>4, <1>5, LogConstants DEF LogTypeOK, Row
<1> QED
  BY <1>1, <1>3, <1>4, <1>5, <1>6 DEF ListInv, ListSelected

\* A changed control lists the log anew.
LEMMA ControlList ==
    ASSUME ListInv, NEW c \in Controls, NEW n \in 0..MaxLog, LogControl(c, n)
    PROVE  ListInv'
<1>1. /\ LogTypeOK /\ Len(logStore) \in Nat /\ Len(logStore) <= MaxLog /\ logStore' = logStore
      /\ logOpen' = logOpen /\ logLimit' = logLimit /\ logChosen' = c
  BY DEF ListInv, LogTypeOK, LogControl
<1>2. n \in ReadTo(c) /\ LoadWith(c, logLimit, n) /\ logLimit \in Nat
  BY LogConstants DEF LogControl, ListInv, LogTypeOK
<1>3. /\ n \in 0..Len(logStore) /\ logRows' \in Seq(Row)
      /\ logRows' = Loaded(c, logLimit, SubSeq(logStore, 1, n))
      /\ ~(c.source /\ c.boot) => logRows' = <<>>
      /\ logFailed' = (n < Len(logStore)) /\ logSeen' = Len(logStore)
  BY <1>1, <1>2, LoadList
<1>4. logFailed' \in BOOLEAN
  BY <1>3
<1>5. LogTypeOK'
  BY <1>1, <1>3, <1>4 DEF LogTypeOK, Row
<1>6. ~ListSelected' => logRows' = <<>>
  <2>1. ~logOpen => FALSE
    BY DEF LogControl
  <2> QED
    BY <1>1, <1>3, <2>1 DEF ListSelected
<1>7. n \in 0..logSeen' /\ LoadedTo(n)' /\ (n < logSeen' => logFailed')
  BY <1>1, <1>3 DEF LoadedTo
<1>8. \E m \in 0..logSeen' : LoadedTo(m)' /\ (m < logSeen' => logFailed')
  BY <1>7
<1> QED
  BY <1>1, <1>3, <1>5, <1>6, <1>8 DEF ListInv

\* What is written later is listed by a later load.
LEMMA WrittenList == ASSUME ListInv, NEW e \in LogEntries, LogWritten(e) PROVE ListInv'
<1>1. /\ logStore \in Seq(LogEntries) /\ Len(logStore) \in Nat /\ logSeen \in Nat /\ logSeen <= Len(logStore)
      /\ LogTypeOK
  BY DEF ListInv, LogTypeOK
<1>2. /\ logStore' = Append(logStore, e) /\ Len(logStore) < MaxLog
      /\ UNCHANGED <<logOpen, logChosen, logLimit, logRows, logFailed, logSeen>>
  BY DEF LogWritten
<1>3. /\ logStore' \in Seq(LogEntries) /\ Len(logStore') = Len(logStore) + 1
      /\ \A i \in 1..Len(logStore) : logStore'[i] = logStore[i]
  BY <1>1, <1>2
<1>4. LogTypeOK'
  BY <1>1, <1>2, <1>3, LogConstants DEF LogTypeOK
<1>5. ASSUME NEW n \in 0..logSeen PROVE SubSeq(logStore', 1, n) = SubSeq(logStore, 1, n)
  <2>1. n \in Nat /\ n <= Len(logStore)
    BY <1>1
  <2>2. /\ SubSeq(logStore', 1, n) \in Seq(LogEntries) /\ Len(SubSeq(logStore', 1, n)) = n
        /\ SubSeq(logStore, 1, n) \in Seq(LogEntries) /\ Len(SubSeq(logStore, 1, n)) = n
    BY <1>1, <1>3, <2>1
  <2>3. \A i \in 1..n : SubSeq(logStore', 1, n)[i] = SubSeq(logStore, 1, n)[i]
    BY <1>1, <1>3, <2>1
  <2> DEFINE after == SubSeq(logStore', 1, n)
             before == SubSeq(logStore, 1, n)
  <2>4. /\ after \in Seq(LogEntries) /\ before \in Seq(LogEntries) /\ Len(after) = Len(before)
        /\ \A i \in 1..Len(after) : after[i] = before[i]
    BY <2>2, <2>3
  <2> HIDE DEF after, before
  <2>5. after = before
    BY <2>4, SameElements
  <2> QED
    BY <2>5 DEF after, before
<1>6. ListSelected' = ListSelected /\ (~ListSelected' => logRows' = <<>>)
  BY <1>2 DEF ListInv, ListSelected
<1>7. ASSUME ListSelected PROVE \E n \in 0..logSeen' : LoadedTo(n)' /\ (n < logSeen' => logFailed')
  <2>1. PICK n \in 0..logSeen : LoadedTo(n) /\ (n < logSeen => logFailed)
    BY <1>7 DEF ListInv
  <2> QED
    BY <1>2, <1>5, <2>1 DEF LoadedTo
<1> QED
  BY <1>1, <1>2, <1>3, <1>4, <1>6, <1>7 DEF ListInv

\* A closed dialog lists nothing.
LEMMA CloseList == ASSUME ListInv, LogClose PROVE ListInv'
<1>1. /\ logRows' = <<>> /\ logSeen' = 0 /\ logLimit' = DefaultLimit
      /\ logRows' \in Seq(LogEntries \cup {More}) /\ logStore' = logStore
  BY DEF LogClose
<1>2. logOpen' \in BOOLEAN /\ ~logOpen'
  BY DEF LogClose
<1>3. logFailed' \in BOOLEAN
  BY DEF LogClose
<1>4. logChosen' \in Controls
  BY FreshControls DEF LogClose
<1>5. logStore \in Seq(LogEntries) /\ Len(logStore) \in Nat /\ Len(logStore) <= MaxLog
  BY DEF ListInv, LogTypeOK
<1>6. LogTypeOK'
  BY <1>1, <1>2, <1>3, <1>4, <1>5, LogConstants DEF LogTypeOK
<1> QED
  BY <1>1, <1>2, <1>5, <1>6 DEF ListInv, ListSelected

LEMMA NextList == ListInv /\ [LogNext]_logVars => ListInv'
<1> SUFFICES ASSUME ListInv, [LogNext]_logVars PROVE ListInv'
  OBVIOUS
<1>1. CASE UNCHANGED logVars
  BY <1>1 DEF logVars, ListInv, LogTypeOK, ListSelected, LoadedTo
<1> QED
  BY <1>1, ShowList, ControlList, CloseList, WrittenList DEF LogNext

LEMMA ListAlways == LogSpec => []ListInv
  BY InitList, NextList, PTL DEF LogSpec

\* The log, the controls and the rows of the log view keep their form, for any limits.
THEOREM LogTypeCorrect == LogSpec => []LogTypeOK
<1>1. ListInv => LogTypeOK
  BY DEF ListInv
<1> QED
  BY <1>1, ListAlways, PTL

\* The list has exactly the entries that the controls ask for, in their order and up to the
\* limit, whatever is written to the log while it is shown and wherever a load breaks off.
THEOREM ListIsSelection == LogSpec => []ListShowsSelection
  BY ListShown, ListAlways, PTL

-----------------------------------------------------------------------------
(***************************************************************************)
(* The search for the keyboard is always at a setting, an interface and a   *)
(* configuration that its device has, and from an opened device on it has  *)
(* a handle, so that a claim is of a handle that was opened.               *)
(***************************************************************************)
Where ==
    /\ goAt \in [dev : OpenDevs, conf : Nat, intf : Nat, alt : Nat]
    /\ goAt.dev \in OpenDevs /\ goAt.conf \in 1..Len(G15Devices[goAt.dev].configs)
    /\ (goMode \in {"setting", "claim"} => goAt.intf \in DOMAIN Config /\ goAt.alt \in DOMAIN Config[goAt.intf])
    /\ goMode \in {"closed", "device", "config", "setting", "claim", "open"}
Handled == goMode \in {"config", "setting", "claim", "open"} => goHandle >= 1

Bus ==
    /\ goPlugged \subseteq OpenDevs
    /\ goKernel \subseteq OpenDevs \X Interfaces /\ goOther \subseteq OpenDevs \X Interfaces
    /\ goClaims \subseteq (1..MaxHandles) \X OpenDevs \X Interfaces
    /\ goHandle \in 0..MaxHandles /\ goRetries \in 0..MaxClaimRetry
    /\ goInterface \in Interfaces
Flags == goStale \in BOOLEAN /\ goActive \in BOOLEAN /\ goKeys \in BOOLEAN /\ goLcd \in BOOLEAN /\ goShared \in BOOLEAN

SearchTyped == Bus /\ Flags /\ Where /\ Handled

LEMMA TypeOfSearch == SearchTyped => OpenTypeOK
  BY DEF SearchTyped, Bus, Flags, Where, OpenTypeOK

-----------------------------------------------------------------------------
\* The table of devices has the form of USB descriptors.
LEMMA DeviceForm ==
    ASSUME NEW d \in OpenDevs
    PROVE  /\ G15Devices[d].configs \in Seq(KeyboardConfig) /\ G15Devices[d].shared \in BOOLEAN
           /\ Len(G15Devices[d].configs) \in Nat \ {0}
<1>1. G15Devices[d] \in KeyboardDevice
  BY OpenConstants DEF OpenDevs
<1>2. G15Devices[d].configs \in Seq(KeyboardConfig) \ {<<>>} /\ G15Devices[d].shared \in BOOLEAN
  BY <1>1 DEF KeyboardDevice
<1>3. \A S : \A s \in Seq(S) \ {<<>>} : Len(s) \in Nat \ {0}
  OBVIOUS
<1> QED
  BY <1>2, <1>3

LEMMA ConfigForm ==
    ASSUME NEW d \in OpenDevs, NEW n \in 1..Len(G15Devices[d].configs)
    PROVE  LET config == G15Devices[d].configs[n] IN
           /\ Len(config) \in Nat \ {0} /\ DOMAIN config = 1..Len(config)
           /\ \A i \in DOMAIN config :
                /\ config[i] \in Seq(KeyboardSetting)
                /\ Len(config[i]) \in Nat \ {0} /\ DOMAIN config[i] = 1..Len(config[i])
<1> DEFINE configs == G15Devices[d].configs
           config == configs[n]
           X == Seq(KeyboardSetting) \ {<<>>}
<1>1. config \in KeyboardConfig
  BY DeviceForm
<1> HIDE DEF config
<1>2. config \in Seq(X) \ {<<>>}
  BY <1>1 DEF KeyboardConfig
<1>3. \A S : \A s \in Seq(S) \ {<<>>} : Len(s) \in Nat \ {0} /\ DOMAIN s = 1..Len(s)
  OBVIOUS
<1>4. \A S : \A s \in Seq(S) : \A i \in DOMAIN s : s[i] \in S
  OBVIOUS
<1> HIDE DEF X
<1>5. Len(config) \in Nat \ {0} /\ DOMAIN config = 1..Len(config) /\ \A i \in DOMAIN config : config[i] \in X
  BY <1>2, <1>3, <1>4
<1>6. \A i \in DOMAIN config : config[i] \in Seq(KeyboardSetting) \ {<<>>}
  BY <1>5 DEF X
<1>7. \A i \in DOMAIN config : Len(config[i]) \in Nat \ {0} /\ DOMAIN config[i] = 1..Len(config[i])
  BY <1>3, <1>6
<1> QED
  BY <1>5, <1>6, <1>7 DEF config

LEMMA FirstDevice ==
    /\ 1 \in OpenDevs /\ OpenDevs = 1..Len(G15Devices) /\ Len(G15Devices) \in Nat
    /\ 1 \in Interfaces
    /\ \A d \in OpenDevs : 1 \in 1..Len(G15Devices[d].configs)
<1>1. 1 \in OpenDevs /\ OpenDevs = 1..Len(G15Devices) /\ Len(G15Devices) \in Nat
  <2>1. \A S : \A s \in Seq(S) \ {<<>>} : Len(s) \in Nat \ {0} /\ DOMAIN s = 1..Len(s)
    OBVIOUS
  <2>2. Len(G15Devices) \in Nat \ {0} /\ DOMAIN G15Devices = 1..Len(G15Devices)
    BY <2>1, OpenConstants
  <2> QED
    BY <2>2 DEF OpenDevs
<1>2. \A d \in OpenDevs : 1 \in 1..Len(G15Devices[d].configs)
  BY DeviceForm
<1>3. 1 \in DOMAIN G15Devices[1].configs[1]
  <2>1. Len(G15Devices[1].configs[1]) \in Nat \ {0}
        /\ DOMAIN G15Devices[1].configs[1] = 1..Len(G15Devices[1].configs[1])
    BY <1>1, <1>2, ConfigForm
  <2> QED
    BY <2>1
<1>4. 1 \in DOMAIN G15Devices[1].configs
  BY <1>1, <1>2, DeviceForm
<1>5. 1 \in Interfaces
  BY <1>1, <1>3, <1>4 DEF Interfaces
<1> QED
  BY <1>1, <1>2, <1>5

\* The interfaces of a configuration are interfaces of its device.
LEMMA InterfaceForm ==
    ASSUME NEW d \in OpenDevs, NEW n \in 1..Len(G15Devices[d].configs), NEW i \in DOMAIN G15Devices[d].configs[n]
    PROVE  i \in Interfaces
<1>1. DOMAIN G15Devices[d].configs = 1..Len(G15Devices[d].configs)
  BY DeviceForm
<1> QED
  BY <1>1 DEF Interfaces

LEMMA InterfacesType == ASSUME NEW d \in OpenDevs PROVE InterfacesOf(d) \subseteq OpenDevs \X Interfaces
  BY DEF InterfacesOf, Interfaces

LEMMA InitOpen == OpenInit => SearchTyped
<1> SUFFICES ASSUME OpenInit PROVE SearchTyped
  OBVIOUS
<1>1. goAt = [dev |-> 1, conf |-> 1, intf |-> 1, alt |-> 1]
  BY DEF OpenInit, Start
<1>2. Where /\ Handled
  BY <1>1, FirstDevice DEF OpenInit, Where, Handled
<1>3. Flags
  BY DEF OpenInit, Flags
<1>4. goHandle \in 0..MaxHandles /\ goRetries \in 0..MaxClaimRetry
  BY OpenConstants DEF OpenInit
<1>5. Bus
  BY <1>4, FirstDevice DEF OpenInit, Bus
<1> QED
  BY <1>2, <1>3, <1>5 DEF SearchTyped

-----------------------------------------------------------------------------
\* Each of the loops goes on within the table.
LEMMA NextDeviceWhere == ASSUME Where, NextDevice PROVE Where' /\ goMode' \in {"device", "closed"}
<1>1. CASE goAt.dev < Len(G15Devices)
  <2>1. goMode' = "device" /\ goAt' = [dev |-> goAt.dev + 1, conf |-> 1, intf |-> 1, alt |-> 1]
    BY <1>1 DEF NextDevice, Start
  <2>2. goAt.dev + 1 \in OpenDevs
    BY <1>1, FirstDevice DEF Where
  <2> QED
    BY <2>1, <2>2, FirstDevice DEF Where
<1>2. CASE ~(goAt.dev < Len(G15Devices))
  BY <1>2 DEF NextDevice, Where
<1> QED
  BY <1>1, <1>2

LEMMA NextConfigWhere == ASSUME Where, NextConfig PROVE Where' /\ goMode' \in {"config", "open"}
<1>1. CASE goAt.conf < Len(G15Devices[goAt.dev].configs)
  <2>1. goMode' = "config" /\ goAt' = [goAt EXCEPT !.conf = @ + 1]
    BY <1>1 DEF NextConfig
  <2>2. /\ goAt' \in [dev : OpenDevs, conf : Nat, intf : Nat, alt : Nat]
        /\ goAt'.dev = goAt.dev /\ goAt'.conf = goAt.conf + 1
    BY <2>1 DEF Where
  <2>3. goAt.conf + 1 \in 1..Len(G15Devices[goAt.dev].configs)
    BY <1>1, DeviceForm DEF Where
  <2> QED
    BY <2>1, <2>2, <2>3 DEF Where
<1>2. CASE ~(goAt.conf < Len(G15Devices[goAt.dev].configs))
  BY <1>2 DEF NextConfig, Where
<1> QED
  BY <1>1, <1>2

\* What the search reads at its place.
LEMMA AtConfig ==
    ASSUME Where
    PROVE  /\ Len(Config) \in Nat \ {0} /\ DOMAIN Config = 1..Len(Config)
           /\ \A i \in DOMAIN Config :
                /\ Config[i] \in Seq(KeyboardSetting)
                /\ Len(Config[i]) \in Nat \ {0} /\ DOMAIN Config[i] = 1..Len(Config[i])
<1>1. goAt.dev \in OpenDevs /\ goAt.conf \in 1..Len(G15Devices[goAt.dev].configs)
  BY DEF Where
<1> QED
  BY <1>1, ConfigForm DEF Config

\* At a setting it reads an interface of the device.
LEMMA AtSetting ==
    ASSUME Where, goMode \in {"setting", "claim"}
    PROVE  /\ Len(Config) \in Nat \ {0} /\ DOMAIN Config = 1..Len(Config)
           /\ goAt.intf \in DOMAIN Config /\ goAt.intf \in Interfaces
           /\ goAt.dev \in OpenDevs /\ Target \in OpenDevs \X Interfaces
           /\ \A i \in DOMAIN Config : Len(Config[i]) \in Nat \ {0} /\ DOMAIN Config[i] = 1..Len(Config[i])
           /\ goAt.alt \in DOMAIN Config[goAt.intf]
           /\ Setting.keys \in BOOLEAN /\ Setting.lcd \in BOOLEAN
<1>1. /\ goAt.dev \in OpenDevs /\ goAt.conf \in 1..Len(G15Devices[goAt.dev].configs)
      /\ goAt.intf \in DOMAIN Config /\ goAt.alt \in DOMAIN Config[goAt.intf]
  BY DEF Where
<1>2. /\ Len(Config) \in Nat \ {0} /\ DOMAIN Config = 1..Len(Config)
      /\ \A i \in DOMAIN Config :
           /\ Config[i] \in Seq(KeyboardSetting)
           /\ Len(Config[i]) \in Nat \ {0} /\ DOMAIN Config[i] = 1..Len(Config[i])
  BY AtConfig
<1>3. goAt.intf \in Interfaces
  BY <1>1, InterfaceForm DEF Config
<1>4. Setting \in KeyboardSetting
  <2> DEFINE settings == Config[goAt.intf]
  <2>1. settings \in Seq(KeyboardSetting) /\ goAt.alt \in DOMAIN settings
    BY <1>1, <1>2
  <2> HIDE DEF settings
  <2>2. settings[goAt.alt] \in KeyboardSetting
    BY <2>1
  <2> QED
    BY <2>2 DEF settings, Setting
<1>5. Setting.keys \in BOOLEAN /\ Setting.lcd \in BOOLEAN
  BY <1>4 DEF KeyboardSetting
<1> QED
  BY <1>1, <1>2, <1>3, <1>5 DEF Target

LEMMA NextSettingWhere ==
    ASSUME Where, goMode \in {"setting", "claim"}, NEW ACTION keys, NEW ACTION lcd, NextSetting(keys, lcd)
    PROVE  Where' /\ goMode' \in {"setting", "config", "open"}
<1>1. goAt \in [dev : OpenDevs, conf : Nat, intf : Nat, alt : Nat]
  BY DEF Where
<1>2. goAt.dev \in OpenDevs /\ goAt.conf \in 1..Len(G15Devices[goAt.dev].configs)
  BY DEF Where
<1>3. CASE goMode' = "setting" /\ goAt' = [goAt EXCEPT !.alt = @ + 1] /\ goAt.alt < Len(Config[goAt.intf])
  <2>1. /\ goAt' \in [dev : OpenDevs, conf : Nat, intf : Nat, alt : Nat] /\ goAt'.dev = goAt.dev
        /\ goAt'.conf = goAt.conf /\ goAt'.intf = goAt.intf /\ goAt'.alt = goAt.alt + 1
    BY <1>1, <1>3
  <2>2. Config' = Config
    BY <2>1 DEF Config
  <2>3. goAt.alt + 1 \in DOMAIN Config[goAt.intf]
    BY <1>3, AtSetting
  <2> QED
    BY <1>2, <1>3, <2>1, <2>2, <2>3, AtSetting DEF Where
<1>4. CASE goMode' = "setting" /\ goAt' = [goAt EXCEPT !.intf = @ + 1, !.alt = 1] /\ goAt.intf < Len(Config)
  <2>1. /\ goAt' \in [dev : OpenDevs, conf : Nat, intf : Nat, alt : Nat] /\ goAt'.dev = goAt.dev
        /\ goAt'.conf = goAt.conf /\ goAt'.intf = goAt.intf + 1 /\ goAt'.alt = 1
    <3> DEFINE first == [goAt EXCEPT !.intf = @ + 1]
    <3>1. goAt' = [first EXCEPT !.alt = 1]
      BY <1>4
    <3>2. /\ first \in [dev : OpenDevs, conf : Nat, intf : Nat, alt : Nat]
          /\ first.dev = goAt.dev /\ first.conf = goAt.conf /\ first.intf = goAt.intf + 1
      BY <1>1
    <3> HIDE DEF first
    <3> QED
      BY <3>1, <3>2
  <2>2. Config' = Config
    BY <2>1 DEF Config
  <2>3. goAt.intf + 1 \in DOMAIN Config
    BY <1>4, AtSetting
  <2>4. 1 \in DOMAIN Config[goAt.intf + 1]
    BY <2>3, AtSetting
  <2> QED
    BY <1>2, <1>4, <2>1, <2>2, <2>3, <2>4 DEF Where
<1>5. CASE NextConfig
  BY <1>5, NextConfigWhere
<1> QED
  BY <1>3, <1>4, <1>5 DEF NextSetting

-----------------------------------------------------------------------------
\* What is plugged, unplugged or claimed by others leaves the search at its place.
LEMMA BusTyped ==
    ASSUME SearchTyped, NEW d \in OpenDevs,
           Plug(d) \/ Unplug(d) \/ \E t \in InterfacesOf(d) : OtherClaims(t) \/ OtherReleases(t)
    PROVE  SearchTyped'
<1>1. UNCHANGED <<goMode, goAt, goHandle, goActive, goRetries, goKeys, goLcd, goInterface, goShared>>
  BY DEF Plug, Unplug, OtherClaims, OtherReleases, openFound
<1>2. Where' /\ Handled'
  BY <1>1 DEF SearchTyped, Where, Handled, Config
<1>3. goPlugged' \subseteq OpenDevs
  BY DEF Plug, Unplug, OtherClaims, OtherReleases, SearchTyped, Bus
<1>4. goKernel' \subseteq OpenDevs \X Interfaces /\ goOther' \subseteq OpenDevs \X Interfaces /\ goClaims' \subseteq goClaims
  BY InterfacesType DEF Plug, Unplug, OtherClaims, OtherReleases, SearchTyped, Bus
<1>5. Flags'
  <2>1. goStale' \in BOOLEAN
    BY DEF Plug, Unplug, OtherClaims, OtherReleases, SearchTyped, Flags
  <2> QED
    BY <1>1, <2>1 DEF SearchTyped, Flags
<1> QED
  BY <1>1, <1>2, <1>3, <1>4, <1>5 DEF SearchTyped, Bus

\* A step of the search leaves every handle but its own.
LEMMA ClaimOfPlace ==
    ASSUME SearchTyped, goMode \in {"setting", "claim"}
    PROVE  /\ Claim \subseteq (1..MaxHandles) \X OpenDevs \X Interfaces
           /\ Released \subseteq (1..MaxHandles) \X OpenDevs \X Interfaces
           /\ Reattached \subseteq OpenDevs \X Interfaces
<1>1. /\ Target \in OpenDevs \X Interfaces /\ goAt.dev \in OpenDevs /\ goAt.intf \in Interfaces
  BY AtSetting DEF SearchTyped
<1>2. goHandle \in 1..MaxHandles
  BY DEF SearchTyped, Handled, Bus
<1> QED
  BY <1>1, <1>2 DEF SearchTyped, Bus, Claim, Released, Reattached

\* The steps of the search.
LEMMA SearchTypedNext ==
    ASSUME SearchTyped,
           OpenStart \/ DeviceAbsent \/ DeviceOpened \/ ConfigSkipped \/ ConfigRead
           \/ SettingSkipped \/ SettingTaken \/ ClaimRetried \/ ClaimFailed
    PROVE  SearchTyped'
<1> USE DEF SearchTyped
<1>1. CASE OpenStart
  <2>1. Where' /\ Handled'
    BY <1>1, FirstDevice DEF OpenStart, Start, Where, Handled
  <2> QED
    BY <1>1, <2>1 DEF OpenStart, openFound, Bus, Flags
<1>2. CASE DeviceAbsent
  <2>1. Where' /\ goMode' \in {"device", "closed"}
    BY <1>2, NextDeviceWhere DEF DeviceAbsent
  <2> QED
    BY <1>2, <2>1 DEF DeviceAbsent, openBus, openFound, Bus, Flags, Handled
<1>3. CASE DeviceOpened
  <2>1. goHandle' \in 1..MaxHandles
    BY <1>3, OpenConstants DEF DeviceOpened, Bus
  <2>2. Where'
    <3>1. CASE Dropped
      BY <3>1, NextDeviceWhere DEF Dropped
    <3>2. CASE goMode' = "config" /\ goAt' = goAt
      BY <3>2 DEF Where
    <3> QED
      BY <1>3, <3>1, <3>2 DEF DeviceOpened
  <2>3. Flags'
    <3>1. goShared' \in BOOLEAN
      BY <1>3, DeviceForm DEF DeviceOpened, Flags, Where
    <3> QED
      BY <1>3, <3>1 DEF DeviceOpened, Flags
  <2>4. Bus'
    BY <1>3, <2>1 DEF DeviceOpened, Bus
  <2> QED
    BY <2>1, <2>2, <2>3, <2>4 DEF Handled
<1>4. CASE ConfigSkipped
  <2>1. Where' /\ goHandle >= 1
    BY <1>4, NextConfigWhere DEF ConfigSkipped, Handled
  <2> QED
    BY <1>4, <2>1 DEF ConfigSkipped, openBus, openFound, Bus, Flags, Handled
<1>5. CASE ConfigRead
  <2>1. goAt' = [goAt EXCEPT !.intf = 1, !.alt = 1] /\ goMode' = "setting" /\ goHandle >= 1
    BY <1>5 DEF ConfigRead, Handled
  <2>2. /\ goAt' \in [dev : OpenDevs, conf : Nat, intf : Nat, alt : Nat]
        /\ goAt'.dev = goAt.dev /\ goAt'.conf = goAt.conf /\ goAt'.intf = 1 /\ goAt'.alt = 1
    BY <2>1 DEF Where
  <2>3. Config' = G15Devices[goAt.dev].configs[goAt.conf]
    BY <2>2 DEF Config
  <2>4. 1 \in DOMAIN Config' /\ 1 \in DOMAIN Config'[1]
    <3> DEFINE config == G15Devices[goAt.dev].configs[goAt.conf]
    <3>1. Len(Config) \in Nat \ {0} /\ DOMAIN Config = 1..Len(Config)
          /\ \A i \in DOMAIN Config : Len(Config[i]) \in Nat \ {0} /\ DOMAIN Config[i] = 1..Len(Config[i])
      BY AtConfig
    <3>2. Config = config
      BY DEF Config
    <3> HIDE DEF config
    <3>3. 1 \in DOMAIN config /\ 1 \in DOMAIN config[1]
      BY <3>1, <3>2
    <3> QED
      BY <2>3, <3>3 DEF config
  <2>5. Where'
    BY <2>1, <2>2, <2>4 DEF Where
  <2> QED
    BY <1>5, <2>1, <2>5 DEF ConfigRead, openBus, Bus, Flags, Handled
<1>6. CASE SettingSkipped
  <2>1. Where' /\ goHandle >= 1
    BY <1>6, NextSettingWhere DEF SettingSkipped, Handled
  <2> QED
    BY <1>6, <2>1 DEF SettingSkipped, openBus, openFound, Bus, Flags, Handled
<1>7. CASE SettingTaken
  <2>1. goMode = "setting" /\ goHandle >= 1
    BY <1>7 DEF SettingTaken, Handled
  <2>2. Where'
    <3>1. CASE Dropped
      BY <3>1, NextDeviceWhere DEF Dropped
    <3>2. CASE goMode' = "claim" /\ goAt' = goAt
      BY <2>1, <3>2 DEF Where, Config
    <3> QED
      BY <1>7, <3>1, <3>2 DEF SettingTaken
  <2>3. Flags'
    <3>1. goActive' \in BOOLEAN
      BY <1>7 DEF SettingTaken
    <3> QED
      BY <1>7, <3>1 DEF SettingTaken, Flags, openFound
  <2>4. Bus'
    BY <1>7, OpenConstants DEF SettingTaken, Bus, openFound
  <2>5. goHandle' = goHandle
    BY <1>7 DEF SettingTaken
  <2> QED
    BY <2>1, <2>2, <2>3, <2>4, <2>5 DEF Handled
<1>8. CASE ClaimRetried
  <2>1. Where' /\ Handled'
    BY <1>8 DEF ClaimRetried, Where, Handled, Config, openBus
  <2>2. goRetries' \in 0..MaxClaimRetry
    BY <1>8, OpenConstants DEF ClaimRetried, Bus
  <2> QED
    BY <1>8, <2>1, <2>2 DEF ClaimRetried, openBus, openFound, Bus, Flags
<1>9. CASE ClaimFailed
  <2>1. Where' /\ goMode' \in {"device", "closed"}
    BY <1>9, NextDeviceWhere DEF ClaimFailed, Dropped
  <2>2. goKernel' \subseteq OpenDevs \X Interfaces
    BY <1>9, ClaimOfPlace DEF ClaimFailed
  <2> QED
    BY <1>9, <2>1, <2>2 DEF ClaimFailed, openFound, Bus, Flags, Handled
<1> QED
  BY <1>1, <1>2, <1>3, <1>4, <1>5, <1>6, <1>7, <1>8, <1>9

\* A claim is of the present handle and an interface of its device.
LEMMA ClaimedTyped == ASSUME SearchTyped, Claimed PROVE SearchTyped'
<1> USE DEF SearchTyped
<1>1. goMode = "claim" /\ goHandle >= 1 /\ goHandle' = goHandle
  BY DEF Claimed, Handled
<1>2. Where'
  BY <1>1, NextSettingWhere DEF Claimed
<1>3. Flags'
  <2>1. goKeys' \in BOOLEAN /\ goLcd' \in BOOLEAN
    BY DEF Claimed
  <2> QED
    BY <2>1 DEF Claimed, Flags
<1>4. goInterface' \in Interfaces
  BY <1>1, AtSetting DEF Claimed
<1>5. goClaims' \subseteq (1..MaxHandles) \X OpenDevs \X Interfaces /\ goKernel' \subseteq OpenDevs \X Interfaces
  BY <1>1, ClaimOfPlace DEF Claimed, Bus
<1> QED
  BY <1>1, <1>2, <1>3, <1>4, <1>5 DEF Claimed, Bus, Handled

\* A closed device keeps its place.
LEMMA CloseTyped == ASSUME SearchTyped, FreeLibG15usb PROVE SearchTyped'
<1> USE DEF SearchTyped
<1>1. goMode = "open" /\ goMode' = "closed" /\ UNCHANGED <<goAt, goHandle>> /\ goClaims' \subseteq goClaims
  BY DEF FreeLibG15usb
<1>2. Where' /\ Handled'
  BY <1>1 DEF Where, Handled
<1> QED
  BY <1>1, <1>2 DEF FreeLibG15usb, openFound, Bus, Flags

LEMMA NextTyped == SearchTyped /\ [OpenNext]_openVars => SearchTyped'
<1> SUFFICES ASSUME SearchTyped, [OpenNext]_openVars PROVE SearchTyped'
  OBVIOUS
<1>1. CASE \E d \in OpenDevs : Plug(d) \/ Unplug(d)
                               \/ \E t \in InterfacesOf(d) : OtherClaims(t) \/ OtherReleases(t)
  BY <1>1, BusTyped
<1>2. CASE OpenStart \/ DeviceAbsent \/ DeviceOpened \/ ConfigSkipped \/ ConfigRead
           \/ SettingSkipped \/ SettingTaken \/ ClaimRetried \/ ClaimFailed
  BY <1>2, SearchTypedNext
<1>3. CASE Claimed
  BY <1>3, ClaimedTyped
<1>4. CASE FreeLibG15usb
  BY <1>4, CloseTyped
<1>5. CASE UNCHANGED openVars
  BY <1>5 DEF openVars, SearchTyped, Bus, Flags, Where, Handled, Config
<1> QED
  BY <1>1, <1>2, <1>3, <1>4, <1>5 DEF OpenNext

\* The search stays within the table of devices and their descriptors, whatever fails and
\* whatever is plugged or claimed by others on the way.
THEOREM OpenTypeCorrect == OpenSpec => []OpenTypeOK
  BY InitOpen, NextTyped, TypeOfSearch, PTL DEF OpenSpec

-----------------------------------------------------------------------------
(***************************************************************************)
(* ClaimedIsUsed speaks of the driver at rest.  While it searches nothing   *)
(* is claimed either, because the claim of an interface that completes the  *)
(* endpoints ends the search: the loops are at their last configuration and *)
(* setting, so that no later step can fail and drop the handle.             *)
(***************************************************************************)
Position ==
    /\ goAt \in [dev : OpenDevs, conf : {1}, intf : Nat, alt : {1}]
    /\ goMode \in {"setting", "claim"} => goAt.intf \in DOMAIN Config
NoClaimSearching == goMode # "open" => goClaims = {}
ClaimOfOpen == goClaims \subseteq {<<goHandle, goAt.dev, goInterface>>}
LostHasNone == goStale => goClaims = {}

ClaimInv == Position /\ NoClaimSearching /\ ClaimOfOpen /\ LostHasNone

-----------------------------------------------------------------------------
\* The table has a first device, its only configuration a first interface.
LEMMA FirstPosition ==
    ASSUME OneSetting
    PROVE  /\ 1 \in OpenDevs
           /\ \A d \in OpenDevs : 1 \in DOMAIN G15Devices[d].configs[1]
  BY FirstDevice, ConfigForm DEF OneSetting

LEMMA InitClaim == ASSUME OneSetting, OpenInit PROVE ClaimInv
  BY FirstPosition DEF OpenInit, ClaimInv, Position, NoClaimSearching, ClaimOfOpen, LostHasNone, Start

\* The next device is one of the table, and is looked at from its first configuration on.
LEMMA NextDevicePosition ==
    ASSUME OneSetting, Position, NextDevice
    PROVE  Position' /\ goMode' \in {"device", "closed"}
<1>1. CASE goAt.dev < Len(G15Devices)
  <2>1. goAt.dev + 1 \in OpenDevs
    BY <1>1, OpenConstants DEF OpenDevs, Position
  <2> QED
    BY <1>1, <2>1 DEF NextDevice, Position, Start
<1>2. CASE ~(goAt.dev < Len(G15Devices))
  BY <1>2 DEF NextDevice, Position
<1> QED
  BY <1>1, <1>2

\* The only configuration is the last one.
LEMMA NextConfigPosition ==
    ASSUME OneSetting, Position, NextConfig
    PROVE  goMode' = "open" /\ goAt' = goAt
<1>1. goAt.dev \in OpenDevs /\ goAt.conf = 1
  BY DEF Position
<1>2. Len(G15Devices[goAt.dev].configs) = 1
  BY <1>1 DEF OneSetting
<1> QED
  BY <1>1, <1>2 DEF NextConfig

\* The next interface is one of the configuration; the search of a complete one ends.
LEMMA NextSettingPosition ==
    ASSUME OneSetting, Position, goMode \in {"setting", "claim"}, NEW ACTION keys, NEW ACTION lcd,
           NextSetting(keys, lcd)
    PROVE  /\ Position'
           /\ goMode' \in {"setting", "open"}
           /\ goAt'.dev = goAt.dev
           /\ keys /\ lcd => goMode' = "open" /\ goAt' = goAt
<1>1. goAt.dev \in OpenDevs /\ goAt.conf = 1 /\ goAt.alt = 1 /\ goAt.intf \in DOMAIN Config
  BY DEF Position
<1>2. Config = G15Devices[goAt.dev].configs[1] /\ Len(Config[goAt.intf]) = 1
  BY <1>1 DEF Config, OneSetting
<1>3. Len(Config) \in Nat /\ DOMAIN Config = 1..Len(Config)
  BY <1>1, <1>2, OpenConstants DEF OneSetting
<1>4. CASE goAt.intf < Len(Config) /\ ~(keys /\ lcd)
  <2>1. goMode' = "setting" /\ goAt' = [goAt EXCEPT !.intf = @ + 1, !.alt = 1]
    BY <1>1, <1>2, <1>4 DEF NextSetting
  <2>2. /\ goAt' \in [dev : OpenDevs, conf : {1}, intf : Nat, alt : {1}]
        /\ goAt'.dev = goAt.dev /\ goAt'.conf = 1 /\ goAt'.intf = goAt.intf + 1
    <3>1. goAt \in [dev : OpenDevs, conf : {1}, intf : Nat, alt : {1}]
      BY DEF Position
    <3>2. goAt.intf + 1 \in Nat
      BY <3>1
    <3> QED
      BY <2>1, <3>1, <3>2
  <2>3. Config' = Config
    BY <2>2, <1>1 DEF Config
  <2>4. goAt'.intf \in DOMAIN Config'
    BY <2>2, <2>3, <1>1, <1>3, <1>4
  <2> QED
    BY <2>1, <2>2, <2>4, <1>4 DEF Position
<1>5. CASE ~(goAt.intf < Len(Config) /\ ~(keys /\ lcd))
  <2>1. NextConfig
    BY <1>1, <1>2, <1>5 DEF NextSetting
  <2>2. goMode' = "open" /\ goAt' = goAt
    BY <2>1, NextConfigPosition
  <2> QED
    BY <2>2 DEF Position
<1> QED
  BY <1>4, <1>5

\* The bus and other programs can only take claims away.
LEMMA BusInv ==
    ASSUME OneSetting, ClaimInv, NEW d \in OpenDevs,
           Plug(d) \/ Unplug(d) \/ \E t \in InterfacesOf(d) : OtherClaims(t) \/ OtherReleases(t)
    PROVE  ClaimInv'
<1> USE DEF ClaimInv
<1>1. UNCHANGED <<goMode, goAt, goHandle, goInterface>>
  BY DEF Plug, Unplug, OtherClaims, OtherReleases, openFound
<1>2. Position'
  BY <1>1 DEF Position, Config
<1>3. goClaims' \subseteq goClaims
  BY DEF Plug, Unplug, OtherClaims, OtherReleases
<1>4. NoClaimSearching' /\ ClaimOfOpen'
  BY <1>1, <1>3 DEF NoClaimSearching, ClaimOfOpen
<1>5. LostHasNone'
  <2>1. CASE Unplug(d)
    <3>1. CASE goAt.dev = d
      <4>1. SUFFICES ASSUME NEW c \in goClaims' PROVE FALSE
        BY DEF LostHasNone
      <4>2. c \in goClaims /\ c[2] # d
        BY <2>1 DEF Unplug
      <4>3. c = <<goHandle, goAt.dev, goInterface>>
        BY <4>2 DEF ClaimOfOpen
      <4> QED
        BY <3>1, <4>2, <4>3
    <3>2. CASE goAt.dev # d
      BY <2>1, <3>2, <1>3 DEF Unplug, LostHasNone
    <3> QED
      BY <3>1, <3>2
  <2>2. CASE ~Unplug(d)
    <3>1. UNCHANGED <<goStale, goClaims>>
      BY <2>2 DEF Plug, OtherClaims, OtherReleases
    <3> QED
      BY <3>1 DEF LostHasNone
  <2> QED
    BY <2>1, <2>2
<1> QED
  BY <1>2, <1>4, <1>5

\* A claimed interface either is given back, or ends the search.
LEMMA ClaimedInv == ASSUME OneSetting, ClaimInv, Claimed PROVE ClaimInv'
<1> USE DEF ClaimInv
<1>1. goClaims = {}
  BY DEF Claimed, NoClaimSearching
<1>2. /\ goMode = "claim" /\ NextSetting(goKeys', goLcd')
      /\ goInterface' = goAt.intf /\ UNCHANGED <<goHandle, goStale>>
      /\ ~goStale
  BY DEF Claimed, Claimable
<1>3. /\ Position' /\ goMode' \in {"setting", "open"} /\ goAt'.dev = goAt.dev
      /\ goKeys' /\ goLcd' => goMode' = "open"
  BY <1>2, NextSettingPosition
<1>4. CASE goKeys' /\ goLcd'
  <2>1. goClaims' = {<<goHandle', goAt'.dev, goInterface'>>}
    BY <1>1, <1>2, <1>3, <1>4 DEF Claimed, Claim
  <2> QED
    BY <2>1, <1>2, <1>3, <1>4 DEF NoClaimSearching, ClaimOfOpen, LostHasNone
<1>5. CASE ~(goKeys' /\ goLcd')
  <2>1. goClaims' = {}
    BY <1>1, <1>5 DEF Claimed, Released
  <2> QED
    BY <2>1, <1>3 DEF NoClaimSearching, ClaimOfOpen, LostHasNone
<1> QED
  BY <1>4, <1>5

\* The other steps of the search begin and end without claims.
Search == DeviceAbsent \/ DeviceOpened \/ ConfigSkipped \/ ConfigRead \/ SettingSkipped
          \/ SettingTaken \/ ClaimRetried \/ ClaimFailed

LEMMA SearchInv == ASSUME OneSetting, ClaimInv, OpenStart \/ Search PROVE ClaimInv'
<1> USE DEF ClaimInv
<1>1. goClaims = {} /\ goClaims' = {}
  BY DEF OpenStart, Search, DeviceAbsent, DeviceOpened, ConfigSkipped, ConfigRead, SettingSkipped,
         SettingTaken, ClaimRetried, ClaimFailed, NoClaimSearching, openBus
<1>2. Position'
  <2>1. CASE OpenStart
    BY <2>1, FirstPosition DEF OpenStart, Position, Start
  <2>2. CASE DeviceAbsent
    BY <2>2, NextDevicePosition DEF DeviceAbsent
  <2>3. CASE DeviceOpened
    <3>1. Dropped \/ (goMode' = "config" /\ goAt' = goAt)
      BY <2>3 DEF DeviceOpened
    <3> QED
      BY <3>1, NextDevicePosition DEF Dropped, Position
  <2>4. CASE ConfigSkipped
    <3>1. goMode' = "open" /\ goAt' = goAt
      BY <2>4, NextConfigPosition DEF ConfigSkipped
    <3> QED
      BY <3>1 DEF Position
  <2>5. CASE ConfigRead
    <3>1. goMode' = "setting" /\ goAt' = [goAt EXCEPT !.intf = 1, !.alt = 1]
      BY <2>5 DEF ConfigRead
    <3>2. /\ goAt' \in [dev : OpenDevs, conf : {1}, intf : Nat, alt : {1}]
          /\ goAt'.dev = goAt.dev /\ goAt'.conf = 1 /\ goAt'.intf = 1
      BY <3>1 DEF Position
    <3>3. Config' = G15Devices[goAt.dev].configs[1]
      BY <3>2 DEF Config
    <3>4. 1 \in DOMAIN Config'
      BY <3>3, FirstPosition DEF Position
    <3> QED
      BY <3>2, <3>4 DEF Position
  <2>6. CASE SettingSkipped
    BY <2>6, NextSettingPosition DEF SettingSkipped
  <2>7. CASE SettingTaken
    <3>1. Dropped \/ (goMode' = "claim" /\ goAt' = goAt)
      BY <2>7 DEF SettingTaken
    <3>2. CASE Dropped
      BY <3>2, NextDevicePosition DEF Dropped
    <3>3. CASE goMode' = "claim" /\ goAt' = goAt
      BY <3>3, <2>7 DEF SettingTaken, Position, Config
    <3> QED
      BY <3>1, <3>2, <3>3
  <2>8. CASE ClaimRetried
    BY <2>8 DEF ClaimRetried, Position, Config
  <2>9. CASE ClaimFailed
    BY <2>9, NextDevicePosition DEF ClaimFailed, Dropped
  <2> QED
    BY <2>1, <2>2, <2>3, <2>4, <2>5, <2>6, <2>7, <2>8, <2>9 DEF Search
<1> QED
  BY <1>1, <1>2 DEF NoClaimSearching, ClaimOfOpen, LostHasNone

\* Closing gives the claim up.
LEMMA CloseInv == ASSUME OneSetting, ClaimInv, FreeLibG15usb PROVE ClaimInv'
<1> USE DEF ClaimInv
<1>1. goMode' = "closed" /\ UNCHANGED <<goAt, goHandle, goStale>>
  BY DEF FreeLibG15usb
<1>2. goClaims' = {}
  <2>1. CASE goStale
    BY <2>1 DEF FreeLibG15usb, LostHasNone
  <2>2. CASE ~goStale
    BY <2>2 DEF FreeLibG15usb, ClaimOfOpen
  <2> QED
    BY <2>1, <2>2
<1> QED
  BY <1>1, <1>2 DEF Position, NoClaimSearching, ClaimOfOpen, LostHasNone

LEMMA NextInv == ASSUME OneSetting, ClaimInv, [OpenNext]_openVars PROVE ClaimInv'
<1>1. CASE \E d \in OpenDevs : Plug(d) \/ Unplug(d)
                               \/ \E t \in InterfacesOf(d) : OtherClaims(t) \/ OtherReleases(t)
  BY <1>1, BusInv
<1>2. CASE OpenStart \/ Search
  BY <1>2, SearchInv
<1>3. CASE Claimed
  BY <1>3, ClaimedInv
<1>4. CASE FreeLibG15usb
  BY <1>4, CloseInv
<1>5. CASE UNCHANGED openVars
  BY <1>5 DEF openVars, ClaimInv, Position, Config, NoClaimSearching, ClaimOfOpen, LostHasNone
<1> QED
  BY <1>1, <1>2, <1>3, <1>4, <1>5 DEF OpenNext, Search

LEMMA Rest == ASSUME ClaimInv PROVE ClaimedIsUsed
  BY DEF ClaimInv, ClaimedIsUsed, NoClaimSearching, ClaimOfOpen

\* Whatever fails on the way, at rest the driver has claimed at most the interface that
\* freeLibG15usb releases: for every table of devices with one configuration each.
THEOREM NoClaimLeaks == OpenSpec => []ClaimedIsUsed
<1>1. CASE OneSetting
  <2>1. OpenInit => ClaimInv
    BY <1>1, InitClaim
  <2>2. ClaimInv /\ [OpenNext]_openVars => ClaimInv'
    BY <1>1, NextInv
  <2>3. ClaimInv => ClaimedIsUsed
    BY Rest
  <2> QED
    BY <2>1, <2>2, <2>3, PTL DEF OpenSpec
<1>2. CASE ~OneSetting
  <2>1. ClaimedIsUsed
    BY <1>2 DEF ClaimedIsUsed
  <2> QED
    BY <2>1, PTL
<1> QED
  BY <1>1, <1>2

-----------------------------------------------------------------------------
(***************************************************************************)
(* The parts together.  A step of the main loop is one of the part in      *)
(* focus and leaves the others, so that it is a step or a stutter of each. *)
(***************************************************************************)
LEMMA MainInitParts ==
    ASSUME MainInit
    PROVE  /\ GpuInit /\ SetInit /\ LogInit /\ KpInit
           /\ PdInit /\ NetInit /\ ClockInit /\ OpenInit
  BY DEF MainInit

LEMMA MainStepOfParts ==
    ASSUME [MainNext]_MainVars
    PROVE  /\ [GpuNext]_gpuVars
           /\ [SetNext]_setVars
           /\ [LogNext]_logVars
           /\ [KpNext]_kpVars
           /\ [PdNext]_dialogVars
           /\ [NetNext]_nrVars
           /\ [ClockNext]_ckVars
           /\ [OpenNext]_openVars
<1>1. CASE UNCHANGED MainVars
  BY <1>1 DEF MainVars
<1>2. CASE GpuNext /\ UNCHANGED <<setVars, logVars, kpVars, dialogVars, dialogVars, nrVars, ckVars, openVars>>
  BY <1>2
<1>3. CASE SetNext /\ UNCHANGED <<gpuVars, logVars, kpVars, dialogVars, dialogVars, nrVars, ckVars, openVars>>
  BY <1>3
<1>4. CASE LogNext /\ UNCHANGED <<gpuVars, setVars, kpVars, dialogVars, dialogVars, nrVars, ckVars, openVars>>
  BY <1>4
<1>5. CASE KpNext /\ UNCHANGED <<gpuVars, setVars, logVars, dialogVars, nrVars, ckVars, openVars>>
  BY <1>5
<1>6. CASE PdNext /\ UNCHANGED <<gpuVars, setVars, logVars, kpVars, nrVars, ckVars, openVars>>
  BY <1>6
<1>7. CASE NetNext /\ UNCHANGED <<gpuVars, setVars, logVars, kpVars, dialogVars, ckVars, openVars>>
  BY <1>7
<1>8. CASE ClockNext /\ UNCHANGED <<gpuVars, setVars, logVars, kpVars, dialogVars, nrVars, openVars>>
  BY <1>8
<1>9. CASE OpenNext /\ UNCHANGED <<gpuVars, setVars, logVars, kpVars, dialogVars, nrVars, ckVars>>
  BY <1>9
<1> QED
  BY <1>1, <1>2, <1>3, <1>4, <1>5, <1>6, <1>7, <1>8, <1>9 DEF MainNext

\* The main loop lets every part behave as its own specification says, whatever part is in
\* focus, so that what is proved of a part holds when it runs beside the others.
THEOREM MainRunsParts ==
    MainSpec => /\ GpuSpec /\ SetSpec /\ LogSpec /\ KpSpec
                /\ PdSpec /\ NetSpec /\ ClockSpec /\ OpenSpec
<1>1. MainInit => GpuInit /\ SetInit /\ LogInit /\ KpInit /\ PdInit /\ NetInit /\ ClockInit /\ OpenInit
  BY MainInitParts
<1>2. [MainNext]_MainVars =>
           /\ [GpuNext]_gpuVars
           /\ [SetNext]_setVars
           /\ [LogNext]_logVars
           /\ [KpNext]_kpVars
           /\ [PdNext]_dialogVars
           /\ [NetNext]_nrVars
           /\ [ClockNext]_ckVars
           /\ [OpenNext]_openVars
  BY MainStepOfParts
<1> QED
  BY <1>1, <1>2, PTL DEF MainSpec, GpuSpec, SetSpec, LogSpec, KpSpec, PdSpec, NetSpec, ClockSpec, OpenSpec

\* The state of every part that the main loop drives stays well formed.
THEOREM MainTypeCorrect == MainSpec => []MainTypeOK
<1>1. /\ GpuTypeOK /\ SetTypeOK /\ LogTypeOK /\ KpTypeOK
      /\ PdTypeOK /\ NetTypeOK /\ ClockTypeOK /\ OpenTypeOK
      => MainTypeOK
  BY DEF MainTypeOK
<1> QED
  BY <1>1, MainRunsParts, GpuTypeCorrect, SettingsTypeCorrect, LogTypeCorrect, KpTypeCorrect, DialogTypeCorrect,
     RateTypeCorrect, ClockTypeCorrect, OpenTypeCorrect, PTL
=============================================================================
