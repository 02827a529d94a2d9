------------------------------ MODULE KernelParam ------------------------------
(***************************************************************************)
(* The dialog of the kernel parameters (KernelParamDlg.cpp) and the queries *)
(* behind it (KernelParameter.cpp).  Choosing a parameter reads its sources *)
(* in the main thread; the statistics of virtual memory are read again     *)
(* every second while they are chosen; the option of the tickless kernel is *)
(* searched in the packed configuration of the kernel, output by output of  *)
(* the decompressor.                                                        *)
(***************************************************************************)
EXTENDS Naturals

CONSTANTS OutSize,    \* ZLIB_CHUNK_SIZE, room for an output
          ConfigSize, \* size of the unpacked configuration
          EntrySize,  \* size of the line that is searched, with its end
          MaxPages    \* bound: pages read since the computer was started

ASSUME KernelConstants ==
    /\ OutSize \in Nat \ {0} /\ ConfigSize \in Nat \ {0} /\ EntrySize \in Nat \ {0}
    /\ MaxPages \in Nat

VARIABLES kpMode,    \* closed, idle, searching; ended: the search gets no more output;
                     \* hangs: it reads at the end of the file for ever
          kpSelected,
          kpTimer,   \* m_timer is connected
          kpText,    \* of whom the text is, and who added lines
          kpPages,   \* pgpgin of /proc/vmstat
          kpLast,    \* m_last_pgin of the parameter object, which the dialog owns
          kpSum,     \* history: sum of the differences this dialog showed
          kpEntry,   \* where the searched line begins, 0: it is not there
          kpFrom,    \* the window lastLines + lines begins after this position
          kpTo,      \* lines ends here: all before was unpacked
          kpSpread   \* history: how many outputs the line is spread over, up to TooMany

kpVars == <<kpMode, kpSelected, kpTimer, kpText, kpPages, kpLast, kpSum,
            kpEntry, kpFrom, kpTo, kpSpread>>
kpWindow == <<kpEntry, kpFrom, kpTo, kpSpread>>

\* The parameters, each for all of its kind in getAllParameters: those that read files or
\* ask a command, those with a source for each entry of a directory, which must be there,
\* the packed configuration and the statistics.
First == "swappiness"
Files == {First, "services"}
Directories == {"frequency"}
PackedConfig == {"tickless"}
Timed == {"vmStats"}
Parameters == Files \cup Directories \cup PackedConfig \cup Timed

Texts == [of : Parameters, added : SUBSET Parameters]
TooMany == 3

KpTypeOK ==
    /\ kpMode \in {"closed", "idle", "searching", "ended", "hangs"}
    /\ kpSelected \in Parameters /\ kpTimer \in BOOLEAN /\ kpText \in Texts
    /\ kpPages \in 0..MaxPages /\ kpLast \in 0..MaxPages /\ kpSum \in 0..MaxPages
    /\ kpEntry \in 0..ConfigSize /\ kpFrom \in 0..ConfigSize /\ kpTo \in 0..ConfigSize
    /\ kpSpread \in 0..TooMany

\* What a query of p shows, be it values or errors (KernelParmValue).
Outcome(p) == [of |-> p, added |-> {}]

\* No search is going on.
KpNoWindow == kpEntry' = 0 /\ kpFrom' = 0 /\ kpTo' = 0 /\ kpSpread' = 0

KpInit ==
    /\ kpMode = "closed" /\ kpSelected = First /\ kpTimer = FALSE
    /\ kpText = Outcome(First)
    /\ kpPages = 0 /\ kpLast = 0 /\ kpSum = 0
    /\ kpEntry = 0 /\ kpFrom = 0 /\ kpTo = 0 /\ kpSpread = 0

\* The constructor: new parameter objects, and a refresh for the first of them.
KpShow ==
    /\ kpMode = "closed" /\ kpMode' = "idle" /\ kpSelected' = First
    /\ kpText' = Outcome(First)
    /\ UNCHANGED <<kpTimer, kpPages, kpLast, kpSum, kpWindow>>

\* The dialog goes, with its parameter objects; or the program does.
KpGone ==
    /\ kpMode' = "closed" /\ kpSelected' = First /\ kpTimer' = FALSE
    /\ kpText' = Outcome(First) /\ kpLast' = 0 /\ kpSum' = 0
    /\ KpNoWindow
    /\ UNCHANGED kpPages

KpClose == kpMode = "idle" /\ KpGone
\* Somebody ends the program that does not answer any more.
KpKilled == kpMode = "hangs" /\ KpGone

---------------------------------------------------------------------------
\* A variant: a timer that runs is not disconnected.
TimerAfterKept(p) == kpTimer \/ p \in Timed

\* refresh, for a parameter that is chosen: the old timer goes first.
TimerAfter(p) == p \in Timed
Choose(p) ==
    /\ kpMode = "idle" /\ p # kpSelected
    /\ kpSelected' = p

\* The sources are read in the same call; what fails is told in the text.
KpQuery(p) ==
    /\ Choose(p)
    /\ kpText' = Outcome(p)
    /\ kpTimer' = TimerAfter(p)
    /\ UNCHANGED <<kpMode, kpPages, kpLast, kpSum, kpWindow>>

\* The iterator over a directory that is not there throws; nobody catches it.
KpNoDirectory(p) == kpMode = "idle" /\ p \in Directories \ {kpSelected} /\ KpGone

\* VmStats::queryTimed: a read that ends before the end of the file gives no difference.
TimedRead(ok) ==
    IF ok THEN kpLast' = kpPages /\ kpSum' = kpSum + (kpPages - kpLast)
    ELSE UNCHANGED <<kpLast, kpSum>>
KpQueryTimed(p, ok) ==
    /\ Choose(p) /\ p \in Timed
    /\ TimedRead(ok)
    /\ kpText' = Outcome(p)
    /\ kpTimer' = TimerAfter(p)
    /\ UNCHANGED <<kpMode, kpPages, kpWindow>>

\* update, once a second: asks whichever parameter is selected.
KpTimer(ok) ==
    /\ kpMode = "idle" /\ kpTimer
    /\ kpText' = [kpText EXCEPT !.added = @ \cup {kpSelected}]
    /\ IF kpSelected \in Timed THEN TimedRead(ok) ELSE UNCHANGED <<kpLast, kpSum>>
    /\ UNCHANGED <<kpMode, kpSelected, kpTimer, kpPages, kpWindow>>

KpPaging ==
    /\ kpPages < MaxPages /\ kpPages' = kpPages + 1
    /\ UNCHANGED <<kpMode, kpSelected, kpTimer, kpText, kpLast, kpSum, kpWindow>>

---------------------------------------------------------------------------
\* zcat.  If the file does not open or inflate cannot be initialised, it is a query that
\* shows an error or nothing (KpQuery); else the search starts.
KpSearch(p, entry) ==
    /\ Choose(p) /\ p \in PackedConfig
    /\ kpMode' = "searching" /\ kpTimer' = TimerAfter(p)
    /\ kpEntry' = entry /\ kpFrom' = 0 /\ kpTo' = 0 /\ kpSpread' = 0
    /\ UNCHANGED <<kpText, kpPages, kpLast, kpSum>>

\* A variant: only the output itself is searched.
InWindowOfOne(to) == kpEntry > kpTo /\ kpEntry + EntrySize - 1 <= to

\* The line is in the window of the previous output and an output that ends at to.
InWindow(to) == kpEntry > kpFrom /\ kpEntry + EntrySize - 1 <= to
KpFound(to) == kpEntry # 0 /\ InWindow(to)

\* The line has begun before to, and not ended before this output.
Touched(to) == kpEntry # 0 /\ kpEntry <= to /\ kpEntry + EntrySize - 1 > kpTo

\* The text is shown, and the dialog waits for the user again.
KpSearched ==
    /\ kpMode' = "idle" /\ kpText' = Outcome(kpSelected)
    /\ KpNoWindow

\* An output that inflate returns with Z_OK, of k bytes.  A chunk of the input gives some
\* that fill the buffer and then one of any size: none, when the rest of the chunk held no
\* symbol, or no output at all (Z_BUF_ERROR), when the last one had just filled it.
KpOutput(k) ==
    /\ kpMode = "searching" /\ k \in 0..OutSize /\ kpTo + k <= ConfigSize
    /\ IF KpFound(kpTo + k) THEN KpSearched
       ELSE /\ kpFrom' = kpTo /\ kpTo' = kpTo + k
            /\ kpSpread' = IF Touched(kpTo + k) /\ kpSpread < TooMany THEN kpSpread + 1 ELSE kpSpread
            /\ UNCHANGED <<kpMode, kpText, kpEntry>>
    /\ UNCHANGED <<kpSelected, kpTimer, kpPages, kpLast, kpSum>>

\* There is no output any more: the one that ends the stream is not searched, and after an
\* error of gzip every further chunk only gives another error.
KpNoMore ==
    /\ kpMode' = "ended"
    /\ UNCHANGED <<kpSelected, kpTimer, kpText, kpPages, kpLast, kpSum, kpWindow>>
KpStreamEnd == kpMode = "searching" /\ ConfigSize - kpTo <= OutSize /\ KpNoMore
KpGzipError == kpMode = "searching" /\ KpNoMore

\* At the end of the file, of a truncated one too, readsome returns 0 without the end being
\* noted, and the loop goes on.
KpFileEnd ==
    /\ kpMode \in {"searching", "ended"} /\ kpMode' = "hangs"
    /\ UNCHANGED <<kpSelected, kpTimer, kpText, kpPages, kpLast, kpSum, kpWindow>>

\* Reading the file throws: the error is shown, the search ends.
KpReadFails ==
    /\ kpMode \in {"searching", "ended"} /\ KpSearched
    /\ UNCHANGED <<kpSelected, kpTimer, kpPages, kpLast, kpSum>>

KpNext ==
    \/ KpShow \/ KpClose \/ KpKilled
    \/ \E p \in Parameters \ Timed : KpQuery(p)
    \/ \E p \in Directories : KpNoDirectory(p)
    \/ \E p \in Timed, ok \in BOOLEAN : KpQueryTimed(p, ok)
    \/ \E ok \in BOOLEAN : KpTimer(ok)
    \/ KpPaging
    \/ \E p \in PackedConfig, entry \in 0..ConfigSize :
          entry + EntrySize <= ConfigSize + 1 /\ KpSearch(p, entry)
    \/ \E k \in 0..OutSize : KpOutput(k)
    \/ KpStreamEnd \/ KpGzipError \/ KpFileEnd \/ KpReadFails

KpSpec == KpInit /\ [][KpNext]_kpVars
---------------------------------------------------------------------------
\* Properties.

\* A line all of which was unpacked, and searched, is found if it lies in two outputs one
\* after the other, wherever their border is and whatever their lengths are.
Unpacked == kpEntry # 0 /\ kpEntry + EntrySize - 1 <= kpTo
EntryFound == Unpacked => kpSpread >= TooMany

\* When the dialog waits for the user, its text is of the selected parameter, no line of
\* another one was added, and the timer runs exactly for the parameter that needs it;
\* while a search keeps the program busy it does not run.
TextOfSelected ==
    /\ kpMode = "idle" =>
         /\ kpText.of = kpSelected /\ kpText.added \subseteq {kpSelected}
         /\ kpTimer <=> kpSelected \in Timed
    /\ kpMode \in {"searching", "ended", "hangs"} => ~kpTimer

\* The differences that a dialog showed add up to the counter it read last, although
\* the parameter was left and chosen again and reads failed between.
IoAddsUp == kpSum = kpLast /\ kpLast <= kpPages
=============================================================================
