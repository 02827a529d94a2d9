------------------------------- MODULE LogView -------------------------------
(***************************************************************************)
(* The log dialog (LogProperties.cpp): a list of log entries, selected by a *)
(* source and a boot, filtered by level and search text and cut off at a    *)
(* row limit.  Every change of a control loads the list again; entries that *)
(* are written meanwhile appear with the next load; reading the log may     *)
(* fail on the way.                                                         *)
(***************************************************************************)
EXTENDS Naturals, Sequences, SequencesExt

CONSTANTS LogLimits,   \* row limits that the configuration may hold
          DefaultLimit,
          MaxLog       \* bound: entries written

ASSUME LogConstants == LogLimits \subseteq Nat /\ DefaultLimit \in Nat /\ MaxLog \in Nat

VARIABLES logOpen,
          logStore,   \* what the log holds for the selected source and boot
          logChosen,  \* the controls: source and boot, level, search text
          logLimit,   \* m_rowLimit
          logRows,    \* m_properties
          logFailed,  \* the last load ended with an exception
          logSeen     \* history: length of the log at the last load

logVars == <<logOpen, logStore, logChosen, logLimit, logRows, logFailed, logSeen>>

Levels == 0..1
LogEntries == [level : Levels, hit : BOOLEAN]  \* hit: contains the search text
More == [level |-> 0, hit |-> FALSE, more |-> TRUE]
Controls == [source : BOOLEAN, boot : BOOLEAN, level : Levels, search : BOOLEAN]

LogTypeOK ==
    /\ logOpen \in BOOLEAN /\ logFailed \in BOOLEAN
    /\ logStore \in Seq(LogEntries) /\ Len(logStore) <= MaxLog
    /\ logChosen \in Controls
    /\ logLimit \in LogLimits \cup {DefaultLimit}
    /\ logRows \in Seq(LogEntries \cup {More})
    /\ logSeen \in 0..MaxLog

\* The constructor: debug level, no search text, the boot preselected if there is one.
Fresh(boot) == [source |-> FALSE, boot |-> boot, level |-> 1, search |-> FALSE]

LogInit ==
    /\ logOpen = FALSE /\ logStore = <<>> /\ logChosen = Fresh(FALSE) /\ logLimit = DefaultLimit
    /\ logRows = <<>> /\ logFailed = FALSE /\ logSeen = 0

Matches(c, e) == (c.search => e.hit) /\ e.level <= c.level

\* One round of the loop in refresh: the row after the last one tells of more.  rows has
\* stopped when it ends with that row.
Stopped(rows) == rows # <<>> /\ Last(rows) = More

\* A variant: the limit is tested against the rows before the last one.
AddRowLate(c, limit, rows, e) ==
    IF Stopped(rows) \/ ~Matches(c, e) THEN rows
    ELSE Append(rows, IF Len(rows) <= limit + 1 THEN e ELSE More)

AddRow(c, limit, rows, e) ==
    IF Stopped(rows) \/ ~Matches(c, e) THEN rows
    ELSE Append(rows, IF Len(rows) <= limit THEN e ELSE More)

\* refresh over the entries it could read; the list is cleared before.
Loaded(c, limit, entries) ==
    IF c.source /\ c.boot
    THEN LET rows[n \in 0..Len(entries)] ==
               IF n = 0 THEN <<>> ELSE AddRow(c, limit, rows[n - 1], entries[n])
         IN rows[Len(entries)]
    ELSE <<>>

\* A load with the controls c reads the first n entries; fewer than all means that an
\* exception came.
LoadWith(c, limit, n) ==
    /\ logRows' = Loaded(c, limit, SubSeq(logStore, 1, n))
    /\ logFailed' = (n < Len(logStore))
    /\ logSeen' = Len(logStore)

ReadTo(c) == IF c.source /\ c.boot THEN 0..Len(logStore) ELSE {Len(logStore)}

\* The dialog is made: the list is filled (with nothing, as no source is selected) before
\* the row limit is read.
LogShow(boot, limit) ==
    /\ ~logOpen /\ logOpen' = TRUE
    /\ logChosen' = Fresh(boot)
    /\ LoadWith(Fresh(boot), DefaultLimit, Len(logStore))
    /\ logLimit' = limit
    /\ UNCHANGED logStore

\* A control changes, or the refresh button is pressed: c may be the old setting.
LogControl(c, n) ==
    /\ logOpen
    /\ logChosen' = c
    /\ n \in ReadTo(c)
    /\ LoadWith(c, logLimit, n)
    /\ UNCHANGED <<logOpen, logStore, logLimit>>

LogClose ==
    /\ logOpen /\ logOpen' = FALSE
    /\ logRows' = <<>> /\ logFailed' = FALSE /\ logSeen' = 0
    /\ logChosen' = Fresh(FALSE) /\ logLimit' = DefaultLimit
    /\ UNCHANGED logStore

\* Something writes to the log.
LogWritten(e) ==
    /\ Len(logStore) < MaxLog
    /\ logStore' = Append(logStore, e)
    /\ UNCHANGED <<logOpen, logChosen, logLimit, logRows, logFailed, logSeen>>

LogNext ==
    \/ \E boot \in BOOLEAN, limit \in LogLimits : LogShow(boot, limit)
    \/ \E c \in Controls, n \in 0..MaxLog : LogControl(c, n)
    \/ LogClose
    \/ \E e \in LogEntries : LogWritten(e)

LogSpec == LogInit /\ [][LogNext]_logVars
---------------------------------------------------------------------------
\* Properties.

\* What should be listed: the entries the controls ask for, in the order of the log.
Asked ==
    LET asked[n \in 0..logSeen] ==
          IF n = 0 THEN <<>>
          ELSE IF Matches(logChosen, logStore[n]) THEN Append(asked[n - 1], logStore[n])
          ELSE asked[n - 1]
    IN asked[logSeen]

\* While the dialog is open the list is what the controls shown ask for, of the log as it
\* was at the last load: all of it, or a beginning and the row that tells of more.  After
\* an exception it is a beginning.  Nothing of an earlier selection stays.
ListShowsSelection ==
    IF ~(logOpen /\ logChosen.source /\ logChosen.boot) THEN logRows = <<>>
    ELSE IF Stopped(logRows)
         THEN /\ Len(logRows) = logLimit + 2
              /\ IsStrictPrefix(Front(logRows), Asked)
         ELSE /\ IsPrefix(logRows, Asked)
              /\ logRows = Asked \/ logFailed
=============================================================================
