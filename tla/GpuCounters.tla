------------------------------ MODULE GpuCounters ------------------------------
(***************************************************************************)
(* The GPU diagram: two slots (primary, secondary), each with no counter,  *)
(* a counter of the AMD performance monitor or an OpenGL query             *)
(* (GpuMonitor.cpp, GpuExtAmdCounter.cpp, GpuGLquery.cpp).                 *)
(*                                                                         *)
(* An AMD counter object asks its group for selection when it is made and  *)
(* for removal when it is dropped; both requests wait until the next       *)
(* update, which ends the running query, stores what it measured in the    *)
(* cells of the counters, passes the requests on to the driver and begins  *)
(* the next query.  An OpenGL query is begun and ended by its target, not  *)
(* by its object, and only one can be active for a target.                 *)
(***************************************************************************)
EXTENDS Naturals, FiniteSets, SequencesExt

CONSTANTS Amd,      \* counters of the performance monitor
          Wide,     \* those with a 64 bit value
          Odd,      \* those of a type that read does not handle
          Targets,  \* targets of OpenGL queries
          NoCounter

ASSUME GpuConstants ==
    /\ Wide \subseteq Amd /\ Odd \subseteq Amd /\ IsFiniteSet(Amd) /\ Amd \cap Targets = {}
    /\ NoCounter \notin Amd \cup Targets

VARIABLES gpuOpen,    \* between the loading of the settings and close
          gpuSlot,    \* m_counterPrim, m_counterSec
          gpuPend,    \* m_selectedCounters of all groups
          gpuDrop,    \* m_removeCounters of all groups
          gpuMonitor, \* the performance monitor: none, made, or with an active query
          gpuSel,     \* driver: counters selected, which the next query measures
          gpuCell,    \* value of a GpuAmdCounter: unset, of this update, older, or not its own
          gpuActive,  \* driver: the query active for a target
          gpuMade,    \* m_glQuery was generated
          gpuShown,   \* last value of the slot's history since the counter was chosen
          gpuQuiet,   \* history: updates since the last choice, up to Settled
          gpuWhole,   \* history: the latest report could be read and was not empty
          gpuLost     \* history: counters dropped by one slot while shown by the other

gpuVars == <<gpuOpen, gpuSlot, gpuPend, gpuDrop, gpuMonitor, gpuSel, gpuCell, gpuActive,
             gpuMade, gpuShown, gpuQuiet, gpuWhole, gpuLost>>

Slot == {"prim", "sec"}
Other(s) == IF s = "prim" THEN "sec" ELSE "prim"
Names == Amd \cup Targets \cup {NoCounter}
ShownCounters == {gpuSlot[s] : s \in Slot}
Settled == 3

GpuTypeOK ==
    /\ gpuOpen \in BOOLEAN
    /\ gpuSlot \in [Slot -> Names]
    /\ gpuPend \subseteq Amd /\ gpuDrop \subseteq Amd /\ gpuSel \subseteq Amd
    /\ gpuMonitor \in {"none", "made", "active"}
    /\ gpuCell \in [Amd -> {"unset", "fresh", "old", "wrong"}]
    /\ gpuActive \in [Targets -> Slot \cup {"none", "orphan"}]
    /\ gpuMade \in [Slot -> BOOLEAN]
    /\ gpuShown \in [Slot -> {"nothing", "fresh", "old", "wrong"}]
    /\ gpuQuiet \in 0..Settled /\ gpuWhole \in BOOLEAN
    /\ gpuLost \subseteq Amd

\* load_settings: find_by_name makes the counters that the settings name.  The objects
\* of an earlier run of the program are gone.
GpuLoaded(names) ==
    [slot |-> names, pend |-> {names[s] : s \in Slot} \cap Amd, drop |-> {},
     monitor |-> IF \E s \in Slot : names[s] \in Amd THEN "made" ELSE "none", sel |-> {},
     cell |-> [c \in Amd |-> "unset"], active |-> [t \in Targets |-> "none"],
     made |-> [s \in Slot |-> FALSE], shown |-> [s \in Slot |-> "nothing"]]

GpuInit == \E names \in [Slot -> Names] :
    LET g == GpuLoaded(names) IN
    /\ gpuOpen = TRUE /\ gpuSlot = g.slot /\ gpuPend = g.pend /\ gpuDrop = g.drop
    /\ gpuMonitor = g.monitor /\ gpuSel = g.sel /\ gpuCell = g.cell
    /\ gpuActive = g.active /\ gpuMade = g.made /\ gpuShown = g.shown
    /\ gpuQuiet = 0 /\ gpuWhole = TRUE /\ gpuLost = {}

---------------------------------------------------------------------------
\* Requests of the counter objects.

\* The constructor of GpuExtAmdCounter: select(id, GL_TRUE).
AfterNew(pend, n) == pend \cup ({n} \cap Amd)
\* Its destructor: select(id, GL_FALSE).
AfterDrop(pend, old) == pend \ {old}
Removals(drop, old) == drop \cup ({old} \cap Amd)

\* counter_changed of a slot: the new counter exists before the old one is dropped, the
\* history of the slot restarts.  An OpenGL query that is dropped stays active.
ChooseCounter(s, n) ==
    LET old == gpuSlot[s] IN
    /\ gpuOpen /\ n # old
    /\ gpuSlot' = [gpuSlot EXCEPT ![s] = n]
    /\ gpuPend' = AfterDrop(AfterNew(gpuPend, n), old)
    /\ gpuDrop' = Removals(gpuDrop, old)
    /\ gpuMonitor' = IF n \in Amd /\ gpuMonitor = "none" THEN "made" ELSE gpuMonitor
    /\ gpuActive' = [t \in Targets |-> IF gpuActive[t] = s THEN "orphan" ELSE gpuActive[t]]
    /\ gpuMade' = [gpuMade EXCEPT ![s] = FALSE]
    /\ gpuShown' = [gpuShown EXCEPT ![s] = "nothing"]
    /\ gpuQuiet' = 0
    /\ gpuLost' = (gpuLost \ {n}) \cup (IF gpuSlot[Other(s)] = old THEN {old} \cap Amd ELSE {})
    /\ UNCHANGED <<gpuOpen, gpuSel, gpuCell, gpuWhole>>

---------------------------------------------------------------------------
\* The update, once per tick.

Width(c) == IF c \in Wide THEN 2 ELSE 1

\* The words the driver reports: group, counter, and the value.
Word(kind, c) == [kind |-> kind, counter |-> c]
WordsOf(c) == <<Word("group", c), Word("counter", c)>> \o [i \in 1..Width(c) |-> Word("data", c)]
Report(order) == FlattenSeq([i \in 1..Len(order) |-> WordsOf(order[i])])

\* The value word of a counter of an unhandled type, or any word after it, is taken for a
\* group and the next one for a counter: if the two name one, stray, its cell gets a word
\* that is not its own; two words that name none, or one that is not handled, are skipped.
Misread(stray, r) ==
    IF stray \in Amd \ Odd
    THEN [at |-> r.at + 2 + Width(stray), found |-> r.found \ {stray}, wrong |-> r.wrong \cup {stray}]
    ELSE [r EXCEPT !.at = @ + 2]

\* A variant: the 64 bit value is taken for one word.
ParseRoundNarrow(words, stray, r) ==
    IF r.at > Len(words) THEN r
    ELSE IF words[r.at].kind # "group" THEN Misread(stray, r)
    ELSE LET c == words[r.at + 1].counter
         IN  [at |-> r.at + 3, found |-> r.found \cup {c}, wrong |-> r.wrong \ {c}]

\* A round of the loop of GpuAmdExtMonitor::read, from the position of the next word: the
\* value of the counter is stored.  That of an unhandled type is not, nor is it skipped.
ParseRound(words, stray, r) ==
    IF r.at > Len(words) THEN r
    ELSE IF words[r.at].kind # "group" THEN Misread(stray, r)
    ELSE LET c == words[r.at + 1].counter
         IN  IF c \in Odd THEN [r EXCEPT !.at = @ + 2]
             ELSE [at |-> r.at + 2 + Width(c), found |-> r.found \cup {c}, wrong |-> r.wrong \ {c}]

\* The counters whose value is stored, and those that got a word of another one; a round
\* takes at least one word.
Parsed(words, stray) ==
    LET loop[n \in 0..Len(words)] ==
          IF n = 0 THEN [at |-> 1, found |-> {}, wrong |-> {}]
          ELSE ParseRound(words, stray, loop[n - 1])
    IN loop[Len(words)]

\* A variant: read passes the selections on before the removals.
SelectionBeforeRemoval == (gpuSel \cup gpuPend) \ gpuDrop

\* read: requests for removal go to the driver before those for selection.
Selection == (gpuSel \ gpuDrop) \cup gpuPend

ReadCells(parsed) ==
    [c \in Amd |-> IF c \in parsed.found THEN "fresh"
                   ELSE IF c \in parsed.wrong THEN "wrong"
                   ELSE IF gpuCell[c] = "fresh" THEN "old" ELSE gpuCell[c]]

\* A variant: the slot begins its query without ending the active one when it holds no result yet.
QueryUpdatedKeeps(gl, s) ==
    IF gpuSlot[s] \notin Targets THEN gl
    ELSE LET t == gpuSlot[s]
             ended == IF gl.active[t] = s THEN [gl.active EXCEPT ![t] = "none"] ELSE gl.active
         IN [active |-> IF ended[t] = "none" THEN [ended EXCEPT ![t] = s] ELSE ended,
             made |-> [gl.made EXCEPT ![s] = TRUE],
             shown |-> [gl.shown EXCEPT ![s] =
                          IF gl.made[s] /\ gl.active[t] = s THEN "fresh" ELSE "old"]]

\* GpuGLquery::update of a slot: ends whatever is active for its target, reads its own
\* object and begins it again.
QueryUpdated(gl, s) ==
    IF gpuSlot[s] \notin Targets THEN gl
    ELSE LET t == gpuSlot[s]
             ended == IF gl.made[s] THEN [gl.active EXCEPT ![t] = "none"] ELSE gl.active
         IN [active |-> IF ended[t] = "none" THEN [ended EXCEPT ![t] = s] ELSE ended,
             made |-> [gl.made EXCEPT ![s] = TRUE],
             shown |-> [gl.shown EXCEPT ![s] =
                          IF gl.made[s] /\ gl.active[t] = s THEN "fresh" ELSE "old"]]

\* GpuExtAmdCounter::update: puts the value of the cell, if there ever was one.
AmdShown(s, cell) ==
    IF gpuSlot[s] \in Amd /\ cell[gpuSlot[s]] # "unset" THEN cell[gpuSlot[s]] ELSE gpuShown[s]

\* The driver reports the counters of order; of those that are selected, unless its result
\* has no size.
GpuUpdate(order, stray) ==
    /\ gpuOpen
    /\ \E s \in Slot : gpuSlot[s] # NoCounter
    /\ gpuCell' = ReadCells(Parsed(Report(order), stray))
    /\ gpuWhole' = (gpuSel \cap Odd = {} /\ (order = <<>> => gpuSel = {}))
    /\ gpuSel' = Selection
    /\ gpuPend' = {} /\ gpuDrop' = {}
    /\ gpuMonitor' = IF gpuMonitor = "none" THEN "none" ELSE "active"
    /\ LET gl == QueryUpdated(QueryUpdated([active |-> gpuActive, made |-> gpuMade,
                    shown |-> [s \in Slot |-> AmdShown(s, gpuCell')]], "prim"), "sec")
       IN gpuActive' = gl.active /\ gpuMade' = gl.made /\ gpuShown' = gl.shown
    /\ gpuQuiet' = IF gpuQuiet < Settled THEN gpuQuiet + 1 ELSE gpuQuiet
    /\ UNCHANGED <<gpuOpen, gpuSlot, gpuLost>>

\* What a pair of words can name by chance, where words are misread at all.
Strays == {NoCounter} \cup (IF gpuSel \cap Odd = {} THEN {} ELSE Amd \ Odd)

\* The state after a start or a close.
GpuBecomes(g) ==
    /\ gpuSlot' = g.slot /\ gpuPend' = g.pend /\ gpuDrop' = g.drop
    /\ gpuMonitor' = g.monitor /\ gpuSel' = g.sel /\ gpuCell' = g.cell
    /\ gpuActive' = g.active /\ gpuMade' = g.made /\ gpuShown' = g.shown
    /\ gpuQuiet' = 0 /\ gpuWhole' = TRUE /\ gpuLost' = {}

\* close: both counters and then the monitor with its query are released.
GpuClose ==
    /\ gpuOpen /\ gpuOpen' = FALSE
    /\ GpuBecomes(GpuLoaded([s \in Slot |-> NoCounter]))

\* The program is started again.
GpuStart(names) ==
    /\ ~gpuOpen /\ gpuOpen' = TRUE
    /\ GpuBecomes(GpuLoaded(names))

GpuNext ==
    \/ \E s \in Slot, n \in Names : ChooseCounter(s, n)
    \/ \E order \in SetToSeqs(gpuSel) \cup {<<>>}, stray \in Strays : GpuUpdate(order, stray)
    \/ GpuClose
    \/ \E names \in [Slot -> Names] : GpuStart(names)

GpuSpec == GpuInit /\ [][GpuNext]_gpuVars
---------------------------------------------------------------------------
\* Properties.

\* Whatever counters are chosen, kept and dropped between two updates, the driver measures
\* no counter that no slot shows, and every shown counter is selected or about to be,
\* unless the other slot dropped the same counter (its destructor takes the selection away
\* from both).
SelectionFollows ==
    /\ gpuSel \subseteq ShownCounters \cup gpuDrop
    /\ (ShownCounters \cap Amd) \ gpuLost \subseteq gpuPend \cup (gpuSel \ gpuDrop)

\* Two updates after the last choice a slot with a counter shows what the query of the last
\* tick measured, or the driver had no result, or a counter of an unhandled type was in the
\* report: no request is lost, and the values in the report, of one or two words each, are
\* matched with their counters.
MeasuredSoon ==
    \A s \in Slot :
        gpuSlot[s] \in Amd \ gpuLost /\ gpuQuiet >= 2 /\ gpuWhole => gpuShown[s] = "fresh"

\* An OpenGL query that is alone on its target shows its own count three updates after the
\* last choice, although a dropped query may have been left active on the target.
QueryRecovers ==
    \A s \in Slot :
        gpuSlot[s] \in Targets /\ gpuSlot[Other(s)] # gpuSlot[s] /\ gpuQuiet >= 3
            => gpuShown[s] = "fresh"
=============================================================================
