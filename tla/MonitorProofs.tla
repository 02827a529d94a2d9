---------------------------- MODULE MonitorProofs ----------------------------
(***************************************************************************)
(* Proofs about the monitors and the key file.  NetRate, for any            *)
(* interfaces, names and texts and any number of bytes and returns: the     *)
(* network diagram shows differences of the chosen interface, and none that *)
(* runs backwards.  GpuCounters, for any counters: the driver measures what *)
(* the slots show, every shown counter gets its value, and an OpenGL query  *)
(* recovers from what was left active on its target.  Settings, for any     *)
(* sensors and slots: what is saved is loaded, and only absent sensors are  *)
(* forgotten.  CpuClock, for any cores, drivers and steps: the clock that   *)
(* is shown is one of the steps that were used.                             *)
(***************************************************************************)
EXTENDS NetRate, GpuCounters, Settings, CpuClock, FiniteSetTheorems, WellFoundedInduction, TLAPS

(***************************************************************************)
(* Loops and sequences.  The models write a loop of the code as a           *)
(* recursive function of the rounds gone,                                   *)
(*     f[n \in 0..N] == IF n = 0 THEN base ELSE ... f[n - 1] ...            *)
(* which stands for CHOOSE f : f = [n \in 0..N |-> ...].  The proofs need   *)
(* that there is such a function, and induction over its argument.  Both    *)
(* are stated with sets and functions in place of operators, so that a     *)
(* first-order prover can use them.                                        *)
(***************************************************************************)

\* A set of numbers has a least one.
LEMMA LeastNumber ==
    ASSUME NEW T, T \subseteq Nat, T # {}
    PROVE  \E x \in T : \A y \in T : x <= y
<1> DEFINE R == OpToRel(<, Nat)
<1>1. IsWellFoundedOn(R, Nat)
  BY NatLessThanWellFounded
<1>2. \A x, y \in Nat : x < y => <<x, y>> \in R
  BY DEF OpToRel
<1> HIDE DEF R
<1>3. PICK x \in T : \A y \in T : ~ (<<y, x>> \in R)
  BY <1>1, WFMin
<1>4. ASSUME NEW y \in T PROVE x <= y
  <2>1. x \in Nat /\ y \in Nat
    OBVIOUS
  <2>2. ~(y < x)
    BY <1>2, <1>3, <2>1
  <2> QED
    BY <2>1, <2>2
<1> QED
  BY <1>4

LEMMA Induction ==
    ASSUME NEW T, 0 \in T, \A n \in Nat : n \in T => n + 1 \in T
    PROVE  Nat \subseteq T
<1> SUFFICES ASSUME Nat \ T # {} PROVE FALSE
  OBVIOUS
<1>1. PICK x \in Nat \ T : \A y \in Nat \ T : x <= y
  BY LeastNumber
<1>2. x - 1 \in Nat
  BY <1>1
<1> QED
  BY <1>1, <1>2

\* Induction up to a bound, and from there down to 0.
LEMMA BoundedInduction ==
    ASSUME NEW N \in Nat, NEW T, 0 \in T, \A n \in 1..N : n - 1 \in T => n \in T
    PROVE  0..N \subseteq T
<1> DEFINE U == {n \in Nat : n <= N => n \in T}
<1>1. 0 \in U
  OBVIOUS
<1>2. ASSUME NEW n \in Nat, n \in U PROVE n + 1 \in U
  <2>1. CASE n + 1 <= N
    <3>1. n + 1 \in 1..N /\ n \in T /\ (n + 1) - 1 = n
      BY <2>1, <1>2
    <3> QED
      BY <3>1
  <2> QED
    BY <2>1
<1> HIDE DEF U
<1>3. Nat \subseteq U
  BY <1>1, <1>2, Induction
<1> QED
  BY <1>3 DEF U

LEMMA DownwardInduction ==
    ASSUME NEW N \in Nat, NEW T, N \in T, \A n \in 1..N : n \in T => n - 1 \in T
    PROVE  0..N \subseteq T
<1> DEFINE U == {n \in 0..N : N - n \in T}
<1>1. 0 \in U
  BY DEF U
<1>2. ASSUME NEW n \in 1..N, n - 1 \in U PROVE n \in U
  <2>1. N - (n - 1) \in 1..N /\ N - (n - 1) \in T /\ (N - (n - 1)) - 1 = N - n
    BY <1>2
  <2> QED
    BY <2>1
<1> HIDE DEF U
<1>3. 0..N \subseteq U
  BY <1>1, <1>2, BoundedInduction
<1>4. ASSUME NEW n \in 0..N PROVE n \in T
  <2>1. N - n \in 0..N /\ N - (N - n) = n
    OBVIOUS
  <2> QED
    BY <1>3, <2>1 DEF U
<1> QED
  BY <1>4

\* A loop of N rounds over values of X, and its values after each round.
IsLoop(N, X, base, step) == N \in Nat /\ base \in X /\ step \in [1..N -> [X -> X]]
LoopOf(f, N, X, base, step) ==
    f \in [0..N -> X] /\ f[0] = base /\ \A n \in 1..N : f[n] = step[n][f[n - 1]]

\* A loop has a value after each round, if each round can go on from every value.
LEMMA LoopValue ==
    ASSUME NEW N, NEW X, NEW base, NEW step, IsLoop(N, X, base, step)
    PROVE  \E f : LoopOf(f, N, X, base, step)
<1> USE DEF IsLoop
<1> DEFINE Upto(m) == \E f \in [0..m -> X] : f[0] = base /\ \A n \in 1..m : f[n] = step[n][f[n - 1]]
           T == {m \in 0..N : Upto(m)}
<1>1. 0 \in T
  <2> DEFINE f == [i \in 0..0 |-> base]
  <2>1. f \in [0..0 -> X] /\ f[0] = base /\ \A n \in 1..0 : f[n] = step[n][f[n - 1]]
    OBVIOUS
  <2>2. Upto(0)
    BY <2>1
  <2> QED
    BY <2>2
<1>2. ASSUME NEW m \in 1..N, m - 1 \in T PROVE m \in T
  <2>1. PICK f \in [0..(m - 1) -> X] : f[0] = base /\ \A n \in 1..(m - 1) : f[n] = step[n][f[n - 1]]
    BY <1>2
  <2> DEFINE g == [i \in 0..m |-> IF i = m THEN step[m][f[m - 1]] ELSE f[i]]
  <2>2. f[m - 1] \in X /\ step[m][f[m - 1]] \in X
    OBVIOUS
  <2>3. g \in [0..m -> X]
    BY <2>2
  <2>4. g[0] = base /\ \A n \in 1..m : g[n] = step[n][g[n - 1]]
    BY <2>1
  <2>5. Upto(m)
    BY <2>3, <2>4
  <2> QED
    BY <2>5
<1> HIDE DEF T
<1>3. 0..N \subseteq T
  BY <1>1, <1>2, BoundedInduction
<1>4. N \in T
  BY <1>3
<1> QED
  BY <1>4 DEF T, LoopOf

\* What holds before the first round and through each round holds of every value.
LEMMA LoopType ==
    ASSUME NEW N \in Nat, NEW X, NEW f, f[0] \in X, \A n \in 1..N : f[n - 1] \in X => f[n] \in X
    PROVE  \A n \in 0..N : f[n] \in X
<1> DEFINE T == {n \in 0..N : f[n] \in X}
<1>1. 0 \in T
  OBVIOUS
<1>2. \A n \in 1..N : n - 1 \in T => n \in T
  OBVIOUS
<1> HIDE DEF T
<1>3. 0..N \subseteq T
  BY <1>1, <1>2, BoundedInduction
<1> QED
  BY <1>3 DEF T

-----------------------------------------------------------------------------
\* Sequences by their elements.
LEMMA SequenceOf ==
    ASSUME NEW S, NEW s \in Seq(S)
    PROVE  Len(s) \in Nat /\ DOMAIN s = 1..Len(s) /\ \A i \in 1..Len(s) : s[i] \in S
  OBVIOUS

LEMMA SequenceIn ==
    ASSUME NEW S, NEW T, NEW s \in Seq(S), \A i \in 1..Len(s) : s[i] \in T
    PROVE  s \in Seq(T)
<1>1. Len(s) \in Nat /\ s \in [1..Len(s) -> T]
  OBVIOUS
<1> QED
  BY <1>1

LEMMA SequenceBy ==
    ASSUME NEW S, NEW n \in Nat, NEW f \in [1..n -> S]
    PROVE  f \in Seq(S) /\ Len(f) = n
  OBVIOUS

LEMMA SameElements ==
    ASSUME NEW S, NEW s \in Seq(S), NEW t \in Seq(S), Len(s) = Len(t), \A i \in 1..Len(s) : s[i] = t[i]
    PROVE  s = t
  OBVIOUS

LEMMA Joined ==
    ASSUME NEW S, NEW s \in Seq(S), NEW t \in Seq(S)
    PROVE  /\ Len(s \o t) = Len(s) + Len(t)
           /\ \A i \in 1..Len(s) : (s \o t)[i] = s[i]
           /\ \A i \in 1..Len(t) : (s \o t)[Len(s) + i] = t[i]
  OBVIOUS

-----------------------------------------------------------------------------

(***************************************************************************)
(* The next difference is taken to the previous reading; what it needs of   *)
(* it is that a reading with traffic was made for the present text, of an   *)
(* interface of that name, and that the counter did not fall since unless   *)
(* the interface went: one that has gone is not read, and one that is back  *)
(* has another count of returns.                                           *)
(***************************************************************************)
PreviousOfText ==
    nrPrev.recv > 0 =>
        /\ nrPrev.text = nrText
        /\ nrText # NoText => nrPrev.dev \in NamedBy[nrText]
PreviousBefore ==
    nrPrev.recv > 0 =>
        /\ nrPrev.plug <= nrPlug[nrPrev.dev]
        /\ nrPrev.dev \in nrUp /\ nrPrev.plug = nrPlug[nrPrev.dev] => nrPrev.recv <= nrRecv[nrPrev.dev]

RateInv == NetTypeOK /\ PreviousOfText /\ PreviousBefore /\ RateOfChosen

-----------------------------------------------------------------------------
LEMMA LoopbackIsDevice == Loopback \in NetDevs
  BY NetConstants DEF Loopback, NetDevs, Range

LEMMA NoSampleType == NoSample \in Samples /\ NoSample.recv = 0
  BY LoopbackIsDevice, NetConstants DEF NoSample, Samples

LEMMA InitRate == NetInit => RateInv
<1> SUFFICES ASSUME NetInit PROVE RateInv
  OBVIOUS
<1>1. NetTypeOK
  BY NoSampleType, NetConstants DEF NetInit, NetTypeOK, NoDiff
<1> QED
  BY <1>1, NoSampleType DEF NetInit, RateInv, PreviousOfText, PreviousBefore, RateOfChosen

\* What the kernel does leaves the readings alone, and a counter falls only when its
\* interface goes.
LEMMA CountedInv ==
    ASSUME RateInv, NEW d \in NetDevs, NetReceive(d) \/ NetSend(d) \/ NetRemoved(d) \/ NetReturns(d)
    PROVE  RateInv'
<1> USE DEF RateInv
<1>1. UNCHANGED <<nrText, nrPrev, nrDiff>>
  BY DEF NetReceive, NetSend, NetRemoved, NetReturns
<1>2. NetTypeOK'
  <2>1. nrUp' \subseteq NetDevs /\ nrSent' \subseteq NetDevs
    BY DEF NetReceive, NetSend, NetRemoved, NetReturns, NetTypeOK
  <2>2. nrRecv' \in [NetDevs -> 0..MaxBytes]
    <3>1. nrRecv \in [NetDevs -> 0..MaxBytes] /\ MaxBytes \in Nat
      BY NetConstants DEF NetTypeOK
    <3> QED
      BY <3>1 DEF NetReceive, NetSend, NetRemoved, NetReturns
  <2>3. nrPlug' \in [NetDevs -> 0..MaxPlugs]
    <3>1. nrPlug \in [NetDevs -> 0..MaxPlugs] /\ MaxPlugs \in Nat
      BY NetConstants DEF NetTypeOK
    <3> QED
      BY <3>1 DEF NetReceive, NetSend, NetRemoved, NetReturns
  <2> QED
    BY <1>1, <2>1, <2>2, <2>3 DEF NetTypeOK
<1>3. PreviousOfText' /\ RateOfChosen'
  BY <1>1 DEF PreviousOfText, RateOfChosen
<1>4. PreviousBefore'
  <2>1. SUFFICES ASSUME nrPrev.recv > 0
                 PROVE  /\ nrPrev.plug <= nrPlug'[nrPrev.dev]
                        /\ nrPrev.dev \in nrUp' /\ nrPrev.plug = nrPlug'[nrPrev.dev]
                             => nrPrev.recv <= nrRecv'[nrPrev.dev]
    BY <1>1 DEF PreviousBefore
  <2>2. /\ nrPrev.dev \in NetDevs /\ nrPrev.plug \in Nat /\ nrPrev.recv \in Nat
        /\ nrRecv \in [NetDevs -> 0..MaxBytes] /\ nrPlug \in [NetDevs -> 0..MaxPlugs]
        /\ nrPrev.plug <= nrPlug[nrPrev.dev]
        /\ nrPrev.dev \in nrUp /\ nrPrev.plug = nrPlug[nrPrev.dev] => nrPrev.recv <= nrRecv[nrPrev.dev]
    BY <2>1, NetConstants DEF NetTypeOK, Samples, PreviousBefore
  <2>3. CASE NetReceive(d)
    BY <2>2, <2>3, NetConstants DEF NetReceive
  <2>4. CASE NetSend(d)
    BY <2>2, <2>4 DEF NetSend
  <2>5. CASE NetRemoved(d)
    BY <2>2, <2>5 DEF NetRemoved
  <2>6. CASE NetReturns(d)
    BY <2>2, <2>6, NetConstants DEF NetReturns
  <2> QED
    BY <2>3, <2>4, <2>5, <2>6
<1> QED
  BY <1>2, <1>3, <1>4

\* A new reading is of an interface that is there and has the chosen name.
LEMMA UpdateInv == ASSUME RateInv, NetUpdate PROVE RateInv'
<1> USE DEF RateInv
<1>1. UNCHANGED <<nrUp, nrRecv, nrSent, nrPlug, nrText>>
  BY DEF NetUpdate, nrKernel
<1>2. CASE UNCHANGED <<nrPrev, nrDiff>>
  BY <1>1, <1>2 DEF NetTypeOK, PreviousOfText, PreviousBefore, RateOfChosen
<1>3. CASE ~UNCHANGED <<nrPrev, nrDiff>>
  <2>1. PICK i \in DOMAIN NetOrder :
          /\ FirstTaken(i) /\ nrPrev' = Sample(NetOrder[i])
          /\ nrDiff' = IF nrPrev.recv > 0 THEN [from |-> nrPrev, to |-> nrPrev'] ELSE NoDiff
    BY <1>3 DEF NetUpdate
  <2> DEFINE d == NetOrder[i]
  <2>2. d \in NetDevs /\ Taken(d)
    BY <2>1 DEF FirstTaken, NetDevs, Range
  <2>3. d \in nrUp /\ (nrText # NoText => d \in NamedBy[nrText])
    BY <2>2 DEF Taken
  <2>4. nrPrev' = [dev |-> d, plug |-> nrPlug[d], recv |-> nrRecv[d], text |-> nrText]
    BY <2>1 DEF Sample
  <2> HIDE DEF d
  <2>5. /\ nrPrev' \in Samples /\ nrPlug[d] \in Nat /\ nrRecv[d] \in Nat
    BY <2>2, <2>4, NetConstants DEF NetTypeOK, Samples
  <2>6. PreviousOfText' /\ PreviousBefore'
    BY <1>1, <2>3, <2>4, <2>5 DEF PreviousOfText, PreviousBefore
  <2>7. CASE nrPrev.recv > 0
    <3>1. nrDiff' = [from |-> nrPrev, to |-> nrPrev']
      BY <2>1, <2>7
    <3>2. NetTypeOK'
      BY <1>1, <2>5, <3>1 DEF NetTypeOK
    <3>3. /\ nrPrev.text = nrText /\ (nrText # NoText => nrPrev.dev \in NamedBy[nrText])
          /\ nrPrev.dev = d /\ nrPrev.plug = nrPlug[d] => nrPrev.recv <= nrRecv[d]
      BY <2>3, <2>7 DEF PreviousOfText, PreviousBefore
    <3>4. RateOfChosen'
      BY <2>3, <2>4, <3>1, <3>3 DEF RateOfChosen
    <3> QED
      BY <2>6, <3>2, <3>4
  <2>8. CASE ~(nrPrev.recv > 0)
    <3>1. nrDiff' = NoDiff
      BY <2>1, <2>8
    <3>2. NetTypeOK'
      BY <1>1, <2>5, <3>1, NoSampleType DEF NetTypeOK, NoDiff
    <3> QED
      BY <2>6, <3>1, <3>2 DEF RateOfChosen, NoDiff
  <2> QED
    BY <2>7, <2>8
<1> QED
  BY <1>2, <1>3

\* A new text forgets the previous reading.
LEMMA DeviceChangedInv ==
    ASSUME RateInv, NEW t \in NetTexts, NetDeviceChanged(t) PROVE RateInv'
<1>1. /\ nrText' = t /\ nrPrev' = NoSample
      /\ UNCHANGED <<nrUp, nrRecv, nrSent, nrPlug, nrDiff>>
  BY DEF NetDeviceChanged, Reinit, nrKernel
<1>2. NetTypeOK'
  BY <1>1, NoSampleType DEF RateInv, NetTypeOK
<1>3. PreviousOfText' /\ PreviousBefore'
  BY <1>1, NoSampleType DEF PreviousOfText, PreviousBefore
<1>4. RateOfChosen'
  BY <1>1 DEF RateInv, RateOfChosen
<1> QED
  BY <1>2, <1>3, <1>4 DEF RateInv

LEMMA NextRate == RateInv /\ [NetNext]_nrVars => RateInv'
<1> SUFFICES ASSUME RateInv, [NetNext]_nrVars PROVE RateInv'
  OBVIOUS
<1>1. CASE \E d \in NetDevs : NetReceive(d) \/ NetSend(d) \/ NetRemoved(d) \/ NetReturns(d)
  BY <1>1, CountedInv
<1>2. CASE NetUpdate
  BY <1>2, UpdateInv
<1>3. CASE \E t \in NetTexts : NetDeviceChanged(t)
  BY <1>3, DeviceChangedInv
<1>4. CASE UNCHANGED nrVars
  BY <1>4 DEF nrVars, RateInv, NetTypeOK, PreviousOfText, PreviousBefore, RateOfChosen
<1> QED
  BY <1>1, <1>2, <1>3, <1>4 DEF NetNext

\* The readings and counters stay what they are for any traffic, removal and return.
THEOREM RateTypeCorrect == NetSpec => []NetTypeOK
<1>1. RateInv => NetTypeOK
  BY DEF RateInv
<1> QED
  BY <1>1, InitRate, NextRate, PTL DEF NetSpec

\* No rate is shown that was computed over a change of the entry, of an interface with
\* another name, or from a counter that fell.
THEOREM RateIsOfChosen == NetSpec => []RateOfChosen
<1>1. RateInv => RateOfChosen
  BY DEF RateInv
<1> QED
  BY <1>1, InitRate, NextRate, PTL DEF NetSpec

-----------------------------------------------------------------------------
(***************************************************************************)
(* The requests: what waits for selection is shown, so that passing it on  *)
(* selects nothing that a dropped counter had asked for.                   *)
(***************************************************************************)
RequestsInv ==
    /\ gpuPend \subseteq ShownCounters
    /\ SelectionFollows

(***************************************************************************)
(* An OpenGL query alone on its target takes three updates: the first      *)
(* makes its object, the second ends what was active and begins it, the    *)
(* third ends and reads it.                                                *)
(***************************************************************************)
Alone(s) == gpuSlot[s] \in Targets /\ gpuSlot[Other(s)] # gpuSlot[s]
QueryInv ==
    /\ \A s \in Slot : Alone(s) =>
         /\ gpuQuiet >= 1 => gpuMade[s]
         /\ gpuQuiet >= 2 => gpuActive[gpuSlot[s]] = s
    /\ QueryRecovers

-----------------------------------------------------------------------------
\* What a start makes, and a close leaves.
LEMMA GpuLoadedType ==
    ASSUME NEW names \in [Slot -> Names]
    PROVE  LET g == GpuLoaded(names) IN
           /\ g.slot = names /\ g.sel = {} /\ g.drop = {} /\ g.pend = {names[s] : s \in Slot} \cap Amd
           /\ g.monitor \in {"none", "made"}
           /\ g.cell \in [Amd -> {"unset", "fresh", "old", "wrong"}]
           /\ g.active \in [Targets -> Slot \cup {"none", "orphan"}]
           /\ g.made \in [Slot -> BOOLEAN] /\ g.shown \in [Slot -> {"nothing", "fresh", "old", "wrong"}]
  BY DEF GpuLoaded

LEMMA InitType == GpuInit => GpuTypeOK
<1> SUFFICES ASSUME GpuInit PROVE GpuTypeOK
  OBVIOUS
<1>1. PICK names \in [Slot -> Names] :
        LET g == GpuLoaded(names) IN
        /\ gpuOpen = TRUE /\ gpuSlot = g.slot /\ gpuPend = g.pend /\ gpuDrop = g.drop
        /\ gpuMonitor = g.monitor /\ gpuSel = g.sel /\ gpuCell = g.cell
        /\ gpuActive = g.active /\ gpuMade = g.made /\ gpuShown = g.shown
        /\ gpuQuiet = 0 /\ gpuWhole = TRUE /\ gpuLost = {}
  BY DEF GpuInit
<1> QED
  BY <1>1, GpuLoadedType DEF GpuTypeOK, Settled

LEMMA BecomesType ==
    ASSUME NEW names \in [Slot -> Names], GpuBecomes(GpuLoaded(names)), gpuOpen' \in BOOLEAN
    PROVE  GpuTypeOK'
<1> DEFINE g == GpuLoaded(names)
<1>1. /\ gpuSlot' = g.slot /\ gpuPend' = g.pend /\ gpuDrop' = g.drop
      /\ gpuMonitor' = g.monitor /\ gpuSel' = g.sel /\ gpuCell' = g.cell
      /\ gpuActive' = g.active /\ gpuMade' = g.made /\ gpuShown' = g.shown
      /\ gpuQuiet' = 0 /\ gpuWhole' = TRUE /\ gpuLost' = {}
  BY DEF GpuBecomes
<1> HIDE DEF g
<1> QED
  BY <1>1, GpuLoadedType DEF GpuTypeOK, Settled, g

\* The update of an OpenGL query, for any state of the queries.
Queries == [active : [Targets -> Slot \cup {"none", "orphan"}],
            made : [Slot -> BOOLEAN], shown : [Slot -> {"nothing", "fresh", "old", "wrong"}]]
LEMMA QueryType ==
    ASSUME NEW s \in Slot, NEW gl \in Queries
    PROVE  QueryUpdated(gl, s) \in Queries
<1>1. CASE gpuSlot[s] \notin Targets
  BY <1>1 DEF QueryUpdated
<1>2. CASE gpuSlot[s] \in Targets
  <2> DEFINE t == gpuSlot[s]
             ended == IF gl.made[s] THEN [gl.active EXCEPT ![t] = "none"] ELSE gl.active
  <2>1. ended \in [Targets -> Slot \cup {"none", "orphan"}]
    BY <1>2 DEF Queries
  <2>2. QueryUpdated(gl, s) =
        [active |-> IF ended[t] = "none" THEN [ended EXCEPT ![t] = s] ELSE ended,
         made |-> [gl.made EXCEPT ![s] = TRUE],
         shown |-> [gl.shown EXCEPT ![s] =
                      IF gl.made[s] /\ gl.active[t] = s THEN "fresh" ELSE "old"]]
    BY <1>2 DEF QueryUpdated
  <2>3. /\ QueryUpdated(gl, s).active = IF ended[t] = "none" THEN [ended EXCEPT ![t] = s] ELSE ended
        /\ QueryUpdated(gl, s).made = [gl.made EXCEPT ![s] = TRUE]
        /\ QueryUpdated(gl, s).shown = [gl.shown EXCEPT ![s] =
                      IF gl.made[s] /\ gl.active[t] = s THEN "fresh" ELSE "old"]
    BY <2>2
  <2>4. /\ QueryUpdated(gl, s).active \in [Targets -> Slot \cup {"none", "orphan"}]
        /\ QueryUpdated(gl, s).made \in [Slot -> BOOLEAN]
        /\ QueryUpdated(gl, s).shown \in [Slot -> {"nothing", "fresh", "old", "wrong"}]
    <3> DEFINE value == IF gl.made[s] /\ gl.active[t] = s THEN "fresh" ELSE "old"
    <3>1. /\ gl.made \in [Slot -> BOOLEAN] /\ gl.shown \in [Slot -> {"nothing", "fresh", "old", "wrong"}]
          /\ value \in {"nothing", "fresh", "old", "wrong"}
      BY DEF Queries
    <3> HIDE DEF ended, value
    <3>2. QueryUpdated(gl, s).active \in [Targets -> Slot \cup {"none", "orphan"}]
      BY <2>1, <2>3
    <3>3. QueryUpdated(gl, s).made \in [Slot -> BOOLEAN]
      BY <2>3, <3>1
    <3>4. QueryUpdated(gl, s).shown = [gl.shown EXCEPT ![s] = value]
      BY <2>3 DEF value
    <3> QED
      BY <3>1, <3>2, <3>3, <3>4
  <2> HIDE DEF ended
  <2> QED
    BY <2>2, <2>4 DEF Queries
<1> QED
  BY <1>1, <1>2

\* What the queries are before the first of them is updated.
Before == [active |-> gpuActive, made |-> gpuMade, shown |-> [s \in Slot |-> AmdShown(s, gpuCell')]]
LEMMA UpdateCells ==
    ASSUME GpuTypeOK, NEW order, NEW stray, GpuUpdate(order, stray)
    PROVE  /\ gpuCell' \in [Amd -> {"unset", "fresh", "old", "wrong"}]
           /\ Before \in Queries
           /\ LET gl == QueryUpdated(QueryUpdated(Before, "prim"), "sec") IN
              gpuActive' = gl.active /\ gpuMade' = gl.made /\ gpuShown' = gl.shown
<1>1. gpuCell' \in [Amd -> {"unset", "fresh", "old", "wrong"}]
  BY DEF GpuUpdate, ReadCells, GpuTypeOK
<1>2. Before \in Queries
  <2>1. \A s \in Slot : AmdShown(s, gpuCell') \in {"nothing", "fresh", "old", "wrong"}
    BY <1>1 DEF AmdShown, GpuTypeOK
  <2> QED
    BY <2>1 DEF Before, Queries, GpuTypeOK
<1>3. LET gl == QueryUpdated(QueryUpdated(Before, "prim"), "sec") IN
      gpuActive' = gl.active /\ gpuMade' = gl.made /\ gpuShown' = gl.shown
  BY DEF GpuUpdate, Before
<1> QED
  BY <1>1, <1>2, <1>3

LEMMA UpdateType == ASSUME GpuTypeOK, NEW order, NEW stray, GpuUpdate(order, stray) PROVE GpuTypeOK'
<1>1. /\ gpuActive' \in [Targets -> Slot \cup {"none", "orphan"}]
      /\ gpuMade' \in [Slot -> BOOLEAN] /\ gpuShown' \in [Slot -> {"nothing", "fresh", "old", "wrong"}]
  <2>1. QueryUpdated(QueryUpdated(Before, "prim"), "sec") \in Queries
    BY UpdateCells, QueryType DEF Slot
  <2> QED
    BY <2>1, UpdateCells DEF Queries
<1>2. gpuSel' \subseteq Amd /\ gpuPend' = {} /\ gpuDrop' = {}
  BY DEF GpuUpdate, Selection, GpuTypeOK
<1>3. gpuQuiet' \in 0..Settled /\ gpuMonitor' \in {"none", "made", "active"}
  BY DEF GpuUpdate, GpuTypeOK, Settled
<1> QED
  BY <1>1, <1>2, <1>3, UpdateCells DEF GpuUpdate, GpuTypeOK

LEMMA ChooseType ==
    ASSUME GpuTypeOK, NEW s \in Slot, NEW n \in Names, ChooseCounter(s, n) PROVE GpuTypeOK'
<1>1. gpuSlot' \in [Slot -> Names] /\ gpuSlot[s] \in Names
  BY DEF ChooseCounter, GpuTypeOK
<1>2. /\ gpuPend' \subseteq Amd /\ gpuDrop' \subseteq Amd /\ gpuLost' \subseteq Amd
  BY DEF ChooseCounter, AfterDrop, AfterNew, Removals, GpuTypeOK
<1>3. /\ gpuActive' \in [Targets -> Slot \cup {"none", "orphan"}]
      /\ gpuMade' \in [Slot -> BOOLEAN] /\ gpuShown' \in [Slot -> {"nothing", "fresh", "old", "wrong"}]
  BY DEF ChooseCounter, GpuTypeOK
<1> QED
  BY <1>1, <1>2, <1>3 DEF ChooseCounter, GpuTypeOK, Settled

LEMMA NextType == GpuTypeOK /\ [GpuNext]_gpuVars => GpuTypeOK'
<1> SUFFICES ASSUME GpuTypeOK, [GpuNext]_gpuVars PROVE GpuTypeOK'
  OBVIOUS
<1>1. CASE \E s \in Slot, n \in Names : ChooseCounter(s, n)
  BY <1>1, ChooseType
<1>2. CASE \E order \in SetToSeqs(gpuSel) \cup {<<>>}, stray \in Strays : GpuUpdate(order, stray)
  BY <1>2, UpdateType
<1>3. CASE GpuClose
  <2>1. [s \in Slot |-> NoCounter] \in [Slot -> Names]
    BY DEF Names
  <2> QED
    BY <1>3, <2>1, BecomesType DEF GpuClose
<1>4. CASE \E names \in [Slot -> Names] : GpuStart(names)
  BY <1>4, BecomesType DEF GpuStart
<1>5. CASE UNCHANGED gpuVars
  BY <1>5 DEF gpuVars, GpuTypeOK
<1> QED
  BY <1>1, <1>2, <1>3, <1>4, <1>5 DEF GpuNext

-----------------------------------------------------------------------------
\* What is loaded at a start waits for selection.
LEMMA InitRequests == GpuInit => RequestsInv
<1> SUFFICES ASSUME GpuInit PROVE RequestsInv
  OBVIOUS
<1>1. PICK names \in [Slot -> Names] :
        /\ gpuSlot = GpuLoaded(names).slot /\ gpuPend = GpuLoaded(names).pend
        /\ gpuDrop = GpuLoaded(names).drop /\ gpuSel = GpuLoaded(names).sel
  BY DEF GpuInit
<1>2. /\ gpuSlot = names /\ gpuPend = {names[s] : s \in Slot} \cap Amd
      /\ gpuDrop = {} /\ gpuSel = {}
  BY <1>1, GpuLoadedType
<1> QED
  BY <1>2 DEF RequestsInv, SelectionFollows, ShownCounters

\* A counter that is dropped takes its own request with it, and asks to be removed.
LEMMA ChooseSelection ==
    ASSUME GpuTypeOK, RequestsInv, NEW s \in Slot, NEW n \in Names, ChooseCounter(s, n)
    PROVE  RequestsInv'
<1> DEFINE old == gpuSlot[s]
           rest == gpuSlot[Other(s)]
<1>1. Other(s) \in Slot /\ Other(s) # s /\ \A u \in Slot : u = s \/ u = Other(s)
  BY DEF Slot, Other
<1>2. gpuSlot' = [gpuSlot EXCEPT ![s] = n] /\ n # old /\ old \in Names /\ rest \in Names
  BY <1>1 DEF ChooseCounter, GpuTypeOK
<1>3. ShownCounters = {old, rest} /\ ShownCounters' = {n, rest}
  BY <1>1, <1>2 DEF ShownCounters, GpuTypeOK
<1>4. /\ gpuPend' = (gpuPend \cup ({n} \cap Amd)) \ {old}
      /\ gpuDrop' = gpuDrop \cup ({old} \cap Amd) /\ gpuSel' = gpuSel
      /\ gpuLost' = (gpuLost \ {n}) \cup (IF rest = old THEN {old} \cap Amd ELSE {})
  BY DEF ChooseCounter, AfterDrop, AfterNew, Removals
<1>5. gpuSel \subseteq Amd /\ gpuPend \subseteq Amd
  BY DEF GpuTypeOK
<1> HIDE DEF old, rest
<1>6. gpuPend' \subseteq ShownCounters'
  BY <1>3, <1>4 DEF RequestsInv
<1>7. gpuSel' \subseteq ShownCounters' \cup gpuDrop'
  BY <1>3, <1>4, <1>5 DEF RequestsInv, SelectionFollows
<1>8. (ShownCounters' \cap Amd) \ gpuLost' \subseteq gpuPend' \cup (gpuSel' \ gpuDrop')
  BY <1>2, <1>3, <1>4 DEF RequestsInv, SelectionFollows
<1> QED
  BY <1>6, <1>7, <1>8 DEF RequestsInv, SelectionFollows

\* An update passes the requests on: what stays selected, or is selected now, is shown.
LEMMA UpdateSelection ==
    ASSUME GpuTypeOK, RequestsInv, NEW order, NEW stray, GpuUpdate(order, stray)
    PROVE  RequestsInv'
<1>1. /\ UNCHANGED <<gpuSlot, gpuLost>> /\ gpuPend' = {} /\ gpuDrop' = {}
      /\ gpuSel' = (gpuSel \ gpuDrop) \cup gpuPend
  BY DEF GpuUpdate, Selection
<1>2. ShownCounters' = ShownCounters
  BY <1>1 DEF ShownCounters
<1> QED
  BY <1>1, <1>2 DEF RequestsInv, SelectionFollows

LEMMA RequestsNext == GpuTypeOK /\ RequestsInv /\ [GpuNext]_gpuVars => RequestsInv'
<1> SUFFICES ASSUME GpuTypeOK, RequestsInv, [GpuNext]_gpuVars PROVE RequestsInv'
  OBVIOUS
<1>1. CASE \E s \in Slot, n \in Names : ChooseCounter(s, n)
  BY <1>1, ChooseSelection
<1>2. CASE \E order \in SetToSeqs(gpuSel) \cup {<<>>}, stray \in Strays : GpuUpdate(order, stray)
  BY <1>2, UpdateSelection
<1>3. ASSUME NEW names \in [Slot -> Names], GpuBecomes(GpuLoaded(names)) PROVE RequestsInv'
  <2>1. /\ gpuSlot' = names /\ gpuPend' = {names[s] : s \in Slot} \cap Amd
        /\ gpuDrop' = {} /\ gpuSel' = {}
    BY <1>3 DEF GpuBecomes, GpuLoaded
  <2> QED
    BY <2>1 DEF RequestsInv, SelectionFollows, ShownCounters
<1>4. CASE GpuClose
  BY <1>3, <1>4 DEF GpuClose, Names
<1>5. CASE \E names \in [Slot -> Names] : GpuStart(names)
  BY <1>3, <1>5 DEF GpuStart
<1>6. CASE UNCHANGED gpuVars
  BY <1>6 DEF gpuVars, RequestsInv, SelectionFollows, ShownCounters
<1> QED
  BY <1>1, <1>2, <1>4, <1>5, <1>6 DEF GpuNext

-----------------------------------------------------------------------------
\* A query is begun and read by its own slot only, when no other slot has its target.
LEMMA QueryOfSlot ==
    ASSUME NEW s \in Slot, NEW gl \in Queries, gpuSlot[s] \in Targets
    PROVE  LET after == QueryUpdated(gl, s)  t == gpuSlot[s] IN
           /\ after.made[s]
           /\ gl.made[s] => after.active[t] = s
           /\ gl.made[s] /\ gl.active[t] = s => after.shown[s] = "fresh"
<1> DEFINE t == gpuSlot[s]
           ended == IF gl.made[s] THEN [gl.active EXCEPT ![t] = "none"] ELSE gl.active
<1>1. ended \in [Targets -> Slot \cup {"none", "orphan"}] /\ (gl.made[s] => ended[t] = "none")
  BY DEF Queries
<1>2. QueryUpdated(gl, s) =
        [active |-> IF ended[t] = "none" THEN [ended EXCEPT ![t] = s] ELSE ended,
         made |-> [gl.made EXCEPT ![s] = TRUE],
         shown |-> [gl.shown EXCEPT ![s] =
                      IF gl.made[s] /\ gl.active[t] = s THEN "fresh" ELSE "old"]]
  BY DEF QueryUpdated
<1> HIDE DEF ended
<1> QED
  BY <1>1, <1>2 DEF Queries

LEMMA QueryOfOther ==
    ASSUME NEW s \in Slot, NEW u \in Slot \ {s}, NEW gl \in Queries,
           gpuSlot[s] \in Targets, gpuSlot[u] # gpuSlot[s]
    PROVE  LET after == QueryUpdated(gl, u)  t == gpuSlot[s] IN
           after.made[s] = gl.made[s] /\ after.active[t] = gl.active[t] /\ after.shown[s] = gl.shown[s]
<1>1. CASE gpuSlot[u] \notin Targets
  BY <1>1 DEF QueryUpdated
<1>2. CASE gpuSlot[u] \in Targets
  <2> DEFINE t == gpuSlot[u]
             ended == IF gl.made[u] THEN [gl.active EXCEPT ![t] = "none"] ELSE gl.active
  <2>1. ended \in [Targets -> Slot \cup {"none", "orphan"}] /\ ended[gpuSlot[s]] = gl.active[gpuSlot[s]]
    BY <1>2 DEF Queries
  <2>2. QueryUpdated(gl, u) =
        [active |-> IF ended[t] = "none" THEN [ended EXCEPT ![t] = u] ELSE ended,
         made |-> [gl.made EXCEPT ![u] = TRUE],
         shown |-> [gl.shown EXCEPT ![u] =
                      IF gl.made[u] /\ gl.active[t] = u THEN "fresh" ELSE "old"]]
    BY <1>2 DEF QueryUpdated
  <2>3. /\ QueryUpdated(gl, u).active = IF ended[t] = "none" THEN [ended EXCEPT ![t] = u] ELSE ended
        /\ QueryUpdated(gl, u).made = [gl.made EXCEPT ![u] = TRUE]
        /\ QueryUpdated(gl, u).shown = [gl.shown EXCEPT ![u] =
                      IF gl.made[u] /\ gl.active[t] = u THEN "fresh" ELSE "old"]
    BY <2>2
  <2>4. gl.made \in [Slot -> BOOLEAN] /\ gl.shown \in [Slot -> {"nothing", "fresh", "old", "wrong"}]
    BY DEF Queries
  <2> HIDE DEF ended
  <2> QED
    BY <2>1, <2>3, <2>4
<1> QED
  BY <1>1, <1>2

\* Whichever slot is updated first, a query alone on its target comes one stage on.
LEMMA QueriesOfSlot ==
    ASSUME NEW s \in Slot, Alone(s), NEW gl \in Queries
    PROVE  LET after == QueryUpdated(QueryUpdated(gl, "prim"), "sec")  t == gpuSlot[s] IN
           /\ after.made[s]
           /\ gl.made[s] => after.active[t] = s
           /\ gl.made[s] /\ gl.active[t] = s => after.shown[s] = "fresh"
<1> DEFINE first == QueryUpdated(gl, "prim")
<1>1. first \in Queries /\ "prim" \in Slot /\ "sec" \in Slot
  BY QueryType DEF Slot
<1>2. CASE s = "prim"
  <2>1. /\ first.made[s] /\ (gl.made[s] => first.active[gpuSlot[s]] = s)
        /\ gl.made[s] /\ gl.active[gpuSlot[s]] = s => first.shown[s] = "fresh"
    BY <1>2, QueryOfSlot DEF Alone
  <2>2. LET after == QueryUpdated(first, "sec") IN
        /\ after.made[s] = first.made[s] /\ after.active[gpuSlot[s]] = first.active[gpuSlot[s]]
        /\ after.shown[s] = first.shown[s]
    <3>1. gpuSlot["sec"] # gpuSlot[s] /\ "sec" \in Slot \ {s}
      BY <1>1, <1>2 DEF Alone, Other
    <3> HIDE DEF first
    <3> QED
      BY <1>1, <3>1, QueryOfOther DEF Alone
  <2> QED
    BY <2>1, <2>2
<1>3. CASE s = "sec"
  <2>1. /\ first.made[s] = gl.made[s] /\ first.active[gpuSlot[s]] = gl.active[gpuSlot[s]]
    <3>1. gpuSlot["prim"] # gpuSlot[s] /\ "prim" \in Slot \ {s}
      BY <1>1, <1>3 DEF Alone, Other
    <3> QED
      BY <3>1, QueryOfOther DEF Alone
  <2>2. LET after == QueryUpdated(first, "sec") IN
        /\ after.made[s] /\ (first.made[s] => after.active[gpuSlot[s]] = s)
        /\ first.made[s] /\ first.active[gpuSlot[s]] = s => after.shown[s] = "fresh"
    <3> HIDE DEF first
    <3> QED
      BY <1>1, <1>3, QueryOfSlot DEF Alone
  <2> QED
    BY <2>1, <2>2
<1> QED
  BY <1>2, <1>3 DEF Slot

LEMMA QueryNext == GpuTypeOK /\ QueryInv /\ [GpuNext]_gpuVars => QueryInv'
<1> SUFFICES ASSUME GpuTypeOK, QueryInv, [GpuNext]_gpuVars PROVE QueryInv'
  OBVIOUS
<1>1. CASE gpuQuiet' = 0
  BY <1>1 DEF QueryInv, QueryRecovers
<1>2. CASE \E order \in SetToSeqs(gpuSel) \cup {<<>>}, stray \in Strays : GpuUpdate(order, stray)
  <2>1. PICK order, stray : GpuUpdate(order, stray)
    BY <1>2
  <2>2. /\ gpuSlot' = gpuSlot /\ gpuQuiet \in 0..3
        /\ gpuQuiet' = IF gpuQuiet < 3 THEN gpuQuiet + 1 ELSE gpuQuiet
    BY <2>1 DEF GpuUpdate, GpuTypeOK, Settled
  <2>3. ASSUME NEW s \in Slot, Alone(s)
        PROVE  /\ gpuMade'[s]
               /\ gpuMade[s] => gpuActive'[gpuSlot[s]] = s
               /\ gpuMade[s] /\ gpuActive[gpuSlot[s]] = s => gpuShown'[s] = "fresh"
    <3>1. Before.made = gpuMade /\ Before.active = gpuActive
      BY DEF Before
    <3>2. /\ Before \in Queries
          /\ LET gl == QueryUpdated(QueryUpdated(Before, "prim"), "sec") IN
             gpuActive' = gl.active /\ gpuMade' = gl.made /\ gpuShown' = gl.shown
      BY <2>1, UpdateCells
    <3> QED
      BY <2>3, <3>1, <3>2, QueriesOfSlot
  <2> QED
    BY <2>2, <2>3 DEF QueryInv, QueryRecovers, Alone
<1>3. CASE UNCHANGED gpuVars
  BY <1>3 DEF gpuVars, QueryInv, QueryRecovers, Alone
<1> QED
  BY <1>1, <1>2, <1>3 DEF GpuNext, ChooseCounter, GpuClose, GpuStart, GpuBecomes

-----------------------------------------------------------------------------
\* Slots, requests, queries and cells of the GPU diagram keep their form, for any counters
\* and any choices.
THEOREM GpuTypeCorrect == GpuSpec => []GpuTypeOK
  BY InitType, NextType, PTL DEF GpuSpec

\* The driver measures what the slots show, for any number of counters and any sequence of
\* choices between updates, closes and starts.
THEOREM MeasuresShown == GpuSpec => []SelectionFollows
<1>1. RequestsInv => SelectionFollows
  BY DEF RequestsInv
<1> QED
  BY <1>1, GpuTypeCorrect, InitRequests, RequestsNext, PTL DEF GpuSpec

\* A query alone on its target shows its own count after three updates, whatever was left
\* active on the target.
THEOREM QueriesRecover == GpuSpec => []QueryRecovers
<1>1. GpuInit => QueryInv
  BY DEF GpuInit, QueryInv, QueryRecovers
<1>2. QueryInv => QueryRecovers
  BY DEF QueryInv
<1> QED
  BY <1>1, <1>2, GpuTypeCorrect, QueryNext, PTL DEF GpuSpec

-----------------------------------------------------------------------------
\* The parts of a flattened sequence, from the front.
Fronts(f, seqs, S) ==
    /\ f[0] = <<>> /\ \A n \in 0..Len(seqs) : f[n] \in Seq(S)
    /\ \A n \in 1..Len(seqs) : f[n] = f[n - 1] \o seqs[n]

\* They exist.
LEMMA FrontsOfSeqs ==
    ASSUME NEW S, NEW seqs \in Seq(Seq(S))
    PROVE  \E f : Fronts(f, seqs, S)
<1> DEFINE N == Len(seqs)
           X == Seq(S)
           step == [n \in 1..N |-> [s \in X |-> s \o seqs[n]]]
<1>1. N \in Nat /\ <<>> \in X
  OBVIOUS
<1>2. step \in [1..N -> [X -> X]]
  <2>1. ASSUME NEW n \in 1..N, NEW s \in X PROVE s \o seqs[n] \in X
    OBVIOUS
  <2> HIDE DEF N, X
  <2> QED
    BY <2>1
<1>3. ASSUME NEW n \in 1..N, NEW s \in X PROVE step[n][s] = s \o seqs[n]
  OBVIOUS
<1> HIDE DEF step, N, X
<1>4. IsLoop(N, X, <<>>, step)
  BY <1>1, <1>2 DEF IsLoop
<1>5. PICK f : LoopOf(f, N, X, <<>>, step)
  BY <1>4, LoopValue
<1>6. f \in [0..N -> X] /\ f[0] = <<>> /\ \A n \in 1..N : f[n] = step[n][f[n - 1]]
  BY <1>5 DEF LoopOf
<1>7. \A n \in 1..N : f[n - 1] \in X /\ f[n] = f[n - 1] \o seqs[n]
  <2>1. \A n \in 1..N : n - 1 \in 0..N
    BY <1>1
  <2> QED
    BY <1>3, <1>6, <2>1
<1> QED
  BY <1>6, <1>7 DEF Fronts, N, X

\* FlattenSeq is the last of them.
LEMMA FlattenIsLast ==
    ASSUME NEW S, NEW seqs \in Seq(Seq(S)), NEW f, Fronts(f, seqs, S)
    PROVE  FlattenSeq(seqs) = f[Len(seqs)]
<1>1. CASE Len(seqs) = 0
  <2>1. seqs = <<>> /\ f[0] = <<>>
    BY <1>1 DEF Fronts
  <2> QED
    BY <1>1, <2>1 DEF FlattenSeq
<1>2. CASE Len(seqs) # 0
  <2> DEFINE N == Len(seqs)
             Eq(g) == g = [i \in 1..N |-> IF i = 1 THEN seqs[i] ELSE g[i - 1] \o seqs[i]]
             kept == CHOOSE g : Eq(g)
             fronts == [i \in 1..N |-> f[i]]
  <2>1. N \in Nat /\ 1 \in 1..N
    BY <1>2
  <2>2. f[1] = seqs[1]
    <3>1. f[1] = f[1 - 1] \o seqs[1] /\ f[0] = <<>>
      BY <2>1 DEF Fronts
    <3>2. seqs[1] \in Seq(S) /\ 1 - 1 = 0
      BY <2>1
    <3>3. f[1] = <<>> \o seqs[1]
      BY <3>1, <3>2
    <3>4. \A s \in Seq(S) : <<>> \o s = s
      OBVIOUS
    <3> QED
      BY <3>2, <3>3, <3>4
  <2>3. Eq(fronts)
    <3>1. ASSUME NEW i \in 1..N
          PROVE  fronts[i] = IF i = 1 THEN seqs[i] ELSE fronts[i - 1] \o seqs[i]
      <4>1. CASE i = 1
        BY <2>2, <4>1
      <4>2. CASE i # 1
        <5>1. i - 1 \in 1..N
          BY <2>1, <4>2
        <5> QED
          BY <4>2, <5>1 DEF Fronts
      <4> QED
        BY <4>1, <4>2
    <3> QED
      BY <3>1
  <2>4. FlattenSeq(seqs) = kept[N]
    BY <1>2 DEF FlattenSeq
  <2> HIDE DEF Eq, fronts
  <2>5. Eq(kept)
    BY <2>3
  <2> HIDE DEF kept
  <2>6. \A i \in 1..N : kept[i] = IF i = 1 THEN seqs[i] ELSE kept[i - 1] \o seqs[i]
    BY <2>5 DEF Eq
  <2> DEFINE T == {i \in 0..N : i = 0 \/ kept[i] = f[i]}
  <2>7. 0 \in T
    BY <2>1
  <2>8. ASSUME NEW i \in 1..N, i - 1 \in T PROVE i \in T
    <3>1. CASE i = 1
      BY <2>2, <2>6, <3>1
    <3>2. CASE i # 1
      <4>1. kept[i - 1] = f[i - 1]
        BY <2>8, <3>2
      <4>2. f[i] = f[i - 1] \o seqs[i]
        BY DEF Fronts
      <4>3. kept[i] = kept[i - 1] \o seqs[i]
        BY <2>6, <3>2
      <4>4. kept[i] = f[i]
        <5> HIDE DEF T, N
        <5> QED
          BY <4>1, <4>2, <4>3, Zenon
      <4> QED
        BY <4>4
    <3> QED
      BY <3>1, <3>2
  <2> HIDE DEF T, N
  <2>9. 0..N \subseteq T
    BY <2>1, <2>7, <2>8, BoundedInduction
  <2>10. kept[N] = f[N]
    <3>1. N \in T /\ N # 0
      BY <2>1, <2>9
    <3> QED
      BY <3>1 DEF T
  <2> QED
    BY <2>4, <2>10 DEF N
<1> QED
  BY <1>1, <1>2

\* A front is where the whole begins.
LEMMA FrontsArePrefixes ==
    ASSUME NEW S, NEW seqs \in Seq(Seq(S)), NEW f, Fronts(f, seqs, S), NEW n \in 0..Len(seqs)
    PROVE  /\ f[n] \in Seq(S) /\ Len(f[n]) <= Len(f[Len(seqs)])
           /\ \A i \in 1..Len(f[n]) : f[Len(seqs)][i] = f[n][i]
<1> DEFINE N == Len(seqs)
           T == {m \in 0..N : /\ Len(f[m]) <= Len(f[N])
                              /\ \A i \in 1..Len(f[m]) : f[N][i] = f[m][i]}
<1>1. N \in Nat /\ \A m \in 0..N : f[m] \in Seq(S)
  BY DEF Fronts
<1>2. N \in T
  BY <1>1
<1>3. ASSUME NEW m \in 1..N, m \in T PROVE m - 1 \in T
  <2>1. m - 1 \in 0..N /\ f[m - 1] \in Seq(S) /\ seqs[m] \in Seq(S)
    BY <1>1
  <2>2. f[m] = f[m - 1] \o seqs[m]
    BY DEF Fronts
  <2>3. Len(f[m]) = Len(f[m - 1]) + Len(seqs[m]) /\ \A i \in 1..Len(f[m - 1]) : f[m][i] = f[m - 1][i]
    <3> DEFINE before == f[m - 1]
               next == seqs[m]
    <3>1. before \in Seq(S) /\ next \in Seq(S)
      BY <2>1
    <3>2. f[m] = before \o next
      BY <2>2
    <3> HIDE DEF before, next
    <3>3. Len(before \o next) = Len(before) + Len(next) /\ \A i \in 1..Len(before) : (before \o next)[i] = before[i]
      BY <3>1, Joined
    <3> QED
      BY <3>2, <3>3 DEF before, next
  <2>4. Len(f[m - 1]) \in Nat /\ Len(seqs[m]) \in Nat /\ Len(f[N]) \in Nat
    BY <1>1, <2>1
  <2>5. Len(f[m]) <= Len(f[N]) /\ \A i \in 1..Len(f[m]) : f[N][i] = f[m][i]
    BY <1>3
  <2>6. Len(f[m - 1]) <= Len(f[N]) /\ \A i \in 1..Len(f[m - 1]) : f[N][i] = f[m - 1][i]
    <3> DEFINE before == f[m - 1]
               whole == f[N]
               here == f[m]
    <3>1. /\ Len(here) = Len(before) + Len(seqs[m]) /\ \A i \in 1..Len(before) : here[i] = before[i]
          /\ Len(here) <= Len(whole) /\ \A i \in 1..Len(here) : whole[i] = here[i]
          /\ Len(before) \in Nat /\ Len(seqs[m]) \in Nat /\ Len(whole) \in Nat
      BY <2>3, <2>4, <2>5
    <3> HIDE DEF before, whole, here
    <3>2. Len(before) <= Len(whole) /\ \A i \in 1..Len(before) : whole[i] = before[i]
      BY <3>1
    <3> QED
      BY <3>2 DEF before, whole
  <2> HIDE DEF N
  <2> QED
    BY <2>1, <2>6
<1> HIDE DEF T
<1>4. 0..N \subseteq T
  BY <1>1, <1>2, <1>3, DownwardInduction
<1>5. n \in T
  BY <1>4
<1> QED
  BY <1>1, <1>5 DEF T

-----------------------------------------------------------------------------
Words == [kind : {"group", "counter", "data"}, counter : Amd]

\* The words of a counter: its group, its number and the value.
LEMMA WordsForm ==
    ASSUME NEW c \in Amd
    PROVE  /\ WordsOf(c) \in Seq(Words) /\ Len(WordsOf(c)) = 2 + Width(c) /\ Width(c) \in 1..2
           /\ WordsOf(c)[1].kind = "group" /\ WordsOf(c)[2].counter = c
<1> DEFINE head == <<Word("group", c), Word("counter", c)>>
           data == [i \in 1..Width(c) |-> Word("data", c)]
<1>1. Width(c) \in 1..2
  BY DEF Width
<1>2. head \in Seq(Words) /\ Len(head) = 2 /\ head[1].kind = "group" /\ head[2].counter = c
  BY DEF Word, Words
<1>3. data \in Seq(Words) /\ Len(data) = Width(c)
  <2>1. Word("data", c) \in Words
    BY DEF Word, Words
  <2> HIDE DEF Words
  <2> QED
    BY <1>1, <2>1
<1>4. WordsOf(c) = head \o data
  BY DEF WordsOf
<1> HIDE DEF head, data, Words
<1>5. /\ head \o data \in Seq(Words) /\ Len(head \o data) = 2 + Width(c)
      /\ (head \o data)[1] = head[1] /\ (head \o data)[2] = head[2]
  <2>1. head \o data \in Seq(Words)
    BY <1>2, <1>3
  <2>2. /\ Len(head \o data) = Len(head) + Len(data)
        /\ \A i \in 1..Len(head) : (head \o data)[i] = head[i]
    BY <1>2, <1>3, Joined
  <2>3. 1 \in 1..Len(head) /\ 2 \in 1..Len(head)
    BY <1>2
  <2> QED
    BY <1>2, <1>3, <2>1, <2>2, <2>3
<1> QED
  BY <1>1, <1>2, <1>4, <1>5

\* The words of a report, in the order of the driver.
PartsOf(order) == [i \in 1..Len(order) |-> WordsOf(order[i])]
WordsUpto(f, order) == Fronts(f, PartsOf(order), Words)

\* The report of the driver is the words of its counters, one after the other.
LEMMA ReportOf ==
    ASSUME NEW order \in Seq(Amd)
    PROVE  \E f : WordsUpto(f, order) /\ Report(order) = f[Len(order)]
<1>1. PartsOf(order) \in Seq(Seq(Words)) /\ Len(PartsOf(order)) = Len(order)
  <2>1. \A i \in 1..Len(order) : WordsOf(order[i]) \in Seq(Words)
    BY WordsForm
  <2> HIDE DEF Words
  <2> QED
    BY <2>1 DEF PartsOf
<1>2. PICK f : Fronts(f, PartsOf(order), Words)
  BY <1>1, FrontsOfSeqs
<1>3. Report(order) = FlattenSeq(PartsOf(order))
  BY DEF Report, PartsOf
<1> QED
  BY <1>1, <1>2, <1>3, FlattenIsLast DEF WordsUpto

\* After the words of n counters come those of the next one, and every counter has words.
LEMMA NextWords ==
    ASSUME NEW order \in Seq(Amd), NEW f, WordsUpto(f, order), NEW n \in 1..Len(order)
    PROVE  LET at == Len(f[n - 1]) + 1  words == f[Len(order)]  c == order[n] IN
           /\ at \in Nat /\ at + 1 <= Len(words) /\ Len(words) \in Nat
           /\ words[at].kind = "group" /\ words[at + 1].counter = c
           /\ Len(f[n]) + 1 = at + 2 + Width(c) /\ Width(c) \in 1..2
<1> DEFINE parts == PartsOf(order)
           c == order[n]
           before == f[n - 1]
           here == f[n]
           words == f[Len(order)]
<1>1. parts \in Seq(Seq(Words)) /\ Len(parts) = Len(order) /\ parts[n] = WordsOf(c)
  <2>1. \A i \in 1..Len(order) : WordsOf(order[i]) \in Seq(Words)
    BY WordsForm
  <2> HIDE DEF Words
  <2> QED
    BY <2>1 DEF PartsOf
<1>2. c \in Amd /\ n \in 0..Len(order) /\ n - 1 \in 0..Len(order) /\ Len(order) \in 0..Len(order)
  OBVIOUS
<1>3. Fronts(f, parts, Words)
  BY DEF WordsUpto
<1> HIDE DEF parts
<1>4. here = before \o WordsOf(c) /\ before \in Seq(Words) /\ words \in Seq(Words)
  BY <1>1, <1>2, <1>3 DEF Fronts
<1>5. Len(here) <= Len(words) /\ \A i \in 1..Len(here) : words[i] = here[i]
  BY <1>1, <1>2, <1>3, FrontsArePrefixes
<1> HIDE DEF c, before, here, words
<1>6. /\ WordsOf(c) \in Seq(Words) /\ Len(WordsOf(c)) = 2 + Width(c) /\ Width(c) \in 1..2
      /\ WordsOf(c)[1].kind = "group" /\ WordsOf(c)[2].counter = c
  BY <1>2, WordsForm
<1> HIDE DEF Words
<1>7. /\ Len(here) = Len(before) + 2 + Width(c)
      /\ here[Len(before) + 1] = WordsOf(c)[1] /\ here[Len(before) + 2] = WordsOf(c)[2]
  BY <1>4, <1>6
<1>8. Len(before) \in Nat /\ Len(words) \in Nat
  BY <1>4
<1>9. /\ words[Len(before) + 1] = here[Len(before) + 1] /\ words[Len(before) + 2] = here[Len(before) + 2]
      /\ (Len(before) + 1) + 1 = Len(before) + 2 /\ Len(before) + 2 <= Len(words)
  BY <1>5, <1>6, <1>7, <1>8
<1>10. /\ Len(before) + 1 \in Nat /\ (Len(before) + 1) + 1 <= Len(words) /\ Len(words) \in Nat
       /\ words[Len(before) + 1].kind = "group" /\ words[(Len(before) + 1) + 1].counter = c
       /\ Len(here) + 1 = (Len(before) + 1) + 2 + Width(c) /\ Width(c) \in 1..2
  BY <1>6, <1>7, <1>8, <1>9
<1> QED
  BY <1>10 DEF c, before, here, words

\* The loop is at the words of one counter after the other, and has stored those before.
LEMMA ParsedAll ==
    ASSUME NEW order \in Seq(Amd), NEW stray, \A k \in 1..Len(order) : order[k] \notin Odd
    PROVE  \A k \in 1..Len(order) : order[k] \in Parsed(Report(order), stray).found
<1>1. PICK f : WordsUpto(f, order) /\ Report(order) = f[Len(order)]
  BY ReportOf
<1> DEFINE N == Len(order)
           words == f[N]
           M == Len(words)
           base == [at |-> 1, found |-> {}, wrong |-> {}]
           Upto(n) == [at |-> Len(f[n]) + 1, found |-> {order[k] : k \in 1..n}, wrong |-> {}]
           After(n) == IF n <= N THEN Upto(n) ELSE Upto(N)
           Eq(g) == g = [n \in 0..M |-> IF n = 0 THEN base ELSE ParseRound(words, stray, g[n - 1])]
           kept == CHOOSE g : Eq(g)
           all == [n \in 0..M |-> After(n)]
<1>2. N \in Nat /\ f[0] = <<>> /\ \A n \in 0..N : f[n] \in Seq(Words)
  BY <1>1 DEF WordsUpto, Fronts, PartsOf
<1>3. M \in Nat /\ \A n \in 0..N : Len(f[n]) \in Nat
  BY <1>2
<1>4. After(0) = base
  <2>1. Len(<<>>) = 0 /\ 0 <= N /\ {order[k] : k \in 1..0} = {}
    BY <1>2
  <2>2. Len(f[0]) + 1 = 1
    BY <1>2, <2>1
  <2>3. Upto(0) = base
    BY <2>1, <2>2
  <2> HIDE DEF N, Upto, base
  <2> QED
    BY <2>1, <2>3
<1>5. ASSUME NEW n \in 1..N PROVE ParseRound(words, stray, After(n - 1)) = After(n)
  <2>1. /\ Len(f[n - 1]) + 1 \in Nat /\ (Len(f[n - 1]) + 1) + 1 <= M
        /\ words[Len(f[n - 1]) + 1].kind = "group" /\ words[(Len(f[n - 1]) + 1) + 1].counter = order[n]
        /\ Len(f[n]) + 1 = (Len(f[n - 1]) + 1) + 2 + Width(order[n])
    BY <1>1, NextWords
  <2>2. n - 1 <= N /\ n <= N
    BY <1>2
  <2>3. {order[k] : k \in 1..n} = {order[k] : k \in 1..(n - 1)} \cup {order[n]}
    OBVIOUS
  <2> HIDE DEF words, M, N
  <2>4. ~(Len(f[n - 1]) + 1 > M)
    BY <1>3, <2>1
  <2>5. ParseRound(words, stray, Upto(n - 1)) =
          [at |-> (Len(f[n - 1]) + 1) + 2 + Width(order[n]), found |-> {order[k] : k \in 1..(n - 1)} \cup {order[n]},
           wrong |-> {}]
    <3>1. order[n] \notin Odd
      BY <1>2 DEF N
    <3> QED
      BY <2>1, <2>4, <3>1 DEF ParseRound, M
  <2> QED
    BY <2>1, <2>2, <2>3, <2>5
<1>6. ASSUME NEW n \in Nat, n > N PROVE ParseRound(words, stray, After(n - 1)) = After(n)
  <2>1. After(n - 1) = Upto(N) /\ After(n) = Upto(N)
    <3>1. n - 1 <= N => n - 1 = N
      BY <1>2, <1>6
    <3>2. ~(n <= N)
      BY <1>2, <1>6
    <3> HIDE DEF N, Upto
    <3> QED
      BY <3>1, <3>2
  <2>2. Upto(N).at = Len(words) + 1 /\ Len(words) + 1 > Len(words)
    BY <1>3
  <2> HIDE DEF Upto, After, words
  <2> QED
    BY <2>1, <2>2 DEF ParseRound
<1>7. \A n \in 1..M : ParseRound(words, stray, After(n - 1)) = After(n)
  <2>1. \A n \in 1..M : n \in 1..N \/ (n \in Nat /\ n > N)
    BY <1>2, <1>3
  <2> HIDE DEF After, words, M, N
  <2> QED
    BY <1>5, <1>6, <2>1
<1>8. N <= M
  <2> DEFINE T == {n \in 0..N : n <= Len(f[n])}
  <2>1. 0 \in T
    BY <1>2, <1>3
  <2>2. ASSUME NEW n \in 1..N, n - 1 \in T PROVE n \in T
    <3>1. Len(f[n]) + 1 = (Len(f[n - 1]) + 1) + 2 + Width(order[n]) /\ Width(order[n]) \in 1..2
      BY <1>1, NextWords
    <3>2. n - 1 <= Len(f[n - 1]) /\ n - 1 \in 0..N /\ n \in 0..N
      BY <1>2, <2>2
    <3>3. Len(f[n - 1]) \in Nat /\ Len(f[n]) \in Nat
      BY <1>3, <3>2
    <3> QED
      BY <3>1, <3>2, <3>3
  <2> HIDE DEF T, N
  <2>3. 0..N \subseteq T
    BY <1>2, <2>1, <2>2, BoundedInduction
  <2>4. N \in T
    BY <1>2, <2>3
  <2> QED
    BY <2>4 DEF T
<1>9. Eq(all)
  <2>1. ASSUME NEW n \in 0..M
        PROVE  all[n] = IF n = 0 THEN base ELSE ParseRound(words, stray, all[n - 1])
    <3>1. CASE n = 0
      <4> HIDE DEF After, base
      <4> QED
        BY <1>4, <3>1
    <3>2. CASE n # 0
      <4>1. n \in 1..M /\ n - 1 \in 0..M
        BY <1>3, <3>2
      <4> HIDE DEF After, base, words, M
      <4> QED
        BY <1>7, <3>2, <4>1
    <3> QED
      BY <3>1, <3>2
  <2> HIDE DEF After, base, words
  <2> QED
    BY <2>1
<1>10. Parsed(Report(order), stray) = kept[M]
  BY <1>1 DEF Parsed
<1> HIDE DEF Eq, all
<1>11. Eq(kept)
  BY <1>9
<1> HIDE DEF kept, base, words, M, After, N
<1>12. /\ kept[0] = base
       /\ \A n \in 1..M : kept[n] = ParseRound(words, stray, kept[n - 1])
  BY <1>3, <1>11 DEF Eq
<1>13. \A n \in 0..M : kept[n] = After(n)
  <2> DEFINE T == {n \in 0..M : kept[n] = After(n)}
  <2>1. 0 \in T
    BY <1>3, <1>4, <1>12
  <2>2. ASSUME NEW n \in 1..M, n - 1 \in T PROVE n \in T
    BY <1>7, <1>12, <2>2
  <2> HIDE DEF T
  <2>3. 0..M \subseteq T
    BY <1>3, <2>1, <2>2, BoundedInduction
  <2> QED
    BY <2>3 DEF T
<1>14. kept[M].found = {order[k] : k \in 1..N}
  <2>1. kept[M] = After(M)
    BY <1>3, <1>13
  <2>2. After(M) = Upto(N)
    <3>1. M <= N => M = N
      BY <1>2, <1>3, <1>8
    <3> HIDE DEF Upto
    <3> QED
      BY <3>1 DEF After
  <2> QED
    BY <2>1, <2>2
<1> QED
  BY <1>10, <1>14 DEF N

\* The report of the driver has every selected counter.
LEMMA OrderCovers ==
    ASSUME GpuTypeOK, NEW order \in SetToSeqs(gpuSel)
    PROVE  /\ order \in Seq(Amd)
           /\ \A c \in gpuSel : \E k \in 1..Len(order) : order[k] = c
           /\ \A k \in 1..Len(order) : order[k] \in gpuSel
<1> DEFINE N == Cardinality(gpuSel)
           D == 1..N
<1>1. IsFiniteSet(gpuSel) /\ N \in Nat
  BY GpuConstants, FS_Subset, FS_CardinalityType DEF GpuTypeOK
<1>2. order \in [D -> gpuSel] /\ \A i, j \in D : i # j => order[i] # order[j]
  BY DEF SetToSeqs
<1>3. IsFiniteSet(D) /\ Cardinality(D) = N
  <2>1. 1 \in Int /\ N \in Int /\ (IF 1 > N THEN 0 ELSE N - 1 + 1) = N
    BY <1>1
  <2> HIDE DEF N
  <2> QED
    BY <2>1, FS_Interval
<1> HIDE DEF N
<1>4. order \in Injection(D, gpuSel)
  BY <1>2 DEF Injection, IsInjective
<1>5. order \in Surjection(D, gpuSel)
  <2> HIDE DEF D
  <2> QED
    BY <1>1, <1>3, <1>4, FS_Injection DEF N
<1>6. \A c \in gpuSel : \E k \in D : order[k] = c
  BY <1>5 DEF Surjection
<1>7. order \in Seq(Amd) /\ Len(order) = N
  <2>1. gpuSel \subseteq Amd
    BY DEF GpuTypeOK
  <2>2. order \in [1..N -> Amd]
    BY <1>2, <2>1
  <2> QED
    BY <1>1, <2>2
<1>8. \A k \in 1..Len(order) : order[k] \in gpuSel
  BY <1>2, <1>7
<1> QED
  BY <1>6, <1>7, <1>8

\* What the slots show is measured from the update on that passes the requests on.
MeasureInv ==
    /\ gpuQuiet >= 1 => gpuPend = {} /\ gpuDrop = {}
    /\ MeasuredSoon

\* A slot of a performance counter is left alone by the queries.
LEMMA QueryOfCounter ==
    ASSUME NEW s \in Slot, NEW u \in Slot, NEW gl \in Queries, gpuSlot[s] \in Amd
    PROVE  QueryUpdated(gl, u).shown[s] = gl.shown[s]
<1>1. CASE gpuSlot[u] \notin Targets
  BY <1>1 DEF QueryUpdated
<1>2. CASE gpuSlot[u] \in Targets
  <2> DEFINE value == IF gl.made[u] /\ gl.active[gpuSlot[u]] = u THEN "fresh" ELSE "old"
  <2>1. u # s
    BY <1>2, GpuConstants
  <2>2. QueryUpdated(gl, u).shown = [gl.shown EXCEPT ![u] = value]
    BY <1>2 DEF QueryUpdated
  <2>3. gl.shown \in [Slot -> {"nothing", "fresh", "old", "wrong"}]
    BY DEF Queries
  <2> HIDE DEF value
  <2> QED
    BY <2>1, <2>2, <2>3
<1> QED
  BY <1>1, <1>2

\* A selected counter is in a report that is whole, so that its slot shows what was measured.
LEMMA UpdateMeasures ==
    ASSUME GpuTypeOK, SelectionFollows, gpuPend = {}, gpuDrop = {},
           NEW order \in SetToSeqs(gpuSel) \cup {<<>>}, NEW stray, GpuUpdate(order, stray),
           gpuWhole', NEW s \in Slot, gpuSlot[s] \in Amd \ gpuLost
    PROVE  gpuShown'[s] = "fresh"
<1> DEFINE c == gpuSlot[s]
<1>1. c \in gpuSel /\ c \in Amd
  BY DEF SelectionFollows, ShownCounters
<1>2. c \in Parsed(Report(order), stray).found
  <2>1. gpuSel \cap Odd = {} /\ order \in SetToSeqs(gpuSel)
    BY <1>1 DEF GpuUpdate
  <2>2. order \in Seq(Amd) /\ \E k \in 1..Len(order) : order[k] = c
    BY <1>1, <2>1, OrderCovers
  <2>3. \A k \in 1..Len(order) : order[k] \in gpuSel
    BY <2>1, OrderCovers
  <2> QED
    BY <2>1, <2>2, <2>3, ParsedAll
<1>3. gpuCell'[c] = "fresh"
  BY <1>1, <1>2 DEF GpuUpdate, ReadCells
<1>4. AmdShown(s, gpuCell') = "fresh"
  BY <1>1, <1>3 DEF AmdShown
<1>5. Before \in Queries /\ Before.shown[s] = "fresh"
  <2>1. Before \in Queries
    BY UpdateCells
  <2> QED
    BY <1>4, <2>1 DEF Before
<1>6. QueryUpdated(Before, "prim") \in Queries /\ "prim" \in Slot /\ "sec" \in Slot
  BY <1>5, QueryType DEF Slot
<1>7. /\ QueryUpdated(Before, "prim").shown[s] = Before.shown[s]
      /\ QueryUpdated(QueryUpdated(Before, "prim"), "sec").shown[s] = QueryUpdated(Before, "prim").shown[s]
  BY <1>5, <1>6, QueryOfCounter
<1> QED
  BY <1>5, <1>7, UpdateCells

\* A choice begins anew, and an update passes every request on.
LEMMA MeasureNext == GpuTypeOK /\ RequestsInv /\ MeasureInv /\ [GpuNext]_gpuVars => MeasureInv'
<1> SUFFICES ASSUME GpuTypeOK, RequestsInv, MeasureInv, [GpuNext]_gpuVars PROVE MeasureInv'
  OBVIOUS
<1>1. CASE gpuQuiet' = 0
  BY <1>1 DEF MeasureInv, MeasuredSoon
<1>2. CASE \E order \in SetToSeqs(gpuSel) \cup {<<>>}, stray \in Strays : GpuUpdate(order, stray)
  <2>1. PICK order \in SetToSeqs(gpuSel) \cup {<<>>}, stray \in Strays : GpuUpdate(order, stray)
    BY <1>2
  <2>2. /\ UNCHANGED <<gpuSlot, gpuLost>> /\ gpuPend' = {} /\ gpuDrop' = {} /\ gpuQuiet \in 0..3
        /\ gpuQuiet' = IF gpuQuiet < 3 THEN gpuQuiet + 1 ELSE gpuQuiet
    BY <2>1 DEF GpuUpdate, GpuTypeOK, Settled
  <2>3. ASSUME NEW s \in Slot, gpuSlot[s] \in Amd \ gpuLost, gpuQuiet >= 1, gpuWhole'
        PROVE  gpuShown'[s] = "fresh"
    BY <2>1, <2>3, UpdateMeasures DEF MeasureInv, RequestsInv
  <2> QED
    BY <2>2, <2>3 DEF MeasureInv, MeasuredSoon
<1>3. CASE UNCHANGED gpuVars
  BY <1>3 DEF gpuVars, MeasureInv, MeasuredSoon
<1> QED
  BY <1>1, <1>2, <1>3 DEF GpuNext, ChooseCounter, GpuClose, GpuStart, GpuBecomes

\* Two updates after the last choice every shown counter of the performance monitor has the
\* value that the query of the last tick measured, for any counters, any widths of their
\* values and any order in which the driver reports them, if the latest report was not
\* empty and held no counter of an unhandled type.
THEOREM CountersMeasured == GpuSpec => []MeasuredSoon
<1>1. GpuInit => MeasureInv
  BY DEF GpuInit, MeasureInv, MeasuredSoon
<1>2. MeasureInv => MeasuredSoon
  BY DEF MeasureInv
<1> QED
  BY <1>1, <1>2, GpuTypeCorrect, InitRequests, RequestsNext, MeasureNext, PTL DEF GpuSpec

-----------------------------------------------------------------------------
\* The loop of WithoutGaps.
LEMMA GapLoop ==
    ASSUME NEW S, NEW act \in Seq(S)
    PROVE  \E kept \in [0..Len(act) -> Seq(S \ {NoSensor})] :
             /\ kept[0] = <<>> /\ WithoutGaps(act) = kept[Len(act)]
             /\ \A n \in 1..Len(act) :
                  kept[n] = IF act[n] = NoSensor THEN kept[n - 1] ELSE Append(kept[n - 1], act[n])
<1> DEFINE N == Len(act)
           X == Seq(S \ {NoSensor})
           Put(k, n) == IF act[n] = NoSensor THEN k ELSE Append(k, act[n])
           Eq(f) == f = [n \in 0..N |-> IF n = 0 THEN <<>> ELSE Put(f[n - 1], n)]
           kept == CHOOSE f : Eq(f)
           step == [n \in 1..N |-> [k \in X |-> Put(k, n)]]
           base == <<>>
<1>1. WithoutGaps(act) = kept[N]
  BY DEF WithoutGaps
<1>2. N \in Nat /\ base \in X
  OBVIOUS
<1>3. \A n \in 1..N, k \in X : Put(k, n) \in X
  OBVIOUS
<1> HIDE DEF N, X, Put
<1>4. step \in [1..N -> [X -> X]]
  BY <1>3
<1>a. \A n \in 1..N, k \in X : step[n][k] = Put(k, n)
  OBVIOUS
<1> HIDE DEF step, base
<1>b. IsLoop(N, X, base, step)
  BY <1>2, <1>4 DEF IsLoop
<1>c. PICK g : LoopOf(g, N, X, base, step)
  BY <1>b, LoopValue
<1>5. g \in [0..N -> X] /\ g[0] = base /\ \A n \in 1..N : g[n] = step[n][g[n - 1]]
  BY <1>c DEF LoopOf
<1>6. \A n \in 1..N : n - 1 \in 0..N /\ g[n - 1] \in X
  BY <1>2, <1>5
<1>7. \A n \in 1..N : g[n] = Put(g[n - 1], n)
  BY <1>a, <1>5, <1>6
<1>8. Eq(g)
  BY <1>2, <1>5, <1>7 DEF base
<1> HIDE DEF Eq
<1>9. Eq(kept)
  BY <1>8
<1> HIDE DEF kept
<1>10. kept[0] = <<>> /\ \A n \in 1..N : kept[n] = Put(kept[n - 1], n)
  BY <1>2, <1>9 DEF Eq
<1>11. \A n \in 0..N : kept[n] \in X
  BY <1>2, <1>3, <1>10, LoopType DEF base
<1>12. kept \in [0..N -> X]
  BY <1>9, <1>11 DEF Eq
<1> QED
  BY <1>1, <1>10, <1>12 DEF N, X, Put

\* What is left over is no longer, has no gap and every sensor.
LEMMA GapsClosed ==
    ASSUME NEW S, NEW act \in Seq(S)
    PROVE  LET w == WithoutGaps(act) IN
           /\ w \in Seq(S \ {NoSensor}) /\ Len(w) <= Len(act)
           /\ \A i \in 1..Len(act) : act[i] # NoSensor => \E j \in 1..Len(w) : w[j] = act[i]
<1>1. PICK kept \in [0..Len(act) -> Seq(S \ {NoSensor})] :
        /\ kept[0] = <<>> /\ WithoutGaps(act) = kept[Len(act)]
        /\ \A n \in 1..Len(act) :
             kept[n] = IF act[n] = NoSensor THEN kept[n - 1] ELSE Append(kept[n - 1], act[n])
  BY GapLoop
<1>0. \A n \in 0..Len(act) : kept[n] \in Seq(S \ {NoSensor})
  <2> DEFINE X == Seq(S \ {NoSensor})
  <2> HIDE DEF X
  <2>1. kept \in [0..Len(act) -> X]
    BY DEF X
  <2>2. \A n \in 0..Len(act) : kept[n] \in X
    BY <2>1
  <2> QED
    BY <2>2 DEF X
<1> DEFINE Has(n) == /\ Len(kept[n]) <= n
                     /\ \A i \in 1..n : act[i] # NoSensor => \E j \in 1..Len(kept[n]) : kept[n][j] = act[i]
           T == {n \in 0..Len(act) : Has(n)}
<1>2. 0 \in T
  BY <1>1
<1>3. ASSUME NEW n \in 1..Len(act), n - 1 \in T PROVE n \in T
  <2>1. kept[n - 1] \in Seq(S \ {NoSensor}) /\ Has(n - 1) /\ n - 1 \in Nat
    <3>1. n - 1 \in 0..Len(act) /\ n - 1 \in Nat
      OBVIOUS
    <3>2. Has(n - 1)
      BY <1>3
    <3> QED
      BY <1>0, <3>1, <3>2
  <2>2. CASE act[n] = NoSensor
    <3>1. kept[n] = kept[n - 1]
      BY <1>1, <2>2
    <3>2. Len(kept[n]) <= n
      BY <2>1, <3>1
    <3>3. ASSUME NEW i \in 1..n, act[i] # NoSensor PROVE \E j \in 1..Len(kept[n]) : kept[n][j] = act[i]
      <4>1. i \in 1..(n - 1)
        BY <2>2, <3>3
      <4> QED
        BY <2>1, <3>1, <3>3, <4>1
    <3> QED
      BY <3>2, <3>3
  <2>3. CASE act[n] # NoSensor
    <3>1. kept[n] = Append(kept[n - 1], act[n]) /\ act[n] \in S \ {NoSensor}
      <4>1. act[n] \in S
        OBVIOUS
      <4> QED
        BY <1>1, <2>3, <4>1
    <3> DEFINE k == kept[n - 1]
               l == Len(k)
    <3>2. /\ l \in Nat /\ Len(kept[n]) = l + 1 /\ kept[n][l + 1] = act[n]
          /\ \A j \in 1..l : kept[n][j] = k[j]
      <4>1. k \in Seq(S \ {NoSensor})
        BY <2>1
      <4> HIDE DEF k
      <4> QED
        BY <3>1, <4>1 DEF k
    <3>3. \A i \in 1..(n - 1) : act[i] # NoSensor => \E j \in 1..l : k[j] = act[i]
      BY <2>1
    <3>4. l <= n - 1
      BY <2>1
    <3> HIDE DEF l, k
    <3>5. \A i \in 1..n : act[i] # NoSensor => \E j \in 1..(l + 1) : kept[n][j] = act[i]
      <4> SUFFICES ASSUME NEW i \in 1..n, act[i] # NoSensor PROVE \E j \in 1..(l + 1) : kept[n][j] = act[i]
        OBVIOUS
      <4>1. CASE i = n
        BY <3>2, <4>1
      <4>2. CASE i # n
        <5>1. i \in 1..(n - 1)
          BY <4>2
        <5>2. PICK j \in 1..l : k[j] = act[i]
          BY <3>3, <5>1
        <5>3. j \in 1..(l + 1) /\ kept[n][j] = act[i]
          BY <3>2, <5>2
        <5> QED
          BY <5>3
      <4> QED
        BY <4>1, <4>2
    <3> QED
      BY <3>2, <3>4, <3>5
  <2> QED
    BY <2>2, <2>3
<1>4. Len(act) \in Nat
  OBVIOUS
<1> HIDE DEF T
<1>5. 0..Len(act) \subseteq T
  BY <1>2, <1>3, <1>4, BoundedInduction
<1>6. Has(Len(act))
  <2>1. Len(act) \in T
    BY <1>4, <1>5
  <2> HIDE DEF Has
  <2> QED
    BY <2>1 DEF T
<1>7. kept[Len(act)] \in Seq(S \ {NoSensor})
  BY <1>0, <1>4
<1> QED
  BY <1>1, <1>6, <1>7

\* Unused slots behind the last one do not count.
LEMMA GapsBehind ==
    ASSUME NEW S, NEW a \in Seq(S), NEW b \in Seq(S), Len(a) <= Len(b),
           \A i \in 1..Len(b) : b[i] = IF i <= Len(a) THEN a[i] ELSE NoSensor
    PROVE  WithoutGaps(b) = WithoutGaps(a)
<1>1. PICK ka \in [0..Len(a) -> Seq(S \ {NoSensor})] :
        /\ ka[0] = <<>> /\ WithoutGaps(a) = ka[Len(a)]
        /\ \A n \in 1..Len(a) : ka[n] = IF a[n] = NoSensor THEN ka[n - 1] ELSE Append(ka[n - 1], a[n])
  BY GapLoop
<1>2. PICK kb \in [0..Len(b) -> Seq(S \ {NoSensor})] :
        /\ kb[0] = <<>> /\ WithoutGaps(b) = kb[Len(b)]
        /\ \A n \in 1..Len(b) : kb[n] = IF b[n] = NoSensor THEN kb[n - 1] ELSE Append(kb[n - 1], b[n])
  BY GapLoop
<1> DEFINE T == {n \in 0..Len(b) : kb[n] = ka[IF n <= Len(a) THEN n ELSE Len(a)]}
<1>3. Len(a) \in Nat /\ Len(b) \in Nat
  OBVIOUS
<1>4. 0 \in T
  BY <1>1, <1>2, <1>3
<1>5. ASSUME NEW n \in 1..Len(b), n - 1 \in T PROVE n \in T
  <2>1. kb[n] = IF b[n] = NoSensor THEN kb[n - 1] ELSE Append(kb[n - 1], b[n])
    BY <1>2
  <2>2. CASE n <= Len(a)
    <3>1. n \in 1..Len(a) /\ b[n] = a[n] /\ kb[n - 1] = ka[n - 1]
      BY <1>3, <1>5, <2>2
    <3>2. kb[n] = ka[n]
      BY <1>1, <2>1, <3>1
    <3> QED
      BY <2>2, <3>2
  <2>3. CASE n > Len(a)
    <3>1. b[n] = NoSensor /\ kb[n - 1] = ka[Len(a)]
      BY <1>3, <1>5, <2>3
    <3> QED
      BY <1>3, <2>1, <2>3, <3>1
  <2> QED
    BY <1>3, <2>2, <2>3
<1> HIDE DEF T
<1>6. 0..Len(b) \subseteq T
  BY <1>3, <1>4, <1>5, BoundedInduction
<1>7. kb[Len(b)] = ka[Len(a)]
  BY <1>3, <1>6 DEF T
<1> QED
  BY <1>1, <1>2, <1>7

(***************************************************************************)
(* What a part of the main loop keeps of its sensors: only those it found, *)
(* and of the stored ones all it found, unless the user took them out.     *)
(***************************************************************************)
InSlots == {setAct[i] : i \in 1..Len(setAct)}
FoundOnly == InSlots \subseteq setFound \cup {NoSensor}
StoredInSlots == setUp /\ setRead => (Stored(setFile) \cap setFound) \ setDropped \subseteq InSlots
SetInv == SetTypeOK /\ FoundOnly /\ StoredInSlots

\* What is loaded are sensors that were found, at most one for a slot, with all stored
\* ones among them.
LEMMA LoadedFound ==
    ASSUME NEW conf \in Contents, NEW found \in SUBSET Sensors
    PROVE  LET act == LoadedSensors(conf, found) IN
           /\ act \in Seq(found) /\ Len(act) <= TempSlots
           /\ Stored(conf) \cap found \subseteq {act[i] : i \in 1..Len(act)}
<1> DEFINE S == found \cup {NoSensor}
           all == [i \in TempSlot |-> LoadedSlot(conf, found, i)]
           act == LoadedSensors(conf, found)
<1>1. \A i \in TempSlot : all[i] \in S /\ (conf.sensor[i] \in found => all[i] = conf.sensor[i])
  BY SettingsConstants DEF LoadedSlot, Contents
<1>2. all \in Seq(S) /\ Len(all) = TempSlots
  BY <1>1, SettingsConstants DEF TempSlot
<1>3. act = WithoutGaps(all)
  BY DEF LoadedSensors
<1>4. S \ {NoSensor} = found
  BY SettingsConstants
<1> HIDE DEF S, all, act
<1>5. /\ act \in Seq(found) /\ Len(act) <= TempSlots
      /\ \A i \in TempSlot : all[i] # NoSensor => \E j \in 1..Len(act) : act[j] = all[i]
  BY <1>2, <1>3, <1>4, GapsClosed DEF TempSlot
<1>6. ASSUME NEW s \in Stored(conf) \cap found PROVE s \in {act[i] : i \in 1..Len(act)}
  <2>1. PICK i \in TempSlot : s = conf.sensor[i]
    BY DEF Stored
  <2>2. all[i] = s /\ s # NoSensor
    BY <1>1, <2>1, SettingsConstants
  <2> QED
    BY <1>5, <2>2
<1> QED
  BY <1>5, <1>6 DEF act

LEMMA NoSlots ==
    /\ <<>> \in Seq(SensorOrNone) /\ Len(<<>>) = 0 /\ 0 <= TempSlots
    /\ {} \subseteq Sensors /\ Empty \in Contents
<1>1. Empty \in Contents
  BY DEF Empty, Contents, Commands
<1>2. <<>> \in Seq(SensorOrNone) /\ Len(<<>>) = 0
  OBVIOUS
<1> QED
  BY <1>1, <1>2, SettingsConstants

\* Each step keeps what is stored among the sensors that are in the slots.
LEMMA SetInitInv == SetInit => SetInv
<1> SUFFICES ASSUME SetInit PROVE SetInv
  OBVIOUS
<1>1. /\ setAct \in Seq(SensorOrNone) /\ Len(setAct) = 0 /\ Len(setAct) <= TempSlots
      /\ setFound = {} /\ setDropped = {} /\ ~setUp
  BY NoSlots DEF SetInit
<1>2. setFile \in Contents /\ setConf \in Contents
  BY NoSlots DEF SetInit
<1>3. SetTypeOK
  BY <1>1, <1>2, NoSlots DEF SetInit, SetTypeOK, Commands
<1> QED
  BY <1>1, <1>3 DEF SetInv, FoundOnly, StoredInSlots, InSlots

LEMMA SetStartInv ==
    ASSUME SetInv, NEW found \in SUBSET Sensors, NEW readable \in BOOLEAN, SetStart(found, readable)
    PROVE  SetInv'
<1>1. setConf' \in Contents
  BY DEF SetStart, SetInv, SetTypeOK, Empty, Contents, Commands
<1>2. /\ setAct' = LoadedSensors(setConf', found) /\ setFound' = found /\ setDropped' = {}
      /\ setRead' = readable /\ setUp' = TRUE /\ setFile' = setFile
      /\ (readable => setConf' = setFile)
  BY DEF SetStart
<1>3. /\ setAct' \in Seq(found) /\ Len(setAct') <= TempSlots
      /\ Stored(setConf') \cap found \subseteq InSlots'
  BY <1>1, <1>2, LoadedFound DEF InSlots
<1>4. setAct' \in Seq(SensorOrNone) /\ InSlots' \subseteq found
  BY <1>3 DEF SensorOrNone, InSlots
<1>5. SetTypeOK'
  BY <1>1, <1>2, <1>3, <1>4 DEF SetInv, SetTypeOK, SetStart
<1>6. StoredInSlots'
  BY <1>2, <1>3 DEF StoredInSlots, Stored
<1> QED
  BY <1>2, <1>4, <1>5, <1>6 DEF SetInv, FoundOnly

\* What a slot loses is remembered as dropped.
LEMMA SensorChangedInv ==
    ASSUME SetInv, NEW i \in TempSlot, NEW s \in SensorOrNone, SensorChanged(i, s)
    PROVE  SetInv'
<1> DEFINE N == IF i > Len(setAct) THEN i ELSE Len(setAct)
<1>1. /\ setAct \in Seq(SensorOrNone) /\ Len(setAct) \in Nat /\ Len(setAct) <= TempSlots
      /\ i \in Nat \ {0} /\ i <= TempSlots /\ N \in Nat /\ N <= TempSlots /\ i \in 1..N /\ Len(setAct) <= N
  BY SettingsConstants DEF SetInv, SetTypeOK, TempSlot
<1>2. Grown(i) = [j \in 1..N |-> IF j <= Len(setAct) THEN setAct[j] ELSE NoSensor]
  BY DEF Grown
<1> HIDE DEF N
<1>3. /\ Grown(i) \in [1..N -> SensorOrNone]
      /\ \A j \in 1..Len(setAct) : j \in 1..N /\ Grown(i)[j] = setAct[j]
      /\ \A j \in 1..N : Grown(i)[j] \in InSlots \cup {NoSensor}
  BY <1>1, <1>2 DEF SensorOrNone, InSlots
<1>4. setAct' = [j \in 1..N |-> IF j = i THEN s ELSE Grown(i)[j]]
  BY <1>1, <1>2 DEF SensorChanged
<1>5. setAct' \in Seq(SensorOrNone) /\ Len(setAct') = N
  BY <1>1, <1>3, <1>4
<1>6. InSlots' \subseteq InSlots \cup {NoSensor, s}
  BY <1>1, <1>3, <1>4, <1>5 DEF InSlots
<1>7. InSlots \ {Grown(i)[i]} \subseteq InSlots'
  <2> SUFFICES ASSUME NEW j \in 1..Len(setAct), setAct[j] # Grown(i)[i] PROVE setAct[j] \in InSlots'
    BY DEF InSlots
  <2>1. j # i /\ j \in 1..N /\ setAct'[j] = setAct[j]
    BY <1>1, <1>3, <1>4
  <2> QED
    BY <1>5, <2>1 DEF InSlots
<1>8. /\ s \in setFound \cup {NoSensor} /\ setDropped' = setDropped \cup ({Grown(i)[i]} \cap Sensors)
      /\ UNCHANGED <<setUp, setFile, setConf, setWorker, setCommand, setFound, setRead>>
  BY DEF SensorChanged
<1>9. SetTypeOK'
  BY <1>1, <1>5, <1>8 DEF SetInv, SetTypeOK
<1>10. FoundOnly'
  BY <1>6, <1>8 DEF SetInv, FoundOnly
<1>11. StoredInSlots'
  BY <1>7, <1>8 DEF SetInv, StoredInSlots, Stored
<1> QED
  BY <1>9, <1>10, <1>11 DEF SetInv

\* A save stores all that is in a slot.
LEMMA SavedStored ==
    ASSUME SetInv
    PROVE  Saved \in Contents /\ Stored(Saved) \subseteq InSlots /\ InSlots \cap Sensors \subseteq Stored(Saved)
<1> DEFINE sensor == [i \in TempSlot |-> SavedSlot(i)]
<1>1. /\ setConf \in Contents /\ setCommand \in Commands /\ setAct \in Seq(SensorOrNone)
      /\ Len(setAct) \in Nat /\ Len(setAct) <= TempSlots /\ TempSlots \in Nat
  BY SettingsConstants DEF SetInv, SetTypeOK
<1>2. \A i \in TempSlot : SavedSlot(i) \in SensorOrNone
  BY <1>1 DEF SavedSlot, SensorOrNone, TempSlot
<1>3. Saved \in Contents /\ Saved.sensor = sensor
  BY <1>1, <1>2 DEF Saved, Contents
<1>4. Stored(Saved) = {SavedSlot(i) : i \in TempSlot} \cap Sensors
  BY <1>3 DEF Stored
<1>5. Stored(Saved) \subseteq InSlots
  BY <1>1, <1>4, SettingsConstants DEF SavedSlot, InSlots, TempSlot
<1>6. ASSUME NEW j \in 1..Len(setAct), setAct[j] \in Sensors PROVE setAct[j] \in Stored(Saved)
  <2>1. j \in TempSlot /\ SavedSlot(j) = setAct[j]
    BY <1>1 DEF TempSlot, SavedSlot
  <2> QED
    BY <1>4, <1>6, <2>1
<1> QED
  BY <1>3, <1>5, <1>6 DEF InSlots

LEMMA SaveInv == ASSUME SetInv, NEW written \in BOOLEAN, SaveConfig(written) PROVE SetInv'
<1>1. /\ setConf' = Saved /\ setFile' = IF written THEN Saved ELSE setFile
      /\ UNCHANGED <<setUp, setWorker, setCommand, setFound, setAct, setRead, setDropped>>
  BY DEF SaveConfig
<1>2. Saved \in Contents /\ Stored(Saved) \subseteq InSlots /\ InSlots' = InSlots
  BY <1>1, SavedStored DEF InSlots
<1>3. SetTypeOK'
  BY <1>1, <1>2 DEF SetInv, SetTypeOK
<1>4. StoredInSlots'
  <2>1. CASE written
    BY <1>1, <1>2, <2>1 DEF StoredInSlots, Stored
  <2>2. CASE ~written
    BY <1>1, <1>2, <2>2 DEF SetInv, StoredInSlots, Stored
  <2> QED
    BY <2>1, <2>2
<1> QED
  BY <1>1, <1>2, <1>3, <1>4 DEF SetInv, FoundOnly

LEMMA SetEndInv == ASSUME SetInv, SetEnd PROVE SetInv'
<1>1. setFile' = setFile /\ setConf' \in Contents
  BY NoSlots DEF SetEnd
<1>2. /\ setAct' \in Seq(SensorOrNone) /\ Len(setAct') = 0 /\ Len(setAct') <= TempSlots
      /\ setFound' = {} /\ setDropped' = {} /\ ~setUp'
  BY NoSlots DEF SetEnd
<1>3. SetTypeOK'
  BY <1>1, <1>2, NoSlots DEF SetEnd, SetInv, SetTypeOK, Commands
<1> QED
  BY <1>2, <1>3 DEF SetInv, FoundOnly, StoredInSlots, InSlots

LEMMA SetNextInv == SetInv /\ [SetNext]_setVars => SetInv'
<1> SUFFICES ASSUME SetInv, [SetNext]_setVars PROVE SetInv'
  OBVIOUS
<1>1. CASE \E found \in SUBSET Sensors, readable \in BOOLEAN : SetStart(found, readable)
  BY <1>1, SetStartInv
<1>2. CASE \E i \in TempSlot, s \in SensorOrNone : SensorChanged(i, s)
  BY <1>2, SensorChangedInv
<1>3. CASE \E written \in BOOLEAN : SaveConfig(written)
  BY <1>3, SaveInv
<1>4. CASE SetEnd
  BY <1>4, SetEndInv
<1>5. ASSUME UNCHANGED <<setUp, setFile, setFound, setAct, setRead, setDropped>>,
             setConf' \in Contents, setCommand' \in Commands, setWorker' \in {"none", "made", "read"}
      PROVE  SetInv'
  BY <1>5 DEF SetInv, SetTypeOK, FoundOnly, StoredInSlots, InSlots, Stored
<1>6. CASE WorkerMade \/ WorkerReads \/ IntervalChanged \/ (\E c \in Commands : CommandChanged(c))
           \/ UNCHANGED setVars
  <2>1. setConf \in Contents /\ setCommand \in Commands /\ setWorker \in {"none", "made", "read"}
    BY DEF SetInv, SetTypeOK
  <2>2. setConf.command = Missing \/ setConf.command \in Commands
    BY <2>1 DEF Contents
  <2>3. [setConf EXCEPT !.interval = "set"] \in Contents
    BY <2>1 DEF Contents
  <2> QED
    BY <1>5, <1>6, <2>1, <2>2, <2>3
    DEF WorkerMade, WorkerReads, IntervalChanged, CommandChanged, setVars
<1> QED
  BY <1>1, <1>2, <1>3, <1>4, <1>6 DEF SetNext

\* Only a save that could be written changes the file.
LEMMA FileChanged ==
    ASSUME [SetNext]_setVars, setFile' # setFile PROVE SaveConfig(TRUE)
  BY DEF SetNext, setVars, SetStart, WorkerMade, WorkerReads, IntervalChanged, CommandChanged,
         SensorChanged, SaveConfig, SetEnd

\* A vector that is saved comes back without its gaps.
LEMMA SaveLoads == ASSUME SetInv PROVE LoadedSensors(Saved, setFound) = Displayed(setAct)
<1> DEFINE all == [i \in TempSlot |-> LoadedSlot(Saved, setFound, i)]
<1>1. /\ setAct \in Seq(SensorOrNone) /\ Len(setAct) \in Nat /\ Len(setAct) <= TempSlots
      /\ TempSlots \in Nat /\ setFound \subseteq Sensors
      /\ \A i \in 1..Len(setAct) : setAct[i] \in setFound \cup {NoSensor}
  BY SettingsConstants DEF SetInv, SetTypeOK, FoundOnly, InSlots
<1>2. \A i \in TempSlot : SavedSlot(i) \in setFound \cup {NoSensor} /\ SavedSlot(i) # Missing
  BY <1>1, SettingsConstants DEF SavedSlot, TempSlot
<1>3. Saved.sensor = [i \in TempSlot |-> SavedSlot(i)]
  <2>1. setConf \in Contents
    BY DEF SetInv, SetTypeOK
  <2> QED
    BY <2>1 DEF Saved, Contents
<1>4. \A i \in TempSlot : LoadedSlot(Saved, setFound, i) = SavedSlot(i)
  BY <1>1, <1>2, <1>3, SettingsConstants DEF LoadedSlot
<1>5. all \in Seq(SensorOrNone) /\ Len(all) = TempSlots
  BY <1>1, <1>2, <1>4 DEF TempSlot, SensorOrNone
<1>6. \A i \in 1..TempSlots : all[i] = IF i <= Len(setAct) THEN setAct[i] ELSE NoSensor
  BY <1>4 DEF SavedSlot, TempSlot
<1> HIDE DEF all
<1>7. WithoutGaps(all) = WithoutGaps(setAct)
  BY <1>1, <1>5, <1>6, GapsBehind
<1> QED
  BY <1>7 DEF LoadedSensors, Displayed, all

LEMMA SettingsAlways == SetSpec => []SetInv
  BY SetInitInv, SetNextInv, PTL DEF SetSpec

\* The configuration and the sensors keep their form, for any sensors and slots.
THEOREM SettingsTypeCorrect == SetSpec => []SetTypeOK
<1>1. SetInv => SetTypeOK
  BY DEF SetInv
<1> QED
  BY <1>1, SettingsAlways, PTL

\* What a save writes gives back the same sensors in the same order, for any number of
\* slots, any sensors, any gaps and any defaults.
THEOREM SaveRoundTrip == SetSpec => SavedIsLoaded
<1> DEFINE Same == setFile' # setFile =>
             /\ LoadedSensors(setFile', setFound') = Displayed(setAct')
             /\ setFile'.command = setCommand'
             /\ setFile'.interval = setConf'.interval
<1>1. SetInv /\ [SetNext]_setVars => Same
  <2> SUFFICES ASSUME SetInv, [SetNext]_setVars, setFile' # setFile PROVE Same
    OBVIOUS
  <2>1. /\ setFile' = Saved /\ setConf' = Saved
        /\ UNCHANGED <<setFound, setAct, setCommand>>
    BY FileChanged DEF SaveConfig
  <2>2. Saved.command = setCommand
    BY DEF SetInv, SetTypeOK, Saved, Contents
  <2> QED
    BY <2>1, <2>2, SaveLoads
<1>2. SetSpec => [][Same]_setVars
  BY <1>1, SettingsAlways, PTL DEF SetSpec
<1> QED
  BY <1>2 DEF SavedIsLoaded

\* The program forgets no stored sensor that it found and that the user left alone.
THEOREM StoredStays == SetSpec => OnlyAbsentLost
<1> DEFINE Kept == \A s \in Stored(setFile) \ Stored(setFile') :
                     s \in setDropped \/ s \notin setFound \/ ~setRead
<1>1. SetInv /\ [SetNext]_setVars => Kept
  <2> SUFFICES ASSUME SetInv, [SetNext]_setVars, NEW s \in Stored(setFile) \ Stored(setFile'),
                      s \notin setDropped, s \in setFound, setRead
               PROVE  FALSE
    OBVIOUS
  <2>1. setFile' # setFile
    BY DEF Stored
  <2>2. setUp /\ setFile' = Saved
    BY <2>1, FileChanged DEF SaveConfig
  <2>3. s \in InSlots /\ s \in Sensors
    BY <2>2 DEF SetInv, StoredInSlots, Stored
  <2> QED
    BY <2>2, <2>3, SavedStored
<1>2. SetSpec => [][Kept]_setVars
  BY <1>1, SettingsAlways, PTL DEF SetSpec
<1> QED
  BY <1>2 DEF OnlyAbsentLost

-----------------------------------------------------------------------------
(***************************************************************************)
(* The times read last against the times counted: a recorded step that is  *)
(* still the step of its line and has more time now ran since the last      *)
(* tick.  A line whose step is another one says nothing, and counters that *)
(* begin at zero only less.                                                *)
(***************************************************************************)
Counting(c) == ckDriver[c] \in DOMAIN StepsOf
TimesSeen ==
    \A c \in Cores : Counting(c) =>
      \A i \in DOMAIN StepsRead(c) : StepMatches(c, i) /\ Difference(c, i) > 0 => StepsRead(c)[i] \in ckUsed[c]
ClockInv == ClockTypeOK /\ TimesSeen

\* A list that is continued with the rest of another one.
LEMMA Continued ==
    ASSUME NEW S, NEW k \in Seq(S), NEW s \in Seq(S), Len(k) < Len(s)
    PROVE  LET a == k \o SubSeq(s, Len(k) + 1, Len(s)) IN
           /\ a \in Seq(S) /\ Len(a) = Len(s) /\ DOMAIN a = 1..Len(s)
           /\ \A i \in 1..Len(k) : a[i] = k[i]
           /\ \A i \in (Len(k) + 1)..Len(s) : a[i] = s[i]
<1> DEFINE more == SubSeq(s, Len(k) + 1, Len(s))
<1>1. Len(k) \in Nat /\ Len(s) \in Nat
  OBVIOUS
<1>2. \A i \in (Len(k) + 1)..Len(s) : s[i] \in S
  BY <1>1
<1>3. more \in Seq(S) /\ Len(more) = Len(s) - Len(k)
  BY <1>1, <1>2
<1>4. \A i \in 1..(Len(s) - Len(k)) : more[i] = s[Len(k) + i]
  BY <1>1
<1> HIDE DEF more
<1>5. (k \o more) \in Seq(S) /\ Len(k \o more) = Len(s) /\ DOMAIN (k \o more) = 1..Len(s)
  BY <1>1, <1>3
<1>6. \A i \in 1..Len(k) : (k \o more)[i] = k[i]
  BY <1>1, <1>3
<1>7. ASSUME NEW i \in (Len(k) + 1)..Len(s) PROVE (k \o more)[i] = s[i]
  <2>1. (k \o more)[i] = more[i - Len(k)]
    BY <1>1, <1>3
  <2>2. i - Len(k) \in 1..(Len(s) - Len(k)) /\ Len(k) + (i - Len(k)) = i
    BY <1>1
  <2> QED
    BY <1>4, <2>1, <2>2
<1> QED
  BY <1>5, <1>6, <1>7 DEF more

\* The steps of a driver that counts.
LEMMA StepTypes ==
    ASSUME ClockTypeOK, NEW c \in Cores, Counting(c)
    PROVE  /\ StepsRead(c) \in Seq(Nat) /\ Len(StepsRead(c)) \in Nat
           /\ DOMAIN StepsRead(c) = 1..Len(StepsRead(c))
           /\ StepsRead(c) \in Seq(ClockSteps)
           /\ \A i \in DOMAIN StepsRead(c) : StepsRead(c)[i] \in ClockSteps /\ StepsRead(c)[i] \in Nat
           /\ \A i \in DOMAIN StepsRead(c) : ckTime[c][StepsRead(c)[i]] \in 0..MaxTicks
<1> DEFINE s == StepsRead(c)
<1>1. s \in Seq(2..MaxClock) /\ s = StepsOf[ckDriver[c]] /\ MaxClock \in Nat
  BY ClockConstants DEF StepsRead, Counting
<1>2. \A i \in DOMAIN s : s[i] \in ClockSteps
  BY <1>1 DEF ClockSteps, Range, Counting
<1> HIDE DEF s
<1>6. Len(s) \in Nat /\ DOMAIN s = 1..Len(s) /\ \A i \in 1..Len(s) : s[i] \in 2..MaxClock
  BY <1>1, SequenceOf
<1>3. \A i \in DOMAIN s : s[i] \in Nat
  BY <1>1, <1>6
<1>4. Len(s) \in Nat /\ DOMAIN s = 1..Len(s) /\ s \in Seq(Nat) /\ s \in Seq(ClockSteps)
  BY <1>1, <1>2, <1>3, <1>6, SequenceIn
<1>5. \A i \in DOMAIN s : ckTime[c][s[i]] \in 0..MaxTicks
  BY <1>2 DEF ClockTypeOK
<1> QED
  BY <1>2, <1>3, <1>4, <1>5 DEF s

\* What is recorded has a step and a time, line by line.
LEMMA RecordTypes ==
    ASSUME ClockTypeOK, NEW c \in Cores
    PROVE  /\ Len(ckStep[c]) \in Nat /\ Len(ckLast[c]) = Len(ckStep[c])
           /\ DOMAIN ckStep[c] = 1..Len(ckStep[c]) /\ DOMAIN ckLast[c] = 1..Len(ckStep[c])
           /\ \A i \in 1..Len(ckStep[c]) : ckStep[c][i] \in ClockSteps /\ ckLast[c][i] \in 0..MaxTicks
<1>1. ckStep[c] \in Seq(ClockSteps) /\ ckLast[c] \in Seq(0..MaxTicks) /\ Len(ckStep[c]) = Len(ckLast[c])
  BY DEF ClockTypeOK
<1> QED
  BY <1>1, SequenceOf

\* After an update a line is recorded for every step that was read.
LEMMA AfterTypes ==
    ASSUME ClockTypeOK, NEW c \in Cores
    PROVE  /\ StepAfter(c) \in Seq(ClockSteps) /\ LastAfter(c) \in Seq(0..MaxTicks)
           /\ Len(StepAfter(c)) = Len(LastAfter(c))
           /\ Len(StepAfter(c)) >= Len(ckStep[c])
           /\ \A i \in 1..Len(ckStep[c]) : StepAfter(c)[i] = ckStep[c][i]
           /\ Counting(c) =>
                \A i \in DOMAIN StepsRead(c) :
                  /\ i \in 1..Len(StepAfter(c))
                  /\ StepAfter(c)[i] = StepsRead(c)[i] => LastAfter(c)[i] = ckTime[c][StepsRead(c)[i]]
<1> DEFINE s == StepsRead(c)
           k == ckStep[c]
           l == ckLast[c]
           a == StepAfter(c)
           more == SubSeq(s, Len(k) + 1, Len(s))
<1>1. /\ k \in Seq(ClockSteps) /\ Len(k) \in Nat /\ Len(l) = Len(k)
      /\ DOMAIN k = 1..Len(k) /\ DOMAIN l = 1..Len(k)
      /\ \A i \in 1..Len(k) : k[i] \in ClockSteps /\ l[i] \in 0..MaxTicks
  BY RecordTypes DEF ClockTypeOK
<1>2. Counting(c) => /\ s \in Seq(ClockSteps) /\ Len(s) \in Nat /\ DOMAIN s = 1..Len(s)
                     /\ \A i \in DOMAIN s : s[i] \in ClockSteps /\ ckTime[c][s[i]] \in 0..MaxTicks
  BY StepTypes
<1>3. a = IF Counting(c) /\ Len(s) > Len(k) THEN k \o more ELSE k
  BY <1>1, <1>2 DEF StepAfter, Counting
<1> DEFINE Read(i) == Counting(c) /\ i \in DOMAIN s /\ (i > Len(k) \/ (~(i > Len(k)) /\ k[i] = s[i]))
<1>4. LastAfter(c) = [i \in DOMAIN a |-> IF Read(i) THEN ckTime[c][s[i]] ELSE l[i]]
  BY DEF LastAfter, StepMatches, IsRecorded, Counting
<1> HIDE DEF s, k, l, a
<1>5. CASE Counting(c) /\ Len(s) > Len(k)
  <2>2. /\ a \in Seq(ClockSteps) /\ Len(a) = Len(s) /\ DOMAIN a = 1..Len(s)
        /\ \A i \in 1..Len(k) : a[i] = k[i]
        /\ \A i \in (Len(k) + 1)..Len(s) : a[i] = s[i]
    <3>1. k \in Seq(ClockSteps) /\ s \in Seq(ClockSteps) /\ Len(k) < Len(s) /\ a = k \o more
      BY <1>1, <1>2, <1>3, <1>5
    <3> QED
      BY <3>1, Continued
  <2>3. ASSUME NEW i \in 1..Len(s) PROVE /\ LastAfter(c)[i] \in 0..MaxTicks
                                         /\ a[i] = s[i] => LastAfter(c)[i] = ckTime[c][s[i]]
    <3>1. LastAfter(c)[i] = IF Read(i) THEN ckTime[c][s[i]] ELSE l[i]
      BY <1>4, <2>2
    <3>2. CASE i > Len(k)
      BY <1>2, <1>5, <3>1, <3>2
    <3>3. CASE i <= Len(k)
      <4>1. i \in 1..Len(k) /\ l[i] \in 0..MaxTicks /\ a[i] = k[i] /\ ~(i > Len(k))
        BY <1>1, <2>2, <3>3
      <4> QED
        BY <1>2, <1>5, <3>1, <4>1
    <3> QED
      BY <1>1, <1>2, <1>5, <3>2, <3>3
  <2>4. LastAfter(c) \in [1..Len(s) -> 0..MaxTicks]
    BY <1>4, <2>2, <2>3
  <2>5. LastAfter(c) \in Seq(0..MaxTicks) /\ Len(LastAfter(c)) = Len(s) /\ Len(s) >= Len(k)
    <3> DEFINE S == 0..MaxTicks
    <3>1. LastAfter(c) \in [1..Len(s) -> S] /\ Len(s) \in Nat /\ Len(s) >= Len(k)
      BY <1>1, <1>2, <1>5, <2>4
    <3> HIDE DEF S
    <3>2. LastAfter(c) \in Seq(S) /\ Len(LastAfter(c)) = Len(s)
      BY <3>1, SequenceBy
    <3> QED
      BY <3>1, <3>2 DEF S
  <2>6. \A i \in DOMAIN s : i \in 1..Len(a) /\ (a[i] = s[i] => LastAfter(c)[i] = ckTime[c][s[i]])
    BY <1>2, <1>5, <2>2, <2>3
  <2> QED
    BY <2>2, <2>5, <2>6 DEF s, k, a
<1>6. CASE ~(Counting(c) /\ Len(s) > Len(k))
  <2>1. a = k
    BY <1>3, <1>6
  <2>2. ASSUME NEW i \in 1..Len(k) PROVE LastAfter(c)[i] \in 0..MaxTicks
    BY <1>1, <1>2, <1>4, <2>1
  <2>3. LastAfter(c) \in [1..Len(k) -> 0..MaxTicks]
    BY <1>1, <1>4, <2>1, <2>2
  <2>4. ASSUME Counting(c), NEW i \in DOMAIN s
        PROVE  i \in 1..Len(k) /\ (k[i] = s[i] => LastAfter(c)[i] = ckTime[c][s[i]])
    <3>1. i \in 1..Len(k) /\ ~(i > Len(k))
      BY <1>1, <1>2, <1>6, <2>4
    <3> QED
      BY <1>1, <1>4, <2>1, <2>4, <3>1
  <2>5. LastAfter(c) \in Seq(0..MaxTicks) /\ Len(LastAfter(c)) = Len(k) /\ Len(k) >= Len(k)
    <3> DEFINE S == 0..MaxTicks
    <3>1. LastAfter(c) \in [1..Len(k) -> S] /\ Len(k) \in Nat
      BY <1>1, <2>3
    <3> HIDE DEF S
    <3>2. LastAfter(c) \in Seq(S) /\ Len(LastAfter(c)) = Len(k)
      BY <3>1, SequenceBy
    <3> QED
      BY <3>1, <3>2 DEF S
  <2> QED
    BY <1>1, <2>1, <2>4, <2>5 DEF s, k, a
<1> QED
  BY <1>5, <1>6

\* Sums of the differences, told line by line.
\* The loops over the lines of the statistics.
LEMMA TotalTimeLoop ==
    ASSUME NEW c, NEW N \in Nat, \A i \in 1..N : Difference(c, i) \in Nat
    PROVE  \E total : /\ total \in [0..N -> Nat] /\ TotalTime(c, N) = total[N] /\ total[0] = 0
                      /\ \A i \in 1..N : total[i] = total[i - 1] + Difference(c, i)
<1> DEFINE Eq(f) == f = [i \in 0..N |-> IF i = 0 THEN 0 ELSE f[i - 1] + Difference(c, i)]
           total == CHOOSE f : Eq(f)
           step == [i \in 1..N |-> [k \in Nat |-> k + Difference(c, i)]]
<1>1. TotalTime(c, N) = total[N]
  BY DEF TotalTime
<1>2. IsLoop(N, Nat, 0, step)
  BY DEF IsLoop
<1>3. \A i \in 1..N, k \in Nat : step[i][k] = k + Difference(c, i)
  OBVIOUS
<1> HIDE DEF step
<1>4. PICK f : LoopOf(f, N, Nat, 0, step)
  BY <1>2, LoopValue
<1>5. f \in [0..N -> Nat] /\ f[0] = 0 /\ \A i \in 1..N : f[i] = step[i][f[i - 1]]
  BY <1>4 DEF LoopOf
<1>6. \A i \in 1..N : i - 1 \in 0..N /\ f[i - 1] \in Nat
  BY <1>5
<1>7. \A i \in 1..N : f[i] = f[i - 1] + Difference(c, i)
  BY <1>3, <1>5, <1>6
<1>8. Eq(f)
  BY <1>5, <1>7
<1> HIDE DEF Eq
<1>9. Eq(total)
  BY <1>8
<1> HIDE DEF total
<1>10. total[0] = 0 /\ \A i \in 1..N : total[i] = total[i - 1] + Difference(c, i)
  BY <1>9 DEF Eq
<1> DEFINE X == Nat
<1>13. total[0] \in X /\ \A i \in 1..N : total[i - 1] \in X => total[i] \in X
  BY <1>10
<1> HIDE DEF X
<1>11. \A i \in 0..N : total[i] \in X
  BY <1>13, LoopType
<1>12. total \in [0..N -> Nat]
  BY <1>9, <1>11 DEF Eq, X
<1> QED
  BY <1>1, <1>10, <1>12

LEMMA TotalClockLoop ==
    ASSUME NEW c, NEW N \in Nat, \A i \in 1..N : StepsRead(c)[i] * Difference(c, i) \in Nat
    PROVE  \E sum : /\ sum \in [0..N -> Nat] /\ TotalClock(c, N) = sum[N] /\ sum[0] = 0
                    /\ \A i \in 1..N : sum[i] = sum[i - 1] + StepsRead(c)[i] * Difference(c, i)
<1> DEFINE Share(i) == StepsRead(c)[i] * Difference(c, i)
           Eq(f) == f = [i \in 0..N |-> IF i = 0 THEN 0 ELSE f[i - 1] + Share(i)]
           sum == CHOOSE f : Eq(f)
           step == [i \in 1..N |-> [k \in Nat |-> k + Share(i)]]
<1>1. TotalClock(c, N) = sum[N] /\ \A i \in 1..N : Share(i) \in Nat
  BY DEF TotalClock
<1> HIDE DEF Share
<1>2. IsLoop(N, Nat, 0, step)
  BY <1>1 DEF IsLoop
<1>3. \A i \in 1..N, k \in Nat : step[i][k] = k + Share(i)
  OBVIOUS
<1> HIDE DEF step
<1>4. PICK f : LoopOf(f, N, Nat, 0, step)
  BY <1>2, LoopValue
<1>5. f \in [0..N -> Nat] /\ f[0] = 0 /\ \A i \in 1..N : f[i] = step[i][f[i - 1]]
  BY <1>4 DEF LoopOf
<1>6. \A i \in 1..N : i - 1 \in 0..N /\ f[i - 1] \in Nat
  BY <1>5
<1>7. \A i \in 1..N : f[i] = f[i - 1] + Share(i)
  BY <1>3, <1>5, <1>6
<1>8. Eq(f)
  BY <1>5, <1>7
<1> HIDE DEF Eq
<1>9. Eq(sum)
  BY <1>8
<1> HIDE DEF sum
<1>10. sum[0] = 0 /\ \A i \in 1..N : sum[i] = sum[i - 1] + Share(i)
  BY <1>9 DEF Eq
<1> DEFINE X == Nat
<1>13. sum[0] \in X /\ \A i \in 1..N : sum[i - 1] \in X => sum[i] \in X
  BY <1>1, <1>10
<1> HIDE DEF X
<1>11. \A i \in 0..N : sum[i] \in X
  BY <1>13, LoopType
<1>12. sum \in [0..N -> Nat]
  BY <1>9, <1>11 DEF Eq, X
<1> QED
  BY <1>1, <1>10, <1>12 DEF Share

\* A weighted sum lies between the least and the greatest of what has a weight.
LEMMA ShareBounds ==
    ASSUME NEW low \in Nat, NEW high \in Nat, NEW s \in Nat, NEW d \in Nat, NEW t \in Nat, NEW sum \in Nat,
           low * t <= sum, sum <= high * t, d > 0 => low <= s /\ s <= high
    PROVE  low * (t + d) <= sum + s * d /\ sum + s * d <= high * (t + d)
<1>1. low * (t + d) = low * t + low * d /\ high * (t + d) = high * t + high * d
  OBVIOUS
<1>2. low * d <= s * d /\ s * d <= high * d
  <2>1. CASE d = 0
    BY <2>1
  <2>2. CASE d > 0
    BY <2>2
  <2> QED
    BY <2>1, <2>2
<1>3. low * t \in Nat /\ low * d \in Nat /\ s * d \in Nat /\ high * t \in Nat /\ high * d \in Nat
  OBVIOUS
<1> QED
  BY <1>1, <1>2, <1>3

\* A bounded set of numbers has a least and a greatest one.
LEMMA NumberBounds ==
    ASSUME NEW S, S \subseteq Nat, S # {}, NEW bound \in Nat, \A x \in S : x <= bound
    PROVE  \E low, high \in S : \A x \in S : low <= x /\ x <= high
<1>1. PICK low \in S : \A x \in S : low <= x
  BY LeastNumber
<1> DEFINE R == {n \in Nat : \E x \in S : n = bound - x}
<1>2. R \subseteq Nat /\ R # {}
  <2>1. bound - low \in R
    OBVIOUS
  <2> QED
    BY <2>1
<1> HIDE DEF R
<1>3. PICK r \in R : \A q \in R : r <= q
  BY <1>2, LeastNumber
<1>4. PICK high \in S : r = bound - high
  BY <1>3 DEF R
<1>5. ASSUME NEW x \in S PROVE x <= high
  <2>1. bound - x \in R
    BY DEF R
  <2> QED
    BY <1>3, <1>4, <2>1
<1> QED
  BY <1>1, <1>5

\* An average lies between two steps with time.
LEMMA AverageBounds ==
    ASSUME ClockTypeOK, NEW c \in Cores, Counting(c), NEW max, ClockAverage(c, max).kind = "average"
    PROVE  LET shown == ClockAverage(c, max)
               ran == {StepsRead(c)[i] : i \in {j \in DOMAIN StepsRead(c) : StepMatches(c, j) /\ Difference(c, j) > 0}}
           IN /\ shown \in Clocks
              /\ \E low, high \in ran : low * shown.den <= shown.num /\ shown.num <= high * shown.den
<1> DEFINE N == Len(StepsRead(c))
           total == TotalTime(c, N)
           sum == TotalClock(c, N)
           ran == {StepsRead(c)[i] : i \in {j \in DOMAIN StepsRead(c) : StepMatches(c, j) /\ Difference(c, j) > 0}}
<1>1. /\ N \in Nat /\ DOMAIN StepsRead(c) = 1..N
      /\ \A i \in 1..N : StepsRead(c)[i] \in Nat /\ ckTime[c][StepsRead(c)[i]] \in 0..MaxTicks
  BY StepTypes
<1>2. /\ \A i \in 1..N : StepMatches(c, i) /\ ~(Difference(c, i) < 0)
      /\ total # 0 /\ ClockAverage(c, max) = Average(sum, total)
  BY <1>1 DEF ClockAverage, Shown, Average
<1>3. ASSUME NEW i \in 1..N
      PROVE  /\ Difference(c, i) \in Nat /\ StepsRead(c)[i] \in Nat
             /\ StepsRead(c)[i] * Difference(c, i) \in Nat
  <2>1. ~(i > Len(ckStep[c])) /\ Len(ckStep[c]) \in Nat
    BY <1>2, RecordTypes DEF StepMatches, IsRecorded
  <2>2. ckLast[c][i] \in 0..MaxTicks
    BY <1>1, <2>1, RecordTypes
  <2>3. Difference(c, i) \in Nat
    BY <1>1, <1>2, <2>2, ClockConstants DEF Difference
  <2> QED
    BY <1>1, <2>3
<1> HIDE DEF N
<1>4. PICK t : /\ t \in [0..N -> Nat] /\ total = t[N] /\ t[0] = 0
               /\ \A i \in 1..N : t[i] = t[i - 1] + Difference(c, i)
  BY <1>1, <1>3, TotalTimeLoop
<1>5. PICK s : /\ s \in [0..N -> Nat] /\ sum = s[N] /\ s[0] = 0
               /\ \A i \in 1..N : s[i] = s[i - 1] + StepsRead(c)[i] * Difference(c, i)
  BY <1>1, <1>3, TotalClockLoop
<1> HIDE DEF total, sum
<1>6. ran # {}
  <2> SUFFICES ASSUME \A i \in 1..N : Difference(c, i) = 0 PROVE FALSE
    <3>1. \A i \in 1..N : Difference(c, i) = 0 \/ Difference(c, i) > 0
      BY <1>3
    <3> QED
      BY <1>1, <1>2, <3>1
  <2> DEFINE T == {i \in 0..N : t[i] = 0}
  <2>1. 0 \in T
    BY <1>1, <1>4
  <2>2. \A i \in 1..N : i - 1 \in T => i \in T
    BY <1>1, <1>4
  <2> HIDE DEF T
  <2>3. 0..N \subseteq T
    BY <1>1, <2>1, <2>2, BoundedInduction
  <2> QED
    BY <1>1, <1>2, <1>4, <2>3 DEF T
<1>7. ran \subseteq Nat /\ \A x \in ran : x <= MaxClock
  <2>1. \A i \in 1..N : StepsRead(c)[i] \in 2..MaxClock
    BY <1>1, ClockConstants, SequenceOf DEF StepsRead, Counting, N
  <2> QED
    BY <1>1, <1>3, <2>1
<1>a. \A i \in 1..N : Difference(c, i) > 0 => StepsRead(c)[i] \in ran
  BY <1>1, <1>2
<1> HIDE DEF ran
<1>8. PICK low, high \in ran : \A x \in ran : low <= x /\ x <= high
  BY <1>6, <1>7, NumberBounds, ClockConstants
<1>9. low \in Nat /\ high \in Nat
  BY <1>7
<1> DEFINE Bounded(i) == low * t[i] <= s[i] /\ s[i] <= high * t[i]
           T == {i \in 0..N : Bounded(i)}
<1>10. 0 \in T
  BY <1>1, <1>4, <1>5, <1>9
<1>11. ASSUME NEW i \in 1..N, i - 1 \in T PROVE i \in T
  <2>1. /\ t[i - 1] \in Nat /\ s[i - 1] \in Nat /\ StepsRead(c)[i] \in Nat /\ Difference(c, i) \in Nat
        /\ low * t[i - 1] <= s[i - 1] /\ s[i - 1] <= high * t[i - 1]
    BY <1>1, <1>3, <1>4, <1>5, <1>11
  <2>2. Difference(c, i) > 0 => low <= StepsRead(c)[i] /\ StepsRead(c)[i] <= high
    BY <1>8, <1>a
  <2>3. /\ low * (t[i - 1] + Difference(c, i)) <= s[i - 1] + StepsRead(c)[i] * Difference(c, i)
        /\ s[i - 1] + StepsRead(c)[i] * Difference(c, i) <= high * (t[i - 1] + Difference(c, i))
    BY <1>9, <2>1, <2>2, ShareBounds
  <2>4. Bounded(i)
    BY <1>4, <1>5, <2>3
  <2> QED
    BY <2>4
<1> HIDE DEF T
<1>12. 0..N \subseteq T
  BY <1>1, <1>10, <1>11, BoundedInduction
<1>13. low * total <= sum /\ sum <= high * total
  BY <1>1, <1>4, <1>5, <1>12 DEF T
<1>14. sum \in Nat /\ total \in Nat \ {0}
  BY <1>1, <1>2, <1>4, <1>5
<1>15. ClockAverage(c, max).num = sum /\ ClockAverage(c, max).den = total
  BY <1>2 DEF Average
<1>16. ClockAverage(c, max) \in Clocks
  BY <1>2, <1>14 DEF Average, Clocks
<1> QED
  BY <1>8, <1>13, <1>15, <1>16 DEF ran

\* No unit is zero.
LEMMA DigitsPositive == ASSUME NEW N \in Nat PROVE Digits(N) \in Nat \ {0}
<1> DEFINE X == Nat \ {0}
           Eq(f) == f = [k \in 0..N |-> IF k = 0 THEN 1 ELSE 10 * f[k - 1]]
           least == CHOOSE f : Eq(f)
           step == [k \in 1..N |-> [x \in X |-> 10 * x]]
<1>1. Digits(N) = least[N]
  BY DEF Digits
<1>2. IsLoop(N, X, 1, step)
  BY DEF IsLoop
<1>3. \A k \in 1..N, x \in X : step[k][x] = 10 * x
  OBVIOUS
<1> HIDE DEF step
<1>4. PICK f : LoopOf(f, N, X, 1, step)
  BY <1>2, LoopValue
<1>5. f \in [0..N -> X] /\ f[0] = 1 /\ \A k \in 1..N : f[k] = step[k][f[k - 1]]
  BY <1>4 DEF LoopOf
<1>6. \A k \in 1..N : k - 1 \in 0..N /\ f[k - 1] \in X
  BY <1>5
<1>7. \A k \in 1..N : f[k] = 10 * f[k - 1]
  BY <1>3, <1>5, <1>6
<1>8. Eq(f)
  BY <1>5, <1>7
<1> HIDE DEF Eq
<1>9. Eq(least)
  BY <1>8
<1> HIDE DEF least
<1>10. least[0] \in X /\ \A k \in 1..N : least[k - 1] \in X => least[k] \in X
  BY <1>9 DEF Eq
<1> HIDE DEF X
<1>11. \A k \in 0..N : least[k] \in X
  BY <1>10, LoopType
<1> QED
  BY <1>1, <1>11 DEF X

\* The maximum that is known is never zero.
LEMMA MaximumType == ASSUME ClockTypeOK, NEW name \in Brands PROVE MaxFound(name) \in Nat \ {0}
<1>1. ckMax \in Nat \ {0} /\ MaxClock \in Nat \ {0} /\ name \in Seq({"0", "M", "G", "x"})
  BY ClockConstants DEF ClockTypeOK
<1>2. Len(name) \in Nat
  BY <1>1
<1>3. DecodedMax(name, ckMax) \in Nat \ {0}
  <2>1. CASE \E i \in 3..Len(name) : \E j \in i..Len(name) : NumberAt(name, i, j)
    <3> DEFINE i == CHOOSE i \in 3..Len(name) : \E j \in i..Len(name) : NumberAt(name, i, j)
               j == CHOOSE j \in i..Len(name) : NumberAt(name, i, j)
    <3>1. i \in 3..Len(name) /\ \E k \in i..Len(name) : NumberAt(name, i, k)
      BY <2>1
    <3> HIDE DEF i
    <3>2. j \in i..Len(name)
      BY <3>1
    <3> HIDE DEF j
    <3>3. j - i \in Nat
      BY <1>2, <3>1, <3>2
    <3>4. Digits(j - i) \in Nat \ {0}
      BY <3>3, DigitsPositive
    <3>5. \/ DecodedMax(name, ckMax) = 1000 * Digits(j - i)
          \/ DecodedMax(name, ckMax) = Digits(j - i)
      BY <2>1 DEF DecodedMax, i, j
    <3> QED
      BY <3>4, <3>5
  <2>2. CASE ~ \E i \in 3..Len(name) : \E j \in i..Len(name) : NumberAt(name, i, j)
    BY <1>1, <2>2 DEF DecodedMax
  <2> QED
    BY <2>1, <2>2
<1> QED
  BY <1>1, <1>3 DEF MaxFound

LEMMA ShownTypes == \A k \in Kinds : Shown(k) \in Clocks /\ Shown(k).kind = k
  BY DEF Clocks, Shown

LEMMA InitClock == ClockInit => ClockInv
<1> SUFFICES ASSUME ClockInit PROVE ClockInv
  OBVIOUS
<1>1. /\ ckStep \in [Cores -> Seq(ClockSteps)] /\ ckLast \in [Cores -> Seq(0..MaxTicks)]
      /\ \A c \in Cores : Len(ckStep[c]) = 0 /\ Len(ckLast[c]) = 0
  BY DEF ClockInit
<1>2. ckShown \in [Cores -> Clocks]
  BY ShownTypes DEF ClockInit, Kinds
<1>3. /\ ckDriver \in [Cores -> ClockDrivers] /\ ckTime \in [Cores -> [ClockSteps -> 0..MaxTicks]]
      /\ ckUsed \in [Cores -> SUBSET ClockSteps] /\ ckMax \in Nat \ {0}
  BY ClockConstants DEF ClockInit
<1>4. ClockTypeOK
  BY <1>1, <1>2, <1>3 DEF ClockTypeOK
<1>5. TimesSeen
  <2> SUFFICES ASSUME NEW c \in Cores, Counting(c), NEW i \in DOMAIN StepsRead(c), StepMatches(c, i)
               PROVE  FALSE
    BY DEF TimesSeen
  <2>1. i \in Nat \ {0}
    BY <1>4, StepTypes
  <2> QED
    BY <1>1, <2>1 DEF StepMatches, IsRecorded
<1> QED
  BY <1>4, <1>5 DEF ClockInv

\* A step that runs is remembered as used.
LEMMA RunsClock == ASSUME ClockInv, NEW c \in Cores, ClockRuns(c) PROVE ClockInv'
<1>1. PICK s \in Range(StepsOf[ckDriver[c]]) :
         /\ ckTime[c][s] < MaxTicks
         /\ ckTime' = [ckTime EXCEPT ![c][s] = @ + 1] /\ ckUsed' = [ckUsed EXCEPT ![c] = @ \cup {s}]
  BY DEF ClockRuns
<1>2. Counting(c) /\ UNCHANGED <<ckDriver, ckStep, ckLast, ckMax, ckShown>>
  BY DEF ClockRuns, Counting
<1>3. s \in ClockSteps
  BY <1>2 DEF ClockSteps, Counting
<1>4. /\ ckTime \in [Cores -> [ClockSteps -> 0..MaxTicks]] /\ ckUsed \in [Cores -> SUBSET ClockSteps]
      /\ MaxTicks \in Nat /\ ckDriver \in [Cores -> ClockDrivers]
  BY ClockConstants DEF ClockInv, ClockTypeOK
<1>5. /\ ckTime' \in [Cores -> [ClockSteps -> 0..MaxTicks]] /\ ckUsed' \in [Cores -> SUBSET ClockSteps]
      /\ \A d \in Cores, r \in ClockSteps :
           /\ d # c \/ r # s => ckTime'[d][r] = ckTime[d][r]
           /\ r \in ckUsed[d] => r \in ckUsed'[d]
      /\ s \in ckUsed'[c]
  BY <1>1, <1>3, <1>4
<1>6. ClockTypeOK'
  BY <1>2, <1>5 DEF ClockInv, ClockTypeOK
<1>7. TimesSeen'
  <2> SUFFICES ASSUME NEW d \in Cores, Counting(d)', NEW i \in DOMAIN StepsRead(d)',
                      StepMatches(d, i)', Difference(d, i)' > 0
               PROVE  StepsRead(d)'[i] \in ckUsed'[d]
    BY DEF TimesSeen
  <2>1. /\ StepsRead(d)' = StepsRead(d) /\ Counting(d) /\ StepMatches(d, i)
        /\ StepsRead(d)[i] \in ClockSteps
    BY <1>2, StepTypes DEF StepsRead, Counting, StepMatches, IsRecorded, ClockInv
  <2>2. CASE d = c /\ StepsRead(d)[i] = s
    BY <1>5, <2>1, <2>2
  <2>3. CASE d # c \/ StepsRead(d)[i] # s
    <3>1. Difference(d, i)' = Difference(d, i)
      BY <1>2, <1>5, <2>1, <2>3 DEF Difference
    <3>2. StepsRead(d)[i] \in ckUsed[d]
      BY <2>1, <3>1 DEF ClockInv, TimesSeen
    <3> QED
      BY <1>5, <2>1, <3>2
  <2> QED
    BY <2>2, <2>3
<1> QED
  BY <1>6, <1>7 DEF ClockInv

\* The counters of another driver are not ahead of the times read.
LEMMA DriverClock == ASSUME ClockInv, NEW c \in Cores, ClockDriver(c) PROVE ClockInv'
<1>1. PICK d \in ClockDrivers \ {ckDriver[c]} : ckDriver' = [ckDriver EXCEPT ![c] = d]
  BY DEF ClockDriver
<1>2. /\ ckTime' = [ckTime EXCEPT ![c] = [s \in ClockSteps |-> 0]]
      /\ UNCHANGED <<ckUsed, ckStep, ckLast, ckMax, ckShown>>
  BY DEF ClockDriver
<1>3. ClockTypeOK /\ MaxTicks \in Nat
  BY ClockConstants DEF ClockInv
<1>4. ckTime' \in [Cores -> [ClockSteps -> 0..MaxTicks]] /\ ckDriver' \in [Cores -> ClockDrivers]
  BY <1>1, <1>2, <1>3 DEF ClockTypeOK
<1>5. ClockTypeOK'
  BY <1>2, <1>3, <1>4 DEF ClockTypeOK
<1>6. TimesSeen'
  <2> SUFFICES ASSUME NEW e \in Cores, Counting(e)', NEW i \in DOMAIN StepsRead(e)',
                      StepMatches(e, i)', Difference(e, i)' > 0
               PROVE  StepsRead(e)'[i] \in ckUsed'[e]
    BY DEF TimesSeen
  <2>1. CASE e = c
    <3>1. PICK r : r = StepsRead(c)'[i]
      OBVIOUS
    <3>2. r \in ClockSteps
      <4>1. ckDriver'[c] \in DOMAIN StepsOf /\ StepsRead(c)' = StepsOf[ckDriver'[c]] /\ i \in DOMAIN StepsOf[ckDriver'[c]]
        BY <2>1 DEF Counting, StepsRead
      <4> QED
        BY <3>1, <4>1 DEF ClockSteps, Range
    <3>3. ckTime'[c][r] = 0
      BY <1>2, <1>3, <3>2 DEF ClockTypeOK
    <3>4. ckLast'[c][i] \in 0..MaxTicks
      <4>1. i \in Nat \ {0}
        <5>1. StepsRead(c)' \in Seq(2..MaxClock)
          BY <2>1, ClockConstants DEF StepsRead, Counting
        <5> QED
          BY <2>1, <5>1
      <4>2. i \in 1..Len(ckStep[c])
        BY <1>2, <1>3, <2>1, <4>1, RecordTypes DEF StepMatches, IsRecorded
      <4> QED
        BY <1>2, <1>3, <4>2, RecordTypes
    <3>5. Difference(c, i)' = 0 - ckLast'[c][i]
      BY <3>1, <3>3 DEF Difference
    <3> QED
      BY <1>3, <2>1, <3>4, <3>5
  <2>2. CASE e # c
    <3>1. ckDriver'[e] = ckDriver[e] /\ ckTime'[e] = ckTime[e]
      BY <1>1, <1>2, <1>3, <2>2 DEF ClockTypeOK
    <3>2. /\ StepsRead(e)' = StepsRead(e) /\ Counting(e) /\ StepMatches(e, i)
          /\ Difference(e, i)' = Difference(e, i)
      BY <1>2, <3>1 DEF StepsRead, Counting, StepMatches, IsRecorded, Difference
    <3> QED
      BY <1>2, <3>2 DEF ClockInv, TimesSeen
  <2> QED
    BY <2>1, <2>2
<1> QED
  BY <1>5, <1>6 DEF ClockInv

\* A tick reads what it can compare, so that nothing is ahead; and what it shows is a clock.
LEMMA UpdateShows ==
    ASSUME ClockInv, ClockUpdate
    PROVE  /\ ckMax' \in Nat \ {0} /\ ckShown' \in [Cores -> Clocks]
           /\ \A c \in Cores : ckShown'[c].kind = "average" =>
                \E low, high \in ckUsed[c] :
                  low * ckShown'[c].den <= ckShown'[c].num /\ ckShown'[c].num <= high * ckShown'[c].den
<1>1. PICK name \in Brands : LET max == MaxFound(name) IN
         IF \A c \in Cores : ckDriver[c] = Absent
         THEN /\ ckMax' \in {max} \cup {s \in ClockSteps : s > max}
              /\ ckShown' = [c \in Cores |-> Shown("legacy")]
         ELSE ckMax' = max /\ ckShown' = [c \in Cores |-> ClockOf(c, max)]
  BY DEF ClockUpdate
<1>2. ClockTypeOK /\ MaxFound(name) \in Nat \ {0}
  BY MaximumType DEF ClockInv
<1>3. CASE \A c \in Cores : ckDriver[c] = Absent
  <2>1. ASSUME NEW s \in ClockSteps PROVE s \in Nat
    <3>1. PICK d \in DOMAIN StepsOf : s \in Range(StepsOf[d])
      BY DEF ClockSteps
    <3>2. StepsOf[d] \in Seq(2..MaxClock) /\ MaxClock \in Nat
      BY <3>1, ClockConstants
    <3>3. PICK i \in DOMAIN StepsOf[d] : s = StepsOf[d][i]
      BY <3>1 DEF Range
    <3>4. s \in 2..MaxClock
      BY <3>2, <3>3, SequenceOf
    <3> QED
      BY <3>2, <3>4
  <2>2. ckMax' \in {MaxFound(name)} \cup {s \in ClockSteps : s > MaxFound(name)} /\ ckShown' = [c \in Cores |-> Shown("legacy")]
    BY <1>1, <1>3
  <2>3. Shown("legacy") \in Clocks /\ Shown("legacy").kind = "legacy"
    BY ShownTypes DEF Kinds
  <2> QED
    BY <1>2, <2>1, <2>2, <2>3
<1>4. CASE ~ \A c \in Cores : ckDriver[c] = Absent
  <2>1. ckMax' = MaxFound(name) /\ ckShown' = [c \in Cores |-> ClockOf(c, MaxFound(name))]
    BY <1>1, <1>4
  <2> SUFFICES ASSUME NEW c \in Cores
               PROVE  /\ ClockOf(c, MaxFound(name)) \in Clocks
                      /\ ClockOf(c, MaxFound(name)).kind = "average" =>
                           \E low, high \in ckUsed[c] :
                             /\ low * ClockOf(c, MaxFound(name)).den <= ClockOf(c, MaxFound(name)).num
                             /\ ClockOf(c, MaxFound(name)).num <= high * ClockOf(c, MaxFound(name)).den
    BY <1>2, <2>1
  <2> DEFINE shown == ClockOf(c, MaxFound(name))
  <2>2. CASE ~Counting(c)
    <3>1. shown = Shown("current") \/ shown = Shown("none")
      BY <2>2 DEF ClockOf, Counting
    <3> QED
      BY <3>1, ShownTypes DEF Kinds
  <2>3. CASE Counting(c)
    <3>1. shown = ClockAverage(c, MaxFound(name))
      BY <2>3 DEF ClockOf, Counting
    <3>2. CASE shown.kind = "average"
      <4> DEFINE ran == {StepsRead(c)[i] : i \in {j \in DOMAIN StepsRead(c) : StepMatches(c, j) /\ Difference(c, j) > 0}}
      <4>1. ran \subseteq ckUsed[c]
        BY <2>3 DEF ClockInv, TimesSeen
      <4>2. shown \in Clocks /\ \E low, high \in ran : low * shown.den <= shown.num /\ shown.num <= high * shown.den
        BY <1>2, <2>3, <3>1, <3>2, AverageBounds
      <4> QED
        BY <4>1, <4>2
    <3>3. CASE shown.kind # "average"
      <4>1. \E k \in Kinds : shown = Shown(k)
        BY <3>1, <3>3 DEF ClockAverage, Average, Kinds
      <4> QED
        BY <4>1, ShownTypes, <3>3
    <3> QED
      BY <3>2, <3>3
  <2> QED
    BY <2>2, <2>3
<1> QED
  BY <1>3, <1>4

LEMMA UpdateClock == ASSUME ClockInv, ClockUpdate PROVE ClockInv'
<1>1. /\ ckStep' = [c \in Cores |-> StepAfter(c)] /\ ckLast' = [c \in Cores |-> LastAfter(c)]
      /\ ckUsed' = [c \in Cores |-> {}] /\ UNCHANGED <<ckDriver, ckTime>>
  BY DEF ClockUpdate
<1>2. ClockTypeOK
  BY DEF ClockInv
<1>3. /\ ckStep' \in [Cores -> Seq(ClockSteps)] /\ ckLast' \in [Cores -> Seq(0..MaxTicks)]
      /\ \A c \in Cores : Len(ckStep'[c]) = Len(ckLast'[c])
  BY <1>1, <1>2, AfterTypes
<1>4. ckUsed' \in [Cores -> SUBSET ClockSteps]
  BY <1>1
<1>5. ClockTypeOK'
  BY <1>1, <1>2, <1>3, <1>4, UpdateShows DEF ClockTypeOK
<1>6. TimesSeen'
  <2> SUFFICES ASSUME NEW c \in Cores, Counting(c)', NEW i \in DOMAIN StepsRead(c)',
                      StepMatches(c, i)', Difference(c, i)' > 0
               PROVE  FALSE
    BY DEF TimesSeen
  <2>1. Counting(c) /\ StepsRead(c)' = StepsRead(c) /\ i \in DOMAIN StepsRead(c)
    BY <1>1 DEF Counting, StepsRead
  <2>2. StepAfter(c)[i] = StepsRead(c)[i]
    BY <1>1, <2>1 DEF StepMatches
  <2>3. LastAfter(c)[i] = ckTime[c][StepsRead(c)[i]] /\ ckTime[c][StepsRead(c)[i]] \in 0..MaxTicks
    BY <1>2, <2>1, <2>2, AfterTypes, StepTypes
  <2>4. Difference(c, i)' = ckTime[c][StepsRead(c)[i]] - LastAfter(c)[i]
    BY <1>1, <2>1 DEF Difference
  <2> QED
    BY <2>3, <2>4, ClockConstants
<1> QED
  BY <1>5, <1>6 DEF ClockInv

\* The steps of the monitor.
LEMMA NextClock == ClockInv /\ [ClockNext]_ckVars => ClockInv'
<1> SUFFICES ASSUME ClockInv, [ClockNext]_ckVars PROVE ClockInv'
  OBVIOUS
<1>1. CASE UNCHANGED ckVars
  BY <1>1 DEF ckVars, ClockInv, ClockTypeOK, TimesSeen, Counting, StepsRead, StepMatches, IsRecorded, Difference
<1> QED
  BY <1>1, RunsClock, DriverClock, UpdateClock DEF ClockNext

LEMMA ClockAlways == ClockSpec => []ClockInv
  BY InitClock, NextClock, PTL DEF ClockSpec

\* What the clock monitor keeps of its cores keeps its form, for any cores, drivers and steps,
\* and one recorded time belongs to each recorded step.
THEOREM ClockTypeCorrect == ClockSpec => []ClockTypeOK
<1>1. ClockInv => ClockTypeOK
  BY DEF ClockInv
<1> QED
  BY <1>1, ClockAlways, PTL

\* An average that is shown lies between two steps the core used since the last tick, also
\* when the driver of the core changed in between, or its counters began again at zero.
THEOREM ClockIsOfUsed == ClockSpec => ClockOfUsedSteps
<1> DEFINE Bounded ==
      ClockUpdate => \A c \in Cores :
         LET shown == ckShown'[c] IN
         shown.kind = "average" =>
             \E low, high \in ckUsed[c] : low * shown.den <= shown.num /\ shown.num <= high * shown.den
<1>1. ClockInv /\ [ClockNext]_ckVars => Bounded
  BY UpdateShows
<1>2. ClockSpec => [][Bounded]_ckVars
  BY <1>1, ClockAlways, PTL DEF ClockSpec
<1> QED
  BY <1>2 DEF ClockOfUsedSteps
=============================================================================
