------------------------------ MODULE CpuClock ------------------------------
(***************************************************************************)
(* The diagram of the processor clocks (ClkMonitor.cpp).  Once per tick the *)
(* clock of each core is computed: as the average of the steps the core ran *)
(* at since the last tick, from the times the kernel counts for each step;  *)
(* without these, as the clock of the moment; and if no core has either,    *)
(* from /proc/cpuinfo.                                                      *)
(*                                                                         *)
(* The drivers and their counters are the kernel's (external): another      *)
(* driver has other steps, and its counters begin at zero.                  *)
(***************************************************************************)
EXTENDS Integers, Sequences, Functions

CONSTANTS Cores, Core0, \* the cores, and the one whose maximum is read
          StepsOf,      \* the drivers that count times, and their steps in MHz
          Current,      \* a driver that tells the clock of the moment only
          Absent,       \* no driver
          Brands,       \* processor names, as sequences of "0" (a digit or point), "M", "G", "x"
          MaxClock,     \* MHz, of cpuinfo_max_freq
          MaxTicks      \* bound: time counted for a step

ClockDrivers == DOMAIN StepsOf \cup {Current, Absent}
ClockSteps == UNION {Range(StepsOf[d]) : d \in DOMAIN StepsOf}

ASSUME ClockConstants ==
    /\ {Current, Absent} \cap DOMAIN StepsOf = {} /\ Current # Absent
    /\ \A d \in DOMAIN StepsOf : StepsOf[d] \in Seq(2..MaxClock) \ {<<>>}
    /\ \A name \in Brands : name \in Seq({"0", "M", "G", "x"})
    /\ Core0 \in Cores /\ MaxClock \in Nat \ {0} /\ MaxTicks \in Nat

VARIABLES ckDriver, \* driver of a core
          ckTime,   \* time a core ran at a step, as its driver counted it
          ckUsed,   \* history: steps a core ran at since the last tick
          ckStep,   \* m_clockStep, the steps that were recorded for a core
          ckLast,   \* m_clockTime, the times that were read last for them
          ckMax,    \* maxMHz
          ckShown   \* clkMHz of a core

ckVars == <<ckDriver, ckTime, ckUsed, ckStep, ckLast, ckMax, ckShown>>

\* A clock: the average num / den of steps; or what is shown in its place. The value is
\* undefined if some difference was never assigned, wrapped if one was negative, and capped at
\* the maximum that is known.
Average(num, den) == [kind |-> "average", num |-> num, den |-> den]
Shown(kind) == [kind |-> kind, num |-> 0, den |-> 1]
Kinds == {"none", "current", "legacy", "undefined", "wrapped", "notANumber", "capped"}
Clocks == [kind : {"average"}, num : Nat, den : Nat \ {0}] \cup {Shown(k) : k \in Kinds}

ClockTypeOK ==
    /\ ckDriver \in [Cores -> ClockDrivers]
    /\ ckTime \in [Cores -> [ClockSteps -> 0..MaxTicks]]
    /\ ckUsed \in [Cores -> SUBSET ClockSteps]
    /\ ckStep \in [Cores -> Seq(ClockSteps)] /\ ckLast \in [Cores -> Seq(0..MaxTicks)]
    /\ \A c \in Cores : Len(ckStep[c]) = Len(ckLast[c])
    /\ ckMax \in Nat \ {0} /\ ckShown \in [Cores -> Clocks]

ClockInit ==
    /\ ckDriver \in [Cores -> ClockDrivers] /\ ckTime = [c \in Cores |-> [s \in ClockSteps |-> 0]]
    /\ ckUsed = [c \in Cores |-> {}]
    /\ ckStep = [c \in Cores |-> <<>>] /\ ckLast = [c \in Cores |-> <<>>]
    /\ ckMax = 1 /\ ckShown = [c \in Cores |-> Shown("none")]

---------------------------------------------------------------------------
\* The kernel.

ClockRuns(c) ==
    /\ ckDriver[c] \in DOMAIN StepsOf
    /\ \E s \in Range(StepsOf[ckDriver[c]]) :
         /\ ckTime[c][s] < MaxTicks
         /\ ckTime' = [ckTime EXCEPT ![c][s] = @ + 1] /\ ckUsed' = [ckUsed EXCEPT ![c] = @ \cup {s}]
    /\ UNCHANGED <<ckDriver, ckStep, ckLast, ckMax, ckShown>>

ClockDriver(c) ==
    /\ \E d \in ClockDrivers \ {ckDriver[c]} : ckDriver' = [ckDriver EXCEPT ![c] = d]
    /\ ckTime' = [ckTime EXCEPT ![c] = [s \in ClockSteps |-> 0]]
    /\ UNCHANGED <<ckUsed, ckStep, ckLast, ckMax, ckShown>>

---------------------------------------------------------------------------
\* The monitor.

\* decodeMaxClock: the last number of the name, if at least two characters stand before it
\* (the scan does not look at the first one), in GHz if G is the first unit behind it.
NumberAt(name, i, j) ==
    /\ \A k \in i..j : name[k] = "0"
    /\ \A k \in (j + 1)..Len(name) : name[k] # "0"
    /\ name[i - 1] # "0"
UnitBehind(name, j) == SelectSeq(SubSeq(name, j + 1, Len(name)), LAMBDA ch : ch \in {"M", "G"})
\* The least number of n + 1 digits.
Digits(n) == LET least[k \in 0..n] == IF k = 0 THEN 1 ELSE 10 * least[k - 1] IN least[n]
DecodedMax(name, old) ==
    IF \E i \in 3..Len(name) : \E j \in i..Len(name) : NumberAt(name, i, j)
    THEN LET i == CHOOSE i \in 3..Len(name) : \E j \in i..Len(name) : NumberAt(name, i, j)
             j == CHOOSE j \in i..Len(name) : NumberAt(name, i, j)
             unit == UnitBehind(name, j)
             mhz == Digits(j - i)
         IN IF unit # <<>> /\ Head(unit) = "G" THEN 1000 * mhz ELSE mhz
    ELSE old

\* The maximum is looked for while none is known: readMaxFreq, then the processor's name.
MaxFound(name) ==
    IF ckMax > 1 THEN ckMax
    ELSE IF ckDriver[Core0] # Absent THEN MaxClock
    ELSE DecodedMax(name, ckMax)

\* clock_avg for the i-th line of time_in_state, times known from the last tick or recorded.
StepsRead(c) == StepsOf[ckDriver[c]]
IsRecorded(c, i) == i > Len(ckStep[c])
StepMatches(c, i) == ~IsRecorded(c, i) /\ ckStep[c][i] = StepsRead(c)[i]
Difference(c, i) == ckTime[c][StepsRead(c)[i]] - ckLast[c][i]

StepAfter(c) ==
    IF ckDriver[c] \notin DOMAIN StepsOf \/ Len(StepsRead(c)) <= Len(ckStep[c]) THEN ckStep[c]
    ELSE ckStep[c] \o SubSeq(StepsRead(c), Len(ckStep[c]) + 1, Len(StepsRead(c)))
\* A variant: every new time is kept as the first one was: an average since the program was started.
LastAfterFirst(c) ==
    [i \in DOMAIN StepAfter(c) |->
        IF i \in DOMAIN ckLast[c] THEN ckLast[c][i] ELSE ckTime[c][StepsRead(c)[i]]]

LastAfter(c) ==
    [i \in DOMAIN StepAfter(c) |->
        IF ckDriver[c] \in DOMAIN StepsOf /\ i \in DOMAIN StepsRead(c) /\ (IsRecorded(c, i) \/ StepMatches(c, i))
        THEN ckTime[c][StepsRead(c)[i]] ELSE ckLast[c][i]]

\* The sums over the first n lines.
TotalTime(c, n) ==
    LET total[i \in 0..n] == IF i = 0 THEN 0 ELSE total[i - 1] + Difference(c, i)
    IN total[n]
TotalClock(c, n) ==
    LET sum[i \in 0..n] == IF i = 0 THEN 0 ELSE sum[i - 1] + StepsRead(c)[i] * Difference(c, i)
    IN sum[n]

ClockAverage(c, max) ==
    LET lines == DOMAIN StepsRead(c)
        total == TotalTime(c, Len(StepsRead(c)))
        sum == TotalClock(c, Len(StepsRead(c)))
    IN IF \E i \in lines : ~StepMatches(c, i) THEN Shown("undefined")
       ELSE IF \E i \in lines : Difference(c, i) < 0 THEN Shown("wrapped")
       ELSE IF total = 0 THEN Shown("notANumber")
       ELSE IF sum > max * total THEN Shown("capped") ELSE Average(sum, total)

ClockOf(c, max) ==
    IF ckDriver[c] \in DOMAIN StepsOf THEN ClockAverage(c, max)
    ELSE IF ckDriver[c] = Current THEN Shown("current") ELSE Shown("none")

\* update: with no clock of any core, leagacyFreq reads them all, and a greater maximum.
ClockUpdate ==
    /\ \E name \in Brands : LET max == MaxFound(name) IN
         IF \A c \in Cores : ckDriver[c] = Absent
         THEN /\ ckMax' \in {max} \cup {s \in ClockSteps : s > max}
              /\ ckShown' = [c \in Cores |-> Shown("legacy")]
         ELSE ckMax' = max /\ ckShown' = [c \in Cores |-> ClockOf(c, max)]
    /\ ckStep' = [c \in Cores |-> StepAfter(c)] /\ ckLast' = [c \in Cores |-> LastAfter(c)]
    /\ ckUsed' = [c \in Cores |-> {}]
    /\ UNCHANGED <<ckDriver, ckTime>>

ClockNext == (\E c \in Cores : ClockRuns(c) \/ ClockDriver(c)) \/ ClockUpdate
ClockSpec == ClockInit /\ [][ClockNext]_ckVars
---------------------------------------------------------------------------
\* Properties.

\* An average that a tick shows lies between the lowest and the highest step the core ran at
\* since the tick before, although the driver, its steps and its counters may have changed
\* in between and more than once.
ClockOfUsedSteps ==
    [][ClockUpdate => \A c \in Cores :
         LET shown == ckShown'[c] IN
         shown.kind = "average" =>
             \E low, high \in ckUsed[c] : low * shown.den <= shown.num /\ shown.num <= high * shown.den]_ckVars
=============================================================================
