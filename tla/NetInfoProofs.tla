----------------------------- MODULE NetInfoProofs -----------------------------
(***************************************************************************)
(* Type correctness, the target of every lookup and the parts of names, for*)
(* any connections, addresses and delays.  That a pending lookup's address *)
(* stays in the cache needs two more facts: the address was last touched   *)
(* no longer ago than the lookup was started, and the main window never    *)
(* lists a connection without having started the lookup of its address, so *)
(* a lookup only starts for an address the same update has just touched.   *)
(***************************************************************************)
EXTENDS NetInfo, TLAPS

PendingTouched ==
    \A o \in Objects : lookup[o] = "asked" => age[o[1]] <= wait[o]

MainAsked ==
    \A c \in Conns : held["main"][c] # 0 => lookup[remoteAddr("main", c)] # "new"

IInv == TypeOK /\ PendingCached /\ PendingTouched /\ MainAsked

USE AddressAssumption, BoundAssumption, PatienceAssumption

-----------------------------------------------------------------------------
LEMMA ObjectParts ==
    ASSUME NEW o \in Objects
    PROVE  o[1] \in Addrs /\ o[2] \in 1..MaxMade /\ o = <<o[1], o[2]>>
BY DEF Objects

LEMMA InitIInv == Init => IInv
<1> SUFFICES ASSUME Init PROVE IInv
    OBVIOUS
<1>1. TypeOK
    BY DEF Init, TypeOK, Numbers, Users
<1>2. PendingCached /\ PendingTouched
    BY DEF Init, PendingCached, PendingTouched
<1>3. MainAsked
    BY DEF Init, MainAsked, Users
<1> QED BY <1>1, <1>2, <1>3 DEF IInv

\* What an update does to the cache and to the list of its user.
LEMMA UpdatedCache ==
    ASSUME TypeOK, NEW u \in Users, NEW lines \in SUBSET Conns, updateConnections(u, lines)
    PROVE  /\ cache' \in [Addrs -> Numbers]
           /\ made' \in [Addrs -> Numbers]
           /\ age' \in [Addrs -> 0..(Delay + 1)]
           /\ held' \in [Users -> [Conns -> Numbers]]
           /\ \A a \in Addrs : made[a] <= made'[a]
           /\ \A a \in Addrs : cache'[a] <= made'[a]
           /\ \A v \in Users, c \in Conns : held'[v][c] <= made'[Remote[c]]
<1> USE DEF TypeOK, updateConnections, Numbers, Users
<1>1. /\ made' \in [Addrs -> Numbers]
      /\ \A a \in Addrs : made[a] <= made'[a]
      /\ \A a \in Addrs : findAddress(lines)[a] \in Numbers
      /\ \A a \in Addrs : findAddress(lines)[a] <= made'[a]
    BY DEF findAddress
<1>2. /\ cache' \in [Addrs -> Numbers]
      /\ \A a \in Addrs : cache'[a] <= made'[a]
    BY <1>1
<1>3. age' \in [Addrs -> 0..(Delay + 1)]
    OBVIOUS
<1>4. \A c \in Conns : Read(u, lines, c) \in Numbers /\ Read(u, lines, c) <= made'[Remote[c]]
    BY <1>1 DEF Read
<1>5. \A v \in Users, c \in Conns :
          held'[v][c] = IF v = u THEN Read(u, lines, c) ELSE held[v][c]
    OBVIOUS
<1>6. held' \in [Users -> [Conns -> Numbers]]
    BY <1>4
<1>7. \A v \in Users, c \in Conns : held'[v][c] <= made'[Remote[c]]
  <2> SUFFICES ASSUME NEW v \in Users, NEW c \in Conns
               PROVE  held'[v][c] <= made'[Remote[c]]
      OBVIOUS
  <2>1. Remote[c] \in Addrs /\ made[Remote[c]] <= made'[Remote[c]]
      BY <1>1
  <2>2. made[Remote[c]] \in Nat /\ made'[Remote[c]] \in Nat /\ held[v][c] \in Nat
      BY <1>1, <2>1
  <2>3. held[v][c] <= made'[Remote[c]]
      BY <2>1, <2>2
  <2> QED BY <1>4, <1>5, <2>3
<1> QED BY <1>1, <1>2, <1>3, <1>6, <1>7

\* An update keeps the address of a lookup that is under way, however long ago it was touched.
LEMMA UpdatedKeepsPending ==
    ASSUME IInv, NEW u \in Users, NEW lines \in SUBSET Conns, updateConnections(u, lines),
           NEW o \in Objects, lookup[o] = "asked"
    PROVE  cache'[o[1]] = o[2] /\ age'[o[1]] <= age[o[1]]
<1>1. o[1] \in Addrs /\ o[2] \in 1..MaxMade
    BY ObjectParts
<1>2. cache[o[1]] = o[2] /\ age[o[1]] <= wait[o] /\ wait[o] \in 0..Patience
    BY DEF IInv, PendingCached, PendingTouched, TypeOK
<1>3. age[o[1]] \in 0..(Delay + 1) /\ age[o[1]] <= Delay
    BY <1>1, <1>2 DEF IInv, TypeOK
<1>4. o[1] \notin Evicted(lines)
    BY <1>3 DEF Evicted
<1>5. findAddress(lines)[o[1]] = o[2]
    BY <1>1, <1>2 DEF findAddress
<1> QED BY <1>1, <1>3, <1>4, <1>5 DEF updateConnections

-----------------------------------------------------------------------------
LEMMA StepIInv == IInv /\ [Next]_vars => IInv'
<1> SUFFICES ASSUME IInv, [Next]_vars PROVE IInv'
    OBVIOUS
<1> USE DEF IInv
<1>1. ASSUME NEW lines \in SUBSET Conns, NEW listening \in SUBSET Servers, Update(lines, listening)
      PROVE  IInv'
  <2>1. updateConnections("main", lines) /\ "main" \in Users
      BY <1>1 DEF Update, Users
  <2> DEFINE starts(o) == lookup[o] = "new" /\ \E c \in lines : o = <<Remote[c], held'["main"][c]>>
  <2>2. \A o \in Objects : /\ lookup'[o] = IF starts(o) THEN "asked" ELSE lookup[o]
                           /\ wait'[o] = IF starts(o) THEN 0 ELSE wait[o]
      BY <1>1 DEF Update, LookedUp
  <2>3. /\ lookup' \in [Objects -> {"new", "asked", "ip", "host"}]
        /\ wait' \in [Objects -> 0..Patience]
        /\ incoming' \subseteq Conns /\ split' = split
      BY <1>1 DEF Update, TypeOK
  <2>4. TypeOK'
      BY <2>1, <2>3, UpdatedCache DEF TypeOK
  \* A connection whose lookup starts has just been listed.
  <2>5. ASSUME NEW o \in Objects, starts(o)
        PROVE  cache'[o[1]] = o[2] /\ age'[o[1]] = 0
    <3>1. PICK c \in lines : o = <<Remote[c], held'["main"][c]>>
        BY <2>5
    <3>2. o[1] = Remote[c] /\ o[2] = Read("main", lines, c) /\ Remote[c] \in Addrs
        BY <2>1, <3>1 DEF updateConnections, TypeOK
    <3>3. held["main"][c] = 0
      <4> SUFFICES ASSUME held["main"][c] # 0 PROVE FALSE
          OBVIOUS
      <4>1. o = remoteAddr("main", c)
          BY <3>1, <3>2 DEF Read, remoteAddr
      <4> QED BY <2>5, <4>1 DEF MainAsked
    <3>4. Remote[c] \in Touched(lines) /\ Remote[c] \notin Evicted(lines)
        BY DEF Touched, Evicted
    <3> QED BY <2>1, <3>2, <3>3, <3>4 DEF updateConnections, Read
  <2>6. PendingCached' /\ PendingTouched'
    <3> SUFFICES ASSUME NEW o \in Objects, lookup'[o] = "asked"
                 PROVE  cache'[o[1]] = o[2] /\ age'[o[1]] <= wait'[o]
        BY DEF PendingCached, PendingTouched
    <3>1. CASE starts(o)
        BY <2>2, <2>5, <3>1
    <3>2. CASE ~starts(o)
      <4>1. lookup[o] = "asked" /\ wait'[o] = wait[o]
          BY <2>2, <3>2
      <4>2. o[1] \in Addrs /\ age[o[1]] <= wait[o]
          BY <4>1, ObjectParts DEF PendingTouched
      <4>3. age[o[1]] \in Nat /\ age'[o[1]] \in Nat /\ wait[o] \in Nat
          BY <2>4, <4>2 DEF TypeOK
      <4> QED BY <2>1, <4>1, <4>2, <4>3, UpdatedKeepsPending
    <3> QED BY <3>1, <3>2
  <2>7. MainAsked'
    <3> SUFFICES ASSUME NEW c \in Conns, held'["main"][c] # 0
                 PROVE  lookup'[<<Remote[c], held'["main"][c]>>] # "new"
        BY DEF MainAsked, remoteAddr
    <3>1. c \in lines
        BY <2>1 DEF updateConnections, Read, TypeOK
    <3>2. <<Remote[c], held'["main"][c]>> \in Objects
        BY <2>4 DEF TypeOK, Objects, Numbers, Users
    <3> QED BY <2>2, <3>1, <3>2
  <2> QED BY <2>4, <2>6, <2>7
<1>2. ASSUME NEW lines \in SUBSET Conns, Refresh(lines) PROVE IInv'
  <2>1. updateConnections("dialog", lines) /\ "dialog" \in Users
      BY <1>2 DEF Refresh, Users
  <2>2. lookup' = lookup /\ wait' = wait /\ split' = split /\ incoming' = incoming
      BY <1>2 DEF Refresh, names
  <2>3. TypeOK'
      BY <2>1, <2>2, UpdatedCache DEF TypeOK
  <2>4. PendingCached' /\ PendingTouched'
    <3> SUFFICES ASSUME NEW o \in Objects, lookup[o] = "asked"
                 PROVE  cache'[o[1]] = o[2] /\ age'[o[1]] <= wait[o]
        BY <2>2 DEF PendingCached, PendingTouched
    <3>1. o[1] \in Addrs /\ age[o[1]] <= wait[o]
        BY ObjectParts DEF PendingTouched
    <3>2. age[o[1]] \in Nat /\ age'[o[1]] \in Nat /\ wait[o] \in Nat
        BY <2>3, <3>1 DEF TypeOK
    <3> QED BY <2>1, <3>1, <3>2, UpdatedKeepsPending
  <2>5. held'["main"] = held["main"]
      BY <2>1 DEF updateConnections, TypeOK, Users
  <2>6. MainAsked'
      BY <2>2, <2>5 DEF MainAsked, remoteAddr
  <2> QED BY <2>3, <2>4, <2>6
<1>3. CASE CloseDialog
  <2> USE <1>3 DEF CloseDialog, addresses, names
  <2>1. TypeOK'
      BY DEF TypeOK, Users, Numbers
  <2>2. held'["main"] = held["main"]
      BY DEF TypeOK, Users
  <2> QED BY <2>1, <2>2 DEF PendingCached, PendingTouched, MainAsked, remoteAddr
<1>4. ASSUME NEW o \in Objects, NEW name \in {"ip", "host"}, Answer(o, name) PROVE IInv'
  <2> USE <1>4 DEF Answer, addresses
  <2>1. TypeOK'
      BY DEF TypeOK
  <2>2. \A x \in Objects : lookup'[x] = IF x = o THEN name ELSE lookup[x]
      BY DEF TypeOK
  <2>3. \A x \in Objects : x # o => wait'[x] = wait[x]
      BY DEF TypeOK
  <2>4. PendingCached' /\ PendingTouched'
      BY <2>2, <2>3 DEF PendingCached, PendingTouched
  <2>5. MainAsked'
    <3> SUFFICES ASSUME NEW c \in Conns, held["main"][c] # 0
                 PROVE  lookup'[remoteAddr("main", c)] # "new"
        BY DEF MainAsked, remoteAddr
    <3>1. remoteAddr("main", c) \in Objects
        BY DEF remoteAddr, TypeOK, Objects, Numbers, Users
    <3> QED BY <2>2, <3>1 DEF MainAsked
  <2> QED BY <2>1, <2>4, <2>5
<1>5. CASE Draw
  <2> USE <1>5 DEF Draw, addresses
  <2>1. TypeOK'
      BY DEF TypeOK, getNameSplit
  <2> QED BY <2>1 DEF PendingCached, PendingTouched, MainAsked, remoteAddr
<1>6. CASE Tick
  <2> USE <1>6 DEF Tick
  <2>1. TypeOK'
      BY DEF TypeOK
  <2>2. PendingTouched'
    <3> SUFFICES ASSUME NEW o \in Objects, lookup[o] = "asked"
                 PROVE  age'[o[1]] <= wait'[o]
        BY DEF PendingTouched
    <3>1. o[1] \in Addrs
        BY ObjectParts
    <3>2. age[o[1]] <= wait[o] /\ age[o[1]] \in Nat /\ wait[o] \in Nat /\ wait'[o] = wait[o] + 1
        BY <3>1 DEF PendingTouched, TypeOK
    <3>3. age'[o[1]] \in {age[o[1]], age[o[1]] + 1}
        BY <3>1
    <3> QED BY <3>2, <3>3
  <2> QED BY <2>1, <2>2 DEF PendingCached, MainAsked, remoteAddr
<1>7. CASE UNCHANGED vars
    BY <1>7 DEF vars, TypeOK, PendingCached, PendingTouched, MainAsked, remoteAddr
<1> QED BY <1>1, <1>2, <1>3, <1>4, <1>5, <1>6, <1>7 DEF Next, Other, Updates, Answers

LEMMA Inductive == Spec => []IInv
<1> QED BY InitIInv, StepIInv, PTL DEF Spec

\* The cache, the lists of both users and the lookups keep their form, whatever is listed.
THEOREM TypeCorrect == Spec => []TypeOK
<1>1. IInv => TypeOK
    BY DEF IInv
<1> QED BY <1>1, Inductive, PTL

\* As long as the resolver answers within the delay of the cache, an answer finds its
\* address object in the cache.
THEOREM LookupsCached == Spec => []PendingCached
<1>1. IInv => PendingCached
    BY DEF IInv
<1> QED BY <1>1, Inductive, PTL

-----------------------------------------------------------------------------
LEMMA StepSplitCurrent == TypeOK /\ SplitCurrent /\ [Next]_vars => SplitCurrent'
<1> SUFFICES ASSUME TypeOK, SplitCurrent, [Next]_vars, NEW o \in Objects, lookup'[o] = "host"
             PROVE  split'[o] # "ip"
    BY DEF SplitCurrent
<1> USE DEF TypeOK, SplitCurrent
<1>1. ASSUME NEW lines \in SUBSET Conns, NEW listening \in SUBSET Servers, Update(lines, listening)
      PROVE  split'[o] # "ip"
    BY <1>1 DEF Update
<1>2. ASSUME NEW lines \in SUBSET Conns, Refresh(lines) PROVE split'[o] # "ip"
    BY <1>2 DEF Refresh, names
<1>3. CASE CloseDialog
    BY <1>3 DEF CloseDialog, names
<1>4. ASSUME NEW x \in Objects, NEW name \in {"ip", "host"}, Answer(x, name)
      PROVE  split'[o] # "ip"
    BY <1>4 DEF Answer
<1>5. CASE Draw
    BY <1>5 DEF Draw, getNameSplit
<1>6. CASE Tick
    BY <1>6 DEF Tick
<1>7. CASE UNCHANGED vars
    BY <1>7 DEF vars
<1> QED BY <1>1, <1>2, <1>3, <1>4, <1>5, <1>6, <1>7 DEF Next, Other, Updates, Answers

\* A name that is known is the one that is taken apart.
THEOREM PartsCurrent == Spec => []SplitCurrent
<1>1. Init => SplitCurrent
    BY DEF Init, SplitCurrent
<1> QED BY <1>1, StepSplitCurrent, TypeCorrect, PTL DEF Spec
=============================================================================
