-------------------------------- MODULE NetInfo --------------------------------
(***************************************************************************)
(* NetConnection, BaseNetInfo and the reading half of NetInfo.  The main   *)
(* window and the network dialog each list the tcp connections on their    *)
(* own timer, and share one cache of addresses.  The main window has the   *)
(* names of new addresses looked up; the resolver answers on the main      *)
(* loop, some time later, through a pointer to the address object that     *)
(* keeps nothing alive.                                                    *)
(*                                                                         *)
(* An address object is a pair of the address and a number that tells its  *)
(* incarnations apart.  Time is counted in ticks, removeDelayUs is Delay.  *)
(***************************************************************************)
EXTENDS Naturals

CONSTANTS
    Conns,        \* the keys of the connections: local and remote address and port
    Addrs,        \* the addresses
    Local,        \* per connection its addresses ...
    Remote,
    LocalPort,    \* ... and its local port
    Servers,      \* the ports a socket may listen on
    Delay,        \* removeDelayUs
    Patience,     \* the resolver answers within that many ticks
    MaxMade       \* bound: how many objects are made for an address

ASSUME AddressAssumption == Local \in [Conns -> Addrs] /\ Remote \in [Conns -> Addrs]
ASSUME BoundAssumption == MaxMade \in Nat
\* A resolver gives up within half a minute, an address stays for half an hour.
ASSUME PatienceAssumption == Delay \in Nat /\ Patience \in 0..Delay

VARIABLES
    cache,        \* m_nameCache: per address the number of its object, 0 for none
    made,         \* how many objects were made for an address
    age,          \* the time since setTouched of the cached object
    held,         \* per user and connection, the number of m_remoteIp, 0 if not listed
    incoming,     \* the main window's connections with m_incomming (the dialog only prints it)
    lookup,       \* per object, m_querying and m_name
    wait,         \* the time since its lookup was started
    split         \* per object, what m_splitedName was made from

vars == <<cache, made, age, held, incoming, lookup, wait, split>>
addresses == <<cache, made, age>>
names == <<lookup, wait, split>>

Users == {"main", "dialog"}
Numbers == 0..MaxMade
Objects == Addrs \X (1..MaxMade)

TypeOK ==
    /\ cache \in [Addrs -> Numbers]
    /\ made \in [Addrs -> Numbers]
    /\ age \in [Addrs -> 0..(Delay + 1)]
    /\ held \in [Users -> [Conns -> Numbers]]
    /\ incoming \subseteq Conns
    /\ lookup \in [Objects -> {"new", "asked", "ip", "host"}]
    /\ wait \in [Objects -> 0..Patience]
    /\ split \in [Objects -> {"none", "ip", "host"}]
    /\ \A a \in Addrs : cache[a] <= made[a]
    /\ \A u \in Users, c \in Conns : held[u][c] <= made[Remote[c]]

Init ==
    /\ cache = [a \in Addrs |-> 0]
    /\ made = [a \in Addrs |-> 0]
    /\ age = [a \in Addrs |-> 0]
    /\ held = [u \in Users |-> [c \in Conns |-> 0]]
    /\ incoming = {}
    /\ lookup = [o \in Objects |-> "new"]
    /\ wait = [o \in Objects |-> 0]
    /\ split = [o \in Objects |-> "none"]

remoteAddr(u, c) == <<Remote[c], held[u][c]>>
Listed(u) == {c \in Conns : held[u][c] # 0}

-----------------------------------------------------------------------------
(* updateConnections for user u, when the files have the connections lines.*)

\* Every line makes a NetConnection, which touches both of its addresses.
Touched(lines) == {Local[c] : c \in lines} \cup {Remote[c] : c \in lines}

\* findAddress of all lines.
findAddress(lines) ==
    [a \in Addrs |-> IF a \in Touched(lines) /\ cache[a] = 0 THEN made[a] + 1 ELSE cache[a]]

\* read: a connection that is listed already keeps its object.
Read(u, lines, c) ==
    IF c \notin lines THEN 0
    ELSE IF held[u][c] # 0 THEN held[u][c]
    ELSE findAddress(lines)[Remote[c]]

\* A variant that evicts every address the update did not touch.
EvictedAtOnce(lines) == {a \in Addrs : a \notin Touched(lines)}

\* cleanAddressCache.
Evicted(lines) == {a \in Addrs : a \notin Touched(lines) /\ age[a] > Delay}

updateConnections(u, lines) ==
    /\ \A a \in Touched(lines) : cache[a] = 0 => made[a] < MaxMade
    /\ made' = [a \in Addrs |->
                   IF findAddress(lines)[a] > made[a] THEN made[a] + 1 ELSE made[a]]
    /\ cache' = [a \in Addrs |-> IF a \in Evicted(lines) THEN 0 ELSE findAddress(lines)[a]]
    /\ age' = [a \in Addrs |-> IF a \in Touched(lines) \cup Evicted(lines) THEN 0 ELSE age[a]]
    /\ held' = [held EXCEPT ![u] = [c \in Conns |-> Read(u, lines, c)]]

-----------------------------------------------------------------------------
(* The steps of the main loop.                                             *)

\* A variant that only looks up the objects this update made.
LookedUpNew(o) == o[2] > made[o[1]]

\* The objects of listed connections whose lookup was not started yet.
LookedUp(o) == lookup[o] = "new"

\* NetInfo::update, called by monitors_update while the connections are to be shown. The
\* sockets that listen on the ports listening come before the connections in the files.
Update(lines, listening) ==
    /\ updateConnections("main", lines)
    /\ incoming' = {c \in lines : IF c \in Listed("main") THEN c \in incoming
                                  ELSE LocalPort[c] \in listening}
    /\ LET started == {o \in Objects : LookedUp(o) /\ \E c \in lines : o = <<Remote[c], held'["main"][c]>>}
       IN /\ lookup' = [o \in Objects |-> IF o \in started THEN "asked" ELSE lookup[o]]
          /\ wait' = [o \in Objects |-> IF o \in started THEN 0 ELSE wait[o]]
    /\ UNCHANGED split

\* NetworkProperties: its constructor and its timer refresh the list.
Refresh(lines) ==
    /\ updateConnections("dialog", lines)
    /\ UNCHANGED <<incoming, names>>

CloseDialog ==
    /\ held' = [held EXCEPT !["dialog"] = [c \in Conns |-> 0]]
    /\ UNCHANGED <<addresses, incoming, names>>

\* A variant that keeps the parts of the name made before.
AnswerKeeping(o, name) ==
    /\ lookup[o] = "asked"
    /\ lookup' = [lookup EXCEPT ![o] = name]
    /\ wait' = [wait EXCEPT ![o] = 0]
    /\ UNCHANGED <<addresses, held, incoming, split>>

\* address_lookup_ready: the address has a name, or its digits have to do.
Answer(o, name) ==
    /\ lookup[o] = "asked"
    /\ lookup' = [lookup EXCEPT ![o] = name]
    /\ wait' = [wait EXCEPT ![o] = 0]
    /\ split' = IF name = "host" THEN [split EXCEPT ![o] = "none"] ELSE split
    /\ UNCHANGED <<addresses, held, incoming>>

\* A variant that takes the name apart even while it is empty.
getNameSplitEmpty(o) == IF split[o] # "none" THEN split[o] ELSE lookup[o]

\* getNameSplit: the parts of the name are kept until an answer clears them.
getNameSplit(o) ==
    IF split[o] # "none" THEN split[o] ELSE IF lookup[o] = "host" THEN "host" ELSE "ip"

\* NetInfo::draw, as far as it changes the addresses: it asks for the parts of the names.
Draw ==
    /\ split' = [o \in Objects |->
           IF \E c \in Listed("main") : o = remoteAddr("main", c)
           THEN getNameSplit(o) ELSE split[o]]
    /\ UNCHANGED <<addresses, held, incoming, lookup, wait>>

\* Time passes, but no lookup stays unanswered for long.
Tick ==
    /\ \A o \in Objects : lookup[o] = "asked" => wait[o] < Patience
    /\ age' = [a \in Addrs |-> IF cache[a] = 0 \/ age[a] > Delay THEN age[a] ELSE age[a] + 1]
    /\ wait' = [o \in Objects |-> IF lookup[o] = "asked" THEN wait[o] + 1 ELSE wait[o]]
    /\ UNCHANGED <<cache, made, held, incoming, lookup, split>>

Updates ==
    \E lines \in SUBSET Conns :
        \/ \E listening \in SUBSET Servers : Update(lines, listening)
        \/ Refresh(lines)

Answers == \E o \in Objects, name \in {"ip", "host"} : Answer(o, name)

\* Every step but drawing, which NetTree completes.
Other == Updates \/ CloseDialog \/ Answers \/ Tick

Next == Other \/ Draw

Spec == Init /\ [][Next]_vars

-----------------------------------------------------------------------------
(* Properties.                                                             *)

\* A lookup under way is that of an object the cache has: the answer finds the object
\* alive, whoever listed it then, and the address is not looked up a second time.
PendingCached ==
    \A o \in Objects : lookup[o] = "asked" => cache[o[1]] = o[2]

\* The parts of a name are never older than the name: once a host is known they are not
\* made from digits.
SplitCurrent ==
    \A o \in Objects : lookup[o] = "host" => split[o] # "ip"

\* A connection that stays in the main window's list gets a name, or its digits.
NamesArrive ==
    \A c \in Conns, n \in 1..MaxMade :
        (held["main"][c] = n) ~>
            (lookup[<<Remote[c], n>>] \in {"ip", "host"} \/ held["main"][c] # n)
=============================================================================
