-------------------------------- MODULE NetTree --------------------------------
(***************************************************************************)
(* NetInfo's tree of NetNodes: the connections of the main window by port, *)
(* then by the parts of the remote name from the top-level domain down.    *)
(* The same tree is updated each time the view is drawn, while connections *)
(* come and go and answers to lookups rename them.                         *)
(*                                                                         *)
(* A node is the path of keys that leads to it; a key is a text and the    *)
(* suffix of a finished name.                                              *)
(***************************************************************************)
EXTENDS NetInfo, Sequences, FiniteSetsExt

CONSTANTS
    RemotePort,   \* per connection
    HostParts     \* per address the parts of its host name, top-level domain last

VARIABLE tree     \* the nodes below m_root, each with its m_conn; no node before the first drawing

NoConn == 0
NoTree == [p \in {} |-> NoConn]

TreeVars == <<vars, tree>>

TreeInit == Init /\ tree = NoTree

-----------------------------------------------------------------------------
Parts(c) ==
    LET o == remoteAddr("main", c)
    IN IF getNameSplit(o) = "host" THEN HostParts[o[1]] ELSE <<o[1]>>

getWellKnownPort(c) == IF c \in incoming THEN LocalPort[c] ELSE RemotePort[c]
getGroupSuffix(c) == IF c \in incoming THEN "<" ELSE ">"

\* The key of a connection among the children of a node of depth index.
Key(c, index) ==
    IF index = 0 THEN <<getWellKnownPort(c), "">>
    ELSE <<Parts(c)[Len(Parts(c)) - index + 1],
           IF Len(Parts(c)) = index THEN getGroupSuffix(c) ELSE "">>

\* A variant that gives a connection to a new node only.
createNodeOnce(t, p, c) ==
    LET q == Append(p, Key(c, Len(p)))
    IN [x \in DOMAIN t \cup {q} |->
           IF x \in DOMAIN t THEN t[x] ELSE IF Len(Parts(c)) = Len(p) THEN c ELSE NoConn]

\* The child of node p for a connection.
createNode(t, p, c) ==
    LET q == Append(p, Key(c, Len(p)))
    IN [x \in DOMAIN t \cup {q} |->
           IF x = q /\ Len(Parts(c)) = Len(p) THEN c
           ELSE IF x \in DOMAIN t THEN t[x] ELSE NoConn]

Below(q, p) == Len(q) > Len(p) /\ SubSeq(q, 1, Len(p)) = p

\* Of the children of p, and what is below them, the touched ones stay.
clearUntouched(t, p, touched) ==
    [q \in {x \in DOMAIN t : Below(x, p) => x[Len(p) + 1] \in touched} |-> t[q]]

RECURSIVE handle(_, _, _)

\* NetInfo::handle for node p and the connections in list, group among it.  The children
\* it touches are those it creates or finds; the connections come in the order of their keys.
handle(t, p, list) ==
    LET Group(k) == {c \in list : Key(c, Len(p)) = k}
        Finished(k) == {c \in Group(k) : Len(Parts(c)) = Len(p)}
        Rest(k) == Group(k) \ Finished(k)
        Leaf(s, k) == IF Finished(k) = {} THEN s ELSE createNode(s, p, Max(Finished(k)))
        Child(k, s) ==
            IF Rest(k) = {} THEN Leaf(s, k)
            ELSE handle(createNode(Leaf(s, k), p, Min(Rest(k))), Append(p, k), Rest(k))
        collected == {Key(c, Len(p)) : c \in list}
    IN clearUntouched(FoldSet(Child, t, collected), p, collected)

\* NetInfo::draw while the connections are to be shown.
DrawTree ==
    /\ Draw
    /\ LET rooted == [p \in DOMAIN tree \cup {<<>>} |-> IF p = <<>> THEN NoConn ELSE tree[p]]
       IN tree' = handle(rooted, <<>>, Listed("main"))

\* NetInfo::draw while they are not.
Hide == tree' = NoTree /\ UNCHANGED vars

TreeNext ==
    \/ Other /\ UNCHANGED tree
    \/ DrawTree
    \/ Hide

TreeSpec == TreeInit /\ [][TreeNext]_TreeVars

\* The resolver answers every lookup.
FairSpec ==
    /\ TreeSpec
    /\ \A o \in Objects :
          WF_TreeVars(\E name \in {"ip", "host"} : Answer(o, name) /\ UNCHANGED tree)

-----------------------------------------------------------------------------
(* Properties.                                                             *)

\* Where a connection belongs: its port, then its name from the last part to the first.
Path(c) == [i \in 1..(Len(Parts(c)) + 1) |-> Key(c, i - 1)]

Prefixes(q) == {SubSeq(q, 1, n) : n \in 0..Len(q)}

\* Once drawn, the tree has the nodes the listed connections need and no other, and
\* a leaf stands for a connection that belongs there; handle reaches that from any
\* tree drawn before.
DrawnTree ==
    [][DrawTree =>
          LET now == Listed("main")
          IN /\ DOMAIN tree' = {<<>>} \cup UNION {Prefixes(Path(c)) : c \in now}
             /\ \A q \in DOMAIN tree' :
                   IF \E c \in now : Path(c) = q THEN tree'[q] \in now /\ Path(tree'[q]) = q
                   ELSE tree'[q] = NoConn]_TreeVars
=============================================================================
