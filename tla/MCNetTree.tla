------------------------------- MODULE MCNetTree -------------------------------
\* The server's ends of two connections of this computer with itself.
EXTENDS NetTree

MCConns == 1..2
MCAddrs == {"own"}
MCLocal == [c \in MCConns |-> "own"]
MCRemote == [c \in MCConns |-> "own"]
MCLocalPort == <<"0050", "0050">>
MCRemotePort == <<"1388", "1389">>
MCHostParts == [a \in MCAddrs |-> <<"pc", "lan">>]
=============================================================================
