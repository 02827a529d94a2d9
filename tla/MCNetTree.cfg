\* An address is evicted one tick after its last use; its object can be made twice.
CONSTANTS
    Conns <- MCConns
    Addrs <- MCAddrs
    Local <- MCLocal
    Remote <- MCRemote
    LocalPort <- MCLocalPort
    RemotePort <- MCRemotePort
    HostParts <- MCHostParts
    Servers = {"0050"}
    Delay = 1
    Patience = 1
    MaxMade = 2
SPECIFICATION FairSpec
INVARIANTS
    TypeOK
    PendingCached
    SplitCurrent
PROPERTIES
    NamesArrive
    DrawnTree
