SPECIFICATION Spec
CONSTANTS
    a = a
    d1 = d1
    d2 = d2
    b = b
    at = at
    out = out
    ea = ea
    eb = eb
    e1 = e1
    e2 = e2
    spare = spare
    Absent = Absent
    ETHERNET_BROADCAST = broadcast
    EthernetAddresses = {ea, eb, e1, e2, spare}
    IPAddresses <- MCIPAddresses
    Width = 2
    NumInterfaces = 2
    Hosts = {a, b}
    Ports <- MCPorts
    Segment <- MCSegment
    IP <- MCIP
    FirstEthernet <- MCFirstEthernet
    TableRoutes <- MCTableRoutes
    MaxRoutes = 3
    Tables <- MCTables
    Traffic <- MCTraffic
    Ids = {d1, d2}
    MaxTTL = 1
    ARP_RETX_PERIOD = 2
    ARP_MAP_TTL = 3
    Ticks = {1}
    MaxFaults = 1
INVARIANT
    ForwardedIsIntact
