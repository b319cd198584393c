----------------------------- MODULE MCNetwork ------------------------------
(***************************************************************************)
(* The instances of Network that TLC checks.  Two hosts and the port at    *)
(* share a segment, the port of the empty segment stands for all others.   *)
(***************************************************************************)
EXTENDS Network

CONSTANTS d1, d2,               \* datagrams
          a, b, at, out,         \* two hosts, two ports
          ea, eb, e1, e2, spare  \* Ethernet addresses

MCIPAddresses == 0 .. 3
MCPorts == <<at, out>>
MCSegment == [n \in Names |-> IF n = out THEN "empty" ELSE "shared"]
MCIP == [n \in Names |-> CASE n = at -> 0 [] n = a -> 1 [] n = out -> 2 [] n = b -> 3]
MCFirstEthernet ==
    [n \in Names |-> CASE n = at -> e1 [] n = a -> ea [] n = out -> e2 [] n = b -> eb]

Route(ipv4, netmask, next_hop, interface_idx) ==
    [ipv4 |-> ipv4, netmask |-> netmask, next_hop |-> next_hop,
     interface_idx |-> interface_idx]

Default == Route(0, 0, 3, 2)
Hairpin == Route(3, 1, Absent, 1)

\* All lengths; two prefixes that are the same, two that are written alike.
MCTableRoutes == {Default, Hairpin, Route(2, 1, Absent, 2), Route(3, 2, Absent, 1),
                  Route(3, 0, Absent, 2)}

\* What reaches the router leaves by the port it came from, or by the other one.
MCTables == {<<Default, Hairpin>>}

Message(from, id, to, ttl) ==
    [from |-> from, datagram |-> [id |-> id, dst |-> IP[to], ttl |-> ttl, sum |-> ttl]]

\* Two datagrams, of one host to the other or of both; one of them may expire.
MCTraffic == {Message(a, d1, b, 1), Message(a, d2, b, 0), Message(b, d2, a, 1)}
=============================================================================
