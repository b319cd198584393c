------------------------------ MODULE Network -------------------------------
(***************************************************************************)
(* The network of tests/router.cc: hosts and the ports of one Router, each *)
(* a NetworkInterface connected to a segment, which carries a frame to all *)
(* the others connected to it.  Here a frame takes its time and may be     *)
(* lost, and a host may be restarted with another Ethernet address.        *)
(***************************************************************************)
EXTENDS Router, FiniteSets

CONSTANTS Hosts,
          Ports,          \* the router's interfaces, in order
          Segment,        \* what a host or a port is connected to
          IP,             \* its address
          FirstEthernet,  \* the Ethernet address it starts with
          TableRoutes,    \* the entries that a table is made of
          MaxRoutes,      \* bound on their number
          Tables,         \* bound on the tables that there is traffic with
          Traffic,        \* the datagrams that hosts may send, each id once
          Ticks,          \* the times that pass at once
          MaxFaults       \* bound on the frames lost or late and the restarts

Names == Hosts \union {Ports[k] : k \in DOMAIN Ports}

ASSUME TopologyAssumption ==
    /\ Ports \in Seq(Names \ Hosts) /\ NumInterfaces = Len(Ports)
    /\ IP \in [Names -> IPAddresses]
    /\ FirstEthernet \in [Names -> EthernetAddresses]
    /\ \A m, n \in Names : FirstEthernet[m] = FirstEthernet[n] => m = n
    /\ TableRoutes \subseteq RouterEntries
    /\ Traffic \subseteq [from : Hosts, datagram : Datagrams]
    /\ Ticks \subseteq Nat
    /\ {MaxRoutes, MaxFaults} \subseteq Nat

VARIABLES zero_shift,  \* what the build makes of the shift by 32 bits
          router_map,
          iface,       \* the NetworkInterface of a host or a port
          inbox,       \* the frames on their way to it
          routing,     \* the port whose datagrams route() is at, 0 outside route()
          faults

\* What has happened, for the properties:
VARIABLES origin,      \* each datagram as its host made it
          sent,        \* how often an interface has transmitted it
          heard,       \* the last ARP message from an address, while it is valid
          asked,       \* the age of the last request for an address
          had          \* the Ethernet addresses a host or a port has had

network == <<iface, inbox>>
history == <<origin, sent, heard, asked, had>>
vars == <<zero_shift, router_map, network, routing, faults, history>>

Init ==
    /\ zero_shift \in ZeroShifts
    /\ router_map = << >>
    /\ iface = [n \in Names |-> NewInterface(FirstEthernet[n], IP[n])]
    /\ inbox = [n \in Names |-> << >>]
    /\ routing = 0
    /\ faults = 0
    /\ origin = [id \in Ids |-> Absent]
    /\ sent = [n \in Names |-> [id \in Ids |-> 0]]
    /\ heard = [n \in Names |-> [a \in IPAddresses |-> Absent]]
    /\ asked = [n \in Names |-> [a \in IPAddresses |-> ARP_RETX_PERIOD]]
    /\ had = [n \in Names |-> {FirstEthernet[n]}]

\* How often a datagram is among frames.
Copies(frames, id) ==
    Cardinality({k \in DOMAIN frames : frames[k].type = "IPv4" /\ frames[k].payload.id = id})

Requests(frames, a) ==
    \E k \in DOMAIN frames :
        /\ frames[k].type = "ARP"
        /\ frames[k].payload.opcode = "request" /\ frames[k].payload.target_ip = a

\* A segment carries the frames of n to the inboxes of the others.
Carried(inboxes, n, frames) ==
    [m \in Names |-> IF m # n /\ Segment[m] = Segment[n] THEN inboxes[m] \o frames
                     ELSE inboxes[m]]

Noted(n, frames) ==
    /\ sent' = [sent EXCEPT ![n] = [id \in Ids |-> @[id] + Copies(frames, id)]]
    /\ asked' = [asked EXCEPT ![n] =
          [a \in IPAddresses |-> IF Requests(frames, a) THEN 0 ELSE @[a]]]

-----------------------------------------------------------------------------
\* add_route(), before there is traffic.
AddRoute(entry) ==
    /\ Len(router_map) < MaxRoutes
    /\ \A id \in Ids : origin[id] = Absent
    /\ router_map' = Append(router_map, entry)
    /\ UNCHANGED <<zero_shift, network, routing, faults, history>>

\* A host makes a datagram and sends it, straight or by way of the router.
HostSend(n, d, hop) ==
    /\ router_map \in Tables /\ routing = 0
    /\ origin[d.id] = Absent
    /\ \E m \in Names \ {n} : Segment[m] = Segment[n] /\ hop = IP[m]
    /\ origin' = [origin EXCEPT ![d.id] = d]
    /\ LET frames == SendTransmits(iface[n], d, hop)
       IN  /\ iface' = [iface EXCEPT ![n] = SendDatagram(@, d, hop)]
           /\ inbox' = Carried(inbox, n, frames)
           /\ Noted(n, frames)
    /\ UNCHANGED <<zero_shift, router_map, routing, faults, heard, had>>

\* The next frame reaches an interface.
Deliver(n) ==
    /\ routing = 0 /\ inbox[n] # << >>
    /\ LET f == Head(inbox[n])
           frames == RecvTransmits(iface[n], f)
       IN  /\ iface' = [iface EXCEPT ![n] = RecvFrame(@, f)]
           /\ inbox' = Carried([inbox EXCEPT ![n] = Tail(@)], n, frames)
           /\ Noted(n, frames)
           /\ heard' = IF f.type = "ARP" /\ IsForUs(iface[n], f)
                       THEN [heard EXCEPT ![n][f.payload.sender_ip] =
                                [ethernet |-> f.payload.sender_ethernet, age |-> 0]]
                       ELSE heard
    /\ UNCHANGED <<zero_shift, router_map, routing, faults, origin, had>>

-----------------------------------------------------------------------------
\* route() goes through the interfaces in order, and for each until it is empty.
RouteStart ==
    /\ routing = 0
    /\ \E k \in DOMAIN Ports : iface[Ports[k]].datagrams_received # << >>
    /\ routing' = 1
    /\ UNCHANGED <<zero_shift, router_map, network, faults, history>>

\* The loop body: the datagram is dropped, or sent by the interface of its route.
RouteOne ==
    /\ routing # 0
    /\ LET from == Ports[routing]
           d    == Head(iface[from].datagrams_received)
           best == BestMatch(router_map, d.dst, zero_shift)
           to   == Ports[router_map[best].interface_idx]
           hop  == NextHop(router_map[best], d)
           popped == [iface EXCEPT ![from].datagrams_received = Tail(@)]
           frames == SendTransmits(popped[to], Decremented(d), hop)
       IN  /\ iface[from].datagrams_received # << >>
           /\ IF Expires(d) \/ best = 0
              THEN iface' = popped /\ UNCHANGED <<inbox, sent, asked>>
              ELSE /\ iface' = [popped EXCEPT ![to] = SendDatagram(@, Decremented(d), hop)]
                   /\ inbox' = Carried(inbox, to, frames)
                   /\ Noted(to, frames)
    /\ UNCHANGED <<zero_shift, router_map, routing, faults, origin, heard, had>>

RouteNext ==
    /\ routing # 0
    /\ iface[Ports[routing]].datagrams_received = << >>
    /\ routing' = (routing + 1) % (Len(Ports) + 1)
    /\ UNCHANGED <<zero_shift, router_map, network, faults, history>>

-----------------------------------------------------------------------------
Quiet == \A n \in Names : inbox[n] = << >>

Later(age, t, limit) == IF age + t > limit THEN limit ELSE age + t

\* Every interface is told of the time by its program; a frame may be late.
TimePasses(t) ==
    /\ routing = 0
    /\ Quiet \/ faults < MaxFaults
    /\ faults' = IF Quiet THEN faults ELSE faults + 1
    /\ iface' = [n \in Names |-> Tick(iface[n], t)]
    /\ asked' = [n \in Names |-> [a \in IPAddresses |->
                    Later(asked[n][a], t, ARP_RETX_PERIOD)]]
    /\ heard' = [n \in Names |-> [a \in IPAddresses |->
                    Aged(heard[n][a], t, ARP_MAP_TTL)]]
    /\ UNCHANGED <<zero_shift, router_map, inbox, routing, origin, sent, had>>

\* The segment does not deliver a frame.
Lose(n) ==
    /\ inbox[n] # << >> /\ faults < MaxFaults
    /\ inbox' = [inbox EXCEPT ![n] = Tail(@)]
    /\ faults' = faults + 1
    /\ UNCHANGED <<zero_shift, router_map, iface, routing, history>>

\* A host is replaced: a new NetworkInterface, an Ethernet address of its own.
Restart(n, ethernet) ==
    /\ faults < MaxFaults
    /\ \A m \in Names : ethernet \notin had[m]
    /\ iface' = [iface EXCEPT ![n] = NewInterface(ethernet, IP[n])]
    /\ inbox' = [inbox EXCEPT ![n] = << >>]
    /\ faults' = faults + 1
    /\ had' = [had EXCEPT ![n] = @ \union {ethernet}]
    /\ heard' = [heard EXCEPT ![n] = [a \in IPAddresses |-> Absent]]
    /\ asked' = [asked EXCEPT ![n] = [a \in IPAddresses |-> ARP_RETX_PERIOD]]
    /\ UNCHANGED <<zero_shift, router_map, routing, origin, sent>>

Next ==
    \/ \E entry \in TableRoutes : AddRoute(entry)
    \/ \E message \in Traffic, hop \in IPAddresses :
          HostSend(message.from, message.datagram, hop)
    \/ \E n \in Names : Deliver(n)
    \/ RouteStart \/ RouteOne \/ RouteNext
    \/ \E t \in Ticks : TimePasses(t)
    \/ \E n \in Names : Lose(n)
    \/ \E n \in Hosts, ethernet \in EthernetAddresses : Restart(n, ethernet)

Spec == Init /\ [][Next]_vars

-----------------------------------------------------------------------------
Ages(limit) == 0 .. limit

\* The types of all that the network keeps.
TypeOK ==
    /\ zero_shift \in ZeroShifts
    /\ router_map \in Seq(RouterEntries) /\ Len(router_map) <= MaxRoutes
    /\ \A n \in Names :
          /\ iface[n].ethernet \in had[n] /\ iface[n].ip = IP[n]
          /\ iface[n].arp_map \in [IPAddresses -> Mappings \union {Absent}]
          /\ \A a \in IPAddresses :
                LET w == iface[n].wait_list[a]
                IN  w # Absent => /\ w.age \in 0 .. ARP_RETX_PERIOD - 1
                                  /\ w.dgrams \in Seq(Datagrams)
          /\ iface[n].datagrams_received \in Seq(Datagrams)
          /\ \A k \in DOMAIN inbox[n] : inbox[n][k] \in Frames
    /\ routing \in 0 .. Len(Ports) /\ faults \in 0 .. MaxFaults
    /\ origin \in [Ids -> Datagrams \union {Absent}]
    /\ had \in [Names -> SUBSET EthernetAddresses]
    /\ sent \in [Names -> [Ids -> Nat]]
    /\ asked \in [Names -> [IPAddresses -> 0 .. ARP_RETX_PERIOD]]

(***************************************************************************)
(* A datagram is addressed by what its next hop said last, less than       *)
(* ARP_MAP_TTL ago, and that was an address of the next hop: an announce-  *)
(* ment that moves a host is believed at once, and one that is not         *)
(* repeated is forgotten in time (recv_frame(), network_interface.cc:92,   *)
(* tick(), lines 123-130).                                                 *)
(***************************************************************************)
MapIsFresh ==
    \A n \in Names, a \in IPAddresses :
        LET entry == iface[n].arp_map[a]
        IN  entry # Absent =>
              /\ heard[n][a] # Absent
              /\ entry.ethernet = heard[n][a].ethernet
              /\ heard[n][a].age <= entry.age
              /\ \E m \in Names : IP[m] = a /\ entry.ethernet \in had[m]

(***************************************************************************)
(* No two requests for one address within ARP_RETX_PERIOD, whatever has    *)
(* been heard, waits or has expired in between (network_interface.cc:28,   *)
(* 46).  Only the two maps together know when the last request was.        *)
(***************************************************************************)
NoFlood ==
    [][\A n \in Names, a \in IPAddresses :
           asked'[n][a] < asked[n][a] => asked[n][a] = ARP_RETX_PERIOD]_vars

\* No interface transmits a datagram a second time, although it keeps the
\* datagram, the reply may be repeated and the hop may announce itself again.
SentAtMostOnce == \A n \in Names, id \in Ids : sent[n][id] <= 1

\* What the router has taken through: it waits at a port, or a port has sent it.
ByPort(f) == f.type = "IPv4" /\ \E k \in DOMAIN Ports : f.src = iface[Ports[k]].ethernet

WaitingAt(n) ==
    UNION {LET w == iface[n].wait_list[x]
           IN  IF w = Absent THEN {} ELSE {w.dgrams[j] : j \in DOMAIN w.dgrams} :
           x \in IPAddresses}

OnTheWayTo(n) == {inbox[n][j].payload : j \in {k \in DOMAIN inbox[n] : ByPort(inbox[n][k])}}

Forwarded ==
    (UNION {WaitingAt(Ports[k]) : k \in DOMAIN Ports})
    \union (UNION {OnTheWayTo(n) : n \in Names})

\* "how many high-order (most-significant) bits of the route_prefix will need to
\* match the corresponding bits of the datagram's destination address" (router.cc:9).
HasPrefix(entry, dst) == dst \div Span[entry.netmask] = entry.ipv4 \div Span[entry.netmask]

Applicable(dst) == {k \in DOMAIN router_map : HasPrefix(router_map[k], dst)}

\* Only default routes apply, and the shift by 32 bits leaves their mask whole.
LeftToTheBuild(dst) ==
    /\ zero_shift = "unshifted" /\ Applicable(dst) # {}
    /\ \A k \in Applicable(dst) : router_map[k].netmask = 0

(***************************************************************************)
(* The route of an address is the longest prefix that it has, the first of *)
(* them in the table, and none if it has none (router.cc:36-44).  A prefix *)
(* is compared by its leading bits here, and not by masks.  The exception  *)
(* is a default route in a build whose shift by 32 bits leaves the mask    *)
(* whole, which DefaultRouteApplies is about.                              *)
(***************************************************************************)
LongestPrefixWins ==
    \A dst \in IPAddresses :
        LET best == BestMatch(router_map, dst, zero_shift)
        IN  ~LeftToTheBuild(dst) =>
                IF Applicable(dst) = {} THEN best = 0
                ELSE /\ best \in Applicable(dst)
                     /\ \A k \in Applicable(dst) :
                           /\ router_map[k].netmask <= router_map[best].netmask
                           /\ k < best => router_map[k].netmask < router_map[best].netmask

(***************************************************************************)
(* With a default route in the table every address has a route: no bit     *)
(* needs to match (router.cc:9, and tests/router.cc:212, 276-283, which    *)
(* sends "to the Internet" by add_route( ip( "0.0.0.0" ), 0, ... )).       *)
(***************************************************************************)
DefaultRouteApplies ==
    (\E k \in DOMAIN router_map : router_map[k].netmask = 0) =>
        \A dst \in IPAddresses : BestMatch(router_map, dst, zero_shift) # 0

(***************************************************************************)
(* When no frame is on its way, nothing waits for a host on its segment,   *)
(* if frames were neither lost nor late and no host restarted: one request *)
(* is enough, also when the two ask each other at the same time            *)
(* (network_interface.cc:94).                                              *)
(***************************************************************************)
WaitingIsServed ==
    Quiet /\ faults = 0 =>
        \A n, m \in Names :
            n # m /\ Segment[n] = Segment[m] => iface[n].wait_list[IP[m]] = Absent

\* What a router forwards is received: tests/router.cc expects a datagram with
\* a TTL one less and a checksum computed for it (lines 260-262).
ForwardedIsIntact == \A d \in Forwarded : Intact(d)
=============================================================================
