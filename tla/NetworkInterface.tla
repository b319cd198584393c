-------------------------- MODULE NetworkInterface --------------------------
(***************************************************************************)
(* The NetworkInterface of src/network_interface.{hh,cc}: one record per   *)
(* object, one operator per method, and for each method that transmits,    *)
(* the frames it transmits.  The two maps are total functions here, Absent *)
(* where the code has no entry.                                            *)
(***************************************************************************)
EXTENDS Naturals, Sequences

CONSTANTS IPAddresses, EthernetAddresses,
          ETHERNET_BROADCAST,
          Absent,           \* no entry
          ARP_RETX_PERIOD,  \* 5000 ms in the code
          ARP_MAP_TTL,      \* 30000 ms in the code
          Ids,              \* the names of datagrams
          MaxTTL            \* what a time to live can be: 255 in the code

ASSUME BroadcastAssumption == ETHERNET_BROADCAST \notin EthernetAddresses
ASSUME PeriodAssumption ==
    ARP_RETX_PERIOD \in Nat \ {0} /\ ARP_MAP_TTL \in Nat /\ ARP_RETX_PERIOD <= ARP_MAP_TTL
ASSUME TTLAssumption == MaxTTL \in Nat

(***************************************************************************)
(* An IPv4 datagram: of its header, what is decided on.  sum is the time   *)
(* to live for which the header checksum was computed.                     *)
(***************************************************************************)
Datagrams == [id : Ids, dst : IPAddresses, ttl : 0 .. MaxTTL, sum : 0 .. MaxTTL]

ARPMessages == [opcode : {"request", "reply"}, sender_ethernet : EthernetAddresses,
                sender_ip : IPAddresses, target_ip : IPAddresses]

Frame(dst, src, type, payload) ==
    [dst |-> dst, src |-> src, type |-> type, payload |-> payload]

Addresses == EthernetAddresses \union {ETHERNET_BROADCAST}

Frames == [dst : Addresses, src : EthernetAddresses, type : {"IPv4"}, payload : Datagrams]
          \union
          [dst : Addresses, src : EthernetAddresses, type : {"ARP"}, payload : ARPMessages]

Mappings == [ethernet : EthernetAddresses, age : 0 .. ARP_MAP_TTL - 1]
Waiting  == [dgrams : Seq(Datagrams), age : 0 .. ARP_RETX_PERIOD - 1]

ASSUME AbsentAssumption == Absent \notin Mappings \union Waiting \union Datagrams

Interfaces == [ethernet : EthernetAddresses, ip : IPAddresses,
               arp_map : [IPAddresses -> Mappings \union {Absent}],
               wait_list : [IPAddresses -> Waiting \union {Absent}],
               datagrams_received : Seq(Datagrams)]

NewInterface(ethernet, ip) ==
    [ethernet |-> ethernet, ip |-> ip,
     arp_map |-> [a \in IPAddresses |-> Absent],
     wait_list |-> [a \in IPAddresses |-> Absent],
     datagrams_received |-> << >>]

ARPRequest(i, ip) ==
    Frame(ETHERNET_BROADCAST, i.ethernet, "ARP",
          [opcode |-> "request", sender_ethernet |-> i.ethernet, sender_ip |-> i.ip,
           target_ip |-> ip])

ARPReply(i, m) ==
    Frame(m.sender_ethernet, i.ethernet, "ARP",
          [opcode |-> "reply", sender_ethernet |-> i.ethernet, sender_ip |-> i.ip,
           target_ip |-> m.sender_ip])

-----------------------------------------------------------------------------
\* Wrong call, for the mutation checks: each datagram that must wait asks again.
AlwaysAsks(i, hop) == i.arp_map[hop] = Absent

(***************************************************************************)
(* send_datagram(dgram, next_hop).  A datagram waits for the answer to the *)
(* request it causes; one that finds another waiting is dropped, lines     *)
(* 46-47.                                                                  *)
(***************************************************************************)
Asks(i, hop) == i.arp_map[hop] = Absent /\ i.wait_list[hop] = Absent

SendDatagram(i, d, hop) ==
    IF Asks(i, hop) THEN [i EXCEPT !.wait_list[hop] = [dgrams |-> <<d>>, age |-> 0]] ELSE i

SendTransmits(i, d, hop) ==
    IF i.arp_map[hop] # Absent
    THEN <<Frame(i.arp_map[hop].ethernet, i.ethernet, "IPv4", d)>>
    ELSE IF Asks(i, hop) THEN <<ARPRequest(i, hop)>> ELSE << >>

-----------------------------------------------------------------------------
\* recv_frame() ignores what is for another interface.
IsForUs(i, f) == f.dst \in {ETHERNET_BROADCAST, i.ethernet}

\* parse() verifies the header checksum, util/ipv4_header.cc:47-52.
Intact(d) == d.sum = d.ttl

AsksUs(i, m) == m.opcode = "request" /\ m.target_ip = i.ip

\* Wrong update, for the mutation checks: an entry is never replaced.
LearnedOnce(i, m) ==
    [i.arp_map EXCEPT ![m.sender_ip] =
        IF @ = Absent THEN [ethernet |-> m.sender_ethernet, age |-> 0] ELSE @]

\* The address is replaced and the age is kept: arp_map_[sender_ip].first = ...
Learned(i, m) ==
    [i.arp_map EXCEPT ![m.sender_ip] =
        [ethernet |-> m.sender_ethernet, age |-> IF @ = Absent THEN 0 ELSE @.age]]

\* Wrong release, for the mutation checks: what was sent stays in the list.
ReleasedNever(i, m) == i.wait_list

\* Wrong release, for the mutation checks: replies alone are not looked for.
ReleasedIfUnknown(i, m) ==
    IF AsksUs(i, m) \/ i.arp_map[m.sender_ip] # Absent THEN i.wait_list
    ELSE [i.wait_list EXCEPT ![m.sender_ip] = Absent]

\* Every ARP message but a request for our address releases what waits for its sender.
Released(i, m) ==
    IF AsksUs(i, m) THEN i.wait_list ELSE [i.wait_list EXCEPT ![m.sender_ip] = Absent]

RecvFrame(i, f) ==
    IF ~IsForUs(i, f) THEN i
    ELSE IF f.type = "ARP"
    THEN [i EXCEPT !.arp_map = Learned(i, f.payload), !.wait_list = Released(i, f.payload)]
    ELSE IF Intact(f.payload)
    THEN [i EXCEPT !.datagrams_received = Append(@, f.payload)]
    ELSE i

RecvTransmits(i, f) ==
    LET m       == f.payload
        waiting == i.wait_list[m.sender_ip]
    IN  IF f.type # "ARP" \/ ~IsForUs(i, f) THEN << >>
        ELSE IF AsksUs(i, m) THEN <<ARPReply(i, m)>>
        ELSE IF waiting = Absent THEN << >>
        ELSE [n \in DOMAIN waiting.dgrams |->
                 Frame(m.sender_ethernet, i.ethernet, "IPv4", waiting.dgrams[n])]

-----------------------------------------------------------------------------
\* Wrong ageing, for the mutation checks: an entry lives a unit of time too long.
AgedTooLate(entry, t, limit) ==
    IF entry = Absent \/ entry.age + t > limit THEN Absent
    ELSE [entry EXCEPT !.age = @ + t]

Aged(entry, t, limit) ==
    IF entry = Absent \/ entry.age + t >= limit THEN Absent
    ELSE [entry EXCEPT !.age = @ + t]

\* tick(ms_since_last_tick)
Tick(i, t) ==
    [i EXCEPT !.arp_map = [a \in IPAddresses |-> Aged(i.arp_map[a], t, ARP_MAP_TTL)],
              !.wait_list = [a \in IPAddresses |-> Aged(i.wait_list[a], t, ARP_RETX_PERIOD)]]
=============================================================================
