------------------------------ MODULE Headers -------------------------------
(***************************************************************************)
(* What is sent as octets: IPv4 headers and datagrams, TCP segments, ARP   *)
(* messages and Ethernet frames (util/ipv4_header.cc, ipv4_datagram.hh,    *)
(* tcp_segment.cc, arp_message.cc, ethernet_header.cc, ethernet_frame.hh). *)
(***************************************************************************)
EXTENDS Parser

IPv4Format ==
    << <<"version_hlen", 1>>, <<"tos", 1>>, <<"len", 2>>, <<"id", 2>>, <<"fragment", 2>>,
       <<"ttl", 1>>, <<"proto", 1>>, <<"cksum", 2>>, <<"src", 4>>, <<"dst", 4>> >>

PROTO_TCP == <<6>>
Hlen(h)   == h.version_hlen[1] % 16

\* The reserved bit of the fragment field is not kept.  A version other than 4 would
\* throw, but every header written has it, and parse() refuses others before.
PutIPv4(s, h) ==
    PutIntegers(s, IPv4Format, [h EXCEPT !.fragment = <<@[1] % 128, @[2]>>])

IPv4Checksum(h) ==
    LET s == PutIPv4(NewSerializer, [h EXCEPT !.cksum = <<0, 0>>])
    IN  Octets2(Value(Add(NewChecksum(0), Output(s))))

\* Options are skipped, and the checksum is over the header without them.
ParseIPv4(p) ==
    LET q == Integers(p, IPv4Format)
        h == q.fields
    IN  IF q.error \/ h.version_hlen[1] \div 16 # 4 \/ Hlen(h) < 5 THEN Failed(q)
        ELSE IF h.cksum # IPv4Checksum(h) THEN Failed(q)
        ELSE Skip(q, 4 * Hlen(h) - 20)

\* The sum of the words of the pseudo-header; payload_length() is a uint16_t.
PseudoChecksum(h) ==
    LET Words(a) == 256 * a[1] + a[2] + 256 * a[3] + a[4]
    IN  Words(h.src) + Words(h.dst) + h.proto[1]
        + ((65536 + Number(h.len) - 4 * Hlen(h)) % 65536)

-----------------------------------------------------------------------------
TCPFormat ==
    << <<"src_port", 2>>, <<"dst_port", 2>>, <<"seqno", 4>>, <<"ackno", 4>>,
       <<"data_offset", 1>>, <<"flags", 1>>, <<"window_size", 2>>, <<"cksum", 2>>,
       <<"urgent", 2>> >>

Flag(flags, bit) == (flags \div bit) % 2 = 1
Bit(flag, bit)   == IF flag THEN bit ELSE 0

\* A TCPMessage as it is sent; an ackno that is absent is << >>.
MessageOf(f, payload) ==
    [seqno |-> f.seqno, ackno |-> IF Flag(f.flags[1], 16) THEN f.ackno ELSE << >>,
     RST |-> Flag(f.flags[1], 4), SYN |-> Flag(f.flags[1], 2), FIN |-> Flag(f.flags[1], 1),
     window_size |-> f.window_size, payload |-> payload]

\* A data_offset below 5 is an error; one that is too large leaves no payload.
ParseSegment(p, pseudo_checksum) ==
    IF Value(Add(NewChecksum(pseudo_checksum), p.input)) # 0 THEN Failed(p)
    ELSE LET q == Integers(p, TCPFormat)
             words == q.fields.data_offset[1] \div 16
         IN  IF q.error \/ words < 5 THEN Failed(q) ELSE Skip(q, 4 * words - 20)

PutSegment(s, ports, message, cksum) ==
    LET flags == Bit(message.ackno # << >>, 16) + Bit(message.RST, 4)
                 + Bit(message.SYN, 2) + Bit(message.FIN, 1)
        fields == [src_port |-> ports.source, dst_port |-> ports.destination,
                   seqno |-> message.seqno,
                   ackno |-> IF message.ackno = << >> THEN <<0, 0, 0, 0>> ELSE message.ackno,
                   data_offset |-> <<80>>, flags |-> <<flags>>,
                   window_size |-> message.window_size, cksum |-> cksum, urgent |-> <<0, 0>>]
    IN  PutBuffer(PutIntegers(s, TCPFormat, fields), message.payload)

SegmentChecksum(ports, message, pseudo_checksum) ==
    LET s == PutSegment(NewSerializer, ports, message, <<0, 0>>)
    IN  Octets2(Value(Add(NewChecksum(pseudo_checksum), Output(s))))

-----------------------------------------------------------------------------
ARPFormat ==
    << <<"hardware_type", 2>>, <<"protocol_type", 2>>, <<"hardware_address_size", 1>>,
       <<"protocol_address_size", 1>>, <<"opcode", 2>> >>

AddressFormat ==
    << <<"sender_ethernet_address", 6>>, <<"sender_ip_address", 4>>,
       <<"target_ethernet_address", 6>>, <<"target_ip_address", 4>> >>

Supported(m) ==
    /\ m.hardware_type = <<0, 1>> /\ m.protocol_type = <<8, 0>>
    /\ m.hardware_address_size = <<6>> /\ m.protocol_address_size = <<4>>
    /\ m.opcode \in {<<0, 1>>, <<0, 2>>}

ParseARP(p) ==
    LET q == Integers(p, ARPFormat)
    IN  IF q.error \/ ~Supported(q.fields) THEN Failed(q) ELSE Integers(q, AddressFormat)

\* serialize() throws unless the message is supported; one that is not comes only
\* from another implementation, which lays it out alike.
PutARP(s, m) == PutIntegers(s, ARPFormat \o AddressFormat, m)

EthernetFormat == << <<"dst", 6>>, <<"src", 6>>, <<"type", 2>> >>

ParseFrame(p) == Integers(p, EthernetFormat)

PutFrame(s, header, payload) == PutBuffers(PutIntegers(s, EthernetFormat, header), payload)
=============================================================================
