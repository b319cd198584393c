----------------------------- MODULE TCPOverIP ------------------------------
(***************************************************************************)
(* The adapter between a TCPPeer and the network: TCPOverIPv4Adapter of    *)
(* util/tcp_over_ip.cc and the TUN adapter of util/tuntap_adapter.cc.  An  *)
(* adapter has its configuration and whether it listens.                   *)
(***************************************************************************)
EXTENDS Headers

Host(addr, port) == [addr |-> addr, port |-> port]

Unset == Host(<<0, 0, 0, 0>>, <<0, 0>>)

Adapter(source, destination, listening) ==
    [source |-> source, destination |-> destination, listening |-> listening]

\* std::optional
None    == << >>
Some(m) == <<m>>

\* The adapter after a datagram is read, and the message that it held, if any.
Result(adapter, message) == [adapter |-> adapter, message |-> message]

(***************************************************************************)
(* A segment for this port passes if it comes from the peer.  Listening,   *)
(* the first SYN that is no RST makes its sender the peer and the address  *)
(* it was sent to the adapter's own.                                       *)
(***************************************************************************)
Admitted(a, header, fields, message) ==
    LET heard == Adapter(Host(header.dst, a.source.port), Host(header.src, fields.src_port), FALSE)
    IN  IF fields.dst_port # a.source.port \/ (a.listening /\ (~message.SYN \/ message.RST))
        THEN Result(a, None)
        ELSE IF a.listening THEN Result(heard, Some(message))
        ELSE Result(a, IF fields.src_port = a.destination.port
                        THEN Some(message) ELSE None)

\* unwrap_tcp_in_ip()
Unwrap(a, header, payload) ==
    IF \/ ~a.listening /\ (header.dst # a.source.addr \/ header.src # a.destination.addr)
       \/ header.proto # PROTO_TCP
    THEN Result(a, None)
    ELSE LET p == ParseSegment(NewParser(payload), PseudoChecksum(header))
         IN  IF p.error THEN Result(a, None)
             ELSE Admitted(a, header, p.fields, MessageOf(p.fields, FlattenSeq(AllRemaining(p))))

\* wrap_tcp_in_ip(): the header and the chunks of the payload.
Wrapped(a, message) ==
    LET ports  == [source |-> a.source.port, destination |-> a.destination.port]
        header == [version_hlen |-> <<69>>, tos |-> <<0>>, id |-> <<0, 0>>, fragment |-> <<64, 0>>,
                   ttl |-> <<128>>, proto |-> PROTO_TCP, cksum |-> <<0, 0>>,
                   len |-> Octets2(40 + Len(message.payload)),
                   src |-> a.source.addr, dst |-> a.destination.addr]
        cksum  == SegmentChecksum(ports, message, PseudoChecksum(header))
    IN  [header |-> [header EXCEPT !.cksum = IPv4Checksum(header)],
         payload |-> Output(PutSegment(NewSerializer, ports, message, cksum))]

\* What is written to the network, as chunks.
Written(d) == Output(PutBuffers(PutIPv4(NewSerializer, d.header), d.payload))

\* An InternetDatagram is parsed from chunks and unwrapped.
ReadDatagram(a, chunks) ==
    LET p == ParseIPv4(NewParser(chunks))
    IN  IF p.error THEN Result(a, None) ELSE Unwrap(a, p.fields, AllRemaining(p))

\* The TUN device gives one datagram, read into two buffers: how read() divides it.
TunChunks(octets) ==
    <<SubSeq(octets, 1, 20), SubSeq(octets, 21, Len(octets))>>
=============================================================================
