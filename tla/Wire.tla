-------------------------------- MODULE Wire --------------------------------
(***************************************************************************)
(* A client and a server that has listened, each behind an adapter, and    *)
(* others that send to the server, on a network that may damage an octet   *)
(* of what it carries and cut it into other chunks.  One packet at a time  *)
(* is under way; a message is read from it, or none.                       *)
(***************************************************************************)
EXTENDS TCPOverIP

CONSTANTS Messages,  \* the TCPMessages that are sent
          ARPs,      \* the ARPMessages that are sent
          Cuts,      \* where a frame may be cut
          Changes    \* by how much a damaged octet differs

VARIABLES server,  \* its adapter
          packet,  \* what is under way: who sent it, what it says, its octets
          got      \* what was read from it, by whom

vars == <<server, packet, got>>

ClientHost == Host(<<10, 0, 0, 1>>, <<200, 1>>)
ServerHost == Host(<<10, 0, 0, 2>>, <<0, 80>>)

Client == Adapter(ClientHost, ServerHost, FALSE)

\* Another connection of the client's host, another host, and the wrong port.
Others ==
    {Adapter(Host(ClientHost.addr, <<200, 2>>), ServerHost, FALSE),
     Adapter(Host(<<10, 0, 0, 3>>, ClientHost.port), ServerHost, FALSE),
     Adapter(ClientHost, Host(ServerHost.addr, <<0, 81>>), FALSE)}

Nothing == [kind |-> "nothing"]

Init ==
    /\ server = Adapter(Host(<<0, 0, 0, 0>>, ServerHost.port), Unset, TRUE)
    /\ packet = Nothing /\ got = Nothing

\* An adapter writes a message.
Write(a, message) ==
    /\ packet = Nothing
    /\ packet' = [kind |-> "segment", from |-> a, message |-> message, damaged |-> FALSE,
                  octets |-> FlattenSeq(Written(Wrapped(a, message)))]
    /\ got' = Nothing
    /\ UNCHANGED server

Writes == \E message \in Messages :
    \/ \E a \in {Client} \union Others : Write(a, message)
    \/ ~server.listening /\ Write(server, message)

\* By an interface if the message is supported, else by another implementation.
WritesARP == \E message \in ARPs :
    /\ packet = Nothing
    /\ packet' = [kind |-> "arp", message |-> message, damaged |-> FALSE,
                  octets |-> FlattenSeq(Output(PutARP(NewSerializer, message)))]
    /\ got' = Nothing
    /\ UNCHANGED server

Damage ==
    /\ packet.kind = "segment" /\ ~packet.damaged
    /\ \E i \in DOMAIN packet.octets, change \in Changes :
          packet' = [packet EXCEPT !.damaged = TRUE, !.octets[i] = (@ + change) % 256]
    /\ UNCHANGED <<server, got>>

-----------------------------------------------------------------------------
\* The payload of an Ethernet frame that was cut into chunks.
Header == [dst |-> <<2, 0, 0, 0, 0, 1>>, src |-> <<2, 0, 0, 0, 0, 2>>, type |-> <<8, 0>>]

Pieces(octets, cut) ==
    LET ends == SetToSortSeq({i \in cut : i < Len(octets)} \union {Len(octets)}, <)
    IN  [i \in DOMAIN ends |-> SubSeq(octets, IF i = 1 THEN 1 ELSE ends[i - 1] + 1, ends[i])]

FrameChunks(octets, cut) ==
    LET frame == Output(PutFrame(NewSerializer, Header, <<octets>>))
    IN  AllRemaining(ParseFrame(NewParser(Pieces(FlattenSeq(frame), cut))))

Routes(octets) == {TunChunks(octets)} \union {FrameChunks(octets, cut) : cut \in Cuts}

Got(a, message, dropped) ==
    [kind |-> "read", by |-> a, packet |-> packet, message |-> message, dropped |-> dropped]

\* The adapter reads before the lossy one drops.
ServerReads == \E chunks \in Routes(packet.octets) : \E r \in {ReadDatagram(server, chunks)} :
    /\ server' = r.adapter
    /\ \E dropped \in BOOLEAN : got' = Got(server, IF dropped THEN None ELSE r.message, dropped)

ClientReads == \E chunks \in Routes(packet.octets) :
    /\ got' = Got(Client, ReadDatagram(Client, chunks).message, FALSE)
    /\ UNCHANGED server

Reads == packet.kind = "segment" /\ packet' = Nothing /\ (ServerReads \/ ClientReads)

ReadsARP ==
    /\ packet.kind = "arp" /\ packet' = Nothing
    /\ \E cut \in Cuts :
          LET p == ParseARP(NewParser(FrameChunks(packet.octets, cut)))
          IN  got' = Got(Client, IF p.error THEN None ELSE Some(p.fields), FALSE)
    /\ UNCHANGED server

Next == Writes \/ WritesARP \/ Damage \/ Reads \/ ReadsARP

Spec == Init /\ [][Next]_vars

-----------------------------------------------------------------------------
\* A segment is for the adapter, of its peer or, if it listens, a first SYN.
Meant(a, from, message) ==
    /\ from.destination.port = a.source.port
    /\ IF a.listening THEN message.SYN /\ ~message.RST
       ELSE from.source = a.destination /\ from.destination.addr = a.source.addr

(***************************************************************************)
(* What is read is what was sent: an adapter reads each message of its     *)
(* peer exactly as the peer wrote it, whatever chunks it comes in, and     *)
(* from any other packet nothing; of a damaged packet it reads nothing     *)
(* either, unless the damage did no harm.  An ARP message is read as it    *)
(* was sent if it is supported (tcp_over_ip.cc:26-96, parser.hh:130-165,   *)
(* checksum.hh:16-37, ipv4_header.cc:12-54, tcp_segment.cc:11-91).         *)
(***************************************************************************)
ReadAsWritten ==
    got.kind = "read" =>
        LET p == got.packet
            exact == IF p.kind = "arp" THEN Supported(p.message)
                     ELSE Meant(got.by, p.from, p.message) /\ ~got.dropped
        IN  \/ got.message = IF exact THEN Some(p.message) ELSE None
            \/ p.damaged /\ got.message = None
=============================================================================
