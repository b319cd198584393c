---------------------------- MODULE MCSequential ----------------------------
(***************************************************************************)
(* The parts that run in one thread and share nothing, each from initial   *)
(* states of its own: a ByteStream with its reader, ByteStreamSystem; the  *)
(* sequence numbers of a connection and back, MCWrap32; and messages to    *)
(* octets and back, Wire.                                                  *)
(***************************************************************************)
EXTENDS ByteStreamSystem

CONSTANTS Modulus, MaxCheckpoint

VARIABLES part,                         \* which of them moves
          zero_point, raw, checkpoint,  \* of MCWrap32
          server, packet, taken         \* of Wire

Message(seqno, ackno, flags, payload) ==
    [seqno |-> seqno, ackno |-> ackno, RST |-> "RST" \in flags, SYN |-> "SYN" \in flags,
     FIN |-> "FIN" \in flags, window_size |-> <<250, 0>>, payload |-> payload]

\* The first SYN, data of an odd length with the FIN, a SYN that resets.
MCMessages ==
    {Message(<<255, 255, 255, 255>>, << >>, {"SYN"}, << >>),
     Message(<<0, 0, 0, 0>>, <<128, 7, 0, 1>>, {"FIN"}, <<255, 0, 9>>),
     Message(<<0, 0, 0, 3>>, << >>, {"SYN", "RST"}, << >>)}

ARP(hardware_type, opcode) ==
    [hardware_type |-> hardware_type, protocol_type |-> <<8, 0>>, opcode |-> opcode,
     hardware_address_size |-> <<6>>, protocol_address_size |-> <<4>>,
     sender_ethernet_address |-> <<2, 0, 0, 0, 0, 2>>, sender_ip_address |-> <<10, 0, 0, 1>>,
     target_ethernet_address |-> <<0, 0, 0, 0, 0, 0>>, target_ip_address |-> <<10, 0, 0, 2>>]

\* A request, a reply, and two that are not supported.
MCARPs == {ARP(<<0, 1>>, <<0, 1>>), ARP(<<0, 1>>, <<0, 2>>),
           ARP(<<0, 1>>, <<0, 3>>), ARP(<<0, 2>>, <<0, 1>>)}

\* In the Ethernet and the IPv4 header, in the TCP header and in the payload.
MCCuts == {{17, 40}, {9, 35, 55}}

\* The highest bit: also the reserved one, which no checksum covers.
MCChanges == {128}

Numbers == INSTANCE MCWrap32
Packets == INSTANCE Wire WITH got <- taken, Messages <- MCMessages, ARPs <- MCARPs,
                              Cuts <- MCCuts, Changes <- MCChanges

numbers == <<zero_point, raw, checkpoint>>
packets == <<server, packet, taken>>

\* What does not move has one initial state.
MCInit ==
    /\ part \in {"stream", "numbers", "packets"}
    /\ Init /\ Packets!Init /\ Numbers!Init
    /\ part # "numbers" => zero_point = 0 /\ raw = 0

MCNext ==
    \/ part = "stream" /\ Next /\ UNCHANGED <<part, numbers, packets>>
    \/ part = "numbers" /\ Numbers!Advance /\ UNCHANGED <<part, vars, packets>>
    \/ part = "packets" /\ Packets!Next /\ UNCHANGED <<part, vars, numbers>>

MCSpec == MCInit /\ [][MCNext]_<<part, vars, numbers, packets>> /\ Fairness

(***************************************************************************)
(* unwrap() finds the nearest number (wrapping_integers.cc:12-20), and the *)
(* adapter reads what was written (tcp_over_ip.cc:26-96).                  *)
(***************************************************************************)
UnwrapFindsNearest == Numbers!UnwrapFindsNearest
ReadAsWritten == Packets!ReadAsWritten
=============================================================================
