--------------------------- MODULE TCPConnection ----------------------------
(***************************************************************************)
(* Two TCPPeers, each in the event loop of a TCPMinnowSocket, over a net-  *)
(* work that loses, duplicates and reorders segments.  The event loop is   *)
(* reduced to the three rules of tcp_minnow_socket_impl.hh:83-173 and the  *)
(* tick of its line 44; an application is what its side of the socket pair *)
(* lets it do: write, close and read.                                      *)
(***************************************************************************)
EXTENDS TCPPeer, FiniteSets

CONSTANTS Client, Server,   \* the side that connects, the side that listens
          ISN,              \* of either side
          SendCapacity, RecvCapacity,
          InitialRTO,
          Writable,         \* bound on the bytes either side writes
          Clocks,           \* the sets of sides that see time pass together
          Prompt,           \* is delivery quicker than the clock?
          Resets,           \* the sides a foreign RST may reach
          MaxRetx,          \* bound on consecutive retransmissions
          MaxInFlight,      \* bound on the segments in the network
          MaxFaults         \* bound on the segments lost or duplicated

Sides == {Client, Server}

Other(p) == IF p = Client THEN Server ELSE Client

ASSUME SidesAssumption == Client # Server
ASSUME ISNAssumption == ISN \in [Sides -> RawValues]
ASSUME CapacityAssumption == SendCapacity \in Nat /\ RecvCapacity \in Nat
ASSUME WritableAssumption == Writable \in [Sides -> Nat]
\* A stream, with its SYN and FIN, is less than half the sequence space.
ASSUME StreamAssumption == \A p \in Sides : 2 * (Writable[p] + 2) < Modulus
ASSUME ClocksAssumption == UNION Clocks = Sides
ASSUME LingerAssumption == LingerFactor \in Nat /\ InitialRTO \in Nat \ {0}

VARIABLES peer,     \* the TCPPeer of either side
          phase,    \* "new", "opening" (the owner is in connect() or accept()) or "open"
          network,  \* segments on their way
          faults    \* how many were lost or duplicated

vars == <<peer, phase, network, faults>>

Init ==
    /\ peer = [p \in Sides |-> NewPeer(SendCapacity, RecvCapacity, ISN[p], InitialRTO)]
    /\ phase = [p \in Sides |-> IF p = Client THEN "new" ELSE "opening"]
    /\ network = {}
    /\ faults = 0

\* An exception ends the TCP thread; an inactive peer serves no segment.
Crashed(p) == peer[p].receiver.threw
Running(p) == phase[p] # "new" /\ ~Crashed(p) /\ Active(peer[p])

(***************************************************************************)
(* connect() returns when its SYN is acknowledged, listen_and_accept()     *)
(* when the peer's SYN has come (tcp_minnow_socket_impl.hh:245, 270).      *)
(***************************************************************************)
Opened(p, q) == IF p = Client THEN q.sender.in_flight # 1
                ELSE q.receiver.isn # NoAck /\ q.sender.in_flight = 0

Becomes(p, q) ==
    /\ peer' = [peer EXCEPT ![p] = q]
    /\ phase' = [phase EXCEPT ![p] = IF Opened(p, q) THEN "open" ELSE @]

To(p, segments) == {[to |-> p, segment |-> m] : m \in segments}

Transmit(p, segments) == network' = network \union To(Other(p), segments)

\* New segments are made only while the network holds less than its bound.
HasRoom == Cardinality(network) < MaxInFlight

\* connect(): the first push() sends the SYN.
Connect ==
    /\ phase[Client] = "new"
    /\ peer' = [peer EXCEPT ![Client] = PeerPush(@)]
    /\ phase' = [phase EXCEPT ![Client] = "opening"]
    /\ Transmit(Client, PushSends(peer[Client]))
    /\ UNCHANGED faults

\* Rule 2 reads from the application and pushes; it is interested while ...
WantsToSend(p) ==
    /\ Running(p) /\ phase[p] = "open" /\ HasRoom
    /\ ~peer[p].sender.stream.closed
    /\ AvailableCapacity(peer[p].sender.stream) > 0

Outbound(p, stream) ==
    LET q == [peer[p] EXCEPT !.sender.stream = stream]
    IN  /\ Becomes(p, PeerPush(q))
        /\ Transmit(p, PushSends(q))
        /\ UNCHANGED faults

AppWrite(p, n) ==
    /\ WantsToSend(p)
    /\ n <= AvailableCapacity(peer[p].sender.stream)
    /\ peer[p].sender.stream.pushed + n <= Writable[p]
    /\ Outbound(p, Push(peer[p].sender.stream, n))

AppClose(p) == WantsToSend(p) /\ Outbound(p, Close(peer[p].sender.stream))

\* Rule 3 hands received bytes to the application, also after the end.
Readable(p) == IF Crashed(p) THEN 0
               ELSE peer[p].receiver.buf.pushed - peer[p].receiver.buf.popped

AppRead(p, n) ==
    /\ n <= Readable(p)
    /\ peer' = [peer EXCEPT ![p].receiver.buf = Take(@, n)]
    /\ UNCHANGED <<phase, network, faults>>

(***************************************************************************)
(* Time passes for the sides of a clock: one unit of it.  It makes no      *)
(* difference to a peer that has nothing outstanding and has not heard     *)
(* anything for as long as it lingers.                                     *)
(***************************************************************************)
Ticking(sides) ==
    {p \in sides :
        /\ Running(p)
        /\ \/ peer[p].sender.unacknowledged # << >>
           \/ peer[p].quiet < LingerTime(peer[p])}

TimeCanPass(sides) ==
    /\ Ticking(sides) # {}
    /\ Prompt => network = {}
    /\ HasRoom
    /\ \A p \in sides : peer[p].sender.retransmissions < MaxRetx

Clock(sides) ==
    /\ TimeCanPass(sides)
    /\ peer' = [p \in Sides |-> IF p \in Ticking(sides) THEN PeerTick(peer[p], 1)
                               ELSE peer[p]]
    /\ network' = network \union
           UNION {To(Other(p), TickSends(peer[p], 1)) : p \in Ticking(sides)}
    /\ UNCHANGED <<phase, faults>>

(***************************************************************************)
(* Rule 1 reads a segment.  A listening adapter lets only a SYN through    *)
(* (tcp_over_ip.cc:55-65); nobody reads what comes to a peer that has      *)
(* ended.  A segment that is duplicated stays in the network.              *)
(***************************************************************************)
Filtered(p, m) == p = Server /\ peer[p].receiver.isn = NoAck
                  /\ (~m.sender.SYN \/ m.sender.RST)

Arrive(d, rest) ==
    LET p == d.to
        m == d.segment
    IN  IF ~Running(p) \/ Filtered(p, m)
        THEN network' = rest /\ UNCHANGED <<peer, phase>>
        ELSE /\ Becomes(p, PeerReceive(peer[p], m))
             /\ network' = rest \union To(Other(p), ReceiveSends(peer[p], m))

Deliveries(p) == {d \in network : d.to = p}

Receive(p) == \E d \in Deliveries(p) : Arrive(d, network \ {d}) /\ UNCHANGED faults

ReceiveCopy(p) ==
    /\ HasRoom /\ faults < MaxFaults
    /\ faults' = faults + 1
    /\ \E d \in Deliveries(p) : Arrive(d, network)

Lose(d) ==
    /\ faults < MaxFaults
    /\ faults' = faults + 1
    /\ network' = network \ {d}
    /\ UNCHANGED <<peer, phase>>

(***************************************************************************)
(* A RST that neither peer sent, from the kernel of the other host.        *)
(***************************************************************************)
Reset(p) ==
    LET snd == [EmptyMessage(peer[Other(p)].sender) EXCEPT !.RST = TRUE]
        m   == Segment(snd, Reply(peer[Other(p)].receiver))
    IN  /\ p \in Resets /\ Running(p) /\ ~Filtered(p, m) /\ HasRoom
        /\ Becomes(p, PeerReceive(peer[p], m))
        /\ Transmit(p, ReceiveSends(peer[p], m))
        /\ UNCHANGED faults

Next ==
    \/ Connect
    \/ \E p \in Sides :
          \/ \E n \in 1 .. SendCapacity : AppWrite(p, n)
          \/ AppClose(p)
          \/ \E n \in 1 .. RecvCapacity : AppRead(p, n)
          \/ Receive(p)
          \/ ReceiveCopy(p)
          \/ Reset(p)
    \/ \E sides \in Clocks : Clock(sides)
    \/ \E d \in network : Lose(d)

(***************************************************************************)
(* The event loop serves each rule and the clock again and again; the      *)
(* network delivers what it does not lose; applications read and, having   *)
(* nothing to write, close.  This is weak fairness of each action, spelled *)
(* out because its guard, given here, is far cheaper for TLC than ENABLED. *)
(***************************************************************************)
Fairness ==
    /\ []<>(phase[Client] # "new") \/ []<><<Connect>>_vars
    /\ \A p \in Sides :
          /\ []<>~WantsToSend(p) \/ []<><<AppClose(p)>>_vars
          /\ []<>(Readable(p) = 0)
             \/ []<><<\E n \in 1 .. RecvCapacity : AppRead(p, n)>>_vars
          /\ []<>(Deliveries(p) = {}) \/ []<><<Receive(p)>>_vars
    /\ \A sides \in Clocks : []<>~TimeCanPass(sides) \/ []<><<Clock(sides)>>_vars

Spec == Init /\ [][Next]_vars

FairSpec == Spec /\ Fairness
-----------------------------------------------------------------------------
Peers == [sender : {s \in Senders : s.pc = "idle"}, receiver : Receivers,
          need_send : BOOLEAN, linger : BOOLEAN, quiet : Nat]

TypeOK ==
    /\ peer \in [Sides -> Peers]
    /\ phase \in [Sides -> {"new", "opening", "open"}]
    /\ network \subseteq
           [to : Sides, segment : [sender : SenderMessages, receiver : ReceiverMessages]]
    /\ faults \in Nat

sndr(p) == peer[p].sender
rcvr(p) == peer[Other(p)].receiver  \* the receiver of what p sends

(***************************************************************************)
(* Any segment in the network, however old, that occupies sequence numbers *)
(* is dropped or inserted at the place of its bytes in the sender's stream *)
(* (tcp_receiver.hh:15-16: "inserting their payload into the Reassembler   *)
(* at the correct stream index").                                          *)
(***************************************************************************)
InsertedInPlace ==
    \A d \in network :
        LET r == peer[d.to].receiver
            m == d.segment.sender
        IN  SequenceLength(m) > 0 /\ ~m.RST /\ ~Skips(r, m) => StreamIndex(r, m) = m.lo

(***************************************************************************)
(* The two ends agree: a sender releases a segment only after the other    *)
(* end has received all of it, the receiver has received nothing that was  *)
(* not sent, and no acknowledgment on its way, however old, is read by the *)
(* sender as one for more than the receiver has received                   *)
(* (tcp_sender.cc:81-99, tcp_receiver.cc:26-33).                           *)
(***************************************************************************)
Released(p) == IF sndr(p).unacknowledged = << >> THEN sndr(p).next_seqno
               ELSE TrueSeqno(Head(sndr(p).unacknowledged))

EndsAgree ==
    \A p \in Sides :
        LET received == IF rcvr(p).isn = NoAck THEN 0 ELSE AbsoluteAckno(rcvr(p))
        IN  /\ Released(p) <= received
            /\ received <= sndr(p).next_seqno
            /\ \A d \in Deliveries(p) :
                   LET m == d.segment.receiver
                   IN  m.ackno # NoAck => AckNo(sndr(p), m) <= received

(***************************************************************************)
(* An inbound stream is closed only when every byte of a closed outbound   *)
(* stream is in it (reassembler.cc:73-74, tcp_sender.cc:43-49).            *)
(***************************************************************************)
NoEarlyEnd ==
    \A p \in Sides :
        rcvr(p).buf.ended => /\ sndr(p).stream.closed
                             /\ rcvr(p).buf.pushed = sndr(p).stream.pushed

(***************************************************************************)
(* Either direction is a reliable stream: what the application at one end  *)
(* writes arrives at the other in order, once, never more of it than fits, *)
(* and is ended only when all of it is there, with every segment, timer    *)
(* and fault a stutter (tcp_sender.cc:16-60, tcp_receiver.cc:11-23,        *)
(* reassembler.cc:17-74).                                                  *)
(***************************************************************************)
ToServer == INSTANCE ReliableStream WITH
    Capacity <- RecvCapacity,
    written  <- sndr(Client).stream.pushed,
    closed   <- sndr(Client).stream.closed,
    arrived  <- rcvr(Client).buf.pushed,
    ended    <- rcvr(Client).buf.ended,
    taken    <- rcvr(Client).buf.popped

ToClient == INSTANCE ReliableStream WITH
    Capacity <- RecvCapacity,
    written  <- sndr(Server).stream.pushed,
    closed   <- sndr(Server).stream.closed,
    arrived  <- rcvr(Server).buf.pushed,
    ended    <- rcvr(Server).buf.ended,
    taken    <- rcvr(Server).buf.popped

ImplementsStream == ToServer!Spec /\ ToClient!Spec

(***************************************************************************)
(* A peer that has sent its FIN and stops being active without an error    *)
(* has all of the inbound stream, and all of its outbound stream is at the *)
(* other end (tcp_peer.hh:38-48).                                          *)
(***************************************************************************)
CleanEnd(p) == ~Active(peer[p]) /\ ~Errored(peer[p])

CleanEndIsComplete ==
    \A p \in Sides :
        CleanEnd(p) /\ sndr(p).FIN_sent =>
            /\ peer[p].receiver.buf.ended
            /\ rcvr(p).buf.ended
            /\ rcvr(p).buf.pushed = sndr(p).stream.pushed

(***************************************************************************)
(* A peer that stops being active without an error has sent its FIN: "all  *)
(* closure conditions" are "met" (tcp_peer.hh:102).                        *)
(***************************************************************************)
EndsWithFIN == \A p \in Sides : CleanEnd(p) => sndr(p).FIN_sent

(***************************************************************************)
(* Both streams come to their end and both peers stop, unless a TCP thread *)
(* died of the exception that InsertNeverThrows is about.                  *)
(***************************************************************************)
BothFinish == <>(\A p \in Sides : ~Active(peer[p]) \/ \E q \in Sides : Crashed(q))
=============================================================================
