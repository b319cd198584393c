---------------------------- MODULE MinnowSocket ----------------------------
(***************************************************************************)
(* The TCP thread of a TCPMinnowSocket, util/tcp_minnow_socket_impl.hh:    *)
(* the three rules of its event loop.  Of the TCPPeer it has what decides  *)
(* them: the streams and their capacities, what push() sends within the    *)
(* window and what it holds back, what is acknowledged, how active() comes *)
(* to an end and when receive() throws.  Sequence numbers count from the   *)
(* SYN on, which is acknowledged when the thread starts.                   *)
(***************************************************************************)
EXTENDS StreamCopy

CONSTANTS SendCapacity, RecvCapacity  \* 64000 in the code

ASSUME CapacityAssumption == {SendCapacity, RecvCapacity} \subseteq Nat \ {0}

\* 1: receive a segment, 2: read from the owner, 3: write to the owner.
TCPDirection == <<"IN", "IN", "OUT">>

NewTCP(window) ==
    [rules |-> 1 .. 3, outbound |-> NewStream, inbound |-> NewStream,
     outbound_shutdown |-> FALSE, inbound_shutdown |-> FALSE, data |-> NewFD,
     fin_sent |-> FALSE, acked |-> 0, window |-> window,
     linger |-> TRUE, lingered |-> FALSE]

TCPFD(t) == <<NewFD, t.data, t.data>>

Lesser(m, n) == IF m < n THEN m ELSE n

\* What push() has sent: it takes the bytes out of the stream.
SentNumbers(t) == t.outbound.popped + IF t.fin_sent THEN 1 ELSE 0

InFlight(t) == SentNumbers(t) - t.acked

\* What the window lets push() send: one, when it is zero and nothing is in flight.
Allowance(t) ==
    IF t.window = 0 /\ InFlight(t) = 0 THEN 1
    ELSE IF t.window > InFlight(t) THEN t.window - InFlight(t)
    ELSE 0

\* Wrong push, for the mutation checks: the FIN goes ahead of what is held back.
TCPPushEnding(t) ==
    [t EXCEPT !.outbound = PopBytes(@, Lesser(Buffered(@), Allowance(t))),
              !.fin_sent = @ \/ t.outbound.closed]

\* push(): the bytes that the window lets through, then the FIN if it has room.
TCPPush(t) ==
    LET n == Lesser(Buffered(t.outbound), Allowance(t))
    IN  [t EXCEPT !.outbound = PopBytes(@, n),
                  !.fin_sent = @ \/ (t.outbound.closed /\ n < Allowance(t))]

\* Nothing is in flight and nothing is left to send; the FIN need not be sent.
SenderFinished(t) == InFlight(t) = 0 /\ IsFinished(t.outbound)

\* active()
IsActive(t) ==
    /\ ~t.outbound.error /\ ~t.inbound.error
    /\ ~(SenderFinished(t) /\ t.inbound.closed /\ (t.linger => t.lingered))

TCPInterest(t) ==
    {r \in t.rules :
        CASE r = 1 -> IsActive(t)
          [] r = 2 -> /\ IsActive(t) /\ ~t.outbound_shutdown
                      /\ Buffered(t.outbound) < SendCapacity
          [] r = 3 -> \/ Buffered(t.inbound) > 0
                      \/ (IsFinished(t.inbound) \/ t.inbound.error) /\ ~t.inbound_shutdown}

TCPCancel(t, rules) ==
    [t EXCEPT !.rules = @ \ rules,
              !.outbound.closed = @ \/ 2 \in rules,
              !.outbound_shutdown = @ \/ 2 \in rules]

TCPSwept(t) == TCPCancel(t, Ended(t.rules, TCPDirection, TCPFD(t)))

\* Of a segment: one byte, the FIN, a RST or nothing; its first index in the
\* stream; how many numbers it acknowledges, and the window it announces.
Segment(kind, first, acked, window) ==
    [kind |-> kind, first |-> first, acked |-> acked, window |-> window]

\* Wrong exception, for the mutation checks: also when the stream is read to its end.
ReceiveThrowsFinished(t, m) ==
    LET in == t.inbound
    IN  /\ m.kind = "ack" /\ in.closed
        /\ in.pushed < m.first /\ m.first < in.popped + RecvCapacity

(***************************************************************************)
(* reassembler.cc:30 on an empty segment beyond the end: the new size is   *)
(* negative.  Lines 11-13 keep it from there when the stream is read to    *)
(* its end and when the segment is beyond the capacity.                    *)
(***************************************************************************)
ReceiveThrows(t, m) ==
    LET in == t.inbound
    IN  /\ m.kind = "ack" /\ in.closed /\ ~IsFinished(in)
        /\ in.pushed < m.first /\ m.first < in.popped + RecvCapacity

(***************************************************************************)
(* Rule 1: a segment is received, and nothing is pushed.  One that comes   *)
(* after a FIN, while not all is sent, makes lingering needless,           *)
(* tcp_peer.hh:68-70; a RST fails both streams.                            *)
(***************************************************************************)
TCPReceived(s, m) ==
    LET t == [s EXCEPT !.linger = @ /\ ~(s.inbound.closed /\ ~IsFinished(s.outbound)),
                       !.acked = IF m.acked > @ THEN m.acked ELSE @,
                       !.window = m.window]
    IN  CASE m.kind = "data" -> [t EXCEPT !.inbound = PushBytes(@, 1)]
          [] m.kind = "fin"  -> [t EXCEPT !.inbound = CloseStream(@)]
          [] m.kind = "ack"  -> t
          [] m.kind = "rst"  -> [s EXCEPT !.linger = t.linger, !.inbound = SetError(@),
                                          !.outbound = SetError(@)]

\* Rule 2 after a read of n bytes, none at the end.
TCPOutbound(t, n) ==
    TCPPush(IF n = 0
            THEN [t EXCEPT !.data = ReachEOF(@), !.outbound = CloseStream(@),
                           !.outbound_shutdown = TRUE]
            ELSE [t EXCEPT !.outbound = PushBytes(@, n)])

\* Rule 3 after a write of n bytes: at the end, or after an error, it shuts the socket.
InboundEnds(s) == IsFinished(s) \/ s.error

TCPInbound(t, n) ==
    LET in == PopBytes(t.inbound, n)
    IN  [t EXCEPT !.inbound = in, !.inbound_shutdown = @ \/ InboundEnds(in)]
=============================================================================
