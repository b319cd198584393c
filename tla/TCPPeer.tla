------------------------------ MODULE TCPPeer -------------------------------
(***************************************************************************)
(* The TCPPeer of util/tcp_peer.hh: a TCPSender and a TCPReceiver that     *)
(* share segments.  One value per object, one operator per method, and for *)
(* each method that transmits, the segments it transmits.  The loops of    *)
(* the sender run to their end within a call, as they do in the code;      *)
(* TCPSenderSystem looks at their rounds one by one and shows they end.    *)
(***************************************************************************)
EXTENDS TCPSender, TCPReceiver

CONSTANT LingerFactor   \* how many timeouts a peer lingers: 10 in the code

(***************************************************************************)
(* need_send and linger are need_send_ and linger_after_streams_finish_.   *)
(* quiet is the time since the last receipt, cumulative_time_ -            *)
(* time_of_last_receipt_; it stops counting where it makes no difference.  *)
(***************************************************************************)
NewPeer(send_capacity, recv_capacity, isn, rto) ==
    [sender |-> NewSender(send_capacity, isn, rto),
     receiver |-> NewReceiver(recv_capacity),
     need_send |-> FALSE, linger |-> TRUE, quiet |-> 0]

LingerTime(p) == LingerFactor * p.sender.initial_RTO

\* Has the inbound, the outbound stream been finished?
InboundClosed(p)    == p.receiver.buf.ended
OutboundFinished(p) == IsFinished(p.sender.stream)

\* active(), tcp_peer.hh:39-48.
Errored(p) == p.receiver.error \/ p.sender.stream.error

\* Wrong test, for the mutation checks: what is in flight is not waited for.
ActiveIgnoringFlight(p) ==
    /\ ~Errored(p)
    /\ \/ ~OutboundFinished(p) \/ ~InboundClosed(p)
       \/ p.linger /\ p.quiet < LingerTime(p)

Active(p) == /\ ~Errored(p)
             /\ \/ p.sender.in_flight > 0 \/ ~OutboundFinished(p)
                \/ ~InboundClosed(p)
                \/ p.linger /\ p.quiet < LingerTime(p)

-----------------------------------------------------------------------------
(***************************************************************************)
(* A segment on the wire: the two halves, whose RST flags are one bit of   *)
(* the TCP header (tcp_segment.cc:42, 72-74).                              *)
(***************************************************************************)
Segment(snd, rcv) ==
    LET reset == snd.RST \/ rcv.RST
    IN  [sender |-> [snd EXCEPT !.RST = reset], receiver |-> [rcv EXCEPT !.RST = reset]]

\* send(), tcp_peer.hh:95-100: what the sender has to say goes out with the
\* receiver's acknowledgment.
Send(p, snd) == Segment(snd, Reply(p.receiver))

(***************************************************************************)
(* A loop of the sender, run to its end: as many rounds as it can have.    *)
(* The state after each round is kept in a set of its own, which TLC       *)
(* evaluates once.                                                         *)
(***************************************************************************)
AfterRounds(Round(_), s, n) ==
    LET after[i \in 0 .. n] ==
            IF i = 0 THEN {s}
            ELSE {IF t.pc = "idle" THEN t ELSE Round(t) : t \in after[i - 1]}
    IN  CHOOSE t \in after[n] : TRUE

\* A round for each segment, of which there is one a byte at most, SYN and
\* FIN apart, and one that is empty.
Pushed(s) == AfterRounds(PushRound, PushCall(s), s.stream.buffered + 3)

\* A round for each segment that is removed, and one more.
Acked(s, m) == AfterRounds(AckRound, ReceiveCall(s, m), Len(s.unacknowledged) + 1)

\* push(), tcp_peer.hh:30.  The segments sent are those it added to the queue.
PeerPush(p) ==
    LET s == Pushed(p.sender)
    IN  [p EXCEPT !.sender = s,
                  !.need_send = IF Len(s.unacknowledged) > Len(p.sender.unacknowledged)
                                THEN FALSE ELSE p.need_send]

PushSends(p) ==
    LET queue == Pushed(p.sender).unacknowledged
    IN  {Send(p, queue[i]) : i \in Len(p.sender.unacknowledged) + 1 .. Len(queue)}

\* tick(t), tcp_peer.hh:31-35.
PeerTick(p, t) ==
    [p EXCEPT !.quiet  = Lesser(p.quiet + t, LingerTime(p)),
              !.sender = Tick(p.sender, t),
              !.need_send = IF Expires(p.sender, t) THEN FALSE ELSE p.need_send]

TickSends(p, t) ==
    IF Expires(p.sender, t) THEN {Send(p, Head(p.sender.unacknowledged))} ELSE {}

-----------------------------------------------------------------------------
(***************************************************************************)
(* tcp_peer.hh:59-65.  A reply is due if one was due before, if the        *)
(* segment occupies a sequence number, or if it is a keep-alive.           *)
(***************************************************************************)
ReplyDue(p, m) ==
    LET ackno == Reply(p.receiver).ackno
    IN  \/ p.need_send
        \/ SequenceLength(m.sender) > 0
        \/ ackno # NoAck /\ (m.sender.seqno + 1) % Modulus = ackno

\* Wrong note, for the mutation checks: no peer whose inbound ended lingers.
NotedNeverLingering(p, m) ==
    [p EXCEPT !.quiet = 0, !.need_send = ReplyDue(p, m),
              !.linger = p.linger /\ ~InboundClosed(p)]

\* tcp_peer.hh:56-70: what receive() does before it hands the halves out.
Noted(p, m) ==
    [p EXCEPT !.quiet = 0, !.need_send = ReplyDue(p, m),
              !.linger = p.linger /\ ~(InboundClosed(p) /\ ~OutboundFinished(p))]

(***************************************************************************)
(* receive(msg), tcp_peer.hh:50-82.  An exception of the receiver ends the *)
(* call before the sender has seen the message.                            *)
(***************************************************************************)
Heard(p, m) ==
    LET q == [Noted(p, m) EXCEPT !.receiver = ReceiveSegment(p.receiver, m.sender)]
    IN  IF q.receiver.threw THEN q
        ELSE [q EXCEPT !.sender = Acked(p.sender, m.receiver)]

PeerReceive(p, m) ==
    IF ~Active(p) THEN p
    ELSE LET q == Heard(p, m)
         IN  IF q.receiver.threw THEN q ELSE [q EXCEPT !.need_send = FALSE]

ReceiveSends(p, m) ==
    LET q == Heard(p, m)
    IN  IF Active(p) /\ q.need_send /\ ~q.receiver.threw
        THEN {Send(q, EmptyMessage(q.sender))} ELSE {}
=============================================================================
