----------------------------- MODULE TCPSender ------------------------------
(***************************************************************************)
(* The TCPSender of src/tcp_sender.{hh,cc}: one value per object.  push()  *)
(* and receive() are loops, and a round of either is an operator of its    *)
(* own; pc tells which loop the sender is in.  A sender that is in a loop  *)
(* does nothing else, for it runs in one thread.                           *)
(***************************************************************************)
EXTENDS ByteStream, TCPMessages

CONSTANTS MaxPayload,   \* TCPConfig::MAX_PAYLOAD_SIZE
          SizeModulus,  \* how many values a size has: 2^64 in the code
          EOFBytes      \* the positions of stream bytes that are 0xFF

ASSUME PayloadAssumption == MaxPayload \in Nat \ {0}
ASSUME SizeAssumption == SizeModulus \in Nat \ {0}

Greater(a, b) == IF a >= b THEN a ELSE b

Senders ==
    [stream : ByteStreams, isn : RawValues, initial_RTO : Nat, next_seqno : Nat,
     impossible_ackno : Nat, window_size : Nat, curr_RTO : Nat, last_tick : Nat,
     retransmissions : Nat, in_flight : Nat, unacknowledged : Seq(SenderMessages),
     first_ack : BOOLEAN, is_closed : BOOLEAN, FIN_sent : BOOLEAN,
     established : BOOLEAN, pc : {"idle", "pushing", "acking"},
     curr_size : Nat, ack_no : Nat, poped : BOOLEAN]

NewSender(capacity, isn, rto) ==
    [stream |-> NewByteStream(capacity), isn |-> isn, initial_RTO |-> rto,
     next_seqno |-> 0, impossible_ackno |-> 0, window_size |-> 0,
     curr_RTO |-> rto, last_tick |-> 0, retransmissions |-> 0, in_flight |-> 0,
     unacknowledged |-> << >>, first_ack |-> FALSE, is_closed |-> FALSE,
     FIN_sent |-> FALSE, established |-> FALSE,
     pc |-> "idle", curr_size |-> 0, ack_no |-> 0, poped |-> FALSE]

-----------------------------------------------------------------------------
(***************************************************************************)
(* tcp_sender.cc:29-39.  The inner loop of push() appends the views of the *)
(* outbound stream to the payload until the budget is used up or the view  *)
(* is empty or equal to "\377": the end mark, or a 0xFF byte that is alone *)
(* in its view.                                                            *)
(***************************************************************************)
ViewSize(s, i) == IF i = 1 THEN s.view ELSE s.chunks[i] - s.chunks[i - 1]

TakenForEnd(s) ==
    {i \in 1 .. Len(s.chunks) :
        ViewSize(s, i) = 1 /\ (s.chunks[i] > s.pushed \/ s.chunks[i] - 1 \in EOFBytes)}

PayloadSize(s, budget) ==
    LET ends == TakenForEnd(s)
    IN  IF s.view = 0 THEN 0
        ELSE IF ends = {} THEN Lesser(budget, VisibleUpTo(s, Len(s.chunks)))
        ELSE Lesser(budget,
                    VisibleUpTo(s, CHOOSE i \in ends : \A j \in ends : i <= j) - 1)

\* Wrong room, for the mutation checks: the last number of the window is kept.
WindowRoomShort(s) ==
    IF s.window_size > s.in_flight + 1 THEN s.window_size - s.in_flight - 1 ELSE 0

(***************************************************************************)
(* tcp_sender.cc:9-14.  What push() computes before its loop: the room in  *)
(* the window, except that an established connection with nothing in       *)
(* flight treats a window of zero as one.                                  *)
(***************************************************************************)
WindowRoom(s) == IF s.window_size > s.in_flight THEN s.window_size - s.in_flight ELSE 0

PushCall(s) ==
    [s EXCEPT !.pc = "pushing",
              !.curr_size = IF s.window_size = 0 /\ s.in_flight = 0 /\ s.established
                            THEN 1 ELSE Lesser(MaxPayload, WindowRoom(s))]

\* Wrong budget, for the mutation checks: what is in flight is not deducted.
BudgetIgnoringFlight(s) ==
    LET room == IF WindowRoom(s) > 0 THEN Lesser(MaxPayload, s.window_size)
                ELSE s.curr_size
    IN  IF s.first_ack THEN room ELSE (room + SizeModulus - 1) % SizeModulus

(***************************************************************************)
(* tcp_sender.cc:16-50.  The segment the next round of push() makes.  The  *)
(* budget is what the last round left of it, computed anew if there is     *)
(* room in the window; taking the SYN off it may wrap it around.           *)
(***************************************************************************)
Budget(s) ==
    LET room == IF WindowRoom(s) > 0 THEN Lesser(MaxPayload, WindowRoom(s))
                ELSE s.curr_size
    IN  IF s.first_ack THEN room ELSE (room + SizeModulus - 1) % SizeModulus

\* Wrong segment, for the mutation checks: the FIN does not wait for the bytes.
NextSegmentFinishing(s) ==
    LET n   == PayloadSize(s.stream, Budget(s))
        FIN == /\ s.is_closed \/ s.stream.closed
               /\ ~s.FIN_sent
               /\ \/ s.window_size > s.in_flight + Flag(~s.first_ack) + n
                  \/ Budget(s) > n
    IN  [seqno |-> Wrap(s.next_seqno, s.isn), SYN |-> ~s.first_ack,
         lo |-> s.stream.popped, size |-> n, FIN |-> FIN, RST |-> s.stream.error]

NextSegment(s) ==
    LET n   == PayloadSize(s.stream, Budget(s))
        FIN == /\ s.is_closed \/ s.stream.closed
               /\ ~s.FIN_sent
               /\ \/ /\ s.window_size > s.in_flight + Flag(~s.first_ack) + n
                     /\ s.stream.buffered = n
                  \/ Budget(s) > n
    IN  [seqno |-> Wrap(s.next_seqno, s.isn), SYN |-> ~s.first_ack,
         lo |-> s.stream.popped, size |-> n, FIN |-> FIN, RST |-> s.stream.error]

\* Wrong round, for the mutation checks: the SYN is not counted in flight.
PushRoundWithFreeSYN(s) ==
    LET m   == NextSegment(s)
        len == SequenceLength(m)
    IN  [s EXCEPT !.first_ack  = TRUE,
                  !.stream     = IF m.size = 0 THEN s.stream ELSE Pop(s.stream, m.size),
                  !.next_seqno = s.next_seqno + len,
                  !.is_closed  = s.is_closed \/ s.stream.closed,
                  !.FIN_sent   = s.FIN_sent \/ m.FIN,
                  !.in_flight  = s.in_flight + m.size + Flag(m.FIN),
                  !.unacknowledged = IF len = 0 THEN s.unacknowledged
                                     ELSE Append(s.unacknowledged, m),
                  !.impossible_ackno =
                      IF len = 0 THEN s.impossible_ackno
                      ELSE Greater(s.impossible_ackno, s.next_seqno + len + 1),
                  !.pc         = IF len = 0 THEN "idle" ELSE "pushing",
                  !.curr_size  = IF len = 0 THEN 0 ELSE Budget(s) - m.size]

\* One round: the segment is sent unless it is empty, which ends the loop.
PushRound(s) ==
    LET m   == NextSegment(s)
        len == SequenceLength(m)
    IN  [s EXCEPT !.first_ack  = TRUE,
                  !.stream     = IF m.size = 0 THEN s.stream ELSE Pop(s.stream, m.size),
                  !.next_seqno = s.next_seqno + len,
                  !.is_closed  = s.is_closed \/ s.stream.closed,
                  !.FIN_sent   = s.FIN_sent \/ m.FIN,
                  !.in_flight  = s.in_flight + len,
                  !.unacknowledged = IF len = 0 THEN s.unacknowledged
                                     ELSE Append(s.unacknowledged, m),
                  !.impossible_ackno =
                      IF len = 0 THEN s.impossible_ackno
                      ELSE Greater(s.impossible_ackno, s.next_seqno + len + 1),
                  !.pc         = IF len = 0 THEN "idle" ELSE "pushing",
                  !.curr_size  = IF len = 0 THEN 0 ELSE Budget(s) - m.size]

-----------------------------------------------------------------------------
\* tcp_sender.cc:62-70.
EmptyMessage(s) ==
    [seqno |-> Wrap(s.next_seqno, s.isn), SYN |-> FALSE, lo |-> s.stream.popped,
     size |-> 0, FIN |-> FALSE, RST |-> s.stream.error]

(***************************************************************************)
(* tcp_sender.cc:72-85.  receive() up to its loop: a reset only flags the  *)
(* stream; the window is taken from every other message, before its ackno  *)
(* is looked at; an ackno of what was never sent ends the call.            *)
(***************************************************************************)
AckNo(s, m) == Unwrap(m.ackno, s.isn, s.next_seqno)

Acknowledges(s, m) == m.ackno # NoAck /\ AckNo(s, m) < s.impossible_ackno

ReceiveCall(s, m) ==
    IF m.RST THEN [s EXCEPT !.stream = SetError(s.stream)]
    ELSE IF ~Acknowledges(s, m) THEN [s EXCEPT !.window_size = m.window_size]
    ELSE [s EXCEPT !.window_size = m.window_size, !.pc = "acking",
                   !.ack_no = AckNo(s, m), !.poped = FALSE]

\* Wrong test, for the mutation checks: a partly acknowledged segment goes.
FrontReached(s) ==
    /\ s.unacknowledged # << >>
    /\ Unwrap(Head(s.unacknowledged).seqno, s.isn, s.next_seqno) < s.ack_no

\* tcp_sender.cc:86-89.  Is the oldest outstanding segment acknowledged whole?
FrontAcked(s) ==
    /\ s.unacknowledged # << >>
    /\ LET m == Head(s.unacknowledged)
       IN  Unwrap(m.seqno, s.isn, s.next_seqno) + SequenceLength(m) <= s.ack_no

\* Wrong rounds, for the mutation checks: the timeout stays backed off; the
\* count of what is in flight is kept; the break is missing.
AckRoundBackedOff(s) ==
    IF FrontAcked(s)
    THEN LET m == Head(s.unacknowledged)
         IN  [s EXCEPT !.retransmissions = 0,
                       !.in_flight = s.in_flight - SequenceLength(m),
                       !.established = s.established \/ m.SYN,
                       !.unacknowledged = Tail(s.unacknowledged),
                       !.poped = TRUE]
    ELSE [s EXCEPT !.last_tick = IF s.poped THEN 0 ELSE s.last_tick,
                   !.pc = "idle", !.ack_no = 0, !.poped = FALSE]

AckRoundUncounted(s) ==
    IF FrontAcked(s)
    THEN LET m == Head(s.unacknowledged)
         IN  [s EXCEPT !.curr_RTO = s.initial_RTO,
                       !.retransmissions = 0,
                       !.established = s.established \/ m.SYN,
                       !.unacknowledged = Tail(s.unacknowledged),
                       !.poped = TRUE]
    ELSE [s EXCEPT !.last_tick = IF s.poped THEN 0 ELSE s.last_tick,
                   !.pc = "idle", !.ack_no = 0, !.poped = FALSE]

AckRoundWithoutBreak(s) ==
    IF s.unacknowledged # << >> /\ ~FrontAcked(s) THEN s
    ELSE AckRoundBackedOff(s)

(***************************************************************************)
(* tcp_sender.cc:90-102.  A round of the loop removes the oldest segment;  *)
(* when there is nothing to remove the call ends, and the timer restarts   *)
(* if a segment was removed.                                               *)
(***************************************************************************)
AckRound(s) ==
    IF FrontAcked(s)
    THEN LET m == Head(s.unacknowledged)
         IN  [s EXCEPT !.curr_RTO = s.initial_RTO,
                       !.retransmissions = 0,
                       !.in_flight = s.in_flight - SequenceLength(m),
                       !.established = s.established \/ m.SYN,
                       !.unacknowledged = Tail(s.unacknowledged),
                       !.poped = TRUE]
    ELSE [s EXCEPT !.last_tick = IF s.poped THEN 0 ELSE s.last_tick,
                   !.pc = "idle", !.ack_no = 0, !.poped = FALSE]

-----------------------------------------------------------------------------
(***************************************************************************)
(* tcp_sender.cc:105-125.  tick(ms) retransmits the oldest segment when    *)
(* the timer expires.  (The loop at 112-114 removes empty segments, which  *)
(* push() never queues: see OutstandingIsContiguous.)                      *)
(***************************************************************************)
Expires(s, ms) == s.unacknowledged # << >> /\ s.last_tick + ms >= s.curr_RTO

Tick(s, ms) ==
    IF s.unacknowledged = << >> THEN s
    ELSE IF ~Expires(s, ms) THEN [s EXCEPT !.last_tick = s.last_tick + ms]
    ELSE [s EXCEPT !.retransmissions = s.retransmissions + 1,
                   !.curr_RTO = IF \/ Head(s.unacknowledged).SYN
                                   \/ s.established /\ s.window_size > 0
                                THEN 2 * s.curr_RTO ELSE s.curr_RTO,
                   !.last_tick = 0]
=============================================================================
