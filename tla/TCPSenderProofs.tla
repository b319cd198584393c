-------------------------- MODULE TCPSenderProofs ---------------------------
(***************************************************************************)
(* The invariants of TCPSenderSystem, for every capacity, payload size,    *)
(* window and timeout, whatever the peer sends.                            *)
(***************************************************************************)
EXTENDS TCPSenderSystem, TCPSenderLemmas

(***************************************************************************)
(* The inductive invariant, beyond SenderSound.  When the window has no    *)
(* room, what is left of the budget is good for a probe or for nothing.    *)
(***************************************************************************)
BudgetUsedUp ==
    /\ sender.window_size <= MaxWindow
    /\ sender.pc = "pushing" /\ WindowRoom(sender) = 0 /\ sender.curr_size > 0 =>
         /\ sender.first_ack
         /\ \/ /\ sender.window_size = 0 /\ sender.established
               /\ sender.in_flight = 0 /\ sender.curr_size = 1
            \/ /\ NothingToSend(sender.stream)
               /\ sender.stream.closed => sender.FIN_sent

\* What is in flight fits a window, or went with the SYN.
FlightBounded == sender.in_flight <= MaxWindow \/ sender.in_flight <= Capacity + 2

\* TimerAtRest, and what receive() relies on for it while it runs.
TimerKept ==
    Outstanding = << >> =>
        /\ sender.retransmissions = 0
        /\ sender.curr_RTO = sender.initial_RTO
        /\ sender.pc # "acking" \/ ~sender.poped => sender.last_tick = 0

\* NothingForgotten, and where receive() is when it does not hold.
Remembered ==
    /\ acked <= sender.next_seqno
    /\ sender.pc = "acking" => sender.ack_no <= acked
    /\ IF Outstanding = << >> THEN acked = sender.next_seqno
       ELSE /\ TrueSeqno(Outstanding[1]) <= acked
            /\ \/ acked < TrueSeqno(Outstanding[1]) + SequenceLength(Outstanding[1])
               \/ sender.pc = "acking" /\ sender.ack_no = acked

IInv == /\ TypeOK
        /\ SenderSound(sender)
        /\ sender.stream.capacity = Capacity
        /\ BudgetUsedUp
        /\ FlightBounded
        /\ TimerKept
        /\ Remembered

-----------------------------------------------------------------------------
LEMMA InitIInv == Init => IInv
<1> SUFFICES ASSUME Init PROVE IInv
  OBVIOUS
<1>1. sender = NewSender(Capacity, ISN, InitialRTO) /\ acked = 0
  BY DEF Init
<1>2. /\ SenderSound(sender) /\ sender.stream = NewByteStream(Capacity)
      /\ NewByteStream(Capacity).capacity = Capacity
  BY <1>1, CapacityAssumption, ISNAssumption, RTOAssumption, NewSenderSound
     DEF NewByteStream
<1>3. TypeOK
  BY <1>1, <1>2 DEF TypeOK, SenderSound
<1>4. BudgetUsedUp /\ FlightBounded
  BY <1>1, MaxWindowAssumption DEF BudgetUsedUp, FlightBounded, NewSender
<1>5. TimerKept /\ Remembered
  BY <1>1 DEF TimerKept, Remembered, NewSender, Outstanding
<1> QED BY <1>2, <1>3, <1>4, <1>5 DEF IInv

-----------------------------------------------------------------------------
(***************************************************************************)
(* It fits the window, unless it is a probe or the SYN that goes before    *)
(* any window is known (tcp_sender.cc:9-24, 43-48).                        *)
(***************************************************************************)
LEMMA SegmentFitsWindow ==
    ASSUME SenderSound(sender), sender.stream.capacity = Capacity, BudgetUsedUp,
           sender.pc = "pushing",
           SequenceLength(NextSegment(sender)) > 0
    PROVE  LET len == SequenceLength(NextSegment(sender))
           IN  \/ sender.in_flight + len <= sender.window_size
               \/ /\ sender.window_size = 0 /\ sender.established
                  /\ sender.in_flight = 0 /\ len = 1
               \/ /\ sender.next_seqno = 0 /\ sender.window_size = 0
                  /\ sender.in_flight = 0 /\ len <= Capacity + 2
<1> DEFINE m == NextSegment(sender)
           len == SequenceLength(m)
           b == Budget(sender)
           room == WindowRoom(sender)
           SYN == Flag(m.SYN)
           FIN == Flag(m.FIN)
<1>0. len > 0
  OBVIOUS
<1>1. /\ sender.window_size \in Nat /\ sender.in_flight \in Nat /\ sender.curr_size \in Nat
      /\ sender.first_ack \in BOOLEAN
  BY DEF SenderSound, Senders
<1>2. /\ m.size \in Nat /\ m.size <= b /\ m.size <= sender.stream.buffered
      /\ m.SYN \in BOOLEAN /\ (m.SYN <=> ~sender.first_ack) /\ m.FIN \in BOOLEAN
      /\ m.size = PayloadSize(sender.stream, b)
      /\ m.FIN => sender.stream.closed /\ ~sender.FIN_sent
  BY SegmentOfRound DEF SenderMessages, SenderSound
<1>3. /\ b \in Nat /\ room \in Nat
      /\ room > 0 => sender.in_flight + room = sender.window_size
      /\ sender.first_ack /\ room > 0 => b <= room
      /\ sender.first_ack /\ room = 0 => b = sender.curr_size
      /\ ~sender.first_ack /\ room > 0 => b < room
  BY BudgetBounds, PayloadAssumption DEF Lesser, SenderSound
<1>4. m.FIN => \/ sender.window_size > sender.in_flight + Flag(~sender.first_ack) + m.size
               \/ b > m.size
  BY DEF NextSegment
<1>5. /\ len = SYN + m.size + FIN
      /\ SYN \in Nat /\ FIN \in Nat /\ SYN <= 1 /\ FIN <= 1
      /\ sender.first_ack => SYN = 0
      /\ ~sender.first_ack => SYN = 1
      /\ ~m.FIN => FIN = 0
  BY <1>2 DEF SequenceLength, Flag
<1>6. sender.stream.buffered \in Nat /\ sender.stream.buffered <= Capacity
  BY CapacityAssumption DEF SenderSound, StreamInv, Accounting, ByteStreams
<1>7. SYN = Flag(~sender.first_ack)
  BY ONLY <1>1, <1>5 DEF Flag
<1> HIDE DEF m, len, b, room, SYN, FIN
<1>8. ASSUME room > 0 PROVE sender.in_flight + len <= sender.window_size
  <2>1. ASSUME m.FIN, sender.window_size > sender.in_flight + SYN + m.size
        PROVE  sender.in_flight + len <= sender.window_size
    BY ONLY <1>1, <1>2, <1>5, <2>1
  <2>2. SYN + b <= room
    BY ONLY <1>1, <1>3, <1>5, <1>8
  <2>3. ASSUME m.FIN, b > m.size
        PROVE  sender.in_flight + len <= sender.window_size
    BY ONLY <1>1, <1>2, <1>3, <1>5, <1>8, <2>2, <2>3
  <2>4. ASSUME ~m.FIN
        PROVE  sender.in_flight + len <= sender.window_size
    BY ONLY <1>1, <1>2, <1>3, <1>5, <1>8, <2>2, <2>4
  <2> QED BY ONLY <1>2, <1>4, <1>7, <2>1, <2>3, <2>4
<1>9. ASSUME room = 0, sender.first_ack
      PROVE  sender.window_size = 0 /\ sender.established /\ sender.in_flight = 0 /\ len = 1
  <2>1. ~(sender.window_size > sender.in_flight + SYN + m.size)
    BY <1>1, <1>2, <1>5, <1>9 DEF room, WindowRoom
  <2>2. m.FIN => b > m.size
    BY ONLY <1>4, <1>7, <2>1
  <2>3. len = m.size + FIN /\ len > 0 /\ b = sender.curr_size
    BY ONLY <1>2, <1>3, <1>5, <1>9, <1>0
  <2>4. b > 0
    BY ONLY <1>2, <1>3, <1>5, <2>2, <2>3
  <2>5. ~ (NothingToSend(sender.stream) /\ (sender.stream.closed => sender.FIN_sent))
    <3>1. NothingToSend(sender.stream) => m.size = 0
      BY <1>2, <1>3, PayloadFits DEF SenderSound
    <3> QED BY ONLY <1>2, <1>5, <2>3, <3>1
  <2>6. /\ sender.window_size = 0 /\ sender.established
        /\ sender.in_flight = 0 /\ b = 1
    BY <1>9, <2>3, <2>4, <2>5 DEF BudgetUsedUp, room
  <2>7. len = 1
    BY ONLY <1>2, <1>3, <1>5, <2>2, <2>3, <2>6
  <2> QED BY <2>6, <2>7
<1>10. ASSUME room = 0, ~sender.first_ack
       PROVE  /\ sender.next_seqno = 0 /\ sender.window_size = 0
              /\ sender.in_flight = 0 /\ len <= Capacity + 2
  <2>1. sender.next_seqno = 0 /\ sender.in_flight = 0
    BY <1>10 DEF SenderSound, NumbersSent
  <2>2. sender.window_size = 0
    BY <1>1, <1>10, <2>1 DEF room, WindowRoom
  <2>3. len <= Capacity + 2
    BY ONLY <1>2, <1>5, <1>6, CapacityAssumption
  <2> QED BY <2>1, <2>2, <2>3
<1>11. room > 0 \/ room = 0
  BY ONLY <1>3
<1> QED BY <1>1, <1>8, <1>9, <1>10, <1>11 DEF len, m

-----------------------------------------------------------------------------
(***************************************************************************)
(* A round of push().                                                      *)
(***************************************************************************)
LEMMA RoundOfPushIInv == IInv /\ RoundOfPush => IInv'
<1> SUFFICES ASSUME IInv, RoundOfPush PROVE IInv'
  OBVIOUS
<1> DEFINE m == NextSegment(sender)
           len == SequenceLength(m)
<1>1. /\ TypeOK /\ SenderSound(sender) /\ sender.stream.capacity = Capacity
      /\ BudgetUsedUp /\ FlightBounded /\ TimerKept /\ Remembered
      /\ sender \in Senders /\ acked \in Nat
      /\ sender.pc = "pushing" /\ sender' = PushRound(sender) /\ acked' = acked
  BY DEF IInv, TypeOK, RoundOfPush
<1>2. SenderSound(sender') /\ sender' \in Senders
  BY <1>1, PushRoundSound DEF SenderSound
<1>3. /\ sender'.next_seqno = sender.next_seqno + len
      /\ sender'.FIN_sent = (sender.FIN_sent \/ m.FIN)
      /\ sender'.first_ack = TRUE
      /\ sender'.in_flight = sender.in_flight + len
      /\ sender'.unacknowledged = IF len = 0 THEN sender.unacknowledged
                                  ELSE Append(sender.unacknowledged, m)
      /\ sender'.pc = IF len = 0 THEN "idle" ELSE "pushing"
      /\ sender'.curr_size = IF len = 0 THEN 0 ELSE Budget(sender) - m.size
      /\ sender'.initial_RTO = sender.initial_RTO
      /\ sender'.window_size = sender.window_size /\ sender'.curr_RTO = sender.curr_RTO
      /\ sender'.last_tick = sender.last_tick
      /\ sender'.retransmissions = sender.retransmissions
      /\ sender'.poped = sender.poped
  BY <1>1, PushRoundFields
<1>4. /\ m \in SenderMessages /\ len \in Nat /\ Budget(sender) \in Nat
      /\ m.size \in Nat /\ m.size <= Budget(sender)
      /\ m.FIN => sender.stream.closed /\ ~sender.FIN_sent
      /\ len > 0 => TrueSeqno(m) = sender.next_seqno
  BY <1>1, NextSegmentIs DEF SenderSound
<1>5. /\ sender'.stream.capacity = sender.stream.capacity
      /\ sender'.stream.closed = sender.stream.closed
      /\ m.size < Budget(sender) => NothingToSend(sender'.stream)
      /\ sender.stream.closed /\ ~sender.FIN_sent /\ m.size < Budget(sender) => m.FIN
  BY <1>1, RoundTakesPayload DEF SenderSound
<1>6. /\ sender.next_seqno \in Nat /\ sender.in_flight \in Nat
      /\ sender.unacknowledged \in Seq(SenderMessages)
      /\ sender.FIN_sent \in BOOLEAN /\ sender.window_size \in Nat
      /\ sender.stream.closed \in BOOLEAN
  BY <1>1 DEF Senders, ByteStreams
<1>7. TypeOK' /\ sender'.stream.capacity = Capacity
  BY <1>1, <1>2, <1>5 DEF TypeOK
<1> HIDE DEF m, len
<1>8. BudgetUsedUp'
  <2>1. ASSUME sender'.pc = "pushing", sender'.curr_size > 0
        PROVE  NothingToSend(sender'.stream) /\ (sender'.stream.closed => sender'.FIN_sent)
    <3>1. m.size < Budget(sender)
      BY ONLY <1>3, <1>4, <2>1
    <3> QED BY <1>3, <1>5, <1>6, <3>1
  <2> QED BY <1>1, <1>3, <2>1 DEF BudgetUsedUp
<1>9. FlightBounded'
  <2>1. CASE len = 0
    BY <1>1, <1>3, <1>6, <2>1 DEF FlightBounded
  <2>2. CASE len > 0
    <3>1. \/ sender.in_flight + len <= sender.window_size
          \/ sender.in_flight = 0 /\ len = 1
          \/ sender.in_flight = 0 /\ len <= Capacity + 2
      BY <1>1, <2>2, SegmentFitsWindow DEF len, m
    <3>2. sender.window_size <= MaxWindow
      BY <1>1 DEF BudgetUsedUp
    <3>3. sender'.in_flight <= MaxWindow \/ sender'.in_flight <= Capacity + 2
      BY ONLY <1>3, <1>4, <1>6, <3>1, <3>2, MaxWindowAssumption, CapacityAssumption
    <3> QED BY <3>3 DEF FlightBounded
  <2> QED BY <1>4, <2>1, <2>2
<1>10. TimerKept'
  <2>1. Outstanding' = << >> => Outstanding = << >>
    <3>1. Append(sender.unacknowledged, m) # << >>
      BY ONLY <1>4, <1>6, AppendProperties
    <3> QED BY <1>3, <3>1 DEF Outstanding
  <2> QED BY <1>1, <1>3, <2>1 DEF TimerKept
<1>11. Remembered'
  <2>1. acked <= sender.next_seqno /\ acked' <= sender'.next_seqno /\ sender'.pc # "acking"
    <3>1. acked <= sender.next_seqno
      BY <1>1 DEF Remembered
    <3> QED BY <1>1, <1>3, <1>4, <1>6, <3>1
  <2>2. CASE len = 0
    BY <1>1, <1>3, <1>6, <2>1, <2>2 DEF Remembered, Outstanding
  <2>3. CASE len > 0 /\ Outstanding = << >>
    <3>1. /\ Outstanding' # << >> /\ Outstanding'[1] = m
          /\ acked = sender.next_seqno /\ TrueSeqno(m) = sender.next_seqno
      BY <1>1, <1>3, <1>4, <1>6, <2>3 DEF Remembered, Outstanding
    <3>2. acked < TrueSeqno(m) + SequenceLength(m)
      BY <1>1, <1>4, <2>3, <3>1 DEF len
    <3> QED BY <1>1, <1>6, <2>1, <3>1, <3>2 DEF Remembered
  <2>4. CASE len > 0 /\ Outstanding # << >>
    <3>1. Outstanding' # << >> /\ Outstanding'[1] = Outstanding[1]
      <4>1. Outstanding' = Append(Outstanding, m) /\ Outstanding \in Seq(SenderMessages)
        BY <1>3, <1>4, <1>6, <2>4 DEF Outstanding
      <4>2. 1 \in 1 .. Len(Outstanding)
        BY <2>4, <4>1, EmptySeq
      <4> QED BY <1>4, <4>1, <4>2, AppendProperties
    <3> QED BY <1>1, <2>1, <2>4, <3>1 DEF Remembered
  <2> QED BY <1>4, <2>2, <2>3, <2>4
<1> QED BY <1>2, <1>7, <1>8, <1>9, <1>10, <1>11 DEF IInv

-----------------------------------------------------------------------------
(***************************************************************************)
(* What the application does changes the outbound stream only.             *)
(***************************************************************************)
LEMMA StreamOnlyIInv ==
    ASSUME NEW c, StreamKept(sender.stream, c), IInv, Idle, acked' = acked,
           sender' = [sender EXCEPT !.stream = c]
    PROVE  IInv'
<1>1. /\ TypeOK /\ SenderSound(sender) /\ sender.stream.capacity = Capacity
      /\ BudgetUsedUp /\ FlightBounded /\ TimerKept /\ Remembered
      /\ sender \in Senders /\ acked \in Nat /\ sender.pc = "idle"
  BY DEF IInv, TypeOK, Idle
<1>2. SenderSound(sender') /\ sender'.stream = c /\ sender'.stream.capacity = Capacity
  BY <1>1, StreamReplaced DEF StreamKept
<1>3. /\ sender'.initial_RTO = sender.initial_RTO
      /\ sender'.next_seqno = sender.next_seqno
      /\ sender'.window_size = sender.window_size /\ sender'.curr_RTO = sender.curr_RTO
      /\ sender'.last_tick = sender.last_tick
      /\ sender'.retransmissions = sender.retransmissions
      /\ sender'.in_flight = sender.in_flight
      /\ sender'.unacknowledged = sender.unacknowledged
      /\ sender'.pc = sender.pc
      /\ sender'.ack_no = sender.ack_no /\ sender'.poped = sender.poped
  BY <1>1 DEF Senders
<1>4. TypeOK'
  BY <1>1, <1>2 DEF TypeOK, SenderSound
<1>5. BudgetUsedUp' /\ FlightBounded'
  BY <1>1, <1>3 DEF BudgetUsedUp, FlightBounded
<1>6. TimerKept' /\ Remembered'
  BY <1>1, <1>3 DEF TimerKept, Remembered, Outstanding
<1> QED BY <1>2, <1>4, <1>5, <1>6 DEF IInv

LEMMA ApplicationIInv ==
    ASSUME IInv, (\E n \in Writes : Write(n)) \/ CloseWriter \/ Fail PROVE IInv'
<1>1. StreamInv(sender.stream)
  BY DEF IInv, SenderSound
<1>2. ASSUME NEW n \in Writes, Write(n) PROVE IInv'
  <2>1. n \in Nat
    BY WritesAssumption
  <2> QED BY <1>1, <1>2, <2>1, StreamOperations, StreamOnlyIInv DEF Write
<1>3. CASE CloseWriter
  BY <1>1, <1>3, StreamOperations, StreamOnlyIInv DEF CloseWriter
<1>4. CASE Fail
  BY <1>1, <1>4, StreamOperations, StreamOnlyIInv DEF Fail
<1> QED BY <1>2, <1>3, <1>4

-----------------------------------------------------------------------------
(***************************************************************************)
(* The call of push(): the budget left from before is the room.            *)
(***************************************************************************)
LEMMA CallPushIInv == ASSUME IInv, CallPush PROVE IInv'
<1>1. /\ TypeOK /\ SenderSound(sender) /\ sender.stream.capacity = Capacity
      /\ BudgetUsedUp /\ FlightBounded /\ TimerKept /\ Remembered
      /\ sender \in Senders /\ acked \in Nat /\ sender.pc = "idle"
      /\ sender' = PushCall(sender) /\ acked' = acked
  BY DEF IInv, TypeOK, CallPush, Idle
<1>2. /\ SameNumbers(sender, sender') /\ sender' \in Senders
      /\ sender'.stream = sender.stream
      /\ sender'.curr_size =
             IF sender.window_size = 0 /\ sender.in_flight = 0 /\ sender.established
             THEN 1 ELSE Lesser(MaxPayload, WindowRoom(sender))
      /\ sender'.initial_RTO = sender.initial_RTO
      /\ sender'.window_size = sender.window_size /\ sender'.curr_RTO = sender.curr_RTO
      /\ sender'.last_tick = sender.last_tick
      /\ sender'.retransmissions = sender.retransmissions
      /\ sender'.pc = "pushing"
      /\ sender'.ack_no = sender.ack_no /\ sender'.poped = sender.poped
  BY <1>1, PushCallFields
<1>3. SenderSound(sender')
  BY <1>1, PushCallSound
<1>4. WindowRoom(sender) \in Nat /\ sender.first_ack \in BOOLEAN
  BY <1>1, BudgetBounds DEF Senders
<1>5. TypeOK'
  BY <1>1, <1>2 DEF TypeOK
<1>6. BudgetUsedUp'
  <2>1. ASSUME WindowRoom(sender') = 0, sender'.curr_size > 0
        PROVE  /\ sender.first_ack
               /\ sender.window_size = 0 /\ sender.established
               /\ sender.in_flight = 0 /\ sender'.curr_size = 1
    <3>1. WindowRoom(sender) = 0
      BY <1>2, <2>1 DEF WindowRoom, SameNumbers
    <3>2. Lesser(MaxPayload, WindowRoom(sender)) = 0
      BY <3>1, PayloadAssumption DEF Lesser
    <3>3. /\ sender.window_size = 0 /\ sender.established
          /\ sender.in_flight = 0 /\ sender'.curr_size = 1
      BY <1>2, <2>1, <3>2
    <3>4. sender.first_ack
      BY <1>1, <1>4, <3>3 DEF SenderSound, NumbersSent
    <3> QED BY <3>3, <3>4
  <2> QED BY <1>1, <1>2, <2>1 DEF BudgetUsedUp, SameNumbers
<1>7. FlightBounded' /\ TimerKept' /\ Remembered'
  BY <1>1, <1>2 DEF FlightBounded, TimerKept, Remembered, Outstanding, SameNumbers
<1> QED BY <1>1, <1>2, <1>3, <1>5, <1>6, <1>7 DEF IInv

-----------------------------------------------------------------------------
(***************************************************************************)
(* The call of receive().                                                  *)
(***************************************************************************)
LEMMA CallReceiveIInv == ASSUME NEW m \in Replies, IInv, CallReceive(m) PROVE IInv'
<1>1. /\ TypeOK /\ SenderSound(sender) /\ sender.stream.capacity = Capacity
      /\ BudgetUsedUp /\ FlightBounded /\ TimerKept /\ Remembered
      /\ sender \in Senders /\ acked \in Nat /\ sender.pc = "idle" /\ Idle
      /\ sender' = ReceiveCall(sender, m)
      /\ acked' = IF ~m.RST /\ Acknowledges(sender, m)
                  THEN Greater(acked, AckNo(sender, m)) ELSE acked
  BY DEF IInv, TypeOK, CallReceive, Idle
<1>2. /\ m \in ReceiverMessages /\ m.window_size \in Nat /\ m.window_size <= MaxWindow
      /\ m.RST \in BOOLEAN
  BY MaxWindowAssumption DEF Replies, ReceiverMessages
<1>3. CASE m.RST
  <2>1. Fail
    BY <1>1, <1>3 DEF ReceiveCall, Fail
  <2> QED BY <2>1, ApplicationIInv
<1>4. CASE ~m.RST
  <2> DEFINE a == AckNo(sender, m)
             accepted == Acknowledges(sender, m)
  <2>1. /\ accepted \in BOOLEAN
        /\ accepted => a \in Nat /\ a <= sender.next_seqno
    BY <1>1, <1>2, AcknowledgesWhatWasSent DEF Acknowledges, SenderSound
  <2>2. acked' = IF accepted THEN Greater(acked, a) ELSE acked
    BY <1>1, <1>4
  <2>3. /\ SameNumbers(sender, sender') /\ sender' \in Senders
        /\ sender'.stream = sender.stream
        /\ sender'.initial_RTO = sender.initial_RTO
        /\ sender'.window_size = m.window_size /\ sender'.curr_RTO = sender.curr_RTO
        /\ sender'.last_tick = sender.last_tick
        /\ sender'.retransmissions = sender.retransmissions
        /\ IF accepted
           THEN sender'.pc = "acking" /\ sender'.ack_no = a /\ sender'.poped = FALSE
           ELSE sender'.pc = sender.pc /\ sender'.curr_size = sender.curr_size
    BY <1>1, <1>2, <1>4, ReceiveCallFields
  <2>4. SenderSound(sender')
    BY <1>1, <1>2, ReceiveCallSound
  <2> HIDE DEF a, accepted
  <2>5. TypeOK'
    BY <1>1, <2>1, <2>2, <2>3 DEF TypeOK, Greater
  <2>6. BudgetUsedUp' /\ FlightBounded'
    BY <1>1, <1>2, <2>3 DEF BudgetUsedUp, FlightBounded, SameNumbers
  <2>7. TimerKept'
    BY <1>1, <2>3 DEF TimerKept, Outstanding, SameNumbers
  <2>8. Remembered'
    <3>1. /\ acked <= sender.next_seqno /\ sender.next_seqno \in Nat
          /\ sender.unacknowledged \in Seq(SenderMessages)
      BY <1>1 DEF Remembered, Senders
    <3>2. CASE ~accepted
      BY <1>1, <2>2, <2>3, <3>2 DEF Remembered, Outstanding, SameNumbers
    <3>3. CASE accepted
      <4>1. /\ acked' \in Nat /\ acked <= acked' /\ a <= acked' /\ acked' <= sender.next_seqno
            /\ acked' = acked \/ acked' = a
        BY <1>1, <2>1, <2>2, <3>1, <3>3 DEF Greater
      <4>2. CASE Outstanding = << >>
        <5>1. acked = sender.next_seqno
          BY <1>1, <4>2 DEF Remembered
        <5>2. acked' = sender.next_seqno
          BY ONLY <1>1, <3>1, <4>1, <5>1
        <5> QED BY <2>3, <3>3, <4>1, <4>2, <5>2 DEF Remembered, Outstanding, SameNumbers
      <4>3. CASE Outstanding # << >>
        <5> DEFINE start == TrueSeqno(Outstanding[1])
                   len   == SequenceLength(Outstanding[1])
        <5>1. start \in Nat /\ len \in Nat
          BY <3>1, <4>3, EmptySeq, MessageNumbers DEF Outstanding
        <5>2. start <= acked /\ acked < start + len
          BY <1>1, <4>3 DEF Remembered
        <5>3. start <= acked'
          BY ONLY <1>1, <4>1, <5>1, <5>2
        <5>4. acked' < start + len \/ acked' = a
          BY ONLY <4>1, <5>2
        <5> QED BY <2>3, <3>3, <4>1, <4>3, <5>3, <5>4 DEF Remembered, Outstanding, SameNumbers
      <4> QED BY <4>2, <4>3
    <3> QED BY <2>1, <3>2, <3>3
  <2> QED BY <1>1, <2>3, <2>4, <2>5, <2>6, <2>7, <2>8 DEF IInv
<1> QED BY <1>2, <1>3, <1>4

\* What is in flight at once is less than half the sequence space.
LEMMA FlightIsShort == ASSUME TypeOK, FlightBounded PROVE 2 * sender.in_flight < Modulus
<1>1. sender.in_flight \in Nat
  BY DEF TypeOK, Senders
<1> QED BY <1>1, MaxWindowAssumption, CapacityAssumption, InFlightAssumption, ModulusAssumption
           DEF FlightBounded

(***************************************************************************)
(* A round of receive().                                                   *)
(***************************************************************************)
LEMMA RoundOfReceiveIInv == ASSUME IInv, RoundOfReceive PROVE IInv'
<1>1. /\ TypeOK /\ SenderSound(sender) /\ sender.stream.capacity = Capacity
      /\ BudgetUsedUp /\ FlightBounded /\ TimerKept /\ Remembered
      /\ sender \in Senders /\ acked \in Nat /\ sender.pc = "acking"
      /\ sender' = AckRound(sender) /\ acked' = acked
      /\ 2 * sender.in_flight < Modulus
  BY FlightIsShort DEF IInv, TypeOK, RoundOfReceive
<1>2. /\ sender.unacknowledged \in Seq(SenderMessages) /\ sender.unacknowledged = Outstanding
      /\ sender.in_flight \in Nat /\ sender.next_seqno \in Nat /\ sender.ack_no \in Nat
      /\ sender.poped \in BOOLEAN
  BY <1>1 DEF Senders, Outstanding
<1> DEFINE m == Outstanding[1]
           len == SequenceLength(m)
           start == TrueSeqno(m)
<1>3. /\ SenderSound(sender') /\ sender' \in Senders /\ TypeOK'
      /\ sender'.stream.capacity = Capacity
  BY <1>1, AckRoundSound DEF SenderSound, TypeOK
<1>4. CASE FrontAcked(sender)
  <2>1. /\ sender'.initial_RTO = sender.initial_RTO
        /\ sender'.next_seqno = sender.next_seqno
        /\ sender'.window_size = sender.window_size
        /\ sender'.curr_RTO = sender.initial_RTO
        /\ sender'.retransmissions = 0
        /\ sender'.in_flight = sender.in_flight - len
        /\ sender'.unacknowledged = Tail(Outstanding)
        /\ sender'.pc = "acking" /\ sender'.ack_no = sender.ack_no
        /\ sender'.poped = TRUE
        /\ Outstanding # << >> /\ start \in Nat /\ len \in Nat
        /\ start + len <= sender.ack_no
        /\ IF Tail(Outstanding) = << >> THEN start + len = sender.next_seqno
           ELSE TrueSeqno(Tail(Outstanding)[1]) = start + len
    BY <1>1, <1>2, <1>4, RemovingAckRound
  <2>2. /\ acked <= sender.next_seqno /\ sender.ack_no <= acked
        /\ acked < start + len \/ sender.ack_no = acked
    BY <1>1, <2>1 DEF Remembered
  <2> HIDE DEF m, len, start
  <2>3. BudgetUsedUp'
    BY <1>1, <2>1 DEF BudgetUsedUp
  <2>4. FlightBounded'
    <3>1. sender.in_flight - len <= MaxWindow \/ sender.in_flight - len <= Capacity + 2
      BY <1>1, <1>2, <2>1, MaxWindowAssumption, CapacityAssumption DEF FlightBounded
    <3> QED BY <2>1, <3>1 DEF FlightBounded
  <2>5. TimerKept'
    BY <2>1 DEF TimerKept
  <2>6. Remembered'
    <3>1. sender.ack_no = acked
      BY ONLY <1>1, <1>2, <2>1, <2>2
    <3>2. CASE Tail(Outstanding) = << >>
      <4>1. acked = sender.next_seqno
        BY ONLY <1>1, <1>2, <2>1, <2>2, <3>1, <3>2
      <4> QED BY <1>1, <2>1, <2>2, <3>2, <4>1 DEF Remembered, Outstanding
    <3>3. CASE Tail(Outstanding) # << >>
      <4>1. TrueSeqno(Tail(Outstanding)[1]) <= acked
        BY ONLY <2>1, <3>1, <3>3
      <4> QED BY <1>1, <2>1, <2>2, <3>1, <3>3, <4>1 DEF Remembered, Outstanding
    <3> QED BY <3>2, <3>3
  <2> QED BY <1>3, <2>3, <2>4, <2>5, <2>6 DEF IInv
<1>5. CASE ~FrontAcked(sender)
  <2>1. /\ SameNumbers(sender, sender') /\ sender'.window_size = sender.window_size
        /\ sender'.curr_RTO = sender.curr_RTO
        /\ sender'.initial_RTO = sender.initial_RTO
        /\ sender'.last_tick = IF sender.poped THEN 0 ELSE sender.last_tick
        /\ sender'.retransmissions = sender.retransmissions
        /\ sender'.pc = "idle"
    BY <1>1, <1>5, LastAckRound
  <2>2. BudgetUsedUp' /\ FlightBounded'
    BY <1>1, <2>1 DEF BudgetUsedUp, FlightBounded, SameNumbers
  <2>3. TimerKept'
    BY <1>1, <1>2, <2>1 DEF TimerKept, Outstanding, SameNumbers
  <2>4. Remembered'
    <3>1. CASE Outstanding = << >>
      BY <1>1, <2>1, <3>1 DEF Remembered, Outstanding, SameNumbers
    <3>2. CASE Outstanding # << >>
      <4>1. len \in Nat /\ start \in Nat /\ sender.ack_no < start + len
        BY <1>1, <1>2, <1>5, <3>2, FrontIsExact DEF SenderSound
      <4>2. /\ acked <= sender.next_seqno /\ start <= acked
            /\ acked < start + len \/ sender.ack_no = acked
        BY <1>1, <3>2 DEF Remembered
      <4>3. acked < start + len
        BY ONLY <4>1, <4>2
      <4> QED BY <1>1, <2>1, <3>2, <4>2, <4>3 DEF Remembered, Outstanding, SameNumbers
    <3> QED BY <3>1, <3>2
  <2> QED BY <1>3, <2>2, <2>3, <2>4 DEF IInv
<1> QED BY <1>4, <1>5

(***************************************************************************)
(* tick().                                                                 *)
(***************************************************************************)
LEMMA CallTickIInv == ASSUME NEW ms \in Elapses, IInv, CallTick(ms) PROVE IInv'
<1>1. /\ TypeOK /\ SenderSound(sender) /\ sender.stream.capacity = Capacity
      /\ BudgetUsedUp /\ FlightBounded /\ TimerKept /\ Remembered
      /\ sender \in Senders /\ acked \in Nat /\ sender.pc = "idle"
      /\ sender' = Tick(sender, ms) /\ acked' = acked /\ ms \in Nat
  BY ElapsesAssumption DEF IInv, TypeOK, CallTick, Idle
<1>2. SenderSound(sender')
  BY <1>1, TickSound
<1>3. /\ sender' \in Senders /\ SameNumbers(sender, sender')
      /\ sender'.stream = sender.stream
      /\ sender'.window_size = sender.window_size
      /\ sender'.initial_RTO = sender.initial_RTO
      /\ sender'.pc = sender.pc
      /\ sender.unacknowledged = << >> => sender' = sender
  BY <1>1, TickFields
<1>4. TypeOK' /\ sender'.stream.capacity = Capacity
  BY <1>1, <1>3 DEF TypeOK
<1>5. BudgetUsedUp' /\ FlightBounded' /\ Remembered'
  BY <1>1, <1>3 DEF BudgetUsedUp, FlightBounded, Remembered, Outstanding, SameNumbers
<1>6. TimerKept'
  BY <1>1, <1>3 DEF TimerKept, Outstanding, SameNumbers
<1> QED BY <1>2, <1>4, <1>5, <1>6 DEF IInv

LEMMA NextIInv == IInv /\ [Next]_vars => IInv'
<1> SUFFICES ASSUME IInv, [Next]_vars PROVE IInv'
  OBVIOUS
<1>1. CASE (\E n \in Writes : Write(n)) \/ CloseWriter \/ Fail
  BY <1>1, ApplicationIInv
<1>2. CASE CallPush
  BY <1>2, CallPushIInv
<1>3. CASE RoundOfPush
  BY <1>3, RoundOfPushIInv
<1>4. ASSUME NEW m \in Replies, CallReceive(m) PROVE IInv'
  BY <1>4, CallReceiveIInv
<1>5. CASE RoundOfReceive
  BY <1>5, RoundOfReceiveIInv
<1>6. ASSUME NEW ms \in Elapses, CallTick(ms) PROVE IInv'
  BY <1>6, CallTickIInv
<1>7. CASE UNCHANGED vars
  BY <1>7 DEF vars, IInv, TypeOK, BudgetUsedUp, FlightBounded, TimerKept, Remembered,
              Outstanding
<1> QED BY <1>1, <1>2, <1>3, <1>4, <1>5, <1>6, <1>7 DEF Next

-----------------------------------------------------------------------------
(***************************************************************************)
(* The inductive invariant holds of every behaviour of a sender.           *)
(***************************************************************************)
THEOREM Invariance == Spec => []IInv
<1> QED BY InitIInv, NextIInv, PTL DEF Spec

(***************************************************************************)
(* The fields of a TCPSender keep their types: in particular none of its   *)
(* unsigned counters is ever taken below zero (tcp_sender.cc:44-58 and     *)
(* 86-96 subtract from three of them).                                     *)
(***************************************************************************)
THEOREM TypeCorrect == Spec => []TypeOK
<1>1. IInv => TypeOK
  BY DEF IInv
<1> QED BY <1>1, Invariance, PTL

(***************************************************************************)
(* The outstanding segments lie end to end, none of them empty, and        *)
(* sequence_numbers_in_flight_ is what they occupy (tcp_sender.cc:51-55,   *)
(* 86-96), whatever is written, announced, acknowledged and retransmitted. *)
(***************************************************************************)
THEOREM OutstandingAlwaysContiguous == Spec => []OutstandingIsContiguous
<1>1. OutstandingTiles(sender) => OutstandingIsContiguous
  BY DEF OutstandingTiles, Tiles, OutstandingIsContiguous, Outstanding
<1>2. IInv => OutstandingTiles(sender)
  BY DEF IInv, SenderSound
<1> QED BY <1>1, <1>2, Invariance, PTL

(***************************************************************************)
(* The retransmission timer is at rest whenever nothing is outstanding     *)
(* (tcp_sender.cc:86-102, 105-109).                                        *)
(***************************************************************************)
THEOREM TimerAlwaysAtRest == Spec => []TimerAtRest
<1>1. TimerKept => TimerAtRest
  BY DEF TimerKept, TimerAtRest
<1>2. IInv => TimerKept
  BY DEF IInv
<1> QED BY <1>1, <1>2, Invariance, PTL

(***************************************************************************)
(* A number stays outstanding until an acknowledgment covers its segment   *)
(* (tcp_sender.cc:81-99).                                                  *)
(***************************************************************************)
THEOREM NothingEverForgotten == Spec => []NothingForgotten
<1>1. Remembered => NothingForgotten
  BY DEF Remembered, NothingForgotten
<1>2. IInv => Remembered
  BY DEF IInv
<1> QED BY <1>1, <1>2, Invariance, PTL

(***************************************************************************)
(* New numbers are sent only into the window announced last, a window of   *)
(* zero counting as one, and the SYN with what it carries before any       *)
(* window is known (tcp_sender.cc:9-24, 43-48).                            *)
(***************************************************************************)
THEOREM WindowAlwaysRespected == Spec => WindowRespected
<1> DEFINE Step ==
        sender'.next_seqno > sender.next_seqno =>
           \/ sender'.in_flight <= sender.window_size
           \/ sender.window_size = 0 /\ sender.established /\ sender'.in_flight = 1
           \/ sender.next_seqno = 0 /\ sender.window_size = 0
<1>1. ASSUME IInv, RoundOfPush PROVE Step
  <2> DEFINE len == SequenceLength(NextSegment(sender))
  <2>1. /\ SenderSound(sender) /\ sender.stream.capacity = Capacity /\ BudgetUsedUp
        /\ sender \in Senders /\ sender.pc = "pushing" /\ sender' = PushRound(sender)
        /\ sender.next_seqno \in Nat /\ sender.in_flight \in Nat
    BY <1>1 DEF IInv, RoundOfPush, TypeOK, Senders
  <2>2. /\ sender'.next_seqno = sender.next_seqno + len
        /\ sender'.in_flight = sender.in_flight + len
    BY <2>1, PushRoundFields
  <2>3. len \in Nat
    BY <2>1, SegmentOfRound, MessageNumbers DEF SenderSound
  <2>4. len > 0 =>
           \/ sender.in_flight + len <= sender.window_size
           \/ /\ sender.window_size = 0 /\ sender.established
              /\ sender.in_flight = 0 /\ len = 1
           \/ sender.next_seqno = 0 /\ sender.window_size = 0
    BY <2>1, SegmentFitsWindow
  <2> HIDE DEF len
  <2> QED BY ONLY <2>1, <2>2, <2>3, <2>4
<1>2. ASSUME IInv, ~RoundOfPush, [Next]_vars PROVE Step
  <2>1. sender \in Senders /\ sender.next_seqno \in Nat
    BY <1>2 DEF IInv, TypeOK, Senders
  <2>2. sender'.next_seqno = sender.next_seqno
    <3>1. ASSUME NEW n \in Writes, Write(n) PROVE sender'.next_seqno = sender.next_seqno
      BY <2>1, <3>1 DEF Write, Senders
    <3>2. CASE CloseWriter
      BY <2>1, <3>2 DEF CloseWriter, Senders
    <3>3. CASE Fail
      BY <2>1, <3>3 DEF Fail, Senders
    <3>4. CASE CallPush
      BY <2>1, <3>4 DEF CallPush, PushCall, Senders
    <3>5. ASSUME NEW m \in Replies, CallReceive(m)
          PROVE  sender'.next_seqno = sender.next_seqno
      BY <2>1, <3>5 DEF CallReceive, ReceiveCall, Senders
    <3>6. CASE RoundOfReceive
      BY <2>1, <3>6 DEF RoundOfReceive, AckRound, Senders
    <3>7. ASSUME NEW ms \in Elapses, CallTick(ms)
          PROVE  sender'.next_seqno = sender.next_seqno
      BY <2>1, <3>7 DEF CallTick, Tick, Senders
    <3>8. CASE UNCHANGED vars
      BY <3>8 DEF vars
    <3> QED BY <1>2, <3>1, <3>2, <3>3, <3>4, <3>5, <3>6, <3>7, <3>8 DEF Next
  <2> QED BY <2>1, <2>2
<1>3. IInv /\ [Next]_vars => [Step]_vars
  BY <1>1, <1>2
<1> QED BY <1>3, Invariance, PTL DEF Spec, WindowRespected

(***************************************************************************)
(* Of a stream in which no byte is 0xFF, the FIN is the last number and    *)
(* comes after every byte (tcp_sender_message.hh:20).  With such a byte it *)
(* need not (tcp_sender.cc:32).                                            *)
(***************************************************************************)
THEOREM FinAlwaysEndsTheStream == EOFBytes = {} => (Spec => []FinEndsTheStream)
<1> SUFFICES ASSUME EOFBytes = {} PROVE Spec => []FinEndsTheStream
  OBVIOUS
<1>1. IInv => FinEndsTheStream
  <2> SUFFICES ASSUME IInv, sender.FIN_sent PROVE FinEndsTheStream
    BY DEF FinEndsTheStream
  <2>1. /\ sender.stream.closed /\ NothingToSend(sender.stream) /\ StreamInv(sender.stream)
        /\ sender.first_ack \in BOOLEAN /\ sender.FIN_sent \in BOOLEAN
    BY DEF IInv, SenderSound, NumbersSent, Senders
  <2>2. sender.stream.buffered = 0
    BY <2>1, NothingLeft
  <2>3. sender.next_seqno = 1 + sender.stream.popped + Flag(sender.FIN_sent)
    BY <2>1 DEF IInv, SenderSound, NumbersSent
  <2>4. Flag(sender.FIN_sent) = 1
    BY <2>1 DEF Flag
  <2>5. /\ sender.stream.pushed = sender.stream.popped + sender.stream.buffered
        /\ sender.stream.popped \in Nat
    BY <2>1 DEF StreamInv, Accounting, ByteStreams
  <2>6. sender.next_seqno = sender.stream.pushed + 2
    BY ONLY <2>2, <2>3, <2>4, <2>5
  <2> QED BY <2>1, <2>2, <2>6 DEF FinEndsTheStream
<1> QED BY <1>1, Invariance, PTL

-----------------------------------------------------------------------------
(***************************************************************************)
(* Why a push() that has a window of zero still sends: until the SYN is    *)
(* acknowledged it is outstanding, and afterwards push() starts with a     *)
(* budget of one, which it keeps until a segment is in flight.             *)
(***************************************************************************)
SYNRemembered ==
    sender.first_ack /\ ~sender.established =>
        Outstanding # << >> /\ Head(Outstanding).SYN

ProbeReady ==
    /\ sender.pc = "pushing" /\ sender.first_ack
    /\ sender.window_size = 0 /\ sender.in_flight = 0
    => sender.curr_size > 0

\* Nothing is in flight exactly if nothing is outstanding.
LEMMA NothingInFlight ==
    ASSUME IInv
    PROVE  sender.in_flight = 0 <=> Outstanding = << >>
<1>1. /\ OutstandingTiles(sender) /\ sender.next_seqno \in Nat
      /\ Outstanding \in Seq(SenderMessages) /\ Outstanding = sender.unacknowledged
  BY DEF IInv, SenderSound, TypeOK, Senders, Outstanding
<1>2. CASE Outstanding = << >>
  BY <1>1, <1>2 DEF OutstandingTiles, Tiles
<1>3. CASE Outstanding # << >>
  <2> DEFINE m == Outstanding[1]
  <2>1. Len(Outstanding) \in Nat /\ Len(Outstanding) # 0 /\ 1 \in 1 .. Len(Outstanding)
    BY <1>1, <1>3, EmptySeq
  <2>2. m \in SenderMessages
    BY <1>1, <2>1
  <2>3. SequenceLength(m) \in Nat /\ TrueSeqno(m) \in Nat
    BY <2>2, MessageNumbers
  <2>4. /\ SequenceLength(m) > 0
        /\ TrueSeqno(m) + SequenceLength(m) <= sender.next_seqno
        /\ sender.in_flight = sender.next_seqno - TrueSeqno(m)
    BY <1>1, <2>1 DEF OutstandingTiles, Tiles
  <2> HIDE DEF m
  <2>5. sender.in_flight > 0
    BY ONLY <1>1, <2>3, <2>4
  <2> QED BY <1>3, <2>5
<1> QED BY <1>2, <1>3

LEMMA NextSYNRemembered ==
    ASSUME IInv, SYNRemembered, [Next]_vars
    PROVE  SYNRemembered'
<1> USE DEF SYNRemembered, Outstanding
<1>1. /\ sender \in Senders /\ SenderSound(sender)
      /\ sender.unacknowledged \in Seq(SenderMessages)
      /\ sender.first_ack \in BOOLEAN /\ sender.established \in BOOLEAN
  BY DEF IInv, TypeOK, Senders
<1> DEFINE Same == /\ sender'.first_ack = sender.first_ack
                   /\ sender'.established = sender.established
                   /\ sender'.unacknowledged = sender.unacknowledged
<1>2. Same => SYNRemembered'
  OBVIOUS
<1>3. ASSUME NEW n \in Writes, Write(n) PROVE Same
  BY <1>1, <1>3 DEF Write, Senders
<1>4. CASE CloseWriter
  BY <1>1, <1>2, <1>4 DEF CloseWriter, Senders
<1>5. CASE Fail
  BY <1>1, <1>2, <1>5 DEF Fail, Senders
<1>6. CASE CallPush
  BY <1>1, <1>2, <1>6 DEF CallPush, PushCall, Senders
<1>7. CASE RoundOfPush
  <2> DEFINE m == NextSegment(sender)
  <2>1. /\ sender' = PushRound(sender)
        /\ m \in SenderMessages /\ SequenceLength(m) \in Nat
        /\ m.SYN \in BOOLEAN /\ m.FIN \in BOOLEAN /\ m.size \in Nat
        /\ m.SYN <=> ~sender.first_ack
        /\ SequenceLength(m) = Flag(m.SYN) + m.size + Flag(m.FIN)
    BY <1>1, <1>7, NextSegmentIs DEF RoundOfPush
  <2>2. /\ sender'.established = sender.established
        /\ sender'.unacknowledged = IF SequenceLength(m) = 0 THEN sender.unacknowledged
                                    ELSE Append(sender.unacknowledged, m)
    BY <1>1, <2>1, PushRoundFields DEF Senders
  <2>3. ~sender.first_ack => sender.unacknowledged = << >> /\ SequenceLength(m) # 0
    <3>1. ~sender.first_ack => sender.unacknowledged = << >>
      BY <1>1 DEF SenderSound, NumbersSent
    <3>2. /\ m.SYN => Flag(m.SYN) = 1
          /\ Flag(m.FIN) \in Nat
      BY <2>1, FlagIsBit DEF Flag
    <3>3. ASSUME m.SYN PROVE SequenceLength(m) # 0
      <4> DEFINE len == SequenceLength(m)
                 syn == Flag(m.SYN)
                 fin == Flag(m.FIN)
                 n   == m.size
      <4>1. len = syn + n + fin /\ syn = 1 /\ n \in Nat /\ fin \in Nat
        BY <2>1, <3>2, <3>3
      <4> HIDE DEF len, syn, fin, n
      <4>2. len # 0
        BY ONLY <4>1
      <4> QED BY <4>2 DEF len
    <3> QED BY <2>1, <3>1, <3>3
  <2>4. CASE sender.first_ack
    <3>1. sender.unacknowledged # << >> =>
            /\ Append(sender.unacknowledged, m) # << >>
            /\ Head(Append(sender.unacknowledged, m)) = Head(sender.unacknowledged)
      BY <1>1, <2>1, AppendProperties, EmptySeq
    <3> HIDE DEF m
    <3> QED BY <2>2, <2>4, <3>1
  <2>5. CASE ~sender.first_ack
    <3>1. /\ sender'.unacknowledged = Append(<< >>, m)
      BY <2>2, <2>3, <2>5
    <3>2. Append(<< >>, m) # << >> /\ Head(Append(<< >>, m)) = m
      BY <2>1
    <3> QED BY <2>1, <2>5, <3>1, <3>2
  <2> QED BY <1>1, <2>4, <2>5
<1>8. ASSUME NEW m \in Replies, CallReceive(m) PROVE Same
  BY <1>1, <1>8 DEF CallReceive, ReceiveCall, Senders
<1>9. CASE RoundOfReceive
  <2>1. sender' = AckRound(sender)
    BY <1>9 DEF RoundOfReceive
  <2>2. CASE FrontAcked(sender)
    <3>1. /\ sender'.first_ack = sender.first_ack
          /\ sender'.established = (sender.established \/ Head(sender.unacknowledged).SYN)
      BY <1>1, <2>1, <2>2 DEF AckRound, Senders
    <3> QED BY <3>1
  <2>3. CASE ~FrontAcked(sender)
    BY <1>1, <1>2, <2>1, <2>3 DEF AckRound, Senders
  <2> QED BY <2>2, <2>3
<1>10. ASSUME NEW ms \in Elapses, CallTick(ms) PROVE Same
  BY <1>1, <1>10 DEF CallTick, Tick, Senders
<1>11. CASE UNCHANGED vars
  BY <1>2, <1>11 DEF vars
<1> HIDE DEF Same
<1> QED BY <1>2, <1>3, <1>4, <1>5, <1>6, <1>7, <1>8, <1>9, <1>10, <1>11 DEF Next

LEMMA NextProbeReady ==
    ASSUME IInv, IInv', SYNRemembered, ProbeReady, [Next]_vars
    PROVE  ProbeReady'
<1>1. /\ sender \in Senders /\ SenderSound(sender)
      /\ sender.in_flight \in Nat /\ sender.established \in BOOLEAN
      /\ sender.unacknowledged \in Seq(SenderMessages)
  BY DEF IInv, TypeOK, Senders
<1>2. ASSUME sender'.pc # "pushing" PROVE ProbeReady'
  BY <1>2 DEF ProbeReady
<1>3. ASSUME NEW n \in Writes, Write(n) PROVE sender'.pc # "pushing"
  BY <1>1, <1>3 DEF Write, Idle, Senders
<1>4. CASE CloseWriter
  BY <1>1, <1>2, <1>4 DEF CloseWriter, Idle, Senders
<1>5. CASE Fail
  BY <1>1, <1>2, <1>5 DEF Fail, Idle, Senders
<1>6. CASE CallPush
  <2>1. /\ sender'.curr_size = IF /\ sender.window_size = 0 /\ sender.in_flight = 0
                                  /\ sender.established
                               THEN 1 ELSE Lesser(MaxPayload, WindowRoom(sender))
        /\ sender'.first_ack = sender.first_ack
        /\ sender'.window_size = sender.window_size
        /\ sender'.in_flight = sender.in_flight
    BY <1>1, <1>6, PushCallFields DEF CallPush, SameNumbers
  <2>2. sender.first_ack /\ sender.in_flight = 0 => sender.established
    BY NothingInFlight DEF SYNRemembered
  <2> QED BY <2>1, <2>2 DEF ProbeReady
<1>7. CASE RoundOfPush
  <2> DEFINE len == SequenceLength(NextSegment(sender))
  <2>1. /\ sender'.in_flight = sender.in_flight + len
        /\ sender'.pc = IF len = 0 THEN "idle" ELSE "pushing"
        /\ len \in Nat
    BY <1>1, <1>7, PushRoundFields, NextSegmentIs DEF RoundOfPush
  <2> HIDE DEF len
  <2>2. sender'.pc = "pushing" => sender'.in_flight # 0
    BY ONLY <1>1, <2>1
  <2> QED BY <2>2 DEF ProbeReady
<1>8. ASSUME NEW m \in Replies, CallReceive(m) PROVE sender'.pc # "pushing"
  BY <1>1, <1>8 DEF CallReceive, ReceiveCall, Idle, Senders
<1>9. CASE RoundOfReceive
  BY <1>1, <1>2, <1>9 DEF RoundOfReceive, AckRound, Senders
<1>10. ASSUME NEW ms \in Elapses, CallTick(ms) PROVE sender'.pc # "pushing"
  BY <1>1, <1>10 DEF CallTick, Tick, Idle, Senders
<1>11. CASE UNCHANGED vars
  BY <1>11 DEF vars, ProbeReady
<1> QED BY <1>2, <1>3, <1>4, <1>5, <1>6, <1>7, <1>8, <1>9, <1>10, <1>11 DEF Next

(***************************************************************************)
(* When push() returns with bytes or a FIN unsent, the window is full, a   *)
(* window of zero counting as one (tcp_sender.cc:16-59), for a stream in   *)
(* which no byte is 0xFF: such a byte, alone in its view, stops push().    *)
(***************************************************************************)
THEOREM PushAlwaysFillsWindow == EOFBytes = {} => (Spec => PushFillsWindow)
<1> SUFFICES ASSUME EOFBytes = {} PROVE Spec => PushFillsWindow
  OBVIOUS
<1> DEFINE Step ==
        sender.pc = "pushing" /\ sender'.pc = "idle" =>
           \/ /\ sender'.stream.buffered = 0
              /\ sender'.stream.closed => sender'.FIN_sent
           \/ sender'.in_flight >= Greater(sender'.window_size, 1)
<1>1. ASSUME IInv, ProbeReady, RoundOfPush PROVE Step
  <2> SUFFICES ASSUME sender'.pc = "idle" PROVE Step
    OBVIOUS
  <2> DEFINE m == NextSegment(sender)
             len == SequenceLength(m)
  <2>1. /\ SenderSound(sender) /\ sender \in Senders /\ StreamInv(sender.stream)
        /\ sender.pc = "pushing" /\ sender' = PushRound(sender)
        /\ sender.window_size \in Nat /\ sender.in_flight \in Nat
        /\ sender.first_ack \in BOOLEAN /\ sender.FIN_sent \in BOOLEAN
        /\ sender.stream.closed \in BOOLEAN /\ sender.curr_size \in Nat
    BY <1>1 DEF IInv, RoundOfPush, TypeOK, Senders, SenderSound, ByteStreams
  <2>2. /\ len = 0 /\ sender'.in_flight = sender.in_flight + len
        /\ sender'.stream = IF m.size = 0 THEN sender.stream ELSE Pop(sender.stream, m.size)
        /\ sender'.FIN_sent = (sender.FIN_sent \/ m.FIN)
        /\ sender'.window_size = sender.window_size
    BY <2>1, PushRoundFields
  <2>3. /\ m.size \in Nat /\ m.SYN \in BOOLEAN /\ m.FIN \in BOOLEAN
        /\ m.SYN <=> ~sender.first_ack
        /\ len = Flag(m.SYN) + m.size + Flag(m.FIN)
        /\ Budget(sender) \in Nat
    BY <2>1, NextSegmentIs
  <2> HIDE DEF m, len
  <2>4. m.size = 0 /\ ~m.SYN /\ ~m.FIN
    <3>1. /\ m.SYN => Flag(m.SYN) = 1
          /\ m.FIN => Flag(m.FIN) = 1
          /\ Flag(m.SYN) \in Nat /\ Flag(m.FIN) \in Nat
      BY <2>3, FlagIsBit DEF Flag
    <3> QED BY <2>2, <2>3, <3>1
  <2>5. /\ sender'.in_flight = sender.in_flight /\ sender'.stream = sender.stream
        /\ sender'.FIN_sent = sender.FIN_sent
    BY <2>1, <2>2, <2>4
  <2>6. CASE Budget(sender) > 0
    <3>1. /\ NothingToSend(sender'.stream)
          /\ sender.stream.closed /\ ~sender.FIN_sent => m.FIN
      BY <2>1, <2>3, <2>4, <2>6, RoundTakesPayload DEF m
    <3>2. sender.stream.buffered = 0
      BY <2>1, <2>5, <3>1, NothingLeft
    <3> QED BY <2>4, <2>5, <3>1, <3>2
  <2>7. CASE Budget(sender) = 0
    <3>1. sender.first_ack
      BY <2>3, <2>4
    <3>2. WindowRoom(sender) = 0 /\ sender.curr_size = 0
      <4>1. /\ WindowRoom(sender) \in Nat
            /\ Budget(sender) = IF WindowRoom(sender) > 0
                                THEN Lesser(MaxPayload, WindowRoom(sender))
                                ELSE sender.curr_size
        BY <2>1, <3>1, BudgetBounds
      <4> QED BY <2>7, <4>1, PayloadAssumption DEF Lesser
    <3>3. sender.in_flight >= sender.window_size
      BY <2>1, <3>2 DEF WindowRoom
    <3>4. sender.window_size = 0 => sender.in_flight > 0
      BY <1>1, <2>1, <3>1, <3>2 DEF ProbeReady
    <3>5. sender.in_flight >= Greater(sender.window_size, 1)
      BY <2>1, <3>3, <3>4 DEF Greater
    <3> QED BY <2>2, <2>5, <3>5
  <2> QED BY <2>3, <2>6, <2>7
<1>2. ASSUME IInv, ~RoundOfPush, [Next]_vars PROVE Step
  <2>1. sender \in Senders
    BY <1>2 DEF IInv, TypeOK
  <2>2. sender.pc # "pushing" \/ sender'.pc = sender.pc
    BY <1>2 DEF Next, Write, CloseWriter, Fail, CallPush, CallReceive, RoundOfReceive, CallTick,
                Idle, vars
  <2> QED BY <2>2
<1>3. Init => SYNRemembered /\ ProbeReady
  BY DEF Init, SYNRemembered, ProbeReady, NewSender
<1>4. IInv /\ SYNRemembered /\ [Next]_vars => SYNRemembered'
  BY NextSYNRemembered
<1>5. IInv /\ IInv' /\ SYNRemembered /\ ProbeReady /\ [Next]_vars => ProbeReady'
  BY NextProbeReady
<1>6. IInv /\ ProbeReady /\ [Next]_vars => [Step]_vars
  BY <1>1, <1>2
<1> HIDE DEF Step
<1>7. Spec => [](SYNRemembered /\ ProbeReady)
  BY <1>3, <1>4, <1>5, Invariance, PTL DEF Spec
<1>8. Spec => [][Step]_vars
  BY <1>6, <1>7, Invariance, PTL DEF Spec
<1> QED BY <1>8 DEF PushFillsWindow, Step
=============================================================================
