-------------------------- MODULE TCPSenderSystem ---------------------------
(***************************************************************************)
(* One TCPSender driven by its environment: the application writes to the  *)
(* outbound stream, closes it or flags an error; push() and tick() are     *)
(* called at any time; and any message whatever may come from the peer's   *)
(* receiver: stale, reordered, duplicated or acknowledging what was never  *)
(* sent.                                                                   *)
(***************************************************************************)
EXTENDS TCPSender

CONSTANTS Capacity,     \* of the outbound stream
          ISN,          \* the initial sequence number
          InitialRTO,   \* the initial retransmission timeout
          Writes,       \* the sizes of the application's writes
          Windows,      \* the window sizes the peer may announce
          Elapses,      \* the times that pass between two calls of tick()
          MaxBytes,     \* bound on the bytes the application writes
          MaxRetx       \* bound on consecutive retransmissions

ASSUME CapacityAssumption == Capacity \in Nat
ASSUME ISNAssumption == ISN \in RawValues
ASSUME RTOAssumption == InitialRTO \in Nat \ {0}
ASSUME WritesAssumption == Writes \subseteq Nat
ASSUME WindowsAssumption == Windows \subseteq 0 .. MaxWindow
ASSUME ElapsesAssumption == Elapses \subseteq Nat
\* What may be in flight at once is less than half the sequence space.
ASSUME InFlightAssumption ==
    2 * MaxWindow < Modulus /\ 2 * (Capacity + 2) < Modulus

VARIABLES sender,   \* the TCPSender
          acked     \* history: the highest ackno accepted so far

vars == <<sender, acked>>

Init == sender = NewSender(Capacity, ISN, InitialRTO) /\ acked = 0

Idle == sender.pc = "idle"

\* The application, through sender.writer().
Write(n) == /\ Idle
            /\ sender.stream.pushed + n <= MaxBytes
            /\ sender' = [sender EXCEPT !.stream = Push(sender.stream, n)]
            /\ UNCHANGED acked

CloseWriter == /\ Idle
               /\ sender' = [sender EXCEPT !.stream = Close(sender.stream)]
               /\ UNCHANGED acked

Fail == /\ Idle
        /\ sender' = [sender EXCEPT !.stream = SetError(sender.stream)]
        /\ UNCHANGED acked

\* push(): the call and the rounds of its loop.
CallPush == Idle /\ sender' = PushCall(sender) /\ UNCHANGED acked

RoundOfPush == /\ sender.pc = "pushing"
               /\ sender' = PushRound(sender)
               /\ UNCHANGED acked

\* receive(): the call and the rounds of its loop.
CallReceive(m) ==
    /\ Idle
    /\ sender' = ReceiveCall(sender, m)
    /\ acked' = IF ~m.RST /\ Acknowledges(sender, m)
                THEN Greater(acked, AckNo(sender, m)) ELSE acked

RoundOfReceive == /\ sender.pc = "acking"
                  /\ sender' = AckRound(sender)
                  /\ UNCHANGED acked

CallTick(ms) == /\ Idle
                /\ sender.retransmissions < MaxRetx
                /\ sender' = Tick(sender, ms)
                /\ UNCHANGED acked

Replies == {m \in ReceiverMessages : m.window_size \in Windows}

Next ==
    \/ \E n \in Writes : Write(n)
    \/ CloseWriter
    \/ Fail
    \/ CallPush
    \/ RoundOfPush
    \/ \E m \in Replies : CallReceive(m)
    \/ RoundOfReceive
    \/ \E ms \in Elapses : CallTick(ms)

\* push() and receive(), once called, run to their end.
Fairness == WF_vars(RoundOfPush \/ RoundOfReceive)

Spec == Init /\ [][Next]_vars /\ Fairness
-----------------------------------------------------------------------------
Outstanding == sender.unacknowledged

TypeOK == sender \in Senders /\ acked \in Nat

(***************************************************************************)
(* The outstanding segments lie end to end from the oldest unacknowledged  *)
(* number to the next one to be sent, none empty, each with the seqno of   *)
(* what it carries, and sequence_numbers_in_flight_ counts exactly them    *)
(* (tcp_sender.cc:51-55, 86-96).                                           *)
(***************************************************************************)
OutstandingIsContiguous ==
    LET L == Len(Outstanding)
    IN  /\ \A i \in 1 .. L :
            /\ SequenceLength(Outstanding[i]) > 0
            /\ Outstanding[i].seqno = Wrap(TrueSeqno(Outstanding[i]), sender.isn)
            /\ TrueSeqno(Outstanding[i]) + SequenceLength(Outstanding[i])
                  = IF i = L THEN sender.next_seqno ELSE TrueSeqno(Outstanding[i + 1])
        /\ sender.in_flight = IF L = 0 THEN 0
                              ELSE sender.next_seqno - TrueSeqno(Outstanding[1])

(***************************************************************************)
(* The retransmission timer is at rest when nothing is outstanding: no     *)
(* time accumulated, no retransmission counted, the timeout not backed off *)
(* (tcp_sender.cc:86-102, 105-109).                                        *)
(***************************************************************************)
TimerAtRest ==
    Outstanding = << >> =>
        /\ sender.retransmissions = 0
        /\ sender.curr_RTO = sender.initial_RTO
        /\ sender.pc # "acking" => sender.last_tick = 0

(***************************************************************************)
(* A number stays outstanding until an acknowledgment covers its segment,  *)
(* whatever stale or bogus acknowledgments come: between calls the highest *)
(* ackno accepted lies in the oldest outstanding segment, or is all that   *)
(* was sent (tcp_sender.cc:81-99).                                         *)
(***************************************************************************)
NothingForgotten ==
    /\ acked <= sender.next_seqno
    /\ IF Outstanding = << >> THEN acked = sender.next_seqno
       ELSE /\ TrueSeqno(Outstanding[1]) <= acked
            /\ sender.pc # "acking" =>
                   acked < TrueSeqno(Outstanding[1]) + SequenceLength(Outstanding[1])

(***************************************************************************)
(* New numbers are sent only into the window the peer announced last: at   *)
(* most one beyond a window of zero, and the SYN with what it carries      *)
(* before any window is known (tcp_sender.cc:9-24, 43-48).                 *)
(***************************************************************************)
WindowRespected ==
    [][sender'.next_seqno > sender.next_seqno =>
           \/ sender'.in_flight <= sender.window_size
           \/ sender.window_size = 0 /\ sender.established /\ sender'.in_flight = 1
           \/ sender.next_seqno = 0 /\ sender.window_size = 0]_vars

(***************************************************************************)
(* push() sends all it may: when it returns with bytes or a FIN unsent,    *)
(* the window is full, a window of zero counting as one (tcp_sender.cc:    *)
(* 16-59).                                                                 *)
(***************************************************************************)
PushFillsWindow ==
    [][sender.pc = "pushing" /\ sender'.pc = "idle" =>
           \/ /\ sender'.stream.buffered = 0
              /\ sender'.stream.closed => sender'.FIN_sent
           \/ sender'.in_flight >= Greater(sender'.window_size, 1)]_vars

(***************************************************************************)
(* The FIN is the last number of the stream and comes after every byte     *)
(* (tcp_sender_message.hh:20: "If set, the payload represents the ending   *)
(* of the byte stream.").                                                  *)
(***************************************************************************)
FinEndsTheStream ==
    sender.FIN_sent => /\ sender.stream.closed
                       /\ sender.stream.buffered = 0
                       /\ sender.next_seqno = sender.stream.pushed + 2

\* push() and receive() return (the loops at tcp_sender.cc:15-59 and 86-99).
LoopsEnd == ~Idle ~> Idle
=============================================================================

