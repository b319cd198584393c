---------------------------- MODULE TCPReceiver -----------------------------
(***************************************************************************)
(* The TCPReceiver of src/tcp_receiver.{hh,cc}: one value per object.  Its *)
(* Reassembler is the index set of ReassemblyBuffer, which ReassemblerSys- *)
(* tem shows to be what the list of substrings amounts to.                 *)
(***************************************************************************)
EXTENDS ReassemblyBuffer, TCPMessages, FiniteSets

\* isn = NoAck: isn_ has no value.  threw: insert() ended in an exception.
Receivers == [isn : RawValues \union {NoAck}, buf : Buffers,
              error : BOOLEAN, threw : BOOLEAN]

NewReceiver(capacity) ==
    [isn |-> NoAck, buf |-> NewBuffer(capacity), error |-> FALSE, threw |-> FALSE]

(***************************************************************************)
(* tcp_receiver.cc:11-17.  A segment that is not inserted: one that starts *)
(* at the ISN again, or any but a SYN before the ISN is known.             *)
(***************************************************************************)
Skips(r, m) == IF r.isn = NoAck THEN ~m.SYN ELSE m.seqno = r.isn

\* Wrong index, for the mutation checks: the SYN is not discounted.
StreamIndexWithSYN(r, m) ==
    Unwrap(m.seqno, IF r.isn = NoAck THEN m.seqno ELSE r.isn, r.buf.pushed + 1)

\* tcp_receiver.cc:18-21.  The index in the stream of the segment's first byte.
StreamIndex(r, m) ==
    LET isn == IF r.isn = NoAck THEN m.seqno ELSE r.isn
        abs == Unwrap(m.seqno, isn, r.buf.pushed + 1)
    IN  IF abs = 0 THEN 0 ELSE abs - 1

\* receive(message), tcp_receiver.cc:5-24.
ReceiveSegment(r, m) ==
    IF m.RST THEN [r EXCEPT !.error = TRUE]
    ELSE IF Skips(r, m) THEN r
    ELSE [r EXCEPT
            !.isn   = IF r.isn = NoAck THEN m.seqno ELSE r.isn,
            !.buf   = Insert(r.buf, StreamIndex(r, m), m.size, m.FIN),
            !.threw = InsertThrows(r.buf, StreamIndex(r, m), m.size, m.FIN)]

\* What send() acknowledges, as an absolute number (tcp_receiver.cc:29-31).
AbsoluteAckno(r) == r.buf.pushed + 1 + Flag(r.buf.ended)

\* Wrong reply, for the mutation checks: bytes that wait for others are acknowledged.
ReplyCountingHeld(r) ==
    [ackno |-> IF r.isn = NoAck THEN NoAck
               ELSE Wrap(AbsoluteAckno(r) + Cardinality(r.buf.held), r.isn),
     window_size |-> Smaller(Room(r.buf), MaxWindow),
     RST |-> r.error]

\* send(), tcp_receiver.cc:26-35.
Reply(r) ==
    [ackno |-> IF r.isn = NoAck THEN NoAck ELSE Wrap(AbsoluteAckno(r), r.isn),
     window_size |-> Smaller(Room(r.buf), MaxWindow),
     RST |-> r.error]
=============================================================================
