---------------------------- MODULE TCPMessages -----------------------------
(***************************************************************************)
(* The two halves of a TCP segment: util/tcp_sender_message.hh and         *)
(* util/tcp_receiver_message.hh.  A payload is a piece of the byte stream, *)
(* and a byte is named by its position in it: lo is the name of the first  *)
(* byte (of the next one to be sent if the payload is empty).  The code    *)
(* carries the bytes and not their names, so no operation may depend on lo.*)
(***************************************************************************)
EXTENDS Naturals, Wrap32

CONSTANTS NoAck,        \* the absent value of ackno
          MaxWindow     \* what window_size can express: 65535 in the code

ASSUME NoAckAssumption == NoAck \notin RawValues
ASSUME MaxWindowAssumption == MaxWindow \in Nat

SenderMessages == [seqno : RawValues, SYN : BOOLEAN, lo : Nat, size : Nat,
                   FIN : BOOLEAN, RST : BOOLEAN]

ReceiverMessages == [ackno : RawValues \union {NoAck}, window_size : 0 .. MaxWindow,
                     RST : BOOLEAN]

Flag(b) == IF b THEN 1 ELSE 0

\* How many sequence numbers a segment occupies.
SequenceLength(m) == Flag(m.SYN) + m.size + Flag(m.FIN)

(***************************************************************************)
(* Where a segment that occupies sequence numbers begins, as an absolute   *)
(* sequence number: what its seqno stands for.  Properties only.           *)
(***************************************************************************)
TrueSeqno(m) == IF m.SYN THEN 0 ELSE m.lo + 1
=============================================================================
