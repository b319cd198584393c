------------------------- MODULE ReassemblerSystem --------------------------
(***************************************************************************)
(* The Reassembler fed with substrings of one stream, in any order and any *)
(* number of times, while the reader of its output pops bytes.             *)
(***************************************************************************)
EXTENDS Reassembler

CONSTANTS Capacity,     \* the capacity of the output stream
          StreamLength  \* the number of bytes of the peer's stream

ASSUME LengthAssumption == StreamLength \in Nat /\ Capacity \in Nat \ {0}

VARIABLE reassembler

\* Byte i of the peer's stream is named i.
Bytes(first, n) == [i \in 1 .. n |-> first + i - 1]

Init == reassembler = NewReassembler(Capacity)

(***************************************************************************)
(* What TCPReceiver can pass to insert(): any part of the stream, as the   *)
(* last one if it reaches the end (the FIN may also come without it), or   *)
(* the empty payload of an acknowledgment the peer sends after its FIN,    *)
(* whose sequence number is one past the FIN (tcp_receiver.cc:20-23).      *)
(***************************************************************************)
Arrive(first, n, last) ==
    /\ \/ first + n < StreamLength /\ ~last
       \/ first + n = StreamLength
       \/ first = StreamLength + 1 /\ n = 0 /\ ~last
    /\ reassembler' = Insert(reassembler, first, Bytes(first, n), last)

Read(n) == reassembler' = PopOutput(reassembler, n)

Next ==
    \/ \E first \in 0 .. StreamLength + 1, n \in 0 .. StreamLength, last \in BOOLEAN :
           Arrive(first, n, last)
    \/ \E n \in 1 .. Capacity : Read(n)

Spec == Init /\ [][Next]_reassembler
-----------------------------------------------------------------------------
r == reassembler
L == Len(r.lists)

TypeOK ==
    /\ r.output \in ByteStreams
    /\ r.bytes_pending \in Nat /\ r.expecting \in Nat /\ r.terminate \in Nat
    /\ r.closed \in BOOLEAN /\ r.threw \in BOOLEAN
    /\ \A i \in 1 .. L : r.lists[i].first \in Nat

(***************************************************************************)
(* Whatever the order of arrival, the bytes written to the output are the  *)
(* first bytes of the peer's stream, each once (reassembler.cc:33-70).     *)
(***************************************************************************)
OutputIsPrefix ==
    /\ r.written = Bytes(0, Len(r.written))
    /\ Len(r.written) = r.expecting
    /\ r.output.pushed = r.expecting

(***************************************************************************)
(* What is held back is an ordered list of disjoint pieces of the stream,  *)
(* none of them ready to be written, none beyond what the output has room  *)
(* for, and bytes_pending counts their bytes (reassembler.cc:33-70; the    *)
(* bound is the promise of reassembler.hh:29-30).                          *)
(***************************************************************************)
HeldIsOrderly ==
    /\ \A i \in 1 .. L : /\ Size(r.lists[i]) > 0
                         /\ r.lists[i].data = Bytes(r.lists[i].first, Size(r.lists[i]))
                         /\ r.lists[i].first > r.expecting
                         /\ End(r.lists[i]) <= r.expecting + AvailableCapacity(r.output)
    /\ \A i \in 1 .. L - 1 : End(r.lists[i]) <= r.lists[i + 1].first
    /\ r.bytes_pending = TotalSize(r.lists)
    /\ r.bytes_pending + r.output.buffered <= Capacity

(***************************************************************************)
(* The output is closed exactly when the end is known and all of the       *)
(* stream has been written (reassembler.cc:15-18, 73-74).                  *)
(***************************************************************************)
ClosedExactlyAtEnd ==
    /\ r.output.closed => r.expecting = StreamLength
    /\ r.closed /\ r.expecting = StreamLength /\ ~r.threw => r.output.closed

(***************************************************************************)
(* What the list of substrings amounts to: the indexes of the bytes that   *)
(* it holds.  The list behaves as this set does.                           *)
(***************************************************************************)
IndexSetOf(s) ==
    [capacity |-> s.output.capacity,
     pushed   |-> s.output.pushed,
     popped   |-> s.output.popped,
     held     |-> UNION {{s.lists[i].data[j] : j \in 1 .. Size(s.lists[i])}
                         : i \in 1 .. Len(s.lists)},
     finSeen  |-> s.closed,
     end      |-> s.terminate,
     ended    |-> s.output.closed]

Abstract == INSTANCE ReassemblySpec WITH buf <- IndexSetOf(r)

ImplementsIndexSet == Abstract!Spec

(***************************************************************************)
(* insert() copes with whatever a peer's segments carry: it discards what  *)
(* it cannot store and never throws (reassembler.hh:29-30).                *)
(***************************************************************************)
InsertNeverThrows == ~r.threw
=============================================================================
