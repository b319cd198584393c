--------------------------- MODULE ReassemblySpec ---------------------------
(***************************************************************************)
(* The abstract reassembler as a specification: substrings of one stream   *)
(* of StreamLength bytes arrive in any order, any number of times, while a *)
(* reader takes what has been assembled.                                   *)
(***************************************************************************)
EXTENDS ReassemblyBuffer

CONSTANTS Capacity, StreamLength

VARIABLE buf

Init == buf = NewBuffer(Capacity)

(***************************************************************************)
(* A substring of the stream, flagged as the last one only if it is, or    *)
(* the empty one with which the peer acknowledges after its FIN, whose     *)
(* index is one past the end (tcp_receiver.cc:20-23).                      *)
(***************************************************************************)
Substrings ==
    {[first |-> f, size |-> n, last |-> l] :
         f \in 0 .. StreamLength, n \in 0 .. StreamLength, l \in BOOLEAN}

Genuine(sub) ==
    \/ sub.first + sub.size < StreamLength /\ ~sub.last
    \/ sub.first + sub.size = StreamLength

AckAfterFin == [first |-> StreamLength + 1, size |-> 0, last |-> FALSE]

Arrivals == {sub \in Substrings : Genuine(sub)} \union {AckAfterFin}

Arrive(sub) == buf' = Insert(buf, sub.first, sub.size, sub.last)

Read(n) == buf' = Take(buf, n)

Next == \/ \E sub \in Arrivals : Arrive(sub)
        \/ \E n \in 1 .. Capacity : Read(n)

Spec == Init /\ [][Next]_buf
=============================================================================
