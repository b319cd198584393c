---------------------------- MODULE Reassembler -----------------------------
(***************************************************************************)
(* The Reassembler of src/reassembler.{hh,cc}: insert() with its sorted    *)
(* list of substrings.  A byte is whatever the caller passes in data; the  *)
(* output ByteStream only counts bytes, so the bytes written to it are     *)
(* kept in the field written.                                              *)
(***************************************************************************)
EXTENDS ByteStream

NewReassembler(cap) ==
    [output |-> NewByteStream(cap), lists |-> << >>, bytes_pending |-> 0,
     expecting |-> 0, terminate |-> 0, closed |-> FALSE,
     written |-> << >>, threw |-> FALSE]

Size(e) == Len(e.data)
End(e)  == e.first + Size(e)

\* The first of the entries found in l, or the end of it.
FirstOf(found, l) ==
    IF found = {} THEN Len(l) + 1 ELSE CHOOSE i \in found : \A j \in found : i <= j

\* The first entry that ends after index, the first one that starts at it or later.
EndingAfter(l, index)  == FirstOf({i \in 1 .. Len(l) : index < End(l[i])}, l)
StartingFrom(l, index) == FirstOf({i \in 1 .. Len(l) : index <= l[i].first}, l)

\* How many bytes the entries hold, summed up one after the other.
TotalSize(l) ==
    LET sum[n \in 0 .. Len(l)] == IF n = 0 THEN 0 ELSE sum[n - 1] + Size(l[n])
    IN  sum[Len(l)]

\* Wrong merge, for the mutation checks: overlapped entries are kept as they are.
MergeKeepingOverlaps(r, first, data) ==
    LET left == EndingAfter(r.lists, first)
    IN  [r EXCEPT !.lists = SubSeq(r.lists, 1, left - 1)
                            \o <<[first |-> first, data |-> data]>>
                            \o SubSeq(r.lists, left, Len(r.lists)),
                  !.bytes_pending = r.bytes_pending + Len(data)]

\* Wrong merge, for the mutation checks: it drops overlapped entries whole.
MergeLosingOverlaps(r, first, data) ==
    LET left  == EndingAfter(r.lists, first)
        right == StartingFrom(r.lists, first + Len(data))
    IN  [r EXCEPT !.lists = SubSeq(r.lists, 1, left - 1)
                            \o <<[first |-> first, data |-> data]>>
                            \o SubSeq(r.lists, right, Len(r.lists)),
                  !.bytes_pending = r.bytes_pending + Len(data)
                            - TotalSize(SubSeq(r.lists, left, right - 1))]

\* Wrong merge, for the mutation checks: the new bytes are not counted as pending.
MergeUncounted(r, first, data) ==
    [MergeLosingOverlaps(r, first, data) EXCEPT !.bytes_pending = @ - Len(data)]

(***************************************************************************)
(* reassembler.cc:33-61.  The new substring absorbs what the entries it    *)
(* overlaps have before and after it, and replaces all of them.            *)
(***************************************************************************)
Merge(r, first, data) ==
    LET l      == r.lists
        left   == EndingAfter(l, first)
        right  == StartingFrom(l, first + Len(data))
        before == IF left <= Len(l) /\ first > l[left].first
                  THEN SubSeq(l[left].data, 1, first - l[left].first) ELSE << >>
        from   == first - Len(before)
        to     == first + Len(data)
        after  == IF right > 1 /\ to < End(l[right - 1])
                  THEN SubSeq(l[right - 1].data, to - l[right - 1].first + 1,
                              Size(l[right - 1]))
                  ELSE << >>
        whole  == [first |-> from, data |-> before \o data \o after]
    IN  [r EXCEPT !.lists = SubSeq(l, 1, left - 1)
                            \o (IF whole.data = << >> THEN << >> ELSE <<whole>>)
                            \o SubSeq(l, right, Len(l)),
                  !.bytes_pending = r.bytes_pending
                            - TotalSize(SubSeq(l, left, right - 1)) + Size(whole)]

\* One round of the loop at reassembler.cc:64-70, on the front of the list.
WriteFront(r) ==
    LET e   == Head(r.lists)
        out == Push(r.output, Size(e))
    IN  [r EXCEPT !.bytes_pending = r.bytes_pending - Size(e),
                  !.expecting = r.expecting + Size(e),
                  !.written = r.written
                              \o SubSeq(e.data, 1, out.pushed - r.output.pushed),
                  !.output = out,
                  !.lists = Tail(r.lists)]

\* Wrong condition, for the mutation checks: whatever is held is written out.
HoldsAny(r) == r.lists # << >>

\* The loop goes on as long as the front is the next byte expected.
FrontIsDue(r) == r.lists # << >> /\ Head(r.lists).first = r.expecting

\* The loop, which has a round for each entry at most.
WriteIfDue(r) == IF FrontIsDue(r) THEN WriteFront(r) ELSE r

WriteOut(r) ==
    LET after[n \in 0 .. Len(r.lists)] ==
            IF n = 0 THEN r ELSE WriteIfDue(after[n - 1])
    IN  after[Len(r.lists)]

\* Wrong ending, for the mutation checks: the output is closed on seeing the FIN.
CloseOnFin(r) == IF r.closed THEN [r EXCEPT !.output = Close(r.output)] ELSE r

\* reassembler.cc:73-74.
CloseAtEnd(r) ==
    IF r.closed /\ r.expecting >= r.terminate
    THEN [r EXCEPT !.output = Close(r.output)] ELSE r

(***************************************************************************)
(* insert(first_index, data, is_last_substring).  When the substring       *)
(* starts beyond the end of the stream, the length given to data.resize()  *)
(* is negative, so as a size_t it is huge: std::length_error is thrown,    *)
(* with is_closed_ and terminate_index_ already updated.                   *)
(***************************************************************************)
Insert(r, first_index, data0, is_last) ==
    LET avail   == AvailableCapacity(r.output)
        known   == IF is_last
                   THEN [r EXCEPT !.closed = TRUE,
                                  !.terminate = first_index + Len(data0)]
                   ELSE r
        limit   == IF known.closed THEN Lesser(known.terminate, r.expecting + avail)
                   ELSE r.expecting + avail
        stale   == IF first_index < r.expecting THEN r.expecting - first_index ELSE 0
        first   == first_index + stale
        data    == SubSeq(data0, stale + 1, Len(data0))
        excess  == first + Len(data) >= limit
    IN  IF \/ IsFinished(r.output)
           \/ avail = 0
           \/ first_index >= r.expecting + avail
        THEN r
        ELSE IF excess /\ limit < first
        THEN [known EXCEPT !.threw = TRUE]
        ELSE CloseAtEnd(WriteOut(Merge(known, first,
                 IF excess THEN SubSeq(data, 1, limit - first) ELSE data)))

\* The reader of the output stream pops n bytes.
PopOutput(r, n) == [r EXCEPT !.output = Pop(r.output, n)]
=============================================================================
