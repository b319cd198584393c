----------------------------- MODULE ByteStream -----------------------------
(***************************************************************************)
(* The flow-controlled byte stream of src/byte_stream.{hh,cc}: one value   *)
(* per ByteStream object, one operator per Writer and Reader operation.    *)
(*                                                                         *)
(* A byte is named by its position in the stream (0 is the first byte ever *)
(* pushed), so a chunk of buffer_ is represented by the position after its *)
(* last byte, and the string_view view_, always a suffix of the front      *)
(* chunk, by the number of bytes it still shows.  The one-byte "\377"      *)
(* chunk that close() enqueues carries no stream byte: it is the chunk     *)
(* that ends one past the last byte pushed.                                *)
(***************************************************************************)
EXTENDS Naturals, Sequences

\* The smaller of two numbers.
Lesser(a, b) == IF a <= b THEN a ELSE b

ByteStreams == [capacity : Nat, error : BOOLEAN, pushed : Nat, popped : Nat,
                buffered : Nat, closed : BOOLEAN, chunks : Seq(Nat), view : Nat]

\* A stream that has just been constructed.
NewByteStream(cap) ==
    [capacity |-> cap, error |-> FALSE, pushed |-> 0, popped |-> 0,
     buffered |-> 0, closed |-> FALSE, chunks |-> << >>, view |-> 0]

AvailableCapacity(s) == s.capacity - s.buffered

IsFinished(s) == s.closed /\ s.buffered = 0

SetError(s) == [s EXCEPT !.error = TRUE]

(***************************************************************************)
(* What peek() returns, as the interval from PeekFrom to PeekTo (PeekTo is *)
(* excluded): the bytes of the front chunk that view_ still shows.         *)
(***************************************************************************)
PeekSize(s) == s.view
PeekTo(s)   == IF s.view = 0 THEN s.popped ELSE s.chunks[1]
PeekFrom(s) == IF s.view = 0 THEN s.popped ELSE s.chunks[1] - s.view

\* Wrong push, for the mutation checks: it accepts more than fits.
PushBeyondCapacity(s, n) ==
    IF s.closed \/ n = 0 THEN s
    ELSE [s EXCEPT !.buffered = s.buffered + n,
                   !.pushed   = s.pushed + n,
                   !.chunks   = Append(s.chunks, s.pushed + n),
                   !.view     = IF s.view = 0 THEN n ELSE s.view]

\* Wrong push, for the mutation checks: it ignores that the stream is closed.
PushAfterClose(s, n) ==
    LET took == Lesser(n, AvailableCapacity(s))
    IN  IF took = 0 THEN s
        ELSE [s EXCEPT !.buffered = s.buffered + took,
                       !.pushed   = s.pushed + took,
                       !.chunks   = Append(s.chunks, s.pushed + took),
                       !.view     = IF s.view = 0 THEN took ELSE s.view]

(***************************************************************************)
(* push(data) with n = data.size(): what exceeds the available capacity is *)
(* cut off, and nothing happens when nothing is left or the stream is      *)
(* closed.  view_ is pointed at the front chunk only if it shows nothing;  *)
(* ViewFollowsBuffer, below, shows that buffer_ was then empty, so the     *)
(* front chunk is the one just added.                                      *)
(***************************************************************************)
Push(s, n) ==
    LET took == Lesser(n, AvailableCapacity(s))
    IN  IF s.closed \/ took = 0 THEN s
        ELSE [s EXCEPT !.buffered = s.buffered + took,
                       !.pushed   = s.pushed + took,
                       !.chunks   = Append(s.chunks, s.pushed + took),
                       !.view     = IF s.view = 0 THEN took ELSE s.view]

\* close(), which enqueues the end mark once and does not refresh view_.
Close(s) ==
    IF s.closed THEN s
    ELSE [s EXCEPT !.closed = TRUE, !.chunks = Append(s.chunks, s.pushed + 1)]

(***************************************************************************)
(* pop(len).  The loop drops the front chunk as long as what remains to be *)
(* removed covers the whole of its view, so it drops chunk i exactly when  *)
(* the bytes visible up to the end of chunk i are at most the request.     *)
(***************************************************************************)
VisibleUpTo(s, i) == s.view + s.chunks[i] - s.chunks[1]

\* Wrong loop, for the mutation checks: it keeps a chunk that is used up.
IsDropCountStrict(s, n, k) ==
    \A i \in 1 .. Len(s.chunks) : i <= k <=> VisibleUpTo(s, i) < n

IsDropCount(s, n, k) ==
    \A i \in 1 .. Len(s.chunks) : i <= k <=> VisibleUpTo(s, i) <= n

DropCount(s, n) == CHOOSE k \in 0 .. Len(s.chunks) : IsDropCount(s, n, k)

\* Wrong pop, for the mutation checks: len is not limited to what is buffered.
PopUnlimited(s, len) ==
    LET k == DropCount(s, len)
    IN  [s EXCEPT !.buffered = s.buffered - len,
                  !.popped   = s.popped + len,
                  !.chunks   = SubSeq(s.chunks, k + 1, Len(s.chunks)),
                  !.view     = IF k = Len(s.chunks) THEN 0
                               ELSE VisibleUpTo(s, k + 1) - len]

Pop(s, len) ==
    LET n == Lesser(len, s.buffered)
        k == DropCount(s, n)
    IN  [s EXCEPT !.buffered = s.buffered - n,
                  !.popped   = s.popped + n,
                  !.chunks   = SubSeq(s.chunks, k + 1, Len(s.chunks)),
                  !.view     = IF k = Len(s.chunks) THEN 0
                               ELSE VisibleUpTo(s, k + 1) - n]
-----------------------------------------------------------------------------
(***************************************************************************)
(* What every operation keeps true of a stream, the error flag aside.      *)
(***************************************************************************)

\* Every byte pushed is either popped or buffered, within the capacity.
Accounting(s) == s.pushed = s.popped + s.buffered /\ s.buffered <= s.capacity

(***************************************************************************)
(* The chunks lie end to end, none empty, up to the last byte pushed, and  *)
(* a closed stream still holding chunks has the end mark after them.       *)
(***************************************************************************)
ChunksEndToEnd(s) ==
    LET L == Len(s.chunks)
    IN  /\ \A i, j \in 1 .. L : i < j => s.chunks[i] < s.chunks[j]
        /\ s.buffered > 0 => L > 0
        /\ ~s.closed /\ L > 0 => s.chunks[L] = s.pushed
        /\ s.closed /\ L > 0 => s.chunks[L] = s.pushed + 1
        /\ s.closed /\ L > 1 => s.chunks[L - 1] = s.pushed

(***************************************************************************)
(* view_ is a suffix of the front chunk that starts at the first byte not  *)
(* popped, and it is empty only if buffer_ holds nothing but an end mark.  *)
(***************************************************************************)
ViewFollowsBuffer(s) ==
    /\ s.view > 0 => Len(s.chunks) > 0 /\ s.chunks[1] = s.popped + s.view
    /\ s.view = 0 => Len(s.chunks) = 0 \/ (s.closed /\ Len(s.chunks) = 1)
    /\ s.closed /\ Len(s.chunks) = 1 => s.buffered = 0

StreamInv(s) ==
    s \in ByteStreams /\ Accounting(s) /\ ChunksEndToEnd(s) /\ ViewFollowsBuffer(s)

(***************************************************************************)
(* peek() shows bytes that come next in the stream whenever any is         *)
(* buffered, and no end mark among them.                                   *)
(***************************************************************************)
PeekIsNext(s) ==
    s.buffered > 0 => /\ PeekSize(s) > 0
                      /\ PeekFrom(s) = s.popped
                      /\ PeekTo(s) <= s.pushed
=============================================================================
