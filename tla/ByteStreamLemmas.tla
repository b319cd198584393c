-------------------------- MODULE ByteStreamLemmas --------------------------
(***************************************************************************)
(* Every ByteStream operation keeps StreamInv, whatever the capacity, the  *)
(* sizes and the history of the stream, and StreamInv is why peek() shows  *)
(* the next bytes.                                                         *)
(***************************************************************************)
EXTENDS ByteStream, SequenceTheorems, WellFoundedInduction, TLAPS

\* A set of numbers that is not empty has a smallest element.
LEMMA SmallestElement ==
    ASSUME NEW U, U \subseteq Nat, U # {}
    PROVE  \E m \in U : \A x \in U : m <= x
<1> DEFINE R == OpToRel(<, Nat)
<1>1. \E m \in U : \A x \in U : ~ (<<x, m>> \in R)
  <2> HIDE DEF R
  <2> QED BY NatLessThanWellFounded, WFMin DEF R
<1>2. \A x, m \in Nat : <<x, m>> \in R <=> x < m
  BY DEF OpToRel
<1> HIDE DEF R
<1>3. PICK m \in U : \A x \in U : ~ (<<x, m>> \in R)
  BY <1>1
<1>4. ASSUME NEW x \in U PROVE m <= x
  <2>1. x \in Nat /\ m \in Nat /\ ~ (<<x, m>> \in R)
    BY <1>3
  <2>2. ~ (x < m)
    BY <1>2, <2>1
  <2> QED BY <2>1, <2>2
<1> QED BY <1>4

(***************************************************************************)
(* Induction over the rounds of a loop or the entries of a list: what      *)
(* holds at the start, and after a round if it held before, always holds.  *)
(***************************************************************************)
LEMMA RoundByRound ==
    ASSUME NEW N \in Nat, NEW S, 0 \in S,
           \A k \in 1 .. N : k - 1 \in S => k \in S
    PROVE  \A k \in 0 .. N : k \in S
<1> DEFINE Missing == {k \in 0 .. N : k \notin S}
<1>1. SUFFICES ASSUME Missing # {} PROVE FALSE
  OBVIOUS
<1>2. PICK m \in Missing : \A x \in Missing : m <= x
  <2>1. Missing \subseteq Nat  OBVIOUS
  <2> HIDE DEF Missing
  <2> QED  BY <1>1, <2>1, SmallestElement
<1>3. m \in 1 .. N
  BY <1>2
<1>4. m - 1 \in 0 .. N /\ m - 1 \notin Missing
  BY <1>2, <1>3
<1> QED  BY <1>2, <1>3, <1>4

\* A stream that has just been constructed is consistent (byte_stream.cc:5).
LEMMA NewStreamInv ==
    ASSUME NEW cap \in Nat
    PROVE  StreamInv(NewByteStream(cap))
BY DEF NewByteStream, StreamInv, ByteStreams, Accounting, ChunksEndToEnd,
       ViewFollowsBuffer

(***************************************************************************)
(* In a consistent stream, whenever a byte is buffered, peek() is not      *)
(* empty and shows the bytes that come next, without the end mark          *)
(* (byte_stream.cc:59-62).                                                 *)
(***************************************************************************)
LEMMA PeekIsNextWhenConsistent ==
    ASSUME NEW s, StreamInv(s)
    PROVE  PeekIsNext(s)
<1> SUFFICES ASSUME s.buffered > 0
             PROVE  PeekSize(s) > 0 /\ PeekFrom(s) = s.popped /\ PeekTo(s) <= s.pushed
  BY DEF PeekIsNext
<1> DEFINE L == Len(s.chunks)
<1>1. s.chunks \in Seq(Nat) /\ s.view \in Nat /\ s.pushed \in Nat /\ s.popped \in Nat
  BY DEF StreamInv, ByteStreams
<1>2. L \in Nat /\ L > 0 /\ s.chunks[1] \in Nat
  BY <1>1 DEF StreamInv, ChunksEndToEnd
<1>3. s.view > 0
  BY <1>1, <1>2 DEF StreamInv, ChunksEndToEnd, ViewFollowsBuffer
<1>4. s.chunks[1] = s.popped + s.view
  BY <1>1, <1>3 DEF StreamInv, ViewFollowsBuffer
<1>5. s.chunks[1] <= s.pushed
  <2>1. CASE L = 1
    <3>1. ~s.closed
      BY <2>1 DEF StreamInv, ViewFollowsBuffer
    <3> QED BY <1>1, <1>2, <2>1, <3>1 DEF StreamInv, ChunksEndToEnd
  <2>2. CASE L > 1
    <3>1. s.chunks[1] < s.chunks[L] /\ s.chunks[L] \in Nat
      BY <1>1, <1>2, <2>2 DEF StreamInv, ChunksEndToEnd
    <3>2. s.chunks[L] = IF s.closed THEN s.pushed + 1 ELSE s.pushed
      BY <1>2 DEF StreamInv, ByteStreams, ChunksEndToEnd
    <3> QED BY <1>1, <1>2, <3>1, <3>2
  <2> HIDE DEF L
  <2> QED BY <1>2, <2>1, <2>2
<1> QED BY <1>1, <1>3, <1>4, <1>5 DEF PeekSize, PeekFrom, PeekTo

\* set_error() leaves the stream consistent (byte_stream.hh:22).
LEMMA SetErrorInv ==
    ASSUME NEW s, StreamInv(s)
    PROVE  StreamInv(SetError(s))
BY DEF SetError, StreamInv, ByteStreams, Accounting, ChunksEndToEnd,
       ViewFollowsBuffer

(***************************************************************************)
(* push() keeps the stream consistent and accepts min(n, available)        *)
(* bytes unless the stream is closed (byte_stream.cc:12-29).               *)
(***************************************************************************)
LEMMA PushInv ==
    ASSUME NEW s, StreamInv(s), NEW n \in Nat
    PROVE  /\ StreamInv(Push(s, n))
           /\ Push(s, n).popped = s.popped
           /\ Push(s, n).closed = s.closed
           /\ Push(s, n).capacity = s.capacity
           /\ Push(s, n).pushed =
                  IF s.closed THEN s.pushed
                  ELSE s.pushed + Lesser(n, AvailableCapacity(s))
<1> DEFINE took == Lesser(n, AvailableCapacity(s))
           t == Push(s, n)
           L == Len(s.chunks)
<1>1. took \in Nat /\ took <= s.capacity - s.buffered
  BY DEF StreamInv, ByteStreams, Accounting, Lesser, AvailableCapacity
<1>2. CASE s.closed \/ took = 0
  BY <1>1, <1>2 DEF Push, StreamInv, ByteStreams
<1>3. CASE ~s.closed /\ took > 0
  <2>1. /\ t = [s EXCEPT !.buffered = s.buffered + took,
                         !.pushed   = s.pushed + took,
                         !.chunks   = Append(s.chunks, s.pushed + took),
                         !.view     = IF s.view = 0 THEN took ELSE s.view]
    BY <1>1, <1>3 DEF Push
  <2> HIDE DEF took
  <2>2. s \in ByteStreams /\ Accounting(s) /\ ChunksEndToEnd(s) /\ ViewFollowsBuffer(s)
    BY DEF StreamInv
  <2>3. /\ t.buffered = s.buffered + took /\ t.pushed = s.pushed + took
        /\ t.popped = s.popped /\ t.closed = s.closed /\ t.capacity = s.capacity
        /\ t.chunks = Append(s.chunks, s.pushed + took)
        /\ t.view = IF s.view = 0 THEN took ELSE s.view
    BY <2>1, <2>2 DEF ByteStreams
  <2>4. t \in ByteStreams
    <3>1. Append(s.chunks, s.pushed + took) \in Seq(Nat)
      BY <1>1, <2>2 DEF ByteStreams
    <3>2. /\ s.pushed + took \in Nat /\ s.buffered + took \in Nat
          /\ (IF s.view = 0 THEN took ELSE s.view) \in Nat
      BY <1>1, <2>2 DEF ByteStreams
    <3> QED BY <2>1, <2>2, <3>1, <3>2 DEF ByteStreams
  <2> HIDE DEF t
  <2>5. Accounting(t)
    BY <1>1, <2>2, <2>3 DEF Accounting, ByteStreams
  <2>6. /\ L \in Nat /\ Len(t.chunks) = L + 1 /\ t.chunks[L + 1] = s.pushed + took
        /\ \A i \in 1 .. L : t.chunks[i] = s.chunks[i] /\ s.chunks[i] \in Nat
    BY <2>2, <2>3 DEF ByteStreams
  <2>7. \A i \in 1 .. L : s.chunks[i] <= s.pushed
    <3> SUFFICES ASSUME NEW i \in 1 .. L PROVE s.chunks[i] <= s.pushed
      OBVIOUS
    <3>1. L \in 1 .. L /\ i \in Nat /\ i <= L /\ s.chunks[i] \in Nat
      BY ONLY <2>6, i \in 1 .. L
    <3>2. i < L => s.chunks[i] < s.chunks[L]
      BY ONLY <2>2, <3>1 DEF ChunksEndToEnd
    <3>3. s.chunks[L] = s.pushed
      BY ONLY <1>3, <2>2, <2>6, <3>1 DEF ChunksEndToEnd
    <3> QED BY <2>6, <3>1, <3>2, <3>3
  <2>8. ChunksEndToEnd(t)
    <3>1. \A i, j \in 1 .. L + 1 : i < j => t.chunks[i] < t.chunks[j]
      <4> SUFFICES ASSUME NEW i \in 1 .. L + 1, NEW j \in 1 .. L + 1, i < j
                   PROVE  t.chunks[i] < t.chunks[j]
        OBVIOUS
      <4>1. CASE j \in 1 .. L
        BY <2>2, <2>6, <4>1 DEF ChunksEndToEnd
      <4>2. CASE j = L + 1
        <5>1. i \in 1 .. L /\ s.pushed \in Nat
          BY <2>2, <2>6, <4>2 DEF ByteStreams
        <5>2. t.chunks[i] <= s.pushed /\ t.chunks[i] \in Nat
          BY <2>6, <2>7, <5>1
        <5> QED BY <1>1, <1>3, <2>6, <4>2, <5>1, <5>2
      <4> QED BY <2>6, <4>1, <4>2
    <3> QED BY <1>3, <2>3, <2>6, <3>1 DEF ChunksEndToEnd
  <2>9. ViewFollowsBuffer(t)
    <3>1. CASE s.view = 0
      <4>1. L = 0 /\ s.buffered = 0
        BY <1>3, <2>2, <2>6, <3>1 DEF ViewFollowsBuffer, ChunksEndToEnd, ByteStreams
      <4> QED BY <1>1, <1>3, <2>2, <2>3, <2>6, <3>1, <4>1
              DEF ViewFollowsBuffer, Accounting, ByteStreams
    <3>2. CASE s.view > 0
      BY <1>3, <2>2, <2>3, <2>6, <3>2 DEF ViewFollowsBuffer, ByteStreams
    <3> QED BY <2>2, <3>1, <3>2 DEF ByteStreams
  <2>10. StreamInv(t)
    BY <2>4, <2>5, <2>8, <2>9 DEF StreamInv
  <2> QED BY <1>3, <2>3, <2>10 DEF t, took
<1> QED BY <1>1, <1>2, <1>3

(***************************************************************************)
(* close() keeps the stream consistent: the end mark lies after the last   *)
(* byte (byte_stream.cc:31-37).                                            *)
(***************************************************************************)
LEMMA CloseInv ==
    ASSUME NEW s, StreamInv(s)
    PROVE  /\ StreamInv(Close(s))
           /\ Close(s).popped = s.popped
           /\ Close(s).pushed = s.pushed
           /\ Close(s).closed = TRUE
           /\ Close(s).capacity = s.capacity
<1> DEFINE t == Close(s)
           L == Len(s.chunks)
<1>1. CASE s.closed
  BY <1>1 DEF Close, StreamInv, ByteStreams
<1>2. CASE ~s.closed
  <2>1. t = [s EXCEPT !.closed = TRUE, !.chunks = Append(s.chunks, s.pushed + 1)]
    BY <1>2 DEF Close
  <2>2. s \in ByteStreams /\ Accounting(s) /\ ChunksEndToEnd(s) /\ ViewFollowsBuffer(s)
    BY DEF StreamInv
  <2>3. /\ t.buffered = s.buffered /\ t.pushed = s.pushed /\ t.popped = s.popped
        /\ t.closed = TRUE /\ t.capacity = s.capacity /\ t.view = s.view
        /\ t.chunks = Append(s.chunks, s.pushed + 1)
    BY <2>1, <2>2 DEF ByteStreams
  <2>4. t \in ByteStreams
    <3>1. Append(s.chunks, s.pushed + 1) \in Seq(Nat)
      BY <2>2 DEF ByteStreams
    <3> QED BY <2>1, <2>2, <3>1 DEF ByteStreams
  <2> HIDE DEF t
  <2>5. Accounting(t)
    BY <2>2, <2>3 DEF Accounting
  <2>6. /\ L \in Nat /\ Len(t.chunks) = L + 1 /\ t.chunks[L + 1] = s.pushed + 1
        /\ \A i \in 1 .. L : t.chunks[i] = s.chunks[i] /\ s.chunks[i] \in Nat
        /\ s.pushed \in Nat /\ s.buffered \in Nat /\ s.view \in Nat
    BY <2>2, <2>3 DEF ByteStreams
  <2>7. \A i \in 1 .. L : s.chunks[i] <= s.pushed
    BY <1>2, <2>2, <2>6 DEF ChunksEndToEnd
  <2>8. ChunksEndToEnd(t)
    <3>1. \A i, j \in 1 .. L + 1 : i < j => t.chunks[i] < t.chunks[j]
      <4> SUFFICES ASSUME NEW i \in 1 .. L + 1, NEW j \in 1 .. L + 1, i < j
                   PROVE  t.chunks[i] < t.chunks[j]
        OBVIOUS
      <4>1. CASE j \in 1 .. L
        <5>1. i \in 1 .. L
          BY <2>6, <4>1
        <5>2. s.chunks[i] < s.chunks[j]
          BY <2>2, <4>1, <5>1 DEF ChunksEndToEnd
        <5> QED BY <2>6, <4>1, <5>1, <5>2
      <4>2. CASE j = L + 1
        <5>1. i \in 1 .. L
          BY <2>6, <4>2
        <5>2. t.chunks[i] <= s.pushed /\ t.chunks[i] \in Nat
          BY <2>6, <2>7, <5>1
        <5> QED BY <2>6, <4>2, <5>1, <5>2
      <4> QED BY <2>6, <4>1, <4>2
    <3>2. L > 0 => t.chunks[L] = s.pushed
      BY <1>2, <2>2, <2>6 DEF ChunksEndToEnd
    <3> QED BY <2>3, <2>6, <3>1, <3>2 DEF ChunksEndToEnd
  <2>9. ViewFollowsBuffer(t)
    <3>1. L = 0 => s.buffered = 0 /\ s.view = 0
      BY <1>2, <2>2, <2>6 DEF ViewFollowsBuffer, ChunksEndToEnd
    <3>2. s.view = 0 => L = 0
      BY <1>2, <2>2 DEF ViewFollowsBuffer
    <3>3. s.view > 0 => L > 0 /\ s.chunks[1] = s.popped + s.view
      BY <2>2 DEF ViewFollowsBuffer
    <3> QED BY <2>3, <2>6, <3>1, <3>2, <3>3 DEF ViewFollowsBuffer
  <2> QED BY <2>3, <2>4, <2>5, <2>8, <2>9 DEF StreamInv, t
<1> QED BY <1>1, <1>2 DEF StreamInv, ByteStreams

(***************************************************************************)
(* The loop of pop() drops a well-defined number of chunks: the chunks     *)
(* that the request uses up come before those it does not.                 *)
(***************************************************************************)
LEMMA DropCountExists ==
    ASSUME NEW s, StreamInv(s), NEW n \in Nat
    PROVE  DropCount(s, n) \in 0 .. Len(s.chunks) /\ IsDropCount(s, n, DropCount(s, n))
<1> DEFINE L == Len(s.chunks)
           V(i) == VisibleUpTo(s, i)
           U == {i \in 1 .. L : ~(V(i) <= n)}
<1>1. L \in Nat /\ \A i \in 1 .. L : V(i) \in Int
  BY DEF StreamInv, ByteStreams, VisibleUpTo
<1>2. \A i, j \in 1 .. L : i < j => V(i) < V(j)
  <2> SUFFICES ASSUME NEW i \in 1 .. L, NEW j \in 1 .. L, i < j
               PROVE  V(i) < V(j)
    OBVIOUS
  <2>1. /\ s.chunks[i] \in Nat /\ s.chunks[j] \in Nat /\ s.chunks[1] \in Nat
        /\ s.view \in Nat
    BY <1>1, SMTT(30) DEF StreamInv, ByteStreams
  <2>2. s.chunks[i] < s.chunks[j]
    BY DEF StreamInv, ChunksEndToEnd
  <2> QED BY <2>1, <2>2 DEF VisibleUpTo
<1> HIDE DEF V
<1>3. \E k \in 0 .. L : \A i \in 1 .. L : i <= k <=> V(i) <= n
  <2>1. CASE U = {}
    <3>1. \A i \in 1 .. L : V(i) <= n
      BY <2>1
    <3>2. L \in 0 .. L /\ \A i \in 1 .. L : i <= L
      BY <1>1
    <3> QED BY <3>1, <3>2
  <2>2. CASE U # {}
    <3>1. U \subseteq Nat
      BY <1>1
    <3>2. PICK m \in U : \A x \in U : m <= x
      BY <2>2, <3>1, SmallestElement
    <3>3. m \in 1 .. L /\ ~(V(m) <= n) /\ V(m) \in Int
      BY <1>1, <3>2
    <3>4. ASSUME NEW i \in 1 .. L PROVE i <= m - 1 <=> V(i) <= n
      <4>1. CASE i < m
        BY <1>1, <3>2, <3>3, <4>1
      <4>2. CASE i = m
        BY <1>1, <3>3, <4>2
      <4>3. CASE m < i
        <5>1. V(m) < V(i) /\ V(i) \in Int
          BY <1>1, <1>2, <3>3, <4>3
        <5> QED BY <1>1, <3>3, <4>3, <5>1
      <4> QED BY <1>1, <3>3, <4>1, <4>2, <4>3
    <3>5. m - 1 \in 0 .. L
      BY <1>1, <3>3
    <3> QED BY <3>4, <3>5
  <2> QED BY <2>1, <2>2
<1>4. \E k \in 0 .. Len(s.chunks) : IsDropCount(s, n, k)
  BY <1>3 DEF IsDropCount, V
<1> QED BY <1>4 DEF DropCount

(***************************************************************************)
(* pop() keeps the stream consistent and removes min(len, buffered) bytes  *)
(* (byte_stream.cc:64-80).                                                 *)
(***************************************************************************)
LEMMA PopInv ==
    ASSUME NEW s, StreamInv(s), NEW len \in Nat
    PROVE  /\ StreamInv(Pop(s, len))
           /\ Pop(s, len).popped = s.popped + Lesser(len, s.buffered)
           /\ Pop(s, len).buffered = s.buffered - Lesser(len, s.buffered)
           /\ Pop(s, len).pushed = s.pushed
           /\ Pop(s, len).closed = s.closed
           /\ Pop(s, len).capacity = s.capacity
<1> DEFINE n == Lesser(len, s.buffered)
           L == Len(s.chunks)
           k == DropCount(s, n)
           t == Pop(s, len)
<1>1. s \in ByteStreams /\ Accounting(s) /\ ChunksEndToEnd(s) /\ ViewFollowsBuffer(s)
  BY DEF StreamInv
<1>2. /\ n \in Nat /\ n <= s.buffered /\ L \in Nat
      /\ s.view \in Nat /\ s.pushed \in Nat /\ s.popped \in Nat
      /\ s.buffered \in Nat /\ s.closed \in BOOLEAN
  BY <1>1 DEF ByteStreams, Lesser
<1> HIDE DEF n
<1>3. k \in 0 .. L /\ IsDropCount(s, n, k)
  BY <1>2, DropCountExists
<1> HIDE DEF k
<1>4. /\ t = [s EXCEPT !.buffered = s.buffered - n,
                       !.popped   = s.popped + n,
                       !.chunks   = SubSeq(s.chunks, k + 1, L),
                       !.view     = IF k = L THEN 0 ELSE VisibleUpTo(s, k + 1) - n]
  BY DEF Pop, n, k
<1>5. /\ t.buffered = s.buffered - n /\ t.popped = s.popped + n
      /\ t.pushed = s.pushed /\ t.closed = s.closed /\ t.capacity = s.capacity
      /\ t.chunks = SubSeq(s.chunks, k + 1, L)
      /\ t.view = IF k = L THEN 0 ELSE VisibleUpTo(s, k + 1) - n
      /\ t.error = s.error
  BY <1>1, <1>4 DEF ByteStreams
<1>6. /\ t.chunks \in Seq(Nat) /\ Len(t.chunks) = L - k
      /\ \A i \in 1 .. L - k : t.chunks[i] = s.chunks[k + i]
      /\ \A i \in 1 .. L : s.chunks[i] \in Nat
  <2>1. \A i \in 1 .. L : s.chunks[i] \in Nat
    BY <1>1 DEF ByteStreams
  <2>2. \A i \in k + 1 .. L : s.chunks[i] \in Nat
    BY <1>2, <1>3, <2>1
  <2>3. k + 1 \in Int /\ L \in Int
    BY <1>2, <1>3
  <2>4. /\ t.chunks \in Seq(Nat)
        /\ Len(t.chunks) = IF k + 1 <= L THEN L - (k + 1) + 1 ELSE 0
        /\ \A i \in 1 .. L - (k + 1) + 1 : t.chunks[i] = s.chunks[(k + 1) + i - 1]
    <3> HIDE DEF L
    <3> QED BY ONLY <1>5, <2>2, <2>3, SubSeqProperties
  <2>5. L - (k + 1) + 1 = L - k /\ (~(k + 1 <= L) => L - k = 0)
    BY <1>2, <1>3
  <2>6. \A i \in 1 .. L - k : (k + 1) + i - 1 = k + i
    BY <1>2, <1>3
  <2> HIDE DEF L, t
  <2> QED BY <2>1, <2>4, <2>5, <2>6
<1>7. /\ \A i, j \in 1 .. L : i < j => s.chunks[i] < s.chunks[j]
      /\ s.buffered > 0 => L > 0
      /\ L > 0 => s.chunks[L] = IF s.closed THEN s.pushed + 1 ELSE s.pushed
      /\ s.closed /\ L > 1 => s.chunks[L - 1] = s.pushed
      /\ s.pushed = s.popped + s.buffered
  BY <1>1, <1>2 DEF ChunksEndToEnd, Accounting
<1>8. /\ s.view > 0 => L > 0 /\ s.chunks[1] = s.popped + s.view
      /\ s.view = 0 => L = 0 \/ (s.closed /\ L = 1)
      /\ s.closed /\ L = 1 => s.buffered = 0
  BY <1>1 DEF ViewFollowsBuffer
<1>9. \A i \in 1 .. L : /\ i <= k <=> VisibleUpTo(s, i) <= n
                        /\ VisibleUpTo(s, i) = s.view + s.chunks[i] - s.chunks[1]
  BY <1>3 DEF IsDropCount, VisibleUpTo
<1> HIDE DEF L, t
<1>10. s.view = 0 => k = L /\ n = s.buffered
  <2>1. s.view = 0 => s.buffered = 0
    BY <1>2, <1>7, <1>8
  <2>2. CASE L = 0
    BY <1>2, <1>3, <2>1, <2>2
  <2>3. CASE L = 1
    BY <1>2, <1>3, <1>6, <1>9, <2>1, <2>3
  <2> QED BY <1>2, <1>8, <2>1, <2>2, <2>3
<1>11. k < L => s.view > 0 /\ t.view > 0 /\ t.popped + t.view = s.chunks[k + 1]
  <2> SUFFICES ASSUME k < L
               PROVE  s.view > 0 /\ t.view > 0 /\ t.popped + t.view = s.chunks[k + 1]
    OBVIOUS
  <2>1. s.view > 0 /\ k + 1 \in 1 .. L /\ k # L /\ ~(k + 1 <= k)
    BY <1>2, <1>3, <1>10
  <2>2. ~(VisibleUpTo(s, k + 1) <= n) /\ s.chunks[k + 1] \in Nat /\ s.chunks[1] \in Nat
    <3>1. s.chunks[k + 1] \in Nat /\ s.chunks[1] \in Nat
      BY <1>2, <1>6, <1>8, <2>1
    <3>2. k + 1 <= k <=> VisibleUpTo(s, k + 1) <= n
      BY <1>9, <2>1
    <3> QED BY <2>1, <3>1, <3>2
  <2>3. VisibleUpTo(s, k + 1) = s.chunks[k + 1] - s.popped
    BY <1>2, <1>8, <1>9, <2>1, <2>2
  <2> QED BY <1>2, <1>5, <2>1, <2>2, <2>3
<1>12. s.view > 0 /\ k > 0 => s.chunks[k] - s.popped <= n
  <2> SUFFICES ASSUME s.view > 0, k > 0 PROVE s.chunks[k] - s.popped <= n
    OBVIOUS
  <2>1. k \in 1 .. L /\ 1 \in 1 .. L
    BY <1>2, <1>3
  <2>2. s.chunks[k] \in Nat /\ s.chunks[1] \in Nat /\ VisibleUpTo(s, k) <= n
    BY <1>3, <1>6, <1>9, <2>1
  <2> QED BY <1>2, <1>8, <1>9, <2>1, <2>2
<1>13. k = L => n = s.buffered
  <2> SUFFICES ASSUME k = L PROVE n = s.buffered
    OBVIOUS
  <2>1. CASE s.view = 0
    BY <1>10, <2>1
  <2>2. CASE s.view > 0
    <3>1. L > 0 /\ s.chunks[L] - s.popped <= n /\ s.chunks[L] \in Nat
      BY <1>2, <1>3, <1>6, <1>8, <1>12, <2>2
    <3> QED BY <1>2, <1>7, <3>1
  <2> QED BY <1>2, <2>1, <2>2
<1>14. s.closed /\ L - k = 1 => n = s.buffered
  <2> SUFFICES ASSUME s.closed, L - k = 1 PROVE n = s.buffered
    OBVIOUS
  <2>1. CASE k = 0
    BY <1>2, <1>8, <2>1
  <2>2. CASE k > 0
    <3>1. k = L - 1 /\ L > 1 /\ s.view > 0 /\ k < L
      BY <1>2, <1>3, <1>11, <2>2
    <3> QED BY <1>2, <1>7, <1>12, <3>1
  <2> QED BY <1>3, <2>1, <2>2
<1>15. t \in ByteStreams
  <2>1. t.view \in Nat /\ t.buffered \in Nat /\ t.popped \in Nat
    <3>1. t.buffered \in Nat /\ t.popped \in Nat
      BY <1>2, <1>5
    <3>2. CASE k = L
      BY <1>5, <3>1, <3>2
    <3>3. CASE k < L
      <4>1. s.view > 0 /\ k + 1 \in 1 .. L /\ k # L
        BY <1>2, <1>3, <1>11, <3>3
      <4>2. s.chunks[k + 1] \in Nat /\ s.chunks[1] \in Nat
        BY <1>6, <1>8, <4>1, <1>2
      <4>3. t.view = s.view + s.chunks[k + 1] - s.chunks[1] - n
        <5>1. VisibleUpTo(s, k + 1) = s.view + s.chunks[k + 1] - s.chunks[1]
          BY <1>9, <4>1
        <5>2. t.view = VisibleUpTo(s, k + 1) - n
          BY <1>5, <4>1
        <5> QED BY <1>2, <4>2, <5>1, <5>2
      <4>4. t.view \in Int /\ t.view > 0
        BY <1>2, <1>11, <3>3, <4>2, <4>3
      <4> QED BY <3>1, <4>4
    <3> QED BY <1>2, <1>3, <3>1, <3>2, <3>3
  <2> QED BY <1>1, <1>4, <1>5, <1>6, <2>1 DEF ByteStreams
<1>16. Accounting(t)
  BY <1>1, <1>2, <1>5 DEF Accounting, ByteStreams
<1>17. ChunksEndToEnd(t)
  <2>1. \A i, j \in 1 .. L - k : i < j => t.chunks[i] < t.chunks[j]
    <3> SUFFICES ASSUME NEW i \in 1 .. L - k, NEW j \in 1 .. L - k, i < j
                 PROVE  t.chunks[i] < t.chunks[j]
      OBVIOUS
    <3>1. k + i \in 1 .. L /\ k + j \in 1 .. L /\ k + i < k + j
      BY <1>2, <1>3
    <3> QED BY <1>6, <1>7, <3>1
  <2>2. t.buffered > 0 => L - k > 0
    BY <1>2, <1>3, <1>5, <1>13
  <2>3. L - k > 0 => t.chunks[L - k] = s.chunks[L]
    <3> SUFFICES ASSUME L - k > 0 PROVE t.chunks[L - k] = s.chunks[L]
      OBVIOUS
    <3>1. L - k \in 1 .. L - k /\ k + (L - k) = L
      BY <1>2, <1>3
    <3> QED BY <1>6, <3>1
  <2>4. L - k > 1 => t.chunks[L - k - 1] = s.chunks[L - 1]
    <3> SUFFICES ASSUME L - k > 1 PROVE t.chunks[L - k - 1] = s.chunks[L - 1]
      OBVIOUS
    <3>1. L - k - 1 \in 1 .. L - k /\ k + (L - k - 1) = L - 1
      BY <1>2, <1>3
    <3> QED BY <1>6, <3>1
  <2>5. L - k > 0 => L > 0
    BY <1>2, <1>3
  <2>6. L - k > 1 => L > 1
    BY <1>2, <1>3
  <2> QED BY <1>5, <1>6, <1>7, <2>1, <2>2, <2>3, <2>4, <2>5, <2>6 DEF ChunksEndToEnd
<1>18. ViewFollowsBuffer(t)
  <2>1. k < L => L - k > 0 /\ t.chunks[1] = s.chunks[k + 1]
    BY <1>2, <1>3, <1>6
  <2>2. t.view > 0 => k < L
    BY <1>2, <1>3, <1>5
  <2>3. t.view = 0 => L - k = 0
    BY <1>2, <1>3, <1>11
  <2>4. s.closed /\ L - k = 1 => t.buffered = 0
    BY <1>2, <1>5, <1>14
  <2> QED BY <1>2, <1>5, <1>6, <1>11, <2>1, <2>2, <2>3, <2>4 DEF ViewFollowsBuffer
<1> QED BY <1>5, <1>15, <1>16, <1>17, <1>18 DEF StreamInv, n, t
=============================================================================
