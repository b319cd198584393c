-------------------------- MODULE ByteStreamProofs --------------------------
(***************************************************************************)
(* The invariants of ByteStreamSystem, for every capacity, every bound and *)
(* every set of request sizes.                                             *)
(***************************************************************************)
EXTENDS ByteStreamSystem, ByteStreamLemmas

(***************************************************************************)
(* The inductive invariant: the stream is consistent, and while read() is  *)
(* running, what it appended to out and what left the stream agree.        *)
(***************************************************************************)
IInv == TypeOK /\ StreamConsistent /\ ReadIsExact

LEMMA InitIInv == Init => IInv
<1> SUFFICES ASSUME Init PROVE IInv
  OBVIOUS
<1>1. StreamInv(NewByteStream(Capacity))
  BY CapacityAssumption, NewStreamInv
<1>2. StreamInv(stream)
  BY <1>1 DEF Init
<1>3. stream.capacity = Capacity
  BY DEF Init, NewByteStream
<1> QED BY <1>2, <1>3 DEF Init, IInv, TypeOK, StreamConsistent, ReadIsExact, StreamInv

LEMMA NextIInv == IInv /\ [Next]_vars => IInv'
<1> SUFFICES ASSUME IInv, [Next]_vars PROVE IInv'
  OBVIOUS
<1> USE SizesAssumption DEF IInv, StreamConsistent
<1>1. ASSUME NEW n \in Sizes, WriterPush(n) PROVE IInv'
  <2>1. n \in Nat /\ StreamInv(stream') /\ stream'.capacity = Capacity
    BY <1>1, PushInv DEF WriterPush
  <2> QED BY <1>1, <2>1 DEF WriterPush, TypeOK, ReadIsExact, StreamInv
<1>2. ASSUME NEW n \in Sizes, ReaderPop(n) PROVE IInv'
  <2>1. n \in Nat /\ StreamInv(stream') /\ stream'.capacity = Capacity
    BY <1>2, PopInv DEF ReaderPop
  <2> QED BY <1>2, <2>1 DEF ReaderPop, TypeOK, ReadIsExact, StreamInv
<1>3. ASSUME NEW n \in Sizes, ReadCall(n) PROVE IInv'
  <2>1. n \in Nat /\ stream.popped \in Nat /\ stream.buffered \in Nat
    BY DEF TypeOK, ByteStreams
  <2> QED BY <1>3, <2>1
          DEF ReadCall, TypeOK, ReadIsExact, MoreToRead, Lesser
<1>4. ASSUME WriterClose PROVE IInv'
  <2>1. StreamInv(stream') /\ stream'.capacity = Capacity
    BY <1>4, CloseInv DEF WriterClose
  <2> QED BY <1>4, <2>1 DEF WriterClose, TypeOK, ReadIsExact, StreamInv
<1>5. ASSUME WriterError PROVE IInv'
  <2>1. StreamInv(stream') /\ stream'.capacity = Capacity
    BY <1>5, SetErrorInv DEF WriterError, SetError, StreamInv, ByteStreams
  <2> QED BY <1>5, <2>1 DEF WriterError, TypeOK, ReadIsExact, StreamInv
<1>6. ASSUME ReadStep PROVE IInv'
  <2> DEFINE took == Lesser(PeekSize(stream), want - got)
  <2>1. /\ pc = "loop" /\ stream.buffered > 0 /\ got < want
        /\ got \in Nat /\ want \in Nat /\ stream.popped \in Nat
        /\ stream.buffered \in Nat /\ stream.view \in Nat
        /\ start.popped \in Nat /\ start.buffered \in Nat
    BY <1>6 DEF ReadStep, MoreToRead, TypeOK, ByteStreams
  <2>2. /\ PeekSize(stream) > 0 /\ PeekFrom(stream) = stream.popped
        /\ PeekTo(stream) <= stream.pushed
    BY <2>1, PeekIsNextWhenConsistent DEF PeekIsNext
  <2>3. took \in Nat /\ took > 0 /\ took <= want - got /\ took <= stream.view
    BY <2>1, <2>2 DEF Lesser, PeekSize
  <2>4. took <= stream.buffered
    <3>1. /\ stream.chunks[1] <= stream.pushed
          /\ stream.chunks[1] = stream.popped + stream.view
          /\ stream.pushed = stream.popped + stream.buffered
      BY <2>1, <2>2 DEF PeekTo, PeekSize, StreamInv, ViewFollowsBuffer, Accounting
    <3> QED BY <2>1, <2>3, <3>1
  <2>5. /\ pc' = pc /\ got' = got + took /\ stream' = Pop(stream, took)
        /\ want' = want /\ start' = start
    BY <1>6, <2>2 DEF ReadStep
  <2> HIDE DEF took
  <2>6. /\ StreamInv(stream')
        /\ stream'.popped = stream.popped + took
        /\ stream'.buffered = stream.buffered - took
        /\ stream'.capacity = Capacity
    <3>1. Lesser(took, stream.buffered) = took
      BY <2>1, <2>3, <2>4 DEF Lesser
    <3> QED BY <2>3, <2>5, <3>1, PopInv
  <2>7. TypeOK'
    BY <2>1, <2>3, <2>5, <2>6 DEF TypeOK, StreamInv
  <2>8. ReadIsExact'
    <3>1. /\ stream.popped = start.popped + got
          /\ stream.buffered + got = start.buffered
      BY <2>1 DEF ReadIsExact
    <3>2. /\ stream'.popped = start.popped + got'
          /\ stream'.buffered + got' = start.buffered
          /\ got' <= want /\ got' \in Nat /\ stream'.buffered \in Nat
      BY <2>1, <2>3, <2>4, <2>5, <2>6, <3>1
    <3> HIDE DEF StreamConsistent
    <3> QED BY <2>1, <2>5, <3>2 DEF ReadIsExact, MoreToRead, Lesser
  <2> QED BY <2>6, <2>7, <2>8
<1>7. ASSUME ReadReturn PROVE IInv'
  BY <1>7 DEF ReadReturn, TypeOK, ReadIsExact
<1>8. ASSUME UNCHANGED vars PROVE IInv'
  BY <1>8 DEF vars, TypeOK, ReadIsExact, MoreToRead
<1> QED BY <1>1, <1>2, <1>3, <1>4, <1>5, <1>6, <1>7, <1>8 DEF Next

THEOREM Invariance == Spec => []IInv
BY InitIInv, NextIInv, PTL DEF Spec

(***************************************************************************)
(* Every field keeps its type: in particular no counter of the stream is   *)
(* ever decremented below zero (byte_stream.cc:64-80).                     *)
(***************************************************************************)
THEOREM TypeCorrect == Spec => []TypeOK
<1>1. IInv => TypeOK
  BY DEF IInv
<1> QED BY <1>1, Invariance, PTL

(***************************************************************************)
(* After any sequence of operations the counters, the chunks and the view  *)
(* agree with each other (byte_stream.cc:12-80).                           *)
(***************************************************************************)
THEOREM StreamAlwaysConsistent == Spec => []StreamConsistent
<1>1. IInv => StreamConsistent
  BY DEF IInv
<1> QED BY <1>1, Invariance, PTL

(***************************************************************************)
(* peek() shows the next bytes of the stream, and at least one of them,    *)
(* whenever any is buffered (byte_stream.cc:59-62).                        *)
(***************************************************************************)
THEOREM PeekAlwaysNext == Spec => []PeekShowsNextBytes
<1>1. IInv => PeekShowsNextBytes
  BY PeekIsNextWhenConsistent DEF IInv, StreamConsistent, PeekShowsNextBytes
<1> QED BY <1>1, Invariance, PTL

(***************************************************************************)
(* read() never throws and returns min(len, bytes_buffered()) bytes        *)
(* (byte_stream_helpers.cc:10-25).                                         *)
(***************************************************************************)
THEOREM ReadAlwaysExact == Spec => []ReadIsExact
<1>1. IInv => ReadIsExact
  BY DEF IInv
<1> QED BY <1>1, Invariance, PTL
-----------------------------------------------------------------------------
(***************************************************************************)
(* The refinement: every operation is a step of the bounded FIFO or leaves *)
(* everything the FIFO shows as it is.                                     *)
(***************************************************************************)
\* What the FIFO's front is mapped to.
shown == IF stream.buffered = 0 THEN 0 ELSE PeekTo(stream) - stream.popped

\* In a consistent stream the mapped front is within what is buffered.
LEMMA ShownBounds ==
    ASSUME NEW s, StreamInv(s)
    PROVE  LET f == IF s.buffered = 0 THEN 0 ELSE PeekTo(s) - s.popped
           IN  f \in 0 .. s.pushed - s.popped /\ (f = 0 <=> s.pushed = s.popped)
<1>1. /\ s.buffered \in Nat /\ s.pushed \in Nat /\ s.popped \in Nat /\ s.view \in Nat
      /\ s.pushed = s.popped + s.buffered
  BY DEF StreamInv, ByteStreams, Accounting
<1>2. s.buffered > 0 => /\ s.view > 0 /\ PeekTo(s) <= s.pushed
                        /\ PeekTo(s) = s.popped + s.view
  BY PeekIsNextWhenConsistent
     DEF PeekIsNext, PeekSize, PeekTo, StreamInv, ViewFollowsBuffer
<1> QED BY <1>1, <1>2

\* What is shown is what view_ shows.
LEMMA ShownIsView ==
    ASSUME NEW s, StreamInv(s), s.buffered > 0
    PROVE  PeekTo(s) - s.popped = s.view
<1>1. s.view > 0 /\ s.view \in Nat /\ s.popped \in Nat
  BY PeekIsNextWhenConsistent DEF PeekIsNext, PeekSize, StreamInv, ByteStreams
<1>2. PeekTo(s) = s.popped + s.view
  BY <1>1 DEF PeekTo, StreamInv, ViewFollowsBuffer
<1> QED BY <1>1, <1>2

\* pop(0) drops no chunk of a stream that buffers a byte (byte_stream.cc:70).
LEMMA PopNothing ==
    ASSUME NEW s, StreamInv(s), s.buffered > 0
    PROVE  Pop(s, 0).view = s.view
<1> DEFINE L == Len(s.chunks)
           k == DropCount(s, 0)
<1>1. s \in ByteStreams /\ s.view \in Nat /\ s.view > 0 /\ L \in Nat /\ L > 0
  BY PeekIsNextWhenConsistent
     DEF PeekIsNext, PeekSize, StreamInv, ByteStreams, ChunksEndToEnd
<1>2. k \in 0 .. L /\ \A i \in 1 .. L : i <= k <=> VisibleUpTo(s, i) <= 0
  BY DropCountExists DEF IsDropCount
<1>3. s.chunks[1] \in Nat /\ VisibleUpTo(s, 1) = s.view
  BY <1>1 DEF ByteStreams, VisibleUpTo
<1> HIDE DEF k, L
<1>4. k = 0
  <2>1. ~(1 <= k)
    BY <1>1, <1>2, <1>3
  <2> QED BY <1>1, <1>2, <2>1
<1>5. Lesser(0, s.buffered) = 0
  BY DEF Lesser, StreamInv, ByteStreams
<1>6. Pop(s, 0).view = IF k = L THEN 0 ELSE VisibleUpTo(s, k + 1) - 0
  BY <1>1, <1>5 DEF Pop, ByteStreams, k, L
<1> QED BY <1>1, <1>3, <1>4, <1>6

LEMMA InitRefines == Init => Fifo!Init
BY DEF Init, Fifo!Init, NewByteStream

LEMMA StepRefines == IInv /\ IInv' /\ [Next]_vars => [Fifo!Next]_(Fifo!vars)
<1> SUFFICES ASSUME IInv, IInv', [Next]_vars PROVE [Fifo!Next]_(Fifo!vars)
  OBVIOUS
<1> DEFINE s == stream
           t == stream'
<1>1. /\ StreamInv(s) /\ s.capacity = Capacity /\ StreamInv(t)
      /\ Capacity \in Nat
  BY CapacityAssumption DEF IInv, StreamConsistent
<1>2. /\ s \in ByteStreams /\ t \in ByteStreams /\ Accounting(s) /\ Accounting(t)
  BY <1>1 DEF StreamInv
<1>3. /\ s.pushed \in Nat /\ s.popped \in Nat /\ s.buffered \in Nat
      /\ t.pushed \in Nat /\ t.popped \in Nat /\ t.buffered \in Nat
      /\ s.pushed = s.popped + s.buffered /\ t.pushed = t.popped + t.buffered
      /\ s.buffered <= Capacity
  BY <1>1, <1>2 DEF ByteStreams, Accounting
<1>4. /\ shown' \in 0 .. t.pushed - t.popped
      /\ shown' = 0 <=> t.pushed = t.popped
  BY <1>1, ShownBounds DEF shown
<1>5. ASSUME stream' = stream PROVE UNCHANGED Fifo!vars
  BY <1>5 DEF Fifo!vars
<1>6. /\ s.buffered > 0 => shown = s.view
      /\ t.buffered > 0 => shown' = t.view
  BY <1>1, ShownIsView DEF shown
<1>7. ASSUME NEW n \in Nat, t = Pop(s, n) PROVE [Fifo!Next]_(Fifo!vars)
  <2>1. /\ t.popped = s.popped + Lesser(n, s.buffered) /\ t.pushed = s.pushed
        /\ t.closed = s.closed /\ t.buffered = s.buffered - Lesser(n, s.buffered)
    BY <1>1, <1>7, PopInv
  <2>2. t.error = s.error
    BY <1>2, <1>7 DEF Pop, ByteStreams
  <2>3. CASE Lesser(n, s.buffered) = 0
    <3>1. /\ t.buffered = s.buffered /\ t.popped = s.popped
      BY <1>3, <2>1, <2>3
    <3>2. CASE s.buffered = 0
      <4>1. shown' = shown
        BY <3>1, <3>2 DEF shown
      <4> QED BY <2>1, <2>2, <3>1, <4>1 DEF Fifo!vars, shown
    <3>3. CASE s.buffered > 0
      <4>1. n = 0
        BY <1>3, <2>3, <3>3 DEF Lesser
      <4>2. t.view = s.view
        BY <1>1, <1>7, <3>3, <4>1, PopNothing
      <4>3. shown' = shown
        BY <1>6, <3>1, <3>3, <4>2
      <4> QED BY <2>1, <2>2, <3>1, <4>3 DEF Fifo!vars, shown
    <3> QED BY <1>3, <3>2, <3>3
  <2>4. CASE Lesser(n, s.buffered) # 0
    <3>1. t.popped \in s.popped + 1 .. s.pushed
      BY <1>3, <2>1, <2>4 DEF Lesser
    <3>2. Fifo!FrontOK
      BY <1>4 DEF Fifo!FrontOK, shown
    <3> QED BY <2>1, <2>2, <3>1, <3>2 DEF Fifo!Next, Fifo!Take
  <2> QED BY <2>3, <2>4
<1>8. ASSUME NEW n \in Nat, t = Push(s, n) PROVE [Fifo!Next]_(Fifo!vars)
  <2> DEFINE took == Lesser(n, AvailableCapacity(s))
  <2>1. CASE s.closed \/ took = 0
    BY <1>5, <1>8, <2>1 DEF Push
  <2>2. CASE ~s.closed /\ took # 0
    <3>1. took \in 1 .. Capacity - s.buffered
      BY <1>1, <1>3, <2>2 DEF Lesser, AvailableCapacity
    <3>2. /\ t.pushed = s.pushed + took /\ t.popped = s.popped /\ t.closed = s.closed
      BY <1>1, <1>8, <2>2, PushInv
    <3>3. t.error = s.error /\ (s.view # 0 => t.view = s.view)
      BY <1>2, <1>8, <2>2 DEF Push, ByteStreams
    <3> HIDE DEF took
    <3>4. t.pushed \in s.pushed + 1 .. s.popped + Capacity /\ t.buffered > 0
      BY <1>1, <1>3, <3>1, <3>2
    <3>5. shown # 0 => shown' = shown
      <4>1. shown # 0 => s.buffered > 0
        BY <1>3 DEF shown
      <4> QED BY <1>6, <3>3, <3>4, <4>1
    <3>6. Fifo!FrontOK
      BY <1>4 DEF Fifo!FrontOK, shown
    <3> QED BY <2>2, <3>2, <3>3, <3>4, <3>5, <3>6 DEF Fifo!Next, Fifo!Write, shown
  <2> QED BY <2>1, <2>2
<1>9. CASE WriterClose
  <2>1. /\ t.popped = s.popped /\ t.pushed = s.pushed /\ t.closed = TRUE
        /\ t.buffered = s.buffered /\ t.error = s.error /\ t.view = s.view
    BY <1>2, <1>9 DEF WriterClose, Close, ByteStreams
  <2>2. shown' = shown
    BY <1>3, <1>6, <2>1 DEF shown
  <2> QED BY <2>1, <2>2 DEF Fifo!Next, Fifo!End, shown
<1>10. CASE WriterError
  <2>1. /\ t.popped = s.popped /\ t.pushed = s.pushed /\ t.closed = s.closed
        /\ t.buffered = s.buffered /\ t.error = TRUE /\ t.view = s.view
    BY <1>2, <1>10 DEF WriterError, SetError, ByteStreams
  <2>2. shown' = shown
    BY <1>3, <1>6, <2>1 DEF shown
  <2> QED BY <2>1, <2>2 DEF Fifo!Next, Fifo!Fail, shown
<1>11. ASSUME NEW n \in Sizes, WriterPush(n) \/ ReaderPop(n) \/ ReadCall(n)
       PROVE  [Fifo!Next]_(Fifo!vars)
  BY <1>5, <1>7, <1>8, <1>11, SizesAssumption DEF WriterPush, ReaderPop, ReadCall
<1>12. CASE ReadStep
  <2>1. CASE PeekSize(stream) = 0
    BY <1>5, <1>12, <2>1 DEF ReadStep
  <2>2. CASE PeekSize(stream) # 0
    <3>1. /\ t = Pop(s, Lesser(PeekSize(stream), want - got))
          /\ got < want
      BY <1>12, <2>2 DEF ReadStep, MoreToRead
    <3>2. Lesser(PeekSize(stream), want - got) \in Nat
      <4>1. stream \in ByteStreams /\ want \in Nat /\ got \in Nat
        BY DEF IInv, TypeOK
      <4>2. want - got \in Nat /\ stream.view \in Nat
        BY <3>1, <4>1 DEF ByteStreams
      <4> QED BY <4>2 DEF Lesser, PeekSize
    <3> QED BY <1>7, <3>1, <3>2
  <2> QED BY <2>1, <2>2
<1>13. CASE ReadReturn
  BY <1>5, <1>13 DEF ReadReturn
<1>14. CASE UNCHANGED vars
  BY <1>5, <1>14 DEF vars
<1> QED BY <1>9, <1>10, <1>11, <1>12, <1>13, <1>14 DEF Next

(***************************************************************************)
(* A ByteStream of any capacity, used in any way, is a bounded FIFO.       *)
(***************************************************************************)
THEOREM Refinement == Spec => ImplementsFifo
BY InitRefines, StepRefines, Invariance, PTL DEF Spec, ImplementsFifo, Fifo!Spec
=============================================================================
