-------------------------- MODULE TCPSenderLemmas ---------------------------
(***************************************************************************)
(* What wrap() and unwrap() compute, for every even number of raw values,  *)
(* and what a round of push() takes from the outbound stream, for every    *)
(* stream that is consistent and every budget.                             *)
(***************************************************************************)
EXTENDS TCPSender, ByteStreamLemmas, TLAPS

LEMMA Distribution ==
    ASSUME NEW a \in Int, NEW b \in Int, NEW c \in Int
    PROVE  a * (b + c) = a * b + a * c
OBVIOUS

\* Quotient and remainder.
LEMMA Division ==
    ASSUME NEW a \in Int
    PROVE  /\ a \div Modulus \in Int
           /\ a % Modulus \in RawValues
           /\ a = Modulus * (a \div Modulus) + (a % Modulus)
BY ModulusAssumption DEF RawValues

\* A remainder is known from any quotient.
LEMMA Remainder ==
    ASSUME NEW a \in Int, NEW q \in Int, NEW r \in RawValues, a = Modulus * q + r
    PROVE  a % Modulus = r
BY ModulusAssumption DEF RawValues

\* Adding multiples of the modulus changes no remainder.
LEMMA SameRemainder ==
    ASSUME NEW a \in Int, NEW q \in Int
    PROVE  (a + Modulus * q) % Modulus = a % Modulus
<1> DEFINE p == a \div Modulus
           r == a % Modulus
<1>1. p \in Int /\ r \in RawValues /\ a = Modulus * p + r
  BY Division
<1> HIDE DEF p, r
<1>2. p + q \in Int /\ a + Modulus * q \in Int
  BY <1>1, ModulusAssumption
<1>3. a + Modulus * q = Modulus * (p + q) + r
  <2>1. Modulus * (p + q) = Modulus * p + Modulus * q
    BY <1>1, ModulusAssumption, Distribution
  <2>2. Modulus * p \in Int /\ Modulus * q \in Int
    BY <1>1, ModulusAssumption
  <2> QED BY <1>1, <2>1, <2>2 DEF RawValues
<1>4. (a + Modulus * q) % Modulus = r
  BY ONLY <1>1, <1>2, <1>3, Remainder
<1> QED BY <1>4 DEF r

\* The inner conversion to 32 bits is absorbed by the wrapping sum.
LEMMA WrapIsSum ==
    ASSUME NEW n \in Int, NEW zero \in Int
    PROVE  /\ Wrap(n, zero) = (zero + n) % Modulus
           /\ Wrap(n, zero) \in RawValues
<1> DEFINE q == n \div Modulus
           r == n % Modulus
<1>1. q \in Int /\ r \in Int /\ n = Modulus * q + r
  BY Division DEF RawValues
<1> HIDE DEF q, r
<1>2. zero + n = (zero + r) + Modulus * q
  BY <1>1, ModulusAssumption
<1>3. zero + r \in Int
  BY <1>1
<1>4. (zero + n) % Modulus = (zero + r) % Modulus
  BY ONLY <1>1, <1>2, <1>3, SameRemainder
<1>5. zero + n \in Int
  OBVIOUS
<1> QED BY <1>4, <1>5, Division DEF Wrap, r

\* Two numbers that wrap to the same raw value differ by a multiple of Modulus.
LEMMA SameWrap ==
    ASSUME NEW x \in Int, NEW y \in Int, NEW zero \in Int, Wrap(x, zero) = Wrap(y, zero)
    PROVE  \E d \in Int : x = y + Modulus * d
<1> DEFINE a == (zero + x) \div Modulus
           b == (zero + y) \div Modulus
           r == Wrap(y, zero)
<1>1. r \in RawValues /\ (zero + x) % Modulus = r /\ (zero + y) % Modulus = r
  BY WrapIsSum
<1>2. /\ a \in Int /\ zero + x = Modulus * a + ((zero + x) % Modulus)
      /\ b \in Int /\ zero + y = Modulus * b + ((zero + y) % Modulus)
  BY Division
<1>3. zero + x = Modulus * a + r /\ zero + y = Modulus * b + r
  BY ONLY <1>1, <1>2
<1> HIDE DEF a, b, r
<1>4. Modulus * a = Modulus * (b + (a - b))
  BY <1>2, ModulusAssumption
<1>5. Modulus * (b + (a - b)) = Modulus * b + Modulus * (a - b)
  BY <1>2, ModulusAssumption, Distribution
<1>6. /\ Modulus * a \in Int /\ Modulus * b \in Int /\ Modulus * (a - b) \in Int
      /\ a - b \in Int
  BY <1>2, ModulusAssumption
<1>7. x = y + Modulus * (a - b)
  BY <1>1, <1>3, <1>4, <1>5, <1>6 DEF RawValues
<1> QED BY <1>6, <1>7

\* A nonzero multiple of the modulus is at least the modulus away from zero.
LEMMA MultipleIsFar ==
    ASSUME NEW d \in Int
    PROVE  /\ Modulus * d \in Int
           /\ d >= 1 => Modulus * d >= Modulus
           /\ d <= -1 => Modulus * d <= -Modulus
           /\ d <= -2 => Modulus * d <= -(2 * Modulus)
           /\ d = 0 => Modulus * d = 0
           /\ d = -1 => Modulus * d = -Modulus
BY ModulusAssumption

\* How far the raw value is ahead of the checkpoint, as unwrap() computes it.
Offset(raw, zero, checkpoint) == (raw - Wrap(checkpoint, zero)) % Modulus

\* Moving ahead of the checkpoint by the offset reaches the raw value.
LEMMA OffsetReachesRaw ==
    ASSUME NEW raw \in RawValues, NEW zero \in RawValues, NEW checkpoint \in Nat
    PROVE  /\ Offset(raw, zero, checkpoint) \in RawValues
           /\ Wrap(checkpoint + Offset(raw, zero, checkpoint), zero) = raw
<1> DEFINE w == Wrap(checkpoint, zero)
           p == (zero + checkpoint) \div Modulus
           q == (raw - w) \div Modulus
           o == Offset(raw, zero, checkpoint)
<1>1. zero \in Int /\ checkpoint \in Int /\ raw \in Int /\ zero + checkpoint \in Int
  BY DEF RawValues
<1>2. w \in RawValues /\ w = (zero + checkpoint) % Modulus
  BY <1>1, WrapIsSum
<1>3. raw - w \in Int
  BY <1>1, <1>2 DEF RawValues
<1>4. p \in Int /\ zero + checkpoint = Modulus * p + w
  BY ONLY <1>1, <1>2, Division
<1>5. q \in Int /\ o \in RawValues /\ raw - w = Modulus * q + o
  BY ONLY <1>3, Division DEF Offset
<1> HIDE DEF w, p, q, o
<1>6. Modulus * p = Modulus * (q + (p - q))
  BY <1>4, <1>5, ModulusAssumption
<1>7. Modulus * (q + (p - q)) = Modulus * q + Modulus * (p - q)
  BY <1>4, <1>5, ModulusAssumption, Distribution
<1>8. Modulus * p \in Int /\ Modulus * q \in Int /\ Modulus * (p - q) \in Int /\ p - q \in Int
  BY <1>4, <1>5, ModulusAssumption
<1>9. zero + (checkpoint + o) = Modulus * (p - q) + raw
  <2> DEFINE A == Modulus * p
             B == Modulus * q
             C == Modulus * (p - q)
  <2>1. A \in Int /\ B \in Int /\ C \in Int /\ A = B + C
    BY <1>6, <1>7, <1>8
  <2>2. zero + checkpoint = A + w /\ raw - w = B + o
    BY <1>4, <1>5
  <2>3. w \in Int /\ o \in Int
    BY <1>2, <1>5 DEF RawValues
  <2> HIDE DEF A, B, C
  <2>4. zero + (checkpoint + o) = C + raw
    BY ONLY <1>1, <2>1, <2>2, <2>3
  <2> QED BY <2>4 DEF C
<1>10. checkpoint + o \in Int /\ zero + (checkpoint + o) \in Int
  BY <1>1, <1>5 DEF RawValues
<1>11. (zero + (checkpoint + o)) % Modulus = raw
  BY ONLY <1>8, <1>9, <1>10, Remainder, raw \in RawValues
<1>12. Wrap(checkpoint + o, zero) = (zero + (checkpoint + o)) % Modulus
  BY ONLY <1>1, <1>10, WrapIsSum
<1> QED BY <1>5, <1>11, <1>12 DEF o

(***************************************************************************)
(* unwrap() meets its specification: of the absolute sequence numbers that *)
(* wrap to the raw value it returns the one closest to the checkpoint,     *)
(* whatever the raw value, the zero point and the checkpoint               *)
(* (wrapping_integers.cc:12-20).                                           *)
(***************************************************************************)
THEOREM UnwrapIsNearest ==
    ASSUME NEW raw \in RawValues, NEW zero \in RawValues, NEW checkpoint \in Nat
    PROVE  IsNearest(Nat, Unwrap(raw, zero, checkpoint), raw, zero, checkpoint)
<1> DEFINE o == Offset(raw, zero, checkpoint)
           H == Modulus \div 2
           u == Unwrap(raw, zero, checkpoint)
<1>1. o \in RawValues /\ Wrap(checkpoint + o, zero) = raw
  BY OffsetReachesRaw
<1>2. /\ Modulus \in Nat /\ Modulus > 0 /\ H \in Int /\ Modulus = 2 * H
      /\ o \in Nat /\ o < Modulus
  BY <1>1, ModulusAssumption, EvenAssumption DEF RawValues
<1>3. u = IF o <= H \/ checkpoint + o < Modulus THEN checkpoint + o
          ELSE checkpoint + o - Modulus
  BY DEF Unwrap, Ahead, Offset
<1> HIDE DEF o, H, u
<1>4. u \in Nat
  BY <1>2, <1>3
<1>5. Wrap(u, zero) = raw
  <2>1. CASE u = checkpoint + o
    BY <1>1, <2>1
  <2>2. CASE u = checkpoint + o - Modulus
    <3>1. zero + u = (zero + (checkpoint + o)) + Modulus * (-1)
      BY <1>2, <2>2 DEF RawValues
    <3>2. zero + (checkpoint + o) \in Int /\ u \in Int /\ checkpoint + o \in Int /\ zero \in Int
      BY <1>2, <1>4 DEF RawValues
    <3>3. (zero + u) % Modulus = (zero + (checkpoint + o)) % Modulus
      BY ONLY <3>1, <3>2, SameRemainder, -1 \in Int
    <3>4. /\ Wrap(u, zero) = (zero + u) % Modulus
          /\ Wrap(checkpoint + o, zero) = (zero + (checkpoint + o)) % Modulus
      BY ONLY <3>2, WrapIsSum
    <3> QED BY <1>1, <3>3, <3>4
  <2> QED BY <1>3, <2>1, <2>2
<1>6. ASSUME NEW x \in Nat, Wrap(x, zero) = raw
      PROVE  Distance(u, checkpoint) <= Distance(x, checkpoint)
  <2>1. PICK d \in Int : x = (checkpoint + o) + Modulus * d
    <3>1. zero \in Int /\ x \in Int /\ checkpoint + o \in Int
      BY <1>2 DEF RawValues
    <3> QED BY ONLY <1>1, <1>6, <3>1, SameWrap
  <2> DEFINE m == Modulus * d
  <2>2. /\ m \in Int /\ x = checkpoint + o + m
        /\ \/ m = 0 \/ m >= Modulus \/ m = -Modulus \/ m <= -(2 * Modulus)
    <3>1. d >= 1 \/ d = 0 \/ d = -1 \/ d <= -2
      OBVIOUS
    <3> QED BY <2>1, <3>1, MultipleIsFar
  <2> HIDE DEF m
  <2> QED BY <1>2, <1>3, <2>2 DEF Distance
<1> QED BY <1>4, <1>5, <1>6 DEF IsNearest, u

\* MCWrap32, whatever its bound and its variables.
Numbers(bound, zero, raw, checkpoint) ==
    INSTANCE MCWrap32 WITH MaxCheckpoint <- bound, zero_point <- zero

(***************************************************************************)
(* unwrap() finds the nearest number however the checkpoint moves and      *)
(* whatever raw value is read (wrapping_integers.cc:12-20): the invariant  *)
(* of the run, for every modulus and every bound on the checkpoint.        *)
(***************************************************************************)
THEOREM UnwrapAlwaysFindsNearest ==
    ASSUME NEW CONSTANT bound \in Nat,
           NEW VARIABLE zero, NEW VARIABLE raw, NEW VARIABLE checkpoint
    PROVE  Numbers(bound, zero, raw, checkpoint)!Spec =>
               []Numbers(bound, zero, raw, checkpoint)!UnwrapFindsNearest
<1> DEFINE IInv == zero \in RawValues /\ raw \in RawValues /\ checkpoint \in Nat
           Moves == [Numbers(bound, zero, raw, checkpoint)!Advance]_
                        (Numbers(bound, zero, raw, checkpoint)!vars)
<1>1. Numbers(bound, zero, raw, checkpoint)!Init => IInv
  BY DEF Numbers!Init, Numbers!RawValues, RawValues
<1>2. IInv /\ Moves => IInv'
  BY DEF Numbers!Advance, Numbers!vars, Numbers!RawValues, RawValues
<1>3. IInv => Numbers(bound, zero, raw, checkpoint)!UnwrapFindsNearest
  <2> SUFFICES ASSUME IInv
               PROVE  Numbers(bound, zero, raw, checkpoint)!UnwrapFindsNearest
    OBVIOUS
  <2>1. IsNearest(Nat, Unwrap(raw, zero, checkpoint), raw, zero, checkpoint)
    BY UnwrapIsNearest
  <2>2. 0 .. bound + Modulus \subseteq Nat
    OBVIOUS
  <2>3. IsNearest(0 .. bound + Modulus, Unwrap(raw, zero, checkpoint), raw, zero, checkpoint)
    BY <2>1, <2>2 DEF IsNearest
  <2> QED
    BY <2>3 DEF Numbers!UnwrapFindsNearest, Numbers!IsNearest, Numbers!Unwrap, Numbers!Wrap,
                Numbers!Ahead, Numbers!Distance, IsNearest, Unwrap, Wrap, Ahead, Distance
<1> QED BY <1>1, <1>2, <1>3, PTL DEF Numbers!Spec

(***************************************************************************)
(* A sequence number survives the trip through 32 bits if it is less than  *)
(* half the range behind the receiving side's checkpoint, or at most half  *)
(* the range ahead of it.                                                  *)
(***************************************************************************)
THEOREM RoundTrip ==
    ASSUME NEW n \in Nat, NEW zero \in RawValues, NEW checkpoint \in Nat,
           n - checkpoint <= Modulus \div 2, checkpoint - n < Modulus \div 2
    PROVE  Unwrap(Wrap(n, zero), zero, checkpoint) = n
<1> DEFINE raw == Wrap(n, zero)
           o == Offset(raw, zero, checkpoint)
           H == Modulus \div 2
<1>1. zero \in Int /\ n \in Int
  BY DEF RawValues
<1>2. raw \in RawValues
  BY <1>1, WrapIsSum
<1>3. o \in RawValues /\ Wrap(checkpoint + o, zero) = raw
  BY <1>2, OffsetReachesRaw
<1>4. /\ Modulus \in Nat /\ Modulus > 0 /\ H \in Int /\ Modulus = 2 * H
      /\ o \in Nat /\ o < Modulus
  BY <1>3, ModulusAssumption, EvenAssumption DEF RawValues
<1>5. Unwrap(raw, zero, checkpoint) =
          IF o <= H \/ checkpoint + o < Modulus THEN checkpoint + o
          ELSE checkpoint + o - Modulus
  BY DEF Unwrap, Ahead, Offset
<1>6. n - checkpoint <= H /\ checkpoint - n < H
  OBVIOUS
<1> HIDE DEF raw, o, H
<1>7. PICK d \in Int : n = (checkpoint + o) + Modulus * d
  <2>1. checkpoint + o \in Int
    BY <1>4
  <2>2. Wrap(n, zero) = Wrap(checkpoint + o, zero)
    BY <1>3 DEF raw
  <2> QED BY ONLY <1>1, <2>1, <2>2, SameWrap
<1> DEFINE m == Modulus * d
<1>8. /\ m \in Int /\ n = checkpoint + o + m
      /\ \/ m = 0 \/ m >= Modulus \/ m = -Modulus \/ m <= -(2 * Modulus)
  <2>1. d >= 1 \/ d = 0 \/ d = -1 \/ d <= -2
    OBVIOUS
  <2> QED BY <1>7, <2>1, MultipleIsFar
<1> HIDE DEF m
<1>9. Unwrap(raw, zero, checkpoint) = n
  BY <1>4, <1>5, <1>6, <1>8
<1> QED BY <1>9 DEF raw

-----------------------------------------------------------------------------
\* The next thing in the stream is no byte, or looks like the end mark.
NothingToSend(s) == s.view = 0 \/ 1 \in TakenForEnd(s)

\* The end of a chunk of a consistent stream, and how far it is from the reader.
LEMMA ChunkEnds ==
    ASSUME NEW s, StreamInv(s), s.view > 0, NEW i \in 1 .. Len(s.chunks)
    PROVE  /\ s.chunks[i] \in Nat
           /\ VisibleUpTo(s, i) = s.chunks[i] - s.popped
           /\ s.chunks[i] >= s.popped + s.view
           /\ i > 1 => s.chunks[i - 1] \in Nat /\ s.chunks[i - 1] < s.chunks[i]
           /\ s.chunks[i] <= s.pushed + 1
           /\ i < Len(s.chunks) => s.chunks[i] <= s.pushed
<1>1. /\ s.chunks \in Seq(Nat) /\ Len(s.chunks) \in Nat
      /\ s.closed \in BOOLEAN
  BY DEF StreamInv, ByteStreams
<1> DEFINE L == Len(s.chunks)
<1>2. /\ i \in Nat /\ i >= 1 /\ i <= L /\ 1 \in 1 .. L /\ L \in 1 .. L
      /\ i \in 1 .. L /\ (i > 1 => i - 1 \in 1 .. L)
  BY ONLY <1>1, i \in 1 .. Len(s.chunks)
<1>3. \A j \in 1 .. L : s.chunks[j] \in Nat
  BY ONLY <1>1
<1>4. s.chunks[1] = s.popped + s.view
  BY DEF StreamInv, ViewFollowsBuffer
<1>5. \A j, k \in 1 .. L : j < k => s.chunks[j] < s.chunks[k]
  BY DEF StreamInv, ChunksEndToEnd
<1>6. s.chunks[L] = s.pushed \/ s.chunks[L] = s.pushed + 1
  <2>1. L > 0
    BY ONLY <1>2
  <2> QED BY <1>1, <2>1 DEF StreamInv, ChunksEndToEnd
<1> HIDE DEF L
<1>7. i < L => s.chunks[i] < s.chunks[L]
  BY ONLY <1>2, <1>5
<1>8. i > 1 => /\ s.chunks[i - 1] \in Nat /\ s.chunks[i - 1] < s.chunks[i]
               /\ s.chunks[1] < s.chunks[i]
  BY ONLY <1>2, <1>3, <1>5
<1> DEFINE front == s.chunks[1]
           this  == s.chunks[i]
           last  == s.chunks[L]
<1>9. /\ front \in Nat /\ this \in Nat /\ last \in Nat
      /\ front = s.popped + s.view
      /\ last = s.pushed \/ last = s.pushed + 1
      /\ i < L => this < last
      /\ i = L => this = last
      /\ i > 1 => front < this
      /\ i = 1 => front = this
      /\ VisibleUpTo(s, i) = s.view + this - front
  BY ONLY <1>2, <1>3, <1>4, <1>6, <1>7, <1>8 DEF VisibleUpTo
<1>10. /\ this \in Nat
       /\ VisibleUpTo(s, i) = this - s.popped
       /\ this >= s.popped + s.view
       /\ this <= s.pushed + 1
       /\ i < L => this <= s.pushed
  <2>1. s.view \in Nat /\ s.popped \in Nat /\ s.pushed \in Nat
    BY DEF StreamInv, ByteStreams
  <2>2. i \in Nat /\ L \in Nat /\ (i = 1 \/ i > 1) /\ (i = L \/ i < L)
    BY ONLY <1>2
  <2> HIDE DEF front, this, last
  <2>3. this >= front /\ this <= last /\ (i < L => this < last)
    BY ONLY <1>9, <2>2
  <2>4. VisibleUpTo(s, i) = this - s.popped
    BY ONLY <1>9, <2>1
  <2>5. this >= s.popped + s.view
    BY ONLY <1>9, <2>1, <2>3
  <2>6. this <= s.pushed + 1 /\ (i < L => this <= s.pushed)
    BY ONLY <1>9, <2>1, <2>3
  <2> QED BY ONLY <1>9, <2>4, <2>5, <2>6
<1> QED BY ONLY <1>8, <1>10 DEF L

(***************************************************************************)
(* A closed stream that shows anything ends in a view taken for the end:   *)
(* the end mark.                                                           *)
(***************************************************************************)
LEMMA EndMarkIsTaken ==
    ASSUME NEW s, StreamInv(s), s.view > 0, TakenForEnd(s) = {}
    PROVE  /\ ~s.closed
           /\ VisibleUpTo(s, Len(s.chunks)) = s.buffered
<1> DEFINE L == Len(s.chunks)
<1>1. /\ s.chunks \in Seq(Nat) /\ L \in Nat /\ L > 0 /\ L \in 1 .. L
      /\ s.pushed \in Nat /\ s.popped \in Nat /\ s.buffered \in Nat /\ s.view \in Nat
  BY DEF StreamInv, ByteStreams, ViewFollowsBuffer
<1>2. /\ s.chunks[L] \in Nat
      /\ VisibleUpTo(s, L) = s.chunks[L] - s.popped
  BY <1>1, ChunkEnds
<1>3. ASSUME s.closed PROVE FALSE
  <2>1. s.chunks[L] = s.pushed + 1
    BY <1>1, <1>3 DEF StreamInv, ChunksEndToEnd
  <2>2. ViewSize(s, L) = 1
    <3>1. CASE L = 1
      <4>1. s.buffered = 0 /\ s.chunks[1] = s.popped + s.view /\ s.pushed = s.popped + s.buffered
        BY <1>3, <3>1 DEF StreamInv, ViewFollowsBuffer, Accounting
      <4> QED BY <1>1, <2>1, <3>1, <4>1 DEF ViewSize
    <3>2. CASE L > 1
      <4>1. s.chunks[L - 1] = s.pushed
        BY <1>1, <1>3, <3>2 DEF StreamInv, ChunksEndToEnd
      <4>2. ViewSize(s, L) = s.chunks[L] - s.chunks[L - 1]
        BY ONLY <3>2, <1>1 DEF ViewSize
      <4> QED BY ONLY <1>1, <2>1, <4>1, <4>2
    <3>3. L = 1 \/ L > 1
      <4> HIDE DEF L
      <4> QED BY ONLY <1>1
    <3> QED BY ONLY <3>1, <3>2, <3>3
  <2>3. L \in TakenForEnd(s)
    BY <1>1, <1>2, <2>1, <2>2 DEF TakenForEnd
  <2> QED BY <2>3
<1>4. s.chunks[L] = s.pushed /\ s.pushed = s.popped + s.buffered
  BY <1>1, <1>3 DEF StreamInv, ChunksEndToEnd, Accounting
<1> QED BY <1>1, <1>2, <1>3, <1>4

\* The first view that is taken for the end.
FirstEnd(s) == CHOOSE i \in TakenForEnd(s) : \A j \in TakenForEnd(s) : i <= j

LEMMA FirstEndIsFirst ==
    ASSUME NEW s, TakenForEnd(s) # {}
    PROVE  FirstEnd(s) \in TakenForEnd(s) /\ \A j \in TakenForEnd(s) : FirstEnd(s) <= j
<1>1. TakenForEnd(s) \subseteq Nat
  BY DEF TakenForEnd
<1> QED BY <1>1, SmallestElement DEF FirstEnd

\* A view taken for the end shows one byte, after which nothing is left out.
LEMMA EndShowsOne ==
    ASSUME NEW s, StreamInv(s), s.view > 0, NEW e \in TakenForEnd(s)
    PROVE  /\ e \in 1 .. Len(s.chunks)
           /\ VisibleUpTo(s, e) \in Nat /\ VisibleUpTo(s, e) >= s.view
           /\ VisibleUpTo(s, e) - 1 <= s.buffered
           /\ e = 1 => VisibleUpTo(s, e) = 1 /\ s.view = 1
           /\ e > 1 => /\ VisibleUpTo(s, e - 1) = VisibleUpTo(s, e) - 1
                       /\ VisibleUpTo(s, e - 1) >= s.view
<1>1. /\ e \in 1 .. Len(s.chunks) /\ ViewSize(s, e) = 1
      /\ s.pushed \in Nat /\ s.popped \in Nat /\ s.buffered \in Nat /\ s.view \in Nat
      /\ s.pushed = s.popped + s.buffered /\ Len(s.chunks) \in Nat
  BY DEF TakenForEnd, StreamInv, ByteStreams, Accounting
<1>2. /\ s.chunks[e] \in Nat /\ VisibleUpTo(s, e) = s.chunks[e] - s.popped
      /\ s.chunks[e] >= s.popped + s.view /\ s.chunks[e] <= s.pushed + 1
  BY <1>1, ChunkEnds
<1>3. CASE e = 1
  <2>1. s.view = 1 /\ s.chunks[1] = s.popped + s.view
    BY <1>1, <1>3 DEF ViewSize, StreamInv, ViewFollowsBuffer
  <2> QED BY <1>1, <1>2, <1>3, <2>1
<1>4. CASE e > 1
  <2>1. s.chunks[e] - s.chunks[e - 1] = 1 /\ e - 1 \in 1 .. Len(s.chunks)
    BY <1>1, <1>4 DEF ViewSize
  <2>2. /\ s.chunks[e - 1] \in Nat /\ VisibleUpTo(s, e - 1) = s.chunks[e - 1] - s.popped
        /\ s.chunks[e - 1] >= s.popped + s.view
    BY <2>1, ChunkEnds
  <2>3. VisibleUpTo(s, e - 1) = VisibleUpTo(s, e) - 1 /\ VisibleUpTo(s, e - 1) >= s.view
    <3> DEFINE a == s.chunks[e]
               b == s.chunks[e - 1]
    <3>1. /\ a \in Nat /\ b \in Nat /\ a - b = 1 /\ b >= s.popped + s.view
          /\ VisibleUpTo(s, e) = a - s.popped /\ VisibleUpTo(s, e - 1) = b - s.popped
      BY ONLY <1>2, <2>1, <2>2
    <3> HIDE DEF a, b
    <3> QED BY ONLY <1>1, <3>1
  <2>4. VisibleUpTo(s, e) \in Nat /\ VisibleUpTo(s, e) >= s.view /\ VisibleUpTo(s, e) - 1 <= s.buffered
    <3> DEFINE a == s.chunks[e]
    <3>1. /\ a \in Nat /\ VisibleUpTo(s, e) = a - s.popped
          /\ a >= s.popped + s.view /\ a <= s.pushed + 1
      BY ONLY <1>2
    <3>2. /\ s.pushed \in Nat /\ s.popped \in Nat /\ s.buffered \in Nat /\ s.view \in Nat
          /\ s.pushed = s.popped + s.buffered
      BY ONLY <1>1
    <3> HIDE DEF a
    <3>3. a - s.popped \in Int /\ a - s.popped >= s.view
      BY ONLY <3>1, <3>2
    <3>4. a - s.popped - 1 <= s.buffered
      BY ONLY <3>1, <3>2
    <3>5. a - s.popped \in Nat
      BY ONLY <3>2, <3>3
    <3> QED BY ONLY <3>1, <3>3, <3>4, <3>5
  <2> QED BY ONLY <1>1, <1>4, <2>3, <2>4
<1> QED BY <1>1, <1>3, <1>4

(***************************************************************************)
(* The payload is within the budget and within what is buffered, and it is *)
(* empty when nothing can be sent (tcp_sender.cc:29-39).                   *)
(***************************************************************************)
LEMMA PayloadFits ==
    ASSUME NEW s, StreamInv(s), NEW b \in Nat
    PROVE  /\ PayloadSize(s, b) \in Nat
           /\ PayloadSize(s, b) <= b
           /\ PayloadSize(s, b) <= s.buffered
           /\ NothingToSend(s) => PayloadSize(s, b) = 0
<1>1. s.view \in Nat /\ s.buffered \in Nat
  BY DEF StreamInv, ByteStreams
<1>2. CASE s.view = 0
  BY <1>1, <1>2 DEF PayloadSize
<1>3. CASE s.view > 0 /\ TakenForEnd(s) = {}
  <2>1. PayloadSize(s, b) = Lesser(b, s.buffered)
    BY <1>3, EndMarkIsTaken DEF PayloadSize
  <2> QED BY <1>1, <1>3, <2>1 DEF Lesser, NothingToSend
<1>4. CASE s.view > 0 /\ TakenForEnd(s) # {}
  <2> DEFINE e == FirstEnd(s)
  <2>1. e \in TakenForEnd(s) /\ \A j \in TakenForEnd(s) : e <= j
    BY <1>4, FirstEndIsFirst
  <2>2. PayloadSize(s, b) = Lesser(b, VisibleUpTo(s, e) - 1)
    BY <1>4 DEF PayloadSize, FirstEnd
  <2> HIDE DEF e
  <2>3. /\ e \in Nat /\ e >= 1
        /\ VisibleUpTo(s, e) \in Nat /\ VisibleUpTo(s, e) >= s.view
        /\ VisibleUpTo(s, e) - 1 <= s.buffered
        /\ e = 1 => VisibleUpTo(s, e) = 1
    BY <1>4, <2>1, EndShowsOne
  <2>4. NothingToSend(s) => e = 1
    BY <1>4, <2>1, <2>3 DEF NothingToSend
  <2> QED BY <1>1, <1>4, <2>2, <2>3, <2>4 DEF Lesser
<1> QED BY <1>1, <1>2, <1>3, <1>4

(***************************************************************************)
(* A payload smaller than its budget leaves nothing to send, and an empty  *)
(* one with a budget means that there was nothing (tcp_sender.cc:30-33).   *)
(***************************************************************************)
LEMMA PayloadStopsAtEnd ==
    ASSUME NEW s, StreamInv(s), NEW b \in Nat, PayloadSize(s, b) < b
    PROVE  /\ PayloadSize(s, b) = 0 => NothingToSend(s)
           /\ PayloadSize(s, b) > 0 => NothingToSend(Pop(s, PayloadSize(s, b)))
<1> DEFINE n == PayloadSize(s, b)
           t == Pop(s, n)
           L == Len(s.chunks)
           k == DropCount(s, n)
<1>1. /\ s.view \in Nat /\ s.buffered \in Nat /\ L \in Nat /\ s.chunks \in Seq(Nat)
      /\ s.pushed \in Nat /\ s.popped \in Nat
  BY DEF StreamInv, ByteStreams
<1>2. n \in Nat /\ n <= s.buffered
  BY PayloadFits
<1>3. k \in 0 .. L /\ IsDropCount(s, n, k)
  BY <1>2, DropCountExists
<1>4. /\ t.chunks = SubSeq(s.chunks, k + 1, L)
      /\ t.view = IF k = L THEN 0 ELSE VisibleUpTo(s, k + 1) - n
      /\ t.pushed = s.pushed
  BY <1>1, <1>2 DEF Pop, Lesser, StreamInv, ByteStreams
<1>5. CASE s.view = 0
  BY <1>5 DEF PayloadSize, NothingToSend
<1>6. CASE s.view > 0 /\ TakenForEnd(s) = {}
  <2>1. n = s.buffered /\ L > 0 /\ L \in 1 .. L /\ VisibleUpTo(s, L) = s.buffered
    BY <1>1, <1>6, EndMarkIsTaken DEF PayloadSize, Lesser, StreamInv, ViewFollowsBuffer
  <2>2. L <= k
    BY <1>1, <1>2, <1>3, <2>1 DEF IsDropCount
  <2>3. t.view = 0
    BY <1>1, <1>3, <1>4, <2>2
  <2>4. VisibleUpTo(s, L) >= s.view
    <3>1. VisibleUpTo(s, L) = s.chunks[L] - s.popped /\ s.chunks[L] >= s.popped + s.view
      BY <1>6, <2>1, ChunkEnds
    <3> QED BY <1>1, <2>1, <3>1
  <2> QED BY <1>1, <1>6, <2>1, <2>3, <2>4 DEF NothingToSend
<1>7. CASE s.view > 0 /\ TakenForEnd(s) # {}
  <2> DEFINE e == FirstEnd(s)
  <2>1. e \in TakenForEnd(s)
    BY <1>7, FirstEndIsFirst
  <2>2. PayloadSize(s, b) = Lesser(b, VisibleUpTo(s, e) - 1)
    BY <1>7 DEF PayloadSize, FirstEnd
  <2> HIDE DEF e
  <2>3. /\ e \in 1 .. L /\ VisibleUpTo(s, e) \in Nat
        /\ e = 1 => VisibleUpTo(s, e) = 1
        /\ e > 1 => /\ VisibleUpTo(s, e - 1) = VisibleUpTo(s, e) - 1
                    /\ VisibleUpTo(s, e - 1) >= s.view
    BY <1>7, <2>1, EndShowsOne
  <2>4. n = VisibleUpTo(s, e) - 1
    BY <1>2, <2>2, <2>3 DEF Lesser
  <2>5. CASE e = 1
    BY <2>1, <2>3, <2>4, <2>5 DEF NothingToSend
  <2>6. CASE e > 1
    <3>1. k = e - 1
      <4> HIDE DEF k, n, L
      <4>1. e \in Int /\ e \in 1 .. L /\ e - 1 \in 1 .. L
        BY ONLY <1>1, <2>3, <2>6
      <4>2. VisibleUpTo(s, e) \in Nat /\ VisibleUpTo(s, e - 1) = VisibleUpTo(s, e) - 1
        BY ONLY <2>3, <2>6
      <4>3. ~(VisibleUpTo(s, e) <= n) /\ VisibleUpTo(s, e - 1) <= n
        BY ONLY <2>4, <4>2
      <4>4. \A i \in 1 .. L : i <= k <=> VisibleUpTo(s, i) <= n
        BY ONLY <1>3 DEF IsDropCount, L
      <4>5. ~(e <= k) /\ e - 1 <= k
        BY ONLY <4>1, <4>3, <4>4
      <4>6. k \in Int
        BY ONLY <1>1, <1>3
      <4> QED BY ONLY <4>1, <4>5, <4>6
    <3>2. t.view = 1 /\ Len(t.chunks) >= 1 /\ t.chunks[1] = s.chunks[e] /\ Len(t.chunks) \in Nat
      <4>1. k + 1 = e /\ k # L /\ k + 1 \in 1 .. L
        BY <1>1, <2>3, <2>6, <3>1
      <4> HIDE DEF k, t, n
      <4>2. t.view = 1
        BY ONLY <1>4, <2>3, <2>4, <4>1
      <4>3. Len(t.chunks) = L - k /\ t.chunks[1] = s.chunks[k + 1]
        BY ONLY <1>1, <1>4, <4>1, <1>3
      <4> QED BY ONLY <1>1, <1>3, <4>1, <4>2, <4>3
    <3>3. s.chunks[e] > s.pushed \/ s.chunks[e] - 1 \in EOFBytes
      BY <2>1 DEF TakenForEnd
    <3>4. 1 \in TakenForEnd(t)
      <4>1. t.pushed = s.pushed
        BY <1>4
      <4> HIDE DEF t
      <4>2. 1 \in 1 .. Len(t.chunks) /\ ViewSize(t, 1) = 1
        BY ONLY <3>2 DEF ViewSize
      <4> QED BY ONLY <3>2, <3>3, <4>1, <4>2 DEF TakenForEnd
    <3> QED BY <1>1, <1>7, <2>3, <2>4, <2>6, <3>4 DEF NothingToSend
  <2> QED BY <1>1, <2>3, <2>5, <2>6
<1> QED BY <1>1, <1>5, <1>6, <1>7

\* A stream with nothing buffered has nothing to send but, at most, its end mark.
LEMMA DrainedStream ==
    ASSUME NEW s, StreamInv(s), s.buffered = 0
    PROVE  NothingToSend(s)
<1>1. /\ s.view \in Nat /\ s.pushed \in Nat /\ s.popped \in Nat /\ s.pushed = s.popped
      /\ Len(s.chunks) \in Nat
  BY DEF StreamInv, ByteStreams, Accounting
<1>2. CASE s.view = 0
  BY <1>2 DEF NothingToSend
<1>3. CASE s.view > 0
  <2>1. 1 \in 1 .. Len(s.chunks) /\ s.chunks[1] = s.popped + s.view
    BY <1>1, <1>3 DEF StreamInv, ViewFollowsBuffer
  <2>2. s.chunks[1] <= s.pushed + 1
    BY <1>3, <2>1, ChunkEnds
  <2>3. s.view = 1 /\ s.chunks[1] > s.pushed
    BY ONLY <1>1, <1>3, <2>1, <2>2
  <2>4. 1 \in TakenForEnd(s)
    BY ONLY <2>1, <2>3 DEF TakenForEnd, ViewSize
  <2> QED BY <2>4 DEF NothingToSend
<1> QED BY <1>1, <1>2, <1>3
-----------------------------------------------------------------------------
(***************************************************************************)
(* What every operation of a sender keeps.  What has been sent is what has *)
(* left the stream, the SYN and the FIN, and once the FIN is sent nothing  *)
(* more can be.                                                            *)
(***************************************************************************)
NumbersSent(s) ==
    /\ ~s.first_ack =>
         /\ s.next_seqno = 0 /\ s.impossible_ackno = 0
         /\ s.stream.popped = 0 /\ s.unacknowledged = << >> /\ s.in_flight = 0
         /\ ~s.FIN_sent /\ ~s.established
    /\ s.first_ack =>
         /\ s.next_seqno = 1 + s.stream.popped + Flag(s.FIN_sent)
         /\ s.impossible_ackno = s.next_seqno + 1
    /\ s.is_closed => s.stream.closed
    /\ s.FIN_sent => s.stream.closed /\ NothingToSend(s.stream)

\* OutstandingIsContiguous, of a queue, and that it ends with what was sent last.
Tiles(queue, isn, next, flight) ==
    LET L == Len(queue)
    IN  /\ \A i \in 1 .. L :
            /\ SequenceLength(queue[i]) > 0
            /\ queue[i].seqno = Wrap(TrueSeqno(queue[i]), isn)
            /\ TrueSeqno(queue[i]) + SequenceLength(queue[i])
                  = IF i = L THEN next ELSE TrueSeqno(queue[i + 1])
            /\ TrueSeqno(queue[i]) + SequenceLength(queue[i]) <= next
        /\ flight = IF L = 0 THEN 0 ELSE next - TrueSeqno(queue[1])

OutstandingTiles(s) == Tiles(s.unacknowledged, s.isn, s.next_seqno, s.in_flight)

\* m is a segment of s, new or old: it carries what its seqno says, and a FIN
\* after the last byte.  One that is empty says nothing.
SentBy(m, s) ==
    /\ m \in SenderMessages
    /\ SequenceLength(m) > 0 =>
         /\ s.first_ack
         /\ m.SYN => m.lo = 0
         /\ m.seqno = Wrap(TrueSeqno(m), s.isn)
         /\ m.lo + m.size <= s.stream.popped
         /\ m.FIN => s.FIN_sent /\ m.lo + m.size = s.stream.popped

SenderSound(s) ==
    /\ s \in Senders
    /\ StreamInv(s.stream)
    /\ NumbersSent(s)
    /\ OutstandingTiles(s)
    /\ \A i \in 1 .. Len(s.unacknowledged) : SentBy(s.unacknowledged[i], s)

\* What s has sent t has sent, and behind a FIN nothing is added.
GoesOn(s, t) ==
    /\ t.isn = s.isn
    /\ s.first_ack => t.first_ack
    /\ s.stream.popped <= t.stream.popped
    /\ s.FIN_sent => t.FIN_sent /\ t.stream.popped = s.stream.popped
    /\ t.stream.capacity = s.stream.capacity

\* The first number that has not been acknowledged.
ReleasedBy(s) == IF s.unacknowledged = << >> THEN s.next_seqno
                 ELSE TrueSeqno(Head(s.unacknowledged))

\* What push() may still send.
Unsent(s) == s.stream.buffered + Flag(~s.first_ack) + Flag(~s.FIN_sent)

LEMMA FlagIsBit == \A b \in BOOLEAN : Flag(b) \in Nat /\ Flag(b) <= 1
BY DEF Flag

LEMMA RemainderAfterSum ==
    ASSUME NEW M \in Nat, M > 0, NEW a \in Nat
    PROVE  (a + M) % M <= a
<1> DEFINE q == (a + M) \div M
           r == (a + M) % M
<1>1. q \in Int /\ r \in Int /\ 0 <= r /\ r < M /\ a + M = M * q + r
  OBVIOUS
<1> HIDE DEF q, r
<1>2. M * q \in Int /\ M * q > 0
  BY <1>1
<1>3. q >= 1
  BY <1>1, <1>2
<1>4. M * (q - 1) = M * q - M /\ M * (q - 1) >= 0
  BY <1>3, <1>1
<1>5. r <= a
  BY <1>1, <1>2, <1>4
<1> QED BY <1>5 DEF r

(***************************************************************************)
(* The room in the window, and what the budget of a round is.              *)
(***************************************************************************)
LEMMA BudgetBounds ==
    ASSUME NEW s \in Senders
    PROVE  /\ WindowRoom(s) \in Nat
           /\ WindowRoom(s) > 0 => s.in_flight + WindowRoom(s) = s.window_size
           /\ Budget(s) \in Nat
           /\ s.first_ack => Budget(s) =
                  IF WindowRoom(s) > 0 THEN Lesser(MaxPayload, WindowRoom(s))
                  ELSE s.curr_size
           /\ ~s.first_ack /\ WindowRoom(s) > 0 => Budget(s) < WindowRoom(s)
<1> DEFINE room == IF WindowRoom(s) > 0 THEN Lesser(MaxPayload, WindowRoom(s))
                   ELSE s.curr_size
<1>1. /\ s.window_size \in Nat /\ s.in_flight \in Nat /\ s.curr_size \in Nat
      /\ s.first_ack \in BOOLEAN
  BY DEF Senders
<1>2. /\ WindowRoom(s) \in Nat
      /\ WindowRoom(s) > 0 => s.in_flight + WindowRoom(s) = s.window_size
  BY <1>1 DEF WindowRoom
<1>3. Budget(s) = IF s.first_ack THEN room
                       ELSE (room + SizeModulus - 1) % SizeModulus
  BY DEF Budget
<1>4. /\ room \in Nat
      /\ WindowRoom(s) > 0 => room >= 1 /\ room <= WindowRoom(s)
  BY <1>1, <1>2, PayloadAssumption DEF Lesser
<1> HIDE DEF room
<1>5. /\ (room + SizeModulus - 1) % SizeModulus \in Nat
      /\ room >= 1 => (room + SizeModulus - 1) % SizeModulus <= room - 1
  <2>1. (room + SizeModulus - 1) % SizeModulus \in 0 .. SizeModulus - 1
    BY <1>4, SizeAssumption
  <2>2. ASSUME room >= 1 PROVE ((room - 1) + SizeModulus) % SizeModulus <= room - 1
    BY <1>4, <2>2, SizeAssumption, RemainderAfterSum
  <2>3. room >= 1 => room + SizeModulus - 1 = (room - 1) + SizeModulus
    BY <1>4, SizeAssumption
  <2> QED BY <1>4, <2>1, <2>2, <2>3, SizeAssumption
<1>6. ~s.first_ack /\ WindowRoom(s) > 0 => Budget(s) < WindowRoom(s)
  BY <1>2, <1>3, <1>4, <1>5
<1>7. Budget(s) \in Nat
  BY <1>3, <1>4, <1>5
<1> QED BY <1>2, <1>3, <1>6, <1>7 DEF room

(***************************************************************************)
(* The segment that a round of push() makes starts where the last one      *)
(* ended, and carries a FIN only when nothing is left behind it.           *)
(***************************************************************************)
LEMMA SegmentOfRound ==
    ASSUME NEW s \in Senders, StreamInv(s.stream), NumbersSent(s)
    PROVE  LET m == NextSegment(s)
           IN  /\ m \in SenderMessages
               /\ m.size = PayloadSize(s.stream, Budget(s))
               /\ m.size <= Budget(s) /\ m.size <= s.stream.buffered
               /\ m.SYN <=> ~s.first_ack
               /\ m.lo = s.stream.popped
               /\ m.seqno = Wrap(s.next_seqno, s.isn)
               /\ m.FIN => s.stream.closed /\ ~s.FIN_sent
               /\ s.FIN_sent => m.size = 0
               /\ SequenceLength(m) \in Nat
               /\ SequenceLength(m) > 0 => TrueSeqno(m) = s.next_seqno
<1> DEFINE m == NextSegment(s)
           n == PayloadSize(s.stream, Budget(s))
<1>1. /\ s.stream \in ByteStreams /\ s.next_seqno \in Nat /\ s.isn \in RawValues
      /\ s.first_ack \in BOOLEAN /\ s.is_closed \in BOOLEAN /\ s.FIN_sent \in BOOLEAN
  BY DEF Senders
<1>2. /\ s.stream.popped \in Nat /\ s.stream.error \in BOOLEAN
      /\ s.stream.closed \in BOOLEAN
  BY <1>1 DEF ByteStreams
<1>3. /\ n \in Nat /\ n <= Budget(s) /\ n <= s.stream.buffered
      /\ NothingToSend(s.stream) => n = 0
  BY BudgetBounds, PayloadFits
<1>4. /\ m.seqno = Wrap(s.next_seqno, s.isn)
      /\ m.SYN = ~s.first_ack /\ m.SYN \in BOOLEAN /\ (m.SYN <=> ~s.first_ack)
      /\ m.lo = s.stream.popped /\ m.size = n /\ m.RST = s.stream.error
      /\ m.FIN \in BOOLEAN
      /\ m.FIN => (s.is_closed \/ s.stream.closed) /\ ~s.FIN_sent
      /\ m = [seqno |-> m.seqno, SYN |-> m.SYN, lo |-> m.lo, size |-> m.size,
              FIN |-> m.FIN, RST |-> m.RST]
  BY DEF NextSegment
<1> HIDE DEF m, n
<1>5. Wrap(s.next_seqno, s.isn) \in RawValues
  <2>1. s.next_seqno \in Int /\ s.isn \in Int
    BY <1>1 DEF RawValues
  <2> QED BY ONLY <2>1, WrapIsSum
<1>6. m \in SenderMessages
  BY <1>1, <1>2, <1>3, <1>4, <1>5 DEF SenderMessages
<1>7. m.FIN => s.stream.closed /\ ~s.FIN_sent
  BY <1>4 DEF NumbersSent
<1>8. s.FIN_sent => m.size = 0
  BY <1>3, <1>4 DEF NumbersSent
<1>9. SequenceLength(m) \in Nat
  BY <1>6, FlagIsBit DEF SequenceLength, SenderMessages
<1>10. ASSUME SequenceLength(m) > 0 PROVE TrueSeqno(m) = s.next_seqno
  <2>1. CASE ~s.first_ack
    BY <1>4, <2>1 DEF NumbersSent, TrueSeqno
  <2>2. CASE s.first_ack
    <3>1. s.FIN_sent => SequenceLength(m) = 0
      BY <1>4, <1>7, <1>8, <2>2 DEF SequenceLength, Flag
    <3>2. s.next_seqno = 1 + s.stream.popped
      BY <1>1, <1>2, <1>10, <2>2, <3>1 DEF NumbersSent, Flag
    <3>3. TrueSeqno(m) = m.lo + 1
      BY ONLY <1>4, <2>2 DEF TrueSeqno
    <3> QED BY <1>2, <1>4, <3>2, <3>3
  <2> QED BY <2>1, <2>2, <1>1
<1> QED BY <1>3, <1>4, <1>6, <1>7, <1>8, <1>9, <1>10 DEF m, n

-----------------------------------------------------------------------------
LEMMA MessageNumbers ==
    ASSUME NEW m \in SenderMessages
    PROVE  SequenceLength(m) \in Nat /\ TrueSeqno(m) \in Nat
BY FlagIsBit DEF SequenceLength, TrueSeqno, SenderMessages

(***************************************************************************)
(* A segment that starts at the next number goes behind the others.        *)
(***************************************************************************)
LEMMA TilesAppend ==
    ASSUME NEW queue \in Seq(SenderMessages), NEW isn, NEW next \in Nat, NEW flight \in Nat,
           NEW m \in SenderMessages, Tiles(queue, isn, next, flight),
           SequenceLength(m) > 0, m.seqno = Wrap(next, isn), TrueSeqno(m) = next
    PROVE  Tiles(Append(queue, m), isn, next + SequenceLength(m), flight + SequenceLength(m))
<1> DEFINE L == Len(queue)
           q == Append(queue, m)
           len == SequenceLength(m)
<1>1. /\ L \in Nat /\ Len(q) = L + 1 /\ q[L + 1] = m /\ len \in Nat
      /\ \A i \in 1 .. L : q[i] = queue[i] /\ queue[i] \in SenderMessages
  BY MessageNumbers
<1> HIDE DEF L, q, len
<1>2. ASSUME NEW i \in 1 .. L + 1
      PROVE  /\ SequenceLength(q[i]) > 0
             /\ q[i].seqno = Wrap(TrueSeqno(q[i]), isn)
             /\ TrueSeqno(q[i]) + SequenceLength(q[i])
                   = IF i = L + 1 THEN next + len ELSE TrueSeqno(q[i + 1])
             /\ TrueSeqno(q[i]) + SequenceLength(q[i]) <= next + len
  <2>1. CASE i = L + 1
    <3>1. q[i] = m
      BY <1>1, <2>1
    <3> QED BY <1>1, <2>1, <3>1 DEF len
  <2>2. CASE i < L
    <3>1. i \in 1 .. L /\ i + 1 \in 1 .. L /\ i # L /\ i # L + 1
      BY <1>1, <2>2
    <3>2. q[i] = queue[i] /\ q[i + 1] = queue[i + 1] /\ queue[i] \in SenderMessages
      BY <1>1, <3>1
    <3>3. /\ SequenceLength(q[i]) > 0
          /\ q[i].seqno = Wrap(TrueSeqno(q[i]), isn)
          /\ TrueSeqno(q[i]) + SequenceLength(q[i]) = TrueSeqno(q[i + 1])
          /\ TrueSeqno(q[i]) + SequenceLength(q[i]) <= next
      BY <3>1, <3>2 DEF Tiles, L
    <3>4. SequenceLength(q[i]) \in Nat /\ TrueSeqno(q[i]) \in Nat
      BY <3>2, MessageNumbers
    <3>5. TrueSeqno(q[i]) + SequenceLength(q[i]) <= next + len
      BY ONLY <1>1, <3>3, <3>4, next \in Nat
    <3> QED BY ONLY <3>1, <3>3, <3>5
  <2>3. CASE i = L
    <3>1. i \in 1 .. L /\ i # L + 1
      BY <1>1, <2>3
    <3>2. q[i] = queue[i] /\ q[i + 1] = m /\ queue[i] \in SenderMessages
      BY <1>1, <2>3, <3>1
    <3>3. /\ SequenceLength(q[i]) > 0
          /\ q[i].seqno = Wrap(TrueSeqno(q[i]), isn)
          /\ TrueSeqno(q[i]) + SequenceLength(q[i]) = next
      BY <2>3, <3>1, <3>2 DEF Tiles, L
    <3>4. next <= next + len
      BY ONLY <1>1, next \in Nat
    <3> QED BY <3>1, <3>2, <3>3, <3>4
  <2> QED BY ONLY <1>1, <2>1, <2>2, <2>3, i \in 1 .. L + 1
<1>3. flight + len = (next + len) - TrueSeqno(q[1])
  <2>1. CASE L = 0
    <3>1. flight = 0 /\ q[1] = m
      BY <1>1, <2>1 DEF Tiles, L
    <3> QED BY <1>1, <3>1
  <2>2. CASE L > 0
    <3>1. flight = next - TrueSeqno(queue[1]) /\ q[1] = queue[1] /\ queue[1] \in SenderMessages
      BY <1>1, <2>2 DEF Tiles, L
    <3>2. TrueSeqno(queue[1]) \in Nat
      BY <3>1, MessageNumbers
    <3> QED BY <1>1, <3>1, <3>2
  <2> QED BY <1>1, <2>1, <2>2
<1>4. Len(q) # 0 /\ flight + len = IF Len(q) = 0 THEN 0 ELSE (next + len) - TrueSeqno(q[1])
  BY <1>1, <1>3
<1>5. \A i \in 1 .. Len(q) :
          /\ SequenceLength(q[i]) > 0
          /\ q[i].seqno = Wrap(TrueSeqno(q[i]), isn)
          /\ TrueSeqno(q[i]) + SequenceLength(q[i])
                = IF i = Len(q) THEN next + len ELSE TrueSeqno(q[i + 1])
          /\ TrueSeqno(q[i]) + SequenceLength(q[i]) <= next + len
  BY ONLY <1>1, <1>2
<1>6. Tiles(q, isn, next + len, flight + len)
  BY ONLY <1>4, <1>5 DEF Tiles
<1> QED BY <1>6 DEF q, len

(***************************************************************************)
(* What remains when the oldest segment goes, which starts where that one  *)
(* ended.                                                                  *)
(***************************************************************************)
LEMMA TilesTail ==
    ASSUME NEW queue \in Seq(SenderMessages), queue # << >>, NEW isn, NEW next \in Nat,
           NEW flight \in Nat, Tiles(queue, isn, next, flight)
    PROVE  /\ flight - SequenceLength(queue[1]) \in Nat
           /\ Tiles(Tail(queue), isn, next, flight - SequenceLength(queue[1]))
           /\ IF Tail(queue) = << >>
              THEN TrueSeqno(queue[1]) + SequenceLength(queue[1]) = next
              ELSE TrueSeqno(Tail(queue)[1]) = TrueSeqno(queue[1]) + SequenceLength(queue[1])
<1> DEFINE L == Len(queue)
           q == Tail(queue)
           len == SequenceLength(queue[1])
           start == TrueSeqno(queue[1])
<1>1. /\ L \in Nat /\ L > 0 /\ Len(q) = L - 1 /\ queue[1] \in SenderMessages
      /\ \A i \in 1 .. L - 1 : q[i] = queue[i + 1]
      /\ q = << >> <=> L = 1
  <2>1. L \in Nat /\ L > 0 /\ queue[1] \in SenderMessages
    BY EmptySeq
  <2>2. /\ q \in Seq(SenderMessages) /\ Len(q) = L - 1
        /\ \A i \in 1 .. Len(q) : q[i] = queue[i + 1]
    BY HeadTailProperties
  <2>3. q = << >> <=> Len(q) = 0
    BY ONLY <2>2, EmptySeq
  <2> HIDE DEF L, q
  <2> QED BY ONLY <2>1, <2>2, <2>3
<1>2. len \in Nat /\ start \in Nat
  BY <1>1, MessageNumbers
<1>3. /\ flight = next - start
      /\ start + len <= next
      /\ start + len = IF L = 1 THEN next ELSE TrueSeqno(queue[2])
  <2>1. 1 \in 1 .. L /\ L # 0 /\ 1 + 1 = 2
    BY <1>1
  <2>2. flight = next - start
    BY ONLY <2>1, Tiles(queue, isn, next, flight) DEF Tiles
  <2>3. start + len <= next /\ start + len = IF L = 1 THEN next ELSE TrueSeqno(queue[2])
    BY ONLY <2>1, Tiles(queue, isn, next, flight) DEF Tiles
  <2> QED BY <2>2, <2>3
<1>4. \A i \in 1 .. L - 1 :
          /\ SequenceLength(q[i]) > 0
          /\ q[i].seqno = Wrap(TrueSeqno(q[i]), isn)
          /\ TrueSeqno(q[i]) + SequenceLength(q[i])
                = IF i = L - 1 THEN next ELSE TrueSeqno(q[i + 1])
          /\ TrueSeqno(q[i]) + SequenceLength(q[i]) <= next
  <2> SUFFICES ASSUME NEW i \in 1 .. L - 1
               PROVE  /\ SequenceLength(q[i]) > 0
                      /\ q[i].seqno = Wrap(TrueSeqno(q[i]), isn)
                      /\ TrueSeqno(q[i]) + SequenceLength(q[i])
                            = IF i = L - 1 THEN next ELSE TrueSeqno(q[i + 1])
                      /\ TrueSeqno(q[i]) + SequenceLength(q[i]) <= next
    OBVIOUS
  <2>1. /\ i + 1 \in 1 .. L /\ q[i] = queue[i + 1]
        /\ i + 1 = L <=> i = L - 1
        /\ i # L - 1 => i + 1 \in 1 .. L - 1
    <3>1. L \in Nat /\ i \in 1 .. L - 1 /\ q[i] = queue[i + 1]
      BY <1>1
    <3> HIDE DEF L, q
    <3> QED BY ONLY <3>1
  <2>2. i # L - 1 => q[i + 1] = queue[(i + 1) + 1]
    BY <1>1, <2>1
  <2>3. /\ SequenceLength(queue[i + 1]) > 0
        /\ queue[i + 1].seqno = Wrap(TrueSeqno(queue[i + 1]), isn)
        /\ TrueSeqno(queue[i + 1]) + SequenceLength(queue[i + 1])
              = IF i + 1 = L THEN next ELSE TrueSeqno(queue[(i + 1) + 1])
        /\ TrueSeqno(queue[i + 1]) + SequenceLength(queue[i + 1]) <= next
    BY <2>1 DEF Tiles
  <2> HIDE DEF L, q
  <2> QED BY ONLY <2>1, <2>2, <2>3
<1>5. flight - len = next - (start + len) /\ flight - len \in Nat
  BY ONLY <1>2, <1>3, next \in Nat
<1>6. L # 1 => q[1] = queue[2]
  BY ONLY <1>1
<1>7. flight - len = IF L - 1 = 0 THEN 0 ELSE next - TrueSeqno(q[1])
  <2>1. CASE L = 1
    BY ONLY <1>2, <1>3, <1>5, <2>1, next \in Nat
  <2>2. CASE L # 1
    <3>1. L - 1 # 0 /\ start + len = TrueSeqno(q[1])
      BY ONLY <1>1, <1>3, <1>6, <2>2
    <3> QED BY ONLY <1>5, <3>1
  <2> QED BY <2>1, <2>2
<1>8. Tiles(q, isn, next, flight - len)
  BY ONLY <1>1, <1>4, <1>7 DEF Tiles
<1>9. IF q = << >> THEN start + len = next ELSE TrueSeqno(q[1]) = start + len
  BY ONLY <1>1, <1>3, <1>6
<1> QED BY <1>5, <1>8, <1>9

LEMMA PushRoundFields ==
    ASSUME NEW s \in Senders
    PROVE  LET t == PushRound(s)
               m == NextSegment(s)
               len == SequenceLength(m)
           IN  /\ t = [s EXCEPT
                        !.first_ack = TRUE, !.stream = t.stream, !.next_seqno = t.next_seqno,
                        !.is_closed = t.is_closed, !.FIN_sent = t.FIN_sent,
                        !.in_flight = t.in_flight, !.unacknowledged = t.unacknowledged,
                        !.impossible_ackno = t.impossible_ackno, !.pc = t.pc,
                        !.curr_size = t.curr_size]
               /\ t.first_ack = TRUE
               /\ t.stream = IF m.size = 0 THEN s.stream ELSE Pop(s.stream, m.size)
               /\ t.next_seqno = s.next_seqno + len
               /\ t.is_closed = (s.is_closed \/ s.stream.closed)
               /\ t.FIN_sent = (s.FIN_sent \/ m.FIN)
               /\ t.in_flight = s.in_flight + len
               /\ t.unacknowledged = IF len = 0 THEN s.unacknowledged
                                     ELSE Append(s.unacknowledged, m)
               /\ t.impossible_ackno =
                      IF len = 0 THEN s.impossible_ackno
                      ELSE Greater(s.impossible_ackno, s.next_seqno + len + 1)
               /\ t.pc = IF len = 0 THEN "idle" ELSE "pushing"
               /\ t.curr_size = IF len = 0 THEN 0 ELSE Budget(s) - m.size
               /\ t.isn = s.isn /\ t.initial_RTO = s.initial_RTO
               /\ t.window_size = s.window_size /\ t.curr_RTO = s.curr_RTO
               /\ t.last_tick = s.last_tick /\ t.retransmissions = s.retransmissions
               /\ t.established = s.established /\ t.ack_no = s.ack_no /\ t.poped = s.poped
BY DEF PushRound, Senders


(***************************************************************************)
(* The same of a sound sender: what its next segment is.                   *)
(***************************************************************************)
LEMMA NextSegmentIs ==
    ASSUME NEW s, SenderSound(s)
    PROVE  LET m == NextSegment(s)
               len == SequenceLength(m)
           IN  /\ m \in SenderMessages /\ len \in Nat /\ Budget(s) \in Nat
               /\ m.size = PayloadSize(s.stream, Budget(s))
               /\ m.size \in Nat /\ m.size <= Budget(s) /\ m.size <= s.stream.buffered
               /\ m.SYN \in BOOLEAN /\ m.FIN \in BOOLEAN
               /\ m.SYN <=> ~s.first_ack
               /\ m.lo = s.stream.popped
               /\ m.seqno = Wrap(s.next_seqno, s.isn)
               /\ m.FIN => s.stream.closed /\ ~s.FIN_sent
               /\ s.FIN_sent => m.size = 0
               /\ len = Flag(m.SYN) + m.size + Flag(m.FIN)
               /\ len > 0 => TrueSeqno(m) = s.next_seqno
<1>1. s \in Senders /\ StreamInv(s.stream) /\ NumbersSent(s)
  BY DEF SenderSound
<1> DEFINE m == NextSegment(s)
<1>2. /\ m \in SenderMessages
      /\ m.size = PayloadSize(s.stream, Budget(s))
      /\ m.size <= Budget(s) /\ m.size <= s.stream.buffered
      /\ m.SYN <=> ~s.first_ack
      /\ m.lo = s.stream.popped
      /\ m.seqno = Wrap(s.next_seqno, s.isn)
      /\ m.FIN => s.stream.closed /\ ~s.FIN_sent
      /\ s.FIN_sent => m.size = 0
      /\ SequenceLength(m) \in Nat
      /\ SequenceLength(m) > 0 => TrueSeqno(m) = s.next_seqno
  BY <1>1, SegmentOfRound
<1>3. Budget(s) \in Nat
  BY <1>1, BudgetBounds
<1> HIDE DEF m
<1>4. m.size \in Nat /\ m.SYN \in BOOLEAN /\ m.FIN \in BOOLEAN
  BY <1>2 DEF SenderMessages
<1>5. SequenceLength(m) = Flag(m.SYN) + m.size + Flag(m.FIN)
  BY DEF SequenceLength
<1> QED BY <1>2, <1>3, <1>4, <1>5 DEF m

(***************************************************************************)
(* What a round of push() takes from the stream; when it takes less than   *)
(* its budget, or everything, there is nothing left to send.               *)
(***************************************************************************)
LEMMA RoundTakesPayload ==
    ASSUME NEW s, SenderSound(s)
    PROVE  LET m == NextSegment(s)
               u == PushRound(s).stream
           IN  /\ StreamInv(u) /\ u.capacity = s.stream.capacity
               /\ u.popped = s.stream.popped + m.size
               /\ u.buffered = s.stream.buffered - m.size
               /\ u.pushed = s.stream.pushed /\ u.closed = s.stream.closed
               /\ m.size < Budget(s) => NothingToSend(u)
               /\ m.FIN => NothingToSend(u)
               /\ s.stream.closed /\ ~s.FIN_sent /\ m.size < Budget(s) => m.FIN
<1> DEFINE m == NextSegment(s)
           u == PushRound(s).stream
<1>1. /\ s \in Senders /\ StreamInv(s.stream) /\ NumbersSent(s)
      /\ s.stream.buffered \in Nat /\ s.stream.popped \in Nat
  BY DEF SenderSound, StreamInv, ByteStreams
<1>2. /\ m.size = PayloadSize(s.stream, Budget(s)) /\ Budget(s) \in Nat
      /\ m.size \in Nat /\ m.size <= s.stream.buffered
      /\ m.FIN => s.stream.closed /\ ~s.FIN_sent
  BY NextSegmentIs
<1>3. u = IF m.size = 0 THEN s.stream ELSE Pop(s.stream, m.size)
  BY <1>1, PushRoundFields
<1>4. m.FIN => m.size = s.stream.buffered \/ m.size < Budget(s)
  BY DEF NextSegment
<1>5. s.stream.closed /\ ~s.FIN_sent /\ m.size < Budget(s) => m.FIN
  BY DEF NextSegment
<1> HIDE DEF m, u
<1>6. /\ StreamInv(u) /\ u.capacity = s.stream.capacity
      /\ u.popped = s.stream.popped + m.size
      /\ u.buffered = s.stream.buffered - m.size
      /\ u.pushed = s.stream.pushed /\ u.closed = s.stream.closed
  <2>1. CASE m.size = 0
    <3>1. u = s.stream  BY <1>3, <2>1
    <3>2. s.stream.popped = s.stream.popped + 0 /\ s.stream.buffered = s.stream.buffered - 0
      BY <1>1
    <3> QED  BY <1>1, <2>1, <3>1, <3>2
  <2>2. CASE m.size # 0
    <3>1. u = Pop(s.stream, m.size) /\ Lesser(m.size, s.stream.buffered) = m.size
      BY <1>2, <1>3, <2>2 DEF Lesser
    <3>2. /\ StreamInv(Pop(s.stream, m.size))
          /\ Pop(s.stream, m.size).capacity = s.stream.capacity
          /\ Pop(s.stream, m.size).popped = s.stream.popped + Lesser(m.size, s.stream.buffered)
          /\ Pop(s.stream, m.size).buffered = s.stream.buffered - Lesser(m.size, s.stream.buffered)
          /\ Pop(s.stream, m.size).pushed = s.stream.pushed
          /\ Pop(s.stream, m.size).closed = s.stream.closed
      BY ONLY <1>1, <1>2, PopInv
    <3> QED  BY ONLY <3>1, <3>2
  <2> QED  BY <2>1, <2>2
<1>7. m.size < Budget(s) => NothingToSend(u)
  BY <1>1, <1>2, <1>3, PayloadStopsAtEnd
<1>8. m.FIN => NothingToSend(u)
  <2>1. m.size = s.stream.buffered => u.buffered = 0
    BY ONLY <1>1, <1>2, <1>6
  <2>2. u.buffered = 0 => NothingToSend(u)
    BY <1>6, DrainedStream
  <2> QED  BY <1>4, <1>7, <2>1, <2>2
<1> QED  BY <1>5, <1>6, <1>7, <1>8 DEF m, u

\* What was sent stays sent.
LEMMA SentStaysSent ==
    ASSUME NEW m, NEW s, NEW t, SentBy(m, s), GoesOn(s, t),
           s.stream.popped \in Nat, t.stream.popped \in Nat
    PROVE  SentBy(m, t)
<1>1. m \in SenderMessages /\ m.lo + m.size \in Nat
  BY DEF SentBy, SenderMessages
<1>2. ASSUME SequenceLength(m) > 0
      PROVE  /\ t.first_ack
             /\ m.SYN => m.lo = 0
             /\ m.seqno = Wrap(TrueSeqno(m), t.isn)
             /\ m.lo + m.size <= t.stream.popped
             /\ m.FIN => t.FIN_sent /\ m.lo + m.size = t.stream.popped
  <2>1. /\ s.first_ack /\ (m.SYN => m.lo = 0) /\ m.seqno = Wrap(TrueSeqno(m), s.isn)
        /\ m.lo + m.size <= s.stream.popped
        /\ m.FIN => s.FIN_sent /\ m.lo + m.size = s.stream.popped
    BY <1>2 DEF SentBy
  <2>2. /\ t.isn = s.isn /\ (s.first_ack => t.first_ack)
        /\ s.stream.popped <= t.stream.popped
        /\ s.FIN_sent => t.FIN_sent /\ t.stream.popped = s.stream.popped
    BY DEF GoesOn
  <2> DEFINE x == m.lo + m.size
  <2>3. x \in Nat  BY <1>1
  <2> HIDE DEF x
  <2>4. x <= t.stream.popped
    BY ONLY <2>1, <2>2, <2>3, s.stream.popped \in Nat, t.stream.popped \in Nat DEF x
  <2> QED  BY ONLY <2>1, <2>2, <2>4 DEF x
<1> QED  BY <1>1, <1>2 DEF SentBy

LEMMA GoesOnInTurn ==
    ASSUME NEW s, NEW t, NEW u, GoesOn(s, t), GoesOn(t, u),
           s.stream.popped \in Nat, t.stream.popped \in Nat, u.stream.popped \in Nat
    PROVE  GoesOn(s, u)
BY DEF GoesOn

LEMMA GoesNowhere ==
    ASSUME NEW s, s.stream.popped \in Nat
    PROVE  GoesOn(s, s)
BY DEF GoesOn

(***************************************************************************)
(* A round of push() leaves the sender sound, and either it is the last or *)
(* there is less to send (tcp_sender.cc:15-59).                            *)
(***************************************************************************)
LEMMA PushRoundSound ==
    ASSUME NEW s, SenderSound(s)
    PROVE  LET t == PushRound(s)
           IN  /\ SenderSound(t) /\ GoesOn(s, t)
               /\ t.stream.pushed = s.stream.pushed /\ t.stream.closed = s.stream.closed
               /\ ReleasedBy(t) = ReleasedBy(s)
               /\ Len(t.unacknowledged) >= Len(s.unacknowledged)
               /\ t.pc = "idle" \/ Unsent(t) < Unsent(s)
<1> DEFINE m == NextSegment(s)
           len == SequenceLength(m)
           t == PushRound(s)
           SYN == Flag(m.SYN)
           FIN == Flag(m.FIN)
<1>1. /\ s \in Senders /\ StreamInv(s.stream) /\ NumbersSent(s) /\ OutstandingTiles(s)
      /\ \A i \in 1 .. Len(s.unacknowledged) : SentBy(s.unacknowledged[i], s)
  BY DEF SenderSound
<1>2. /\ t = [s EXCEPT
                !.first_ack = TRUE, !.stream = t.stream, !.next_seqno = t.next_seqno,
                !.is_closed = t.is_closed, !.FIN_sent = t.FIN_sent,
                !.in_flight = t.in_flight, !.unacknowledged = t.unacknowledged,
                !.impossible_ackno = t.impossible_ackno, !.pc = t.pc,
                !.curr_size = t.curr_size]
      /\ t.first_ack = TRUE
      /\ t.next_seqno = s.next_seqno + len
      /\ t.is_closed = (s.is_closed \/ s.stream.closed)
      /\ t.FIN_sent = (s.FIN_sent \/ m.FIN)
      /\ t.in_flight = s.in_flight + len
      /\ t.unacknowledged = IF len = 0 THEN s.unacknowledged ELSE Append(s.unacknowledged, m)
      /\ t.impossible_ackno =
             IF len = 0 THEN s.impossible_ackno
             ELSE Greater(s.impossible_ackno, s.next_seqno + len + 1)
      /\ t.pc = IF len = 0 THEN "idle" ELSE "pushing"
      /\ t.curr_size = IF len = 0 THEN 0 ELSE Budget(s) - m.size
      /\ t.isn = s.isn /\ t.established = s.established
  BY <1>1, PushRoundFields
<1>3. /\ m \in SenderMessages /\ len \in Nat /\ Budget(s) \in Nat
      /\ m.size \in Nat /\ m.size <= Budget(s) /\ m.size <= s.stream.buffered
      /\ m.SYN \in BOOLEAN /\ m.FIN \in BOOLEAN
      /\ m.SYN <=> ~s.first_ack
      /\ m.lo = s.stream.popped
      /\ m.seqno = Wrap(s.next_seqno, s.isn)
      /\ m.FIN => s.stream.closed /\ ~s.FIN_sent
      /\ s.FIN_sent => m.size = 0
      /\ len = SYN + m.size + FIN
      /\ len > 0 => TrueSeqno(m) = s.next_seqno
  BY NextSegmentIs
<1>4. /\ StreamInv(t.stream) /\ t.stream.capacity = s.stream.capacity
      /\ t.stream.popped = s.stream.popped + m.size
      /\ t.stream.buffered = s.stream.buffered - m.size
      /\ t.stream.pushed = s.stream.pushed /\ t.stream.closed = s.stream.closed
      /\ m.FIN => NothingToSend(t.stream)
  BY RoundTakesPayload
<1>5. m.size = 0 => t.stream = s.stream
  BY <1>1, PushRoundFields
<1>6. /\ s.next_seqno \in Nat /\ s.impossible_ackno \in Nat
      /\ s.in_flight \in Nat /\ s.unacknowledged \in Seq(SenderMessages)
      /\ s.first_ack \in BOOLEAN /\ s.is_closed \in BOOLEAN /\ s.FIN_sent \in BOOLEAN
      /\ s.stream.popped \in Nat /\ s.stream.closed \in BOOLEAN /\ s.stream.buffered \in Nat
      /\ Len(s.unacknowledged) \in Nat
  BY <1>1 DEF Senders, ByteStreams
<1>7. /\ SYN = IF s.first_ack THEN 0 ELSE 1
      /\ FIN = IF m.FIN THEN 1 ELSE 0
      /\ SYN \in Nat /\ FIN \in Nat
  BY <1>3, <1>6 DEF Flag
<1>8. SequenceLength(m) = len  OBVIOUS
<1> HIDE DEF m, len, t, SYN, FIN
<1>9. t \in Senders
  <2>1. /\ t.stream \in ByteStreams
        /\ t.next_seqno \in Nat /\ t.is_closed \in BOOLEAN /\ t.FIN_sent \in BOOLEAN
        /\ t.in_flight \in Nat /\ t.unacknowledged \in Seq(SenderMessages)
    BY <1>2, <1>3, <1>4, <1>6 DEF StreamInv
  <2>2. t.impossible_ackno \in Nat /\ t.pc \in {"idle", "pushing", "acking"}
    BY <1>2, <1>3, <1>6 DEF Greater
  <2>3. t.curr_size \in Nat
    BY ONLY <1>2, <1>3
  <2> DEFINE f1 == t.stream         f2 == t.next_seqno
             f3 == t.is_closed      f4 == t.FIN_sent
             f5 == t.in_flight      f6 == t.unacknowledged
             f7 == t.impossible_ackno
             f8 == t.pc             f9 == t.curr_size
  <2>4. t = [s EXCEPT
               !.first_ack = TRUE, !.stream = f1, !.next_seqno = f2,
               !.is_closed = f3, !.FIN_sent = f4, !.in_flight = f5,
               !.unacknowledged = f6, !.impossible_ackno = f7, !.pc = f8,
               !.curr_size = f9]
    BY ONLY <1>2
  <2>5. /\ f1 \in ByteStreams /\ f2 \in Nat /\ f3 \in BOOLEAN /\ f4 \in BOOLEAN
        /\ f5 \in Nat /\ f6 \in Seq(SenderMessages) /\ f7 \in Nat
        /\ f8 \in {"idle", "pushing", "acking"} /\ f9 \in Nat
        /\ s \in Senders
    BY ONLY <1>1, <2>1, <2>2, <2>3
  <2> HIDE DEF f1, f2, f3, f4, f5, f6, f7, f8, f9
  <2> QED BY ONLY <2>4, <2>5, ZenonT(30) DEF Senders
<1>10. NumbersSent(t)
  <2>1. t.next_seqno = 1 + t.stream.popped + Flag(t.FIN_sent)
    <3>1. CASE ~s.first_ack
      <4>1. /\ s.next_seqno = 0 /\ s.stream.popped = 0 /\ ~s.FIN_sent
            /\ SYN = 1 /\ Flag(t.FIN_sent) = FIN
        BY <1>1, <1>2, <1>3, <1>7, <3>1 DEF NumbersSent, Flag
      <4> QED BY ONLY <1>2, <1>3, <1>4, <1>7, <4>1
    <3>2. CASE s.first_ack
      <4>1. s.next_seqno = 1 + s.stream.popped + Flag(s.FIN_sent)
        BY <1>1, <3>2 DEF NumbersSent
      <4>2. SYN = 0 /\ Flag(s.FIN_sent) \in Nat /\ Flag(t.FIN_sent) = Flag(s.FIN_sent) + FIN
        BY ONLY <1>2, <1>3, <1>6, <1>7, <3>2 DEF Flag
      <4>3. /\ t.next_seqno = s.next_seqno + len /\ len = m.size + FIN
            /\ t.stream.popped = s.stream.popped + m.size
            /\ m.size \in Nat /\ s.stream.popped \in Nat /\ FIN \in Nat
        BY ONLY <1>2, <1>3, <1>4, <1>6, <1>7, <4>2
      <4> QED BY ONLY <4>1, <4>2, <4>3
    <3> QED BY ONLY <1>6, <3>1, <3>2
  <2>2. t.impossible_ackno = t.next_seqno + 1
    <3>1. CASE len = 0
      <4>1. s.first_ack
        BY ONLY <1>3, <1>6, <1>7, <3>1
      <4> QED BY <1>1, <1>2, <1>6, <3>1, <4>1 DEF NumbersSent
    <3>2. CASE len > 0
      <4>1. s.impossible_ackno <= s.next_seqno + 1
        BY <1>1, <1>6 DEF NumbersSent
      <4>2. t.impossible_ackno = Greater(s.impossible_ackno, s.next_seqno + len + 1)
        BY <1>2, <1>3, <3>2
      <4>3. s.next_seqno + len + 1 > s.impossible_ackno
        BY ONLY <1>3, <1>6, <3>2, <4>1
      <4> QED BY ONLY <1>2, <1>3, <1>6, <4>2, <4>3 DEF Greater
    <3> QED BY ONLY <1>3, <3>1, <3>2
  <2>3. t.is_closed => t.stream.closed
    BY <1>1, <1>2, <1>4 DEF NumbersSent
  <2>4. t.FIN_sent => t.stream.closed /\ NothingToSend(t.stream)
    <3>1. CASE s.FIN_sent
      BY <1>1, <1>3, <1>4, <1>5, <3>1 DEF NumbersSent
    <3>2. CASE m.FIN
      BY <1>3, <1>4, <3>2
    <3> QED BY <1>2, <3>1, <3>2
  <2> QED BY <1>2, <2>1, <2>2, <2>3, <2>4 DEF NumbersSent
<1>11. OutstandingTiles(t)
  <2>1. CASE len = 0
    <3>1. /\ t.unacknowledged = s.unacknowledged /\ t.next_seqno = s.next_seqno
          /\ t.in_flight = s.in_flight
      BY <1>2, <1>6, <2>1
    <3> QED BY <1>1, <1>2, <3>1 DEF OutstandingTiles
  <2>2. CASE len > 0
    <3>1. Tiles(s.unacknowledged, s.isn, s.next_seqno, s.in_flight)
      BY <1>1 DEF OutstandingTiles
    <3>2. Tiles(Append(s.unacknowledged, m), s.isn, s.next_seqno + len, s.in_flight + len)
      BY <1>3, <1>6, <1>8, <2>2, <3>1, TilesAppend
    <3> QED BY <1>2, <1>3, <2>2, <3>2 DEF OutstandingTiles
  <2> QED BY <1>3, <2>1, <2>2
<1>12. GoesOn(s, t)
  <2>1. s.stream.popped <= t.stream.popped
    BY ONLY <1>3, <1>4, <1>6
  <2>2. s.FIN_sent => t.FIN_sent /\ t.stream.popped = s.stream.popped
    <3>1. s.stream.popped = s.stream.popped + 0  BY <1>6
    <3> QED  BY <1>2, <1>3, <1>4, <3>1
  <2> QED  BY <1>2, <1>4, <2>1, <2>2 DEF GoesOn
<1>13. SentBy(m, t)
  <2>1. ASSUME len > 0
        PROVE  /\ m.SYN => m.lo = 0
               /\ m.seqno = Wrap(TrueSeqno(m), t.isn)
    BY <1>1, <1>2, <1>3, <2>1 DEF NumbersSent
  <2>2. m.lo + m.size <= t.stream.popped /\ m.lo + m.size = t.stream.popped
    BY ONLY <1>3, <1>4, <1>6
  <2> QED  BY <1>2, <1>3, <1>8, <2>1, <2>2 DEF SentBy
<1>14. \A i \in 1 .. Len(s.unacknowledged) : SentBy(s.unacknowledged[i], t)
  <2>1. t.stream.popped \in Nat  BY <1>3, <1>4, <1>6
  <2> QED  BY <1>1, <1>6, <1>12, <2>1, SentStaysSent
<1>15. /\ \A i \in 1 .. Len(t.unacknowledged) : SentBy(t.unacknowledged[i], t)
       /\ Len(t.unacknowledged) >= Len(s.unacknowledged)
       /\ ReleasedBy(t) = ReleasedBy(s)
  <2>1. CASE len = 0
    BY <1>2, <1>6, <1>14, <2>1 DEF ReleasedBy
  <2>2. CASE len > 0
    <3> DEFINE q == s.unacknowledged
               L == Len(q)
    <3>1. /\ t.unacknowledged = Append(q, m) /\ L \in Nat /\ q \in Seq(SenderMessages)
      BY <1>2, <1>3, <1>6, <2>2
    <3>2. /\ Len(Append(q, m)) = L + 1 /\ Append(q, m)[L + 1] = m
          /\ \A i \in 1 .. L : Append(q, m)[i] = q[i]
          /\ Append(q, m) # << >>
      BY <1>3, <3>1, AppendProperties
    <3>3. \A i \in 1 .. L + 1 : SentBy(Append(q, m)[i], t)
      <4>1. \A i \in 1 .. L : SentBy(Append(q, m)[i], t)
        BY <1>14, <3>2
      <4> HIDE DEF L
      <4>2. \A i \in 1 .. L + 1 : i \in 1 .. L \/ i = L + 1
        BY <3>1
      <4> QED  BY <1>13, <3>2, <4>1, <4>2
    <3>4. ReleasedBy(t) = ReleasedBy(s)
      <4>1. CASE q = << >>
        <5>1. L = 0  BY <4>1
        <5>2. Head(Append(q, m)) = m  BY <3>2, <5>1
        <5> QED  BY <1>3, <2>2, <3>1, <3>2, <4>1, <5>2 DEF ReleasedBy
      <4>2. CASE q # << >>
        <5>1. 1 \in 1 .. L  BY <3>1, <4>2, EmptySeq
        <5>2. Head(Append(q, m)) = Head(q)  BY <3>2, <5>1
        <5> QED  BY <3>1, <3>2, <4>2, <5>2 DEF ReleasedBy
      <4> QED  BY <4>1, <4>2
    <3>5. Len(t.unacknowledged) = L + 1  BY <3>1, <3>2
    <3> HIDE DEF L
    <3>6. L + 1 >= L  BY <3>1
    <3> QED  BY <3>1, <3>3, <3>4, <3>5, <3>6 DEF L
  <2> QED  BY <1>3, <2>1, <2>2
<1>16. t.pc = "idle" \/ Unsent(t) < Unsent(s)
  <2>1. SUFFICES ASSUME len > 0 PROVE Unsent(t) < Unsent(s)
    BY <1>2, <1>3
  <2>2. Flag(~t.first_ack) = 0 /\ Flag(~s.first_ack) = SYN
    BY <1>2, <1>6, <1>7 DEF Flag
  <2>3. /\ Flag(~s.FIN_sent) = Flag(~t.FIN_sent) + FIN /\ Flag(~t.FIN_sent) \in Nat
    BY <1>2, <1>3, <1>6, <1>7 DEF Flag
  <2> DEFINE x == Flag(~t.FIN_sent)
  <2>4. /\ Unsent(t) = t.stream.buffered + 0 + x
        /\ Unsent(s) = s.stream.buffered + SYN + (x + FIN)
    BY <2>2, <2>3 DEF Unsent
  <2>5. x \in Nat  BY <2>3
  <2> HIDE DEF x
  <2> QED  BY ONLY <1>3, <1>4, <1>6, <1>7, <2>1, <2>4, <2>5
<1>17. SenderSound(t)
  BY <1>4, <1>9, <1>10, <1>11, <1>15 DEF SenderSound
<1> QED  BY <1>4, <1>12, <1>15, <1>16, <1>17 DEF t

-----------------------------------------------------------------------------
\* What most operations leave as it is.
SameNumbers(s, t) ==
    /\ t.isn = s.isn /\ t.next_seqno = s.next_seqno
    /\ t.impossible_ackno = s.impossible_ackno
    /\ t.in_flight = s.in_flight /\ t.unacknowledged = s.unacknowledged
    /\ t.first_ack = s.first_ack /\ t.is_closed = s.is_closed
    /\ t.FIN_sent = s.FIN_sent /\ t.established = s.established

\* What may happen to the outbound stream but for pop(): nothing behind its end.
StreamKept(b, c) ==
    /\ StreamInv(c) /\ c.capacity = b.capacity /\ c.popped = b.popped
    /\ b.closed => /\ c.closed /\ c.view = b.view
                   /\ c.chunks = b.chunks /\ c.pushed = b.pushed

LEMMA StaysSound ==
    ASSUME NEW s, SenderSound(s), NEW t \in Senders, SameNumbers(s, t),
           StreamKept(s.stream, t.stream)
    PROVE  SenderSound(t) /\ GoesOn(s, t) /\ ReleasedBy(t) = ReleasedBy(s)
<1>1. /\ s \in Senders /\ StreamInv(s.stream) /\ NumbersSent(s) /\ OutstandingTiles(s)
      /\ \A i \in 1 .. Len(s.unacknowledged) : SentBy(s.unacknowledged[i], s)
      /\ s.stream.popped \in Nat
  BY DEF SenderSound, Senders, ByteStreams
<1>2. s.stream.closed /\ NothingToSend(s.stream) => NothingToSend(t.stream)
  <2>1. SUFFICES ASSUME s.stream.closed
                 PROVE  TakenForEnd(t.stream) = TakenForEnd(s.stream)
    BY <2>1 DEF NothingToSend, StreamKept
  <2> QED BY <2>1 DEF TakenForEnd, ViewSize, StreamKept
<1>3. NumbersSent(t)
  BY <1>1, <1>2 DEF NumbersSent, SameNumbers, StreamKept
<1>4. OutstandingTiles(t)
  BY <1>1 DEF OutstandingTiles, SameNumbers
<1>5. GoesOn(s, t)
  BY <1>1 DEF GoesOn, SameNumbers, StreamKept
<1>6. t.stream.popped \in Nat
  BY <1>1 DEF StreamKept
<1>7. \A i \in 1 .. Len(t.unacknowledged) : SentBy(t.unacknowledged[i], t)
  <2>1. t.unacknowledged = s.unacknowledged  BY DEF SameNumbers
  <2> QED  BY ONLY <1>1, <1>5, <1>6, <2>1, SentStaysSent
<1>8. ReleasedBy(t) = ReleasedBy(s)
  BY DEF ReleasedBy, SameNumbers
<1> QED  BY <1>3, <1>4, <1>5, <1>7, <1>8 DEF SenderSound, StreamKept

LEMMA SameStreamKept ==
    ASSUME NEW b, StreamInv(b)
    PROVE  StreamKept(b, b)
BY DEF StreamKept

\* The application's operations on the outbound stream.
LEMMA StreamOperations ==
    ASSUME NEW b, StreamInv(b)
    PROVE  /\ \A n \in Nat : StreamKept(b, Push(b, n))
           /\ StreamKept(b, Close(b))
           /\ StreamKept(b, SetError(b))
<1>1. ASSUME NEW n \in Nat PROVE StreamKept(b, Push(b, n))
  <2>1. /\ StreamInv(Push(b, n)) /\ Push(b, n).popped = b.popped
        /\ Push(b, n).closed = b.closed /\ Push(b, n).capacity = b.capacity
    BY PushInv
  <2>2. b.closed => Push(b, n) = b
    BY DEF Push
  <2> QED  BY <2>1, <2>2 DEF StreamKept
<1>2. StreamKept(b, Close(b))
  <2>1. /\ StreamInv(Close(b)) /\ Close(b).popped = b.popped
        /\ Close(b).capacity = b.capacity
    BY CloseInv
  <2>2. b.closed => Close(b) = b
    BY DEF Close
  <2> QED  BY <2>1, <2>2 DEF StreamKept
<1>3. StreamKept(b, SetError(b))
  <2>1. b \in ByteStreams  BY DEF StreamInv
  <2>2. StreamInv(SetError(b))  BY SetErrorInv
  <2>3. /\ SetError(b).popped = b.popped /\ SetError(b).capacity = b.capacity
        /\ SetError(b).closed = b.closed /\ SetError(b).view = b.view
        /\ SetError(b).chunks = b.chunks /\ SetError(b).pushed = b.pushed
    BY <2>1 DEF SetError, ByteStreams
  <2> QED  BY <2>2, <2>3 DEF StreamKept
<1> QED  BY <1>1, <1>2, <1>3

LEMMA StreamReplaced ==
    ASSUME NEW s, SenderSound(s), NEW c, StreamKept(s.stream, c)
    PROVE  LET t == [s EXCEPT !.stream = c]
           IN  /\ SenderSound(t) /\ GoesOn(s, t) /\ ReleasedBy(t) = ReleasedBy(s)
               /\ t.stream = c /\ t.pc = s.pc /\ t.isn = s.isn
<1> DEFINE t == [s EXCEPT !.stream = c]
<1>1. s \in Senders /\ c \in ByteStreams
  BY DEF SenderSound, StreamKept, StreamInv
<1>2. t \in Senders /\ SameNumbers(s, t) /\ t.stream = c /\ t.pc = s.pc /\ t.isn = s.isn
  BY <1>1 DEF Senders, SameNumbers
<1> HIDE DEF t
<1> QED  BY <1>2, StaysSound DEF t

(***************************************************************************)
(* The call of push(): the budget is the room in the window.               *)
(***************************************************************************)
LEMMA PushCallFields ==
    ASSUME NEW s \in Senders
    PROVE  LET t == PushCall(s)
           IN  /\ t \in Senders /\ SameNumbers(s, t) /\ t.stream = s.stream
               /\ t.pc = "pushing"
               /\ t.curr_size = IF s.window_size = 0 /\ s.in_flight = 0 /\ s.established
                                THEN 1 ELSE Lesser(MaxPayload, WindowRoom(s))
               /\ t.window_size = s.window_size /\ t.curr_RTO = s.curr_RTO
               /\ t.initial_RTO = s.initial_RTO /\ t.last_tick = s.last_tick
               /\ t.retransmissions = s.retransmissions
               /\ t.ack_no = s.ack_no /\ t.poped = s.poped
<1> DEFINE size == IF s.window_size = 0 /\ s.in_flight = 0 /\ s.established
                   THEN 1 ELSE Lesser(MaxPayload, WindowRoom(s))
<1>1. size \in Nat
  BY BudgetBounds, PayloadAssumption DEF Lesser
<1>2. PushCall(s) = [s EXCEPT !.pc = "pushing", !.curr_size = size]
  BY DEF PushCall
<1> HIDE DEF size
<1>3. PushCall(s) \in Senders
  BY ONLY <1>1, <1>2, s \in Senders DEF Senders
<1> QED  BY <1>2, <1>3 DEF Senders, SameNumbers, size

LEMMA PushCallSound ==
    ASSUME NEW s, SenderSound(s)
    PROVE  LET t == PushCall(s)
           IN  /\ SenderSound(t) /\ GoesOn(s, t) /\ ReleasedBy(t) = ReleasedBy(s)
               /\ t.stream = s.stream /\ t.unacknowledged = s.unacknowledged
<1>1. s \in Senders /\ StreamInv(s.stream)
  BY DEF SenderSound
<1> DEFINE t == PushCall(s)
<1>2. t \in Senders /\ SameNumbers(s, t) /\ t.stream = s.stream
  BY <1>1, PushCallFields
<1> HIDE DEF t
<1>3. StreamKept(s.stream, t.stream)
  BY <1>1, <1>2, SameStreamKept
<1> QED  BY <1>2, <1>3, StaysSound DEF t, SameNumbers

(***************************************************************************)
(* An acknowledgment that is accepted is of something that was sent.       *)
(***************************************************************************)
LEMMA AcknowledgesWhatWasSent ==
    ASSUME NEW s \in Senders, NumbersSent(s), NEW m \in ReceiverMessages, Acknowledges(s, m)
    PROVE  /\ AckNo(s, m) \in Nat
           /\ AckNo(s, m) <= s.next_seqno
<1>1. /\ s.next_seqno \in Nat /\ s.isn \in RawValues /\ m.ackno \in RawValues
      /\ s.first_ack \in BOOLEAN
  BY DEF Senders, Acknowledges, ReceiverMessages
<1>2. AckNo(s, m) \in Nat
  BY <1>1, UnwrapIsNearest DEF AckNo, IsNearest
<1>3. AckNo(s, m) < s.impossible_ackno
  BY DEF Acknowledges
<1>4. s.impossible_ackno = 0 \/ s.impossible_ackno = s.next_seqno + 1
  BY <1>1 DEF NumbersSent
<1> QED BY <1>1, <1>2, <1>3, <1>4

(***************************************************************************)
(* The call of receive(), of any message but a reset.                      *)
(***************************************************************************)
LEMMA ReceiveCallFields ==
    ASSUME NEW s, SenderSound(s), NEW m \in ReceiverMessages, ~m.RST
    PROVE  LET t == ReceiveCall(s, m)
           IN  /\ t \in Senders /\ SameNumbers(s, t) /\ t.stream = s.stream
               /\ t.window_size = m.window_size /\ t.curr_RTO = s.curr_RTO
               /\ t.initial_RTO = s.initial_RTO /\ t.last_tick = s.last_tick
               /\ t.retransmissions = s.retransmissions
               /\ IF Acknowledges(s, m)
                  THEN t.pc = "acking" /\ t.ack_no = AckNo(s, m) /\ t.poped = FALSE
                  ELSE t.pc = s.pc /\ t.curr_size = s.curr_size
<1>1. s \in Senders /\ NumbersSent(s) /\ m.window_size \in Nat
  BY MaxWindowAssumption DEF SenderSound, ReceiverMessages
<1>2. CASE Acknowledges(s, m)
  <2> DEFINE a == AckNo(s, m)
  <2>1. a \in Nat
    BY <1>1, <1>2, AcknowledgesWhatWasSent
  <2>2. ReceiveCall(s, m) = [s EXCEPT !.window_size = m.window_size, !.pc = "acking",
                                      !.ack_no = a, !.poped = FALSE]
    BY <1>2 DEF ReceiveCall
  <2> HIDE DEF a
  <2>3. ReceiveCall(s, m) \in Senders
    BY ONLY <1>1, <2>1, <2>2, ZenonT(30) DEF Senders
  <2> QED  BY <1>1, <1>2, <2>2, <2>3 DEF Senders, SameNumbers, a
<1>3. CASE ~Acknowledges(s, m)
  <2>1. ReceiveCall(s, m) = [s EXCEPT !.window_size = m.window_size]
    BY <1>3 DEF ReceiveCall
  <2>2. ReceiveCall(s, m) \in Senders
    BY ONLY <1>1, <2>1 DEF Senders
  <2> QED  BY <1>1, <1>3, <2>1, <2>2 DEF Senders, SameNumbers
<1> QED  BY <1>2, <1>3

LEMMA ReceiveCallSound ==
    ASSUME NEW s, SenderSound(s), NEW m \in ReceiverMessages
    PROVE  LET t == ReceiveCall(s, m)
           IN  /\ SenderSound(t) /\ GoesOn(s, t) /\ ReleasedBy(t) = ReleasedBy(s)
               /\ t.stream.pushed = s.stream.pushed /\ t.stream.closed = s.stream.closed
               /\ t.unacknowledged = s.unacknowledged
               /\ \/ t.pc = s.pc
                  \/ /\ t.pc = "acking" /\ Acknowledges(s, m)
                     /\ t.ack_no = AckNo(s, m)
<1>1. s \in Senders /\ StreamInv(s.stream) /\ m.RST \in BOOLEAN
  BY DEF SenderSound, ReceiverMessages
<1> DEFINE t == ReceiveCall(s, m)
<1>2. CASE m.RST
  <2> DEFINE c == SetError(s.stream)
  <2>1. t = [s EXCEPT !.stream = c]
    BY <1>2 DEF ReceiveCall
  <2>2. StreamKept(s.stream, c)
    BY <1>1, StreamOperations
  <2>3. c.pushed = s.stream.pushed /\ c.closed = s.stream.closed
    BY <1>1 DEF StreamInv, SetError, ByteStreams
  <2> HIDE DEF c, t
  <2>4. t.unacknowledged = s.unacknowledged
    BY <1>1, <2>1 DEF Senders
  <2> QED  BY <2>1, <2>2, <2>3, <2>4, StreamReplaced DEF t
<1>3. CASE ~m.RST
  <2>1. /\ t \in Senders /\ SameNumbers(s, t) /\ t.stream = s.stream
        /\ IF Acknowledges(s, m)
           THEN t.pc = "acking" /\ t.ack_no = AckNo(s, m) ELSE t.pc = s.pc
    BY <1>3, ReceiveCallFields
  <2> HIDE DEF t
  <2>2. StreamKept(s.stream, t.stream)
    BY <1>1, <2>1, SameStreamKept
  <2> QED  BY <2>1, <2>2, StaysSound DEF t, SameNumbers
<1> QED  BY <1>1, <1>2, <1>3

(***************************************************************************)
(* The sequence number of the oldest segment is read correctly when what   *)
(* is in flight is less than half the sequence space.                      *)
(***************************************************************************)
LEMMA FrontIsExact ==
    ASSUME NEW s \in Senders, OutstandingTiles(s), 2 * s.in_flight < Modulus,
           s.unacknowledged # << >>
    PROVE  LET m == Head(s.unacknowledged)
           IN  /\ m = s.unacknowledged[1] /\ m \in SenderMessages
               /\ SequenceLength(m) \in Nat /\ TrueSeqno(m) \in Nat
               /\ Unwrap(m.seqno, s.isn, s.next_seqno) = TrueSeqno(m)
               /\ FrontAcked(s) <=> TrueSeqno(m) + SequenceLength(m) <= s.ack_no
<1> DEFINE m == s.unacknowledged[1]
           start == TrueSeqno(m)
<1>1. /\ s.next_seqno \in Nat /\ s.isn \in RawValues /\ s.in_flight \in Nat
      /\ s.unacknowledged \in Seq(SenderMessages)
  BY DEF Senders
<1>2. Head(s.unacknowledged) = m /\ m \in SenderMessages /\ 1 \in 1 .. Len(s.unacknowledged)
      /\ Len(s.unacknowledged) # 0
  BY <1>1, EmptySeq
<1>3. start \in Nat /\ SequenceLength(m) \in Nat
  BY <1>2, MessageNumbers
<1>4. m.seqno = Wrap(start, s.isn) /\ s.in_flight = s.next_seqno - start
  BY <1>2 DEF OutstandingTiles, Tiles
<1>5. 2 * s.in_flight < Modulus
  OBVIOUS
<1> HIDE DEF start
<1>6. /\ start - s.next_seqno <= Modulus \div 2
      /\ s.next_seqno - start < Modulus \div 2
  BY ONLY <1>1, <1>3, <1>4, <1>5, ModulusAssumption, EvenAssumption
<1>7. Unwrap(Wrap(start, s.isn), s.isn, s.next_seqno) = start
  BY ONLY <1>1, <1>3, <1>6, RoundTrip
<1>8. Unwrap(m.seqno, s.isn, s.next_seqno) = start
  BY ONLY <1>4, <1>7
<1>9. FrontAcked(s) <=> start + SequenceLength(m) <= s.ack_no
  BY <1>2, <1>8 DEF FrontAcked
<1> QED BY <1>2, <1>3, <1>8, <1>9 DEF start

-----------------------------------------------------------------------------
(***************************************************************************)
(* A round of receive(): the last one, and one that removes a segment.     *)
(***************************************************************************)
LEMMA LastAckRound ==
    ASSUME NEW s \in Senders, ~FrontAcked(s)
    PROVE  LET t == AckRound(s)
           IN  /\ t \in Senders /\ SameNumbers(s, t) /\ t.stream = s.stream
               /\ t.window_size = s.window_size /\ t.curr_RTO = s.curr_RTO
               /\ t.initial_RTO = s.initial_RTO
               /\ t.last_tick = IF s.poped THEN 0 ELSE s.last_tick
               /\ t.retransmissions = s.retransmissions
               /\ t.pc = "idle"
<1> DEFINE tick == IF s.poped THEN 0 ELSE s.last_tick
           none == 0
           t == AckRound(s)
<1>1. t = [s EXCEPT !.last_tick = tick,
                    !.pc = "idle", !.ack_no = none, !.poped = FALSE]
  BY DEF AckRound
<1>2. tick \in Nat /\ none \in Nat
  BY DEF Senders
<1> HIDE DEF tick, none, t
<1>3. t \in Senders
  BY ONLY <1>1, <1>2, s \in Senders, ZenonT(30) DEF Senders
<1> QED  BY <1>1, <1>3 DEF Senders, SameNumbers, tick, t

LEMMA RemovingAckRound ==
    ASSUME NEW s, SenderSound(s), 2 * s.in_flight < Modulus, FrontAcked(s)
    PROVE  LET t    == AckRound(s)
               m    == s.unacknowledged[1]
               len  == SequenceLength(m)
               rest == Tail(s.unacknowledged)
           IN  /\ t \in Senders /\ t.stream = s.stream
               /\ t.isn = s.isn /\ t.initial_RTO = s.initial_RTO
               /\ t.next_seqno = s.next_seqno
               /\ t.impossible_ackno = s.impossible_ackno
               /\ t.window_size = s.window_size /\ t.curr_RTO = s.initial_RTO
               /\ t.last_tick = s.last_tick
               /\ t.retransmissions = 0
               /\ t.in_flight = s.in_flight - len
               /\ t.unacknowledged = rest
               /\ t.first_ack = s.first_ack /\ t.is_closed = s.is_closed
               /\ t.FIN_sent = s.FIN_sent
               /\ t.pc = s.pc /\ t.curr_size = s.curr_size /\ t.ack_no = s.ack_no
               /\ t.poped = TRUE
               /\ s.unacknowledged # << >> /\ Head(s.unacknowledged) = m
               /\ TrueSeqno(m) \in Nat /\ len \in Nat
               /\ TrueSeqno(m) + len <= s.ack_no
               /\ s.in_flight - len \in Nat
               /\ Tiles(rest, s.isn, s.next_seqno, s.in_flight - len)
               /\ IF rest = << >> THEN TrueSeqno(m) + len = s.next_seqno
                  ELSE TrueSeqno(rest[1]) = TrueSeqno(m) + len
<1>1. s \in Senders /\ OutstandingTiles(s) /\ s.unacknowledged # << >>
  BY DEF SenderSound, FrontAcked
<1>2. /\ s.unacknowledged \in Seq(SenderMessages)
      /\ s.in_flight \in Nat /\ s.next_seqno \in Nat /\ s.initial_RTO \in Nat
      /\ s.established \in BOOLEAN
  BY <1>1 DEF Senders
<1> DEFINE m == s.unacknowledged[1]
           len == SequenceLength(m)
           start == TrueSeqno(m)
           rest == Tail(s.unacknowledged)
           flight == s.in_flight - len
           established == s.established \/ m.SYN
           t == AckRound(s)
<1>3. /\ Head(s.unacknowledged) = m /\ m \in SenderMessages
      /\ len \in Nat /\ start \in Nat
      /\ start + len <= s.ack_no
  BY <1>1, FrontIsExact
<1>4. t = [s EXCEPT !.curr_RTO = s.initial_RTO, !.retransmissions = 0,
                    !.in_flight = flight, !.established = established,
                    !.unacknowledged = rest, !.poped = TRUE]
  BY <1>3 DEF AckRound
<1>5. Tiles(s.unacknowledged, s.isn, s.next_seqno, s.in_flight)
  BY <1>1 DEF OutstandingTiles
<1>6. /\ flight \in Nat /\ Tiles(rest, s.isn, s.next_seqno, flight)
      /\ IF rest = << >> THEN start + len = s.next_seqno
         ELSE TrueSeqno(rest[1]) = start + len
  BY ONLY <1>1, <1>2, <1>5, TilesTail
<1>7. rest \in Seq(SenderMessages)
  BY <1>1, <1>2, HeadTailProperties
<1>8. m.SYN \in BOOLEAN
  BY <1>3 DEF SenderMessages
<1>9. established \in BOOLEAN
  BY <1>2, <1>8
<1> HIDE DEF m, len, start, rest, flight, established, t
<1>10. t \in Senders
  BY ONLY <1>1, <1>2, <1>4, <1>6, <1>7, <1>9 DEF Senders
<1>11. /\ t.stream = s.stream
       /\ t.isn = s.isn /\ t.initial_RTO = s.initial_RTO
       /\ t.next_seqno = s.next_seqno
       /\ t.impossible_ackno = s.impossible_ackno
       /\ t.window_size = s.window_size /\ t.curr_RTO = s.initial_RTO
       /\ t.last_tick = s.last_tick
       /\ t.retransmissions = 0
       /\ t.in_flight = flight
       /\ t.unacknowledged = rest
       /\ t.first_ack = s.first_ack /\ t.is_closed = s.is_closed
       /\ t.FIN_sent = s.FIN_sent
       /\ t.pc = s.pc /\ t.curr_size = s.curr_size /\ t.ack_no = s.ack_no
       /\ t.poped = TRUE
  BY ONLY <1>1, <1>4 DEF Senders
<1> QED  BY ONLY <1>1, <1>3, <1>6, <1>10, <1>11 DEF t, m, len, start, rest, flight

(***************************************************************************)
(* A round of receive() leaves the sender sound and releases nothing that  *)
(* the acknowledgment does not cover, and either it is the last or there   *)
(* is less to remove (tcp_sender.cc:86-102).                               *)
(***************************************************************************)
LEMMA AckRoundSound ==
    ASSUME NEW s, SenderSound(s), 2 * s.in_flight < Modulus
    PROVE  LET t == AckRound(s)
           IN  /\ SenderSound(t) /\ GoesOn(s, t)
               /\ t.stream = s.stream
               /\ t.ack_no = s.ack_no \/ t.pc = "idle"
               /\ t.next_seqno = s.next_seqno
               /\ ReleasedBy(t) = ReleasedBy(s) \/ ReleasedBy(t) <= s.ack_no
               /\ t.in_flight <= s.in_flight
               /\ t.pc = "idle" \/ Len(t.unacknowledged) < Len(s.unacknowledged)
<1>1. /\ s \in Senders /\ StreamInv(s.stream) /\ NumbersSent(s) /\ OutstandingTiles(s)
      /\ \A i \in 1 .. Len(s.unacknowledged) : SentBy(s.unacknowledged[i], s)
      /\ s.stream.popped \in Nat /\ s.in_flight \in Nat
      /\ s.unacknowledged \in Seq(SenderMessages) /\ s.first_ack \in BOOLEAN
      /\ s.ack_no \in Nat /\ s.next_seqno \in Nat
  BY DEF SenderSound, Senders, ByteStreams
<1> DEFINE t == AckRound(s)
           m == s.unacknowledged[1]
           len == SequenceLength(m)
           start == TrueSeqno(m)
           rest == Tail(s.unacknowledged)
<1>2. CASE FrontAcked(s)
  <2>1. /\ t \in Senders /\ t.stream = s.stream /\ t.isn = s.isn
        /\ t.next_seqno = s.next_seqno
        /\ t.impossible_ackno = s.impossible_ackno
        /\ t.in_flight = s.in_flight - len /\ t.unacknowledged = rest
        /\ t.first_ack = s.first_ack /\ t.is_closed = s.is_closed
        /\ t.FIN_sent = s.FIN_sent /\ t.ack_no = s.ack_no
        /\ s.unacknowledged # << >>
        /\ start \in Nat /\ len \in Nat /\ start + len <= s.ack_no
        /\ Tiles(rest, s.isn, s.next_seqno, s.in_flight - len)
        /\ IF rest = << >> THEN start + len = s.next_seqno
           ELSE TrueSeqno(rest[1]) = start + len
    BY <1>2, RemovingAckRound
  <2>2. /\ rest \in Seq(SenderMessages) /\ Len(rest) = Len(s.unacknowledged) - 1
        /\ \A i \in 1 .. Len(rest) : rest[i] = s.unacknowledged[i + 1]
    BY <1>1, <2>1, HeadTailProperties
  <2> HIDE DEF t, m, len, start, rest
  <2>3. s.first_ack
    BY <1>1, <2>1 DEF NumbersSent
  <2>4. NumbersSent(t)
    BY <1>1, <2>1, <2>3 DEF NumbersSent
  <2>5. OutstandingTiles(t)
    BY <2>1 DEF OutstandingTiles
  <2>6. GoesOn(s, t)
    BY <1>1, <2>1 DEF GoesOn
  <2>7. \A i \in 1 .. Len(rest) : SentBy(rest[i], t)
    <3> SUFFICES ASSUME NEW i \in 1 .. Len(rest) PROVE SentBy(rest[i], t)
      OBVIOUS
    <3> DEFINE j == i + 1
    <3>1. j \in 1 .. Len(s.unacknowledged) /\ rest[i] = s.unacknowledged[j]
      BY ONLY <1>1, <2>2, i \in 1 .. Len(rest)
    <3> HIDE DEF j
    <3>2. SentBy(s.unacknowledged[j], s)
      BY <1>1, <3>1
    <3> QED  BY ONLY <1>1, <2>1, <2>6, <3>1, <3>2, SentStaysSent
  <2>8. ReleasedBy(t) = start + len
    <3>1. rest # << >> => Head(rest) = rest[1]
      BY <2>2
    <3> QED  BY <2>1, <3>1 DEF ReleasedBy
  <2>9. SenderSound(t)
    BY <1>1, <2>1, <2>4, <2>5, <2>7 DEF SenderSound
  <2>10. t.in_flight <= s.in_flight
    BY ONLY <1>1, <2>1
  <2>11. Len(t.unacknowledged) < Len(s.unacknowledged)
    BY ONLY <1>1, <2>1, <2>2
  <2> QED  BY ONLY <2>1, <2>6, <2>8, <2>9, <2>10, <2>11 DEF t
<1>3. CASE ~FrontAcked(s)
  <2>1. t \in Senders /\ SameNumbers(s, t) /\ t.stream = s.stream /\ t.pc = "idle"
    BY <1>1, <1>3, LastAckRound
  <2> HIDE DEF t
  <2>2. StreamKept(s.stream, t.stream)
    BY <1>1, <2>1, SameStreamKept
  <2>3. SenderSound(t) /\ GoesOn(s, t) /\ ReleasedBy(t) = ReleasedBy(s)
    BY <2>1, <2>2, StaysSound
  <2>4. t.in_flight = s.in_flight /\ t.next_seqno = s.next_seqno /\ s.in_flight <= s.in_flight
    BY <1>1, <2>1 DEF SameNumbers
  <2> QED  BY ONLY <2>1, <2>3, <2>4 DEF t
<1> QED  BY <1>2, <1>3

(***************************************************************************)
(* tick().                                                                 *)
(***************************************************************************)
LEMMA TickFields ==
    ASSUME NEW s \in Senders, NEW ms \in Nat
    PROVE  LET t == Tick(s, ms)
           IN  /\ t \in Senders /\ SameNumbers(s, t) /\ t.stream = s.stream
               /\ t.window_size = s.window_size /\ t.initial_RTO = s.initial_RTO
               /\ t.pc = s.pc /\ t.curr_size = s.curr_size
               /\ t.ack_no = s.ack_no /\ t.poped = s.poped
               /\ s.unacknowledged = << >> => t = s
<1>1. CASE s.unacknowledged = << >>
  BY <1>1 DEF Tick, SameNumbers
<1>2. CASE s.unacknowledged # << >> /\ ~Expires(s, ms)
  <2> DEFINE tick == s.last_tick + ms
  <2>1. tick \in Nat
    BY DEF Senders
  <2>2. Tick(s, ms) = [s EXCEPT !.last_tick = tick]
    BY <1>2 DEF Tick
  <2> HIDE DEF tick
  <2> QED  BY <1>2, <2>1, <2>2 DEF Senders, SameNumbers
<1>3. CASE s.unacknowledged # << >> /\ Expires(s, ms)
  <2> DEFINE retx == s.retransmissions + 1
             rto  == IF \/ Head(s.unacknowledged).SYN
                        \/ s.established /\ s.window_size > 0
                     THEN 2 * s.curr_RTO ELSE s.curr_RTO
             tick == 0
             t    == Tick(s, ms)
  <2>1. retx \in Nat /\ rto \in Nat /\ tick \in Nat
    BY DEF Senders
  <2>2. t = [s EXCEPT !.retransmissions = retx, !.curr_RTO = rto, !.last_tick = tick]
    BY <1>3 DEF Tick
  <2> HIDE DEF retx, rto, tick, t
  <2>3. t \in Senders
    BY ONLY <2>1, <2>2, s \in Senders, ZenonT(30) DEF Senders
  <2> QED  BY <1>3, <2>2, <2>3 DEF Senders, SameNumbers, t
<1> QED  BY <1>1, <1>2, <1>3

LEMMA TickSound ==
    ASSUME NEW s, SenderSound(s), NEW ms \in Nat
    PROVE  LET t == Tick(s, ms)
           IN  /\ SenderSound(t) /\ GoesOn(s, t) /\ ReleasedBy(t) = ReleasedBy(s)
               /\ t.stream = s.stream /\ t.pc = s.pc
<1>1. s \in Senders /\ StreamInv(s.stream)
  BY DEF SenderSound
<1> DEFINE t == Tick(s, ms)
<1>2. t \in Senders /\ SameNumbers(s, t) /\ t.stream = s.stream /\ t.pc = s.pc
  BY <1>1, TickFields
<1> HIDE DEF t
<1>3. StreamKept(s.stream, t.stream)
  BY <1>1, <1>2, SameStreamKept
<1> QED  BY <1>2, <1>3, StaysSound DEF t

LEMMA NewSenderSound ==
    ASSUME NEW capacity \in Nat, NEW isn \in RawValues, NEW rto \in Nat
    PROVE  LET s == NewSender(capacity, isn, rto)
           IN  /\ SenderSound(s) /\ s.pc = "idle" /\ s.isn = isn /\ ReleasedBy(s) = 0
               /\ s.stream = NewByteStream(capacity) /\ s.stream.pushed = 0
               /\ s.unacknowledged = << >>
<1> DEFINE s == NewSender(capacity, isn, rto)
           b == NewByteStream(capacity)
<1>1. StreamInv(b) /\ b \in ByteStreams
  BY NewStreamInv DEF StreamInv
<1>2. b.popped = 0 /\ b.pushed = 0 /\ b.closed = FALSE
  BY DEF NewByteStream
<1> HIDE DEF b
<1>3. s \in Senders
  BY <1>1 DEF NewSender, Senders, b
<1>4. /\ s.stream = b /\ s.pc = "idle" /\ s.isn = isn /\ s.unacknowledged = << >>
      /\ s.next_seqno = 0 /\ s.impossible_ackno = 0 /\ s.in_flight = 0
      /\ s.first_ack = FALSE /\ s.is_closed = FALSE /\ s.FIN_sent = FALSE
      /\ s.established = FALSE
  BY DEF NewSender, b
<1> HIDE DEF s
<1>5. NumbersSent(s)
  BY <1>2, <1>4 DEF NumbersSent
<1>6. OutstandingTiles(s) /\ ReleasedBy(s) = 0 /\ Len(s.unacknowledged) = 0
  BY <1>4 DEF OutstandingTiles, Tiles, ReleasedBy
<1> QED  BY <1>1, <1>2, <1>3, <1>4, <1>5, <1>6 DEF SenderSound, s, b

-----------------------------------------------------------------------------
(***************************************************************************)
(* When no byte of the stream is 0xFF, a sender that has nothing to send   *)
(* has sent all that was written.                                          *)
(***************************************************************************)
LEMMA NothingLeft ==
    ASSUME NEW s, StreamInv(s), NothingToSend(s), EOFBytes = {}
    PROVE  s.buffered = 0
<1>1. /\ s.chunks \in Seq(Nat) /\ Len(s.chunks) \in Nat
      /\ s.view \in Nat /\ s.pushed \in Nat /\ s.popped \in Nat /\ s.buffered \in Nat
      /\ s.pushed = s.popped + s.buffered
  BY DEF StreamInv, ByteStreams, Accounting
<1>2. CASE s.view = 0
  BY <1>1, <1>2 DEF StreamInv, ChunksEndToEnd, ViewFollowsBuffer
<1>3. CASE s.view # 0
  <2>1. s.view = 1 /\ s.chunks[1] > s.pushed
    BY <1>3 DEF NothingToSend, TakenForEnd, ViewSize
  <2>2. s.chunks[1] = s.popped + s.view
    BY <1>1, <1>3 DEF StreamInv, ViewFollowsBuffer
  <2> QED BY ONLY <1>1, <2>1, <2>2
<1> QED BY <1>2, <1>3

=============================================================================
