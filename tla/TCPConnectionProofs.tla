------------------------ MODULE TCPConnectionProofs -------------------------
(***************************************************************************)
(* What two TCPPeers keep true of each other over a network that loses,    *)
(* duplicates and reorders their segments, for every capacity, payload     *)
(* size, timeout and number of segments on their way.                      *)
(***************************************************************************)
EXTENDS TCPConnection, TCPSenderLemmas

\* What the writer has put into a stream is the same in b and c.
SameInput(b, c) == c.pushed = b.pushed /\ c.closed = b.closed

(***************************************************************************)
(* The loop of push(), run to its end.  The states after each of k rounds, *)
(* each in a set of its own, as AfterRounds has them.                      *)
(***************************************************************************)
AfterPushRound(X) == {IF t.pc = "idle" THEN t ELSE PushRound(t) : t \in X}

PushRounds(f, s, k) ==
    f = [i \in 0 .. k |-> IF i = 0 THEN {s} ELSE AfterPushRound(f[i - 1])]

LEMMA PushRoundsExist ==
    ASSUME NEW s, NEW N \in Nat
    PROVE  \E f : PushRounds(f, s, N)
<1> DEFINE S == {k \in Nat : \E f : PushRounds(f, s, k)}
<1>1. 0 \in S
  <2> DEFINE f == [i \in 0 .. 0 |-> {s}]
  <2>1. \A i \in 0 .. 0 : f[i] = IF i = 0 THEN {s} ELSE AfterPushRound(f[i - 1])
    <3>1. \A i \in 0 .. 0 : i = 0  OBVIOUS
    <3> QED  BY <3>1
  <2>2. f = [i \in 0 .. 0 |-> f[i]]  OBVIOUS
  <2> HIDE DEF f
  <2>3. f = [i \in 0 .. 0 |-> IF i = 0 THEN {s} ELSE AfterPushRound(f[i - 1])]
    BY <2>1, <2>2
  <2>4. PushRounds(f, s, 0)  BY ONLY <2>3 DEF PushRounds
  <2> QED  BY <2>4
<1>2. ASSUME NEW k \in 1 .. N, k - 1 \in S PROVE k \in S
  <2>1. PICK f : PushRounds(f, s, k - 1)  BY <1>2
  <2> DEFINE g == [i \in 0 .. k |-> IF i = 0 THEN {s} ELSE AfterPushRound(f[i - 1])]
  <2>2. \A i \in 0 .. k - 1 : f[i] = IF i = 0 THEN {s} ELSE AfterPushRound(f[i - 1])
    BY <2>1 DEF PushRounds
  <2>3. \A i \in 0 .. k - 1 : g[i] = f[i]
    <3>1. \A i \in 0 .. k - 1 : i \in 0 .. k  OBVIOUS
    <3>2. \A i \in 0 .. k : g[i] = IF i = 0 THEN {s} ELSE AfterPushRound(f[i - 1])
      OBVIOUS
    <3> HIDE DEF g
    <3> QED  BY <2>2, <3>1, <3>2
  <2>4. \A i \in 0 .. k : g[i] = IF i = 0 THEN {s} ELSE AfterPushRound(g[i - 1])
    <3> SUFFICES ASSUME NEW i \in 0 .. k
                 PROVE  g[i] = IF i = 0 THEN {s} ELSE AfterPushRound(g[i - 1])
      OBVIOUS
    <3>1. i # 0 => i - 1 \in 0 .. k - 1  OBVIOUS
    <3> QED  BY <2>3, <3>1
  <2>5. g = [i \in 0 .. k |-> g[i]]  OBVIOUS
  <2> HIDE DEF g
  <2>6. g = [i \in 0 .. k |-> IF i = 0 THEN {s} ELSE AfterPushRound(g[i - 1])]
    BY <2>4, <2>5
  <2>7. PushRounds(g, s, k)  BY ONLY <2>6 DEF PushRounds
  <2> QED  BY <2>7
<1> HIDE DEF S
<1>3. N \in S
  BY <1>1, <1>2, RoundByRound, N \in 0 .. N
<1> QED  BY <1>3 DEF S

(***************************************************************************)
(* push() leaves the sender sound and idle, whatever it sends (tcp_sender  *)
(* .cc:7-60).                                                              *)
(***************************************************************************)
LEMMA PushedSound ==
    ASSUME NEW s, SenderSound(s)
    PROVE  LET t == Pushed(s)
           IN  /\ SenderSound(t) /\ GoesOn(s, t) /\ t.pc = "idle"
               /\ SameInput(s.stream, t.stream)
               /\ ReleasedBy(t) = ReleasedBy(s)
               /\ Len(t.unacknowledged) >= Len(s.unacknowledged)
<1> DEFINE N == s.stream.buffered + 3
           u == PushCall(s)
           f == CHOOSE g : PushRounds(g, u, N)
<1>1. /\ SenderSound(u) /\ GoesOn(s, u) /\ ReleasedBy(u) = ReleasedBy(s)
      /\ u.stream = s.stream /\ u.unacknowledged = s.unacknowledged
  BY PushCallSound
<1>2. /\ s.stream.popped \in Nat /\ N \in Nat /\ N = s.stream.buffered + 3
      /\ s.stream.buffered \in Nat
  <2>1. s.stream \in ByteStreams
    <3>1. s \in Senders  BY DEF SenderSound
    <3> QED  BY <3>1 DEF Senders
  <2> QED  BY ONLY <2>1 DEF ByteStreams, N
<1>3. PushRounds(f, u, N)
  <2> HIDE DEF N, u
  <2> QED  BY <1>2, PushRoundsExist
<1>4. Pushed(s) = CHOOSE t \in f[N] : TRUE
  BY DEF Pushed, AfterRounds, PushRounds, AfterPushRound
<1> HIDE DEF f, N, u
<1>5. /\ f[0] = {u}
      /\ \A i \in 1 .. N : f[i] = AfterPushRound(f[i - 1])
  <2>1. \A i \in 0 .. N : f[i] = IF i = 0 THEN {u}
                                 ELSE AfterPushRound(f[i - 1])
    BY <1>3 DEF PushRounds
  <2> QED  BY <1>2, <2>1
<1> DEFINE Good(t, i) == /\ SenderSound(t) /\ GoesOn(s, t)
                         /\ SameInput(s.stream, t.stream)
                         /\ ReleasedBy(t) = ReleasedBy(s)
                         /\ Len(t.unacknowledged) >= Len(s.unacknowledged)
                         /\ t.pc = "idle" \/ Unsent(t) + i <= Unsent(u)
           S == {i \in Nat : \E t : f[i] = {t} /\ Good(t, i)}
<1>6. \A t : SenderSound(t) => /\ Unsent(t) \in Nat /\ Len(t.unacknowledged) \in Nat
                               /\ Unsent(t) <= t.stream.buffered + 2
                               /\ t.stream.popped \in Nat
  <2> SUFFICES ASSUME NEW t, SenderSound(t)
               PROVE  /\ Unsent(t) \in Nat /\ Len(t.unacknowledged) \in Nat
                      /\ Unsent(t) <= t.stream.buffered + 2
                      /\ t.stream.popped \in Nat
    OBVIOUS
  <2>1. /\ t.stream.buffered \in Nat /\ t.stream.popped \in Nat
        /\ Len(t.unacknowledged) \in Nat
    <3>1. t \in Senders  BY DEF SenderSound
    <3>2. t.stream \in ByteStreams /\ t.unacknowledged \in Seq(SenderMessages)
      BY <3>1 DEF Senders
    <3> QED  BY ONLY <3>2 DEF ByteStreams
  <2>2. /\ Flag(~t.first_ack) \in Nat /\ Flag(~t.first_ack) <= 1
        /\ Flag(~t.FIN_sent) \in Nat /\ Flag(~t.FIN_sent) <= 1
    BY DEF Flag
  <2> QED  BY ONLY <2>1, <2>2 DEF Unsent
<1>7. 0 \in S
  <2>1. Unsent(u) + 0 <= Unsent(u)  BY <1>1, <1>6
  <2>2. Len(u.unacknowledged) >= Len(s.unacknowledged)  BY <1>1, <1>6
  <2>3. SameInput(s.stream, u.stream)  BY <1>1 DEF SameInput
  <2> QED  BY <1>1, <1>5, <2>1, <2>2, <2>3
<1>8. ASSUME NEW i \in 1 .. N, i - 1 \in S PROVE i \in S
  <2>1. PICK t : f[i - 1] = {t} /\ Good(t, i - 1)  BY <1>8
  <2> DEFINE v == IF t.pc = "idle" THEN t ELSE PushRound(t)
  <2>2. f[i] = {v}  BY <1>5, <2>1 DEF AfterPushRound
  <2>3. Good(v, i)
    <3>1. CASE t.pc = "idle"
      BY <2>1, <3>1
    <3>2. CASE t.pc # "idle"
      <4>1. /\ SenderSound(v) /\ GoesOn(t, v) /\ v.stream.pushed = t.stream.pushed
            /\ v.stream.closed = t.stream.closed
            /\ ReleasedBy(v) = ReleasedBy(t)
            /\ Len(v.unacknowledged) >= Len(t.unacknowledged)
            /\ v.pc = "idle" \/ Unsent(v) < Unsent(t)
        BY <2>1, <3>2, PushRoundSound
      <4> HIDE DEF v
      <4>2. GoesOn(s, v)
        <5>1. /\ GoesOn(s, t) /\ GoesOn(t, v) /\ s.stream.popped \in Nat
              /\ t.stream.popped \in Nat /\ v.stream.popped \in Nat
          BY <1>2, <1>6, <2>1, <4>1
        <5> QED  BY ONLY <5>1, GoesOnInTurn
      <4>3. /\ Unsent(v) \in Nat /\ Unsent(t) \in Nat /\ Unsent(u) \in Nat
            /\ Len(v.unacknowledged) \in Nat /\ Len(t.unacknowledged) \in Nat
            /\ Len(s.unacknowledged) \in Nat
        BY <1>1, <1>6, <2>1, <4>1
      <4>4. Unsent(t) + (i - 1) <= Unsent(u)  BY <2>1, <3>2
      <4>5. v.pc = "idle" \/ Unsent(v) + i <= Unsent(u)
        BY ONLY <4>1, <4>3, <4>4, i \in 1 .. N, <1>2
      <4>6. Len(v.unacknowledged) >= Len(s.unacknowledged)
        BY ONLY <2>1, <4>1, <4>3
      <4>7. SameInput(s.stream, v.stream)
        BY <2>1, <4>1 DEF SameInput
      <4> QED  BY <2>1, <4>1, <4>2, <4>5, <4>6, <4>7
    <3> QED  BY <3>1, <3>2
  <2> HIDE DEF v, Good
  <2> QED  BY <1>2, <2>2, <2>3
<1> HIDE DEF S
<1>9. N \in S
  BY <1>2, <1>7, <1>8, RoundByRound, N \in 0 .. N
<1>10. PICK t : f[N] = {t} /\ Good(t, N)
  BY <1>9 DEF S
<1>11. Pushed(s) = t
  BY <1>4, <1>10
<1>12. t.pc = "idle"
  <2>1. /\ Unsent(t) \in Nat /\ Unsent(u) \in Nat
        /\ Unsent(u) <= s.stream.buffered + 2
    BY <1>1, <1>6, <1>10
  <2>2. ~(Unsent(t) + N <= Unsent(u))
    BY ONLY <1>2, <2>1
  <2> QED  BY <1>10, <2>2
<1> QED  BY <1>10, <1>11, <1>12

-----------------------------------------------------------------------------
\* The loop of receive(), run to its end, likewise.
AfterAckRound(X) == {IF t.pc = "idle" THEN t ELSE AckRound(t) : t \in X}

AckRounds(f, s, k) ==
    f = [i \in 0 .. k |-> IF i = 0 THEN {s} ELSE AfterAckRound(f[i - 1])]

LEMMA AckRoundsExist ==
    ASSUME NEW s, NEW N \in Nat
    PROVE  \E f : AckRounds(f, s, N)
<1> DEFINE S == {k \in Nat : \E f : AckRounds(f, s, k)}
<1>1. 0 \in S
  <2> DEFINE f == [i \in 0 .. 0 |-> {s}]
  <2>1. \A i \in 0 .. 0 : f[i] = IF i = 0 THEN {s} ELSE AfterAckRound(f[i - 1])
    <3>1. \A i \in 0 .. 0 : i = 0  OBVIOUS
    <3> QED  BY <3>1
  <2>2. f = [i \in 0 .. 0 |-> f[i]]  OBVIOUS
  <2> HIDE DEF f
  <2>3. f = [i \in 0 .. 0 |-> IF i = 0 THEN {s} ELSE AfterAckRound(f[i - 1])]
    BY <2>1, <2>2
  <2>4. AckRounds(f, s, 0)  BY ONLY <2>3 DEF AckRounds
  <2> QED  BY <2>4
<1>2. ASSUME NEW k \in 1 .. N, k - 1 \in S PROVE k \in S
  <2>1. PICK f : AckRounds(f, s, k - 1)  BY <1>2
  <2> DEFINE g == [i \in 0 .. k |-> IF i = 0 THEN {s} ELSE AfterAckRound(f[i - 1])]
  <2>2. \A i \in 0 .. k - 1 : f[i] = IF i = 0 THEN {s} ELSE AfterAckRound(f[i - 1])
    BY <2>1 DEF AckRounds
  <2>3. \A i \in 0 .. k - 1 : g[i] = f[i]
    <3>1. \A i \in 0 .. k - 1 : i \in 0 .. k  OBVIOUS
    <3>2. \A i \in 0 .. k : g[i] = IF i = 0 THEN {s} ELSE AfterAckRound(f[i - 1])
      OBVIOUS
    <3> HIDE DEF g
    <3> QED  BY <2>2, <3>1, <3>2
  <2>4. \A i \in 0 .. k : g[i] = IF i = 0 THEN {s} ELSE AfterAckRound(g[i - 1])
    <3> SUFFICES ASSUME NEW i \in 0 .. k
                 PROVE  g[i] = IF i = 0 THEN {s} ELSE AfterAckRound(g[i - 1])
      OBVIOUS
    <3>1. i # 0 => i - 1 \in 0 .. k - 1  OBVIOUS
    <3> QED  BY <2>3, <3>1
  <2>5. g = [i \in 0 .. k |-> g[i]]  OBVIOUS
  <2> HIDE DEF g
  <2>6. g = [i \in 0 .. k |-> IF i = 0 THEN {s} ELSE AfterAckRound(g[i - 1])]
    BY <2>4, <2>5
  <2>7. AckRounds(g, s, k)  BY ONLY <2>6 DEF AckRounds
  <2> QED  BY <2>7
<1> HIDE DEF S
<1>3. N \in S
  BY <1>1, <1>2, RoundByRound, N \in 0 .. N
<1> QED  BY <1>3 DEF S

(***************************************************************************)
(* receive() leaves the sender sound and idle, and releases only what a    *)
(* plausible acknowledgment covers (tcp_sender.cc:72-103).                 *)
(***************************************************************************)
LEMMA AckedSound ==
    ASSUME NEW s, SenderSound(s), s.pc = "idle", 2 * s.in_flight < Modulus,
           NEW m \in ReceiverMessages
    PROVE  LET t == Acked(s, m)
           IN  /\ SenderSound(t) /\ GoesOn(s, t) /\ t.pc = "idle"
               /\ SameInput(s.stream, t.stream)
               /\ \/ ReleasedBy(t) = ReleasedBy(s)
                  \/ Acknowledges(s, m) /\ ReleasedBy(t) <= AckNo(s, m)
<1> DEFINE N == Len(s.unacknowledged) + 1
           u == ReceiveCall(s, m)
           f == CHOOSE g : AckRounds(g, u, N)
           a == u.ack_no
<1>1. /\ SenderSound(u) /\ GoesOn(s, u) /\ ReleasedBy(u) = ReleasedBy(s)
      /\ SameInput(s.stream, u.stream) /\ u.unacknowledged = s.unacknowledged
      /\ u.pc = "idle" \/ (Acknowledges(s, m) /\ a = AckNo(s, m))
  BY ReceiveCallSound DEF SameInput
<1>2. /\ s.stream.popped \in Nat /\ N \in Nat /\ N = Len(s.unacknowledged) + 1
      /\ Len(s.unacknowledged) \in Nat
  <2>1. s \in Senders  BY DEF SenderSound
  <2>2. s.stream \in ByteStreams /\ s.unacknowledged \in Seq(SenderMessages)
    BY <2>1 DEF Senders
  <2> QED  BY ONLY <2>2 DEF ByteStreams, N
<1>3. AckRounds(f, u, N)
  <2> HIDE DEF N, u
  <2> QED  BY <1>2, AckRoundsExist
<1>4. Acked(s, m) = CHOOSE t \in f[N] : TRUE
  BY DEF Acked, AfterRounds, AckRounds, AfterAckRound
<1> HIDE DEF f, N
<1>5. /\ f[0] = {u}
      /\ \A i \in 1 .. N : f[i] = AfterAckRound(f[i - 1])
  <2> HIDE DEF u
  <2>1. \A i \in 0 .. N : f[i] = IF i = 0 THEN {u}
                                 ELSE AfterAckRound(f[i - 1])
    BY <1>3 DEF AckRounds
  <2> QED  BY <1>2, <2>1
<1>6. \A t : SenderSound(t) => /\ Len(t.unacknowledged) \in Nat
                               /\ t.stream.popped \in Nat /\ t.in_flight \in Nat
  <2> SUFFICES ASSUME NEW t, SenderSound(t)
               PROVE  /\ Len(t.unacknowledged) \in Nat
                      /\ t.stream.popped \in Nat /\ t.in_flight \in Nat
    OBVIOUS
  <2>1. t \in Senders  BY DEF SenderSound
  <2>2. /\ t.stream \in ByteStreams /\ t.unacknowledged \in Seq(SenderMessages)
        /\ t.in_flight \in Nat
    BY <2>1 DEF Senders
  <2> QED  BY ONLY <2>2 DEF ByteStreams
<1>7. u.in_flight = s.in_flight
  <2>1. s \in Senders  BY DEF SenderSound
  <2> QED  BY <2>1 DEF ReceiveCall, Senders
<1> HIDE DEF u, a
<1> DEFINE Good(t, i) == /\ SenderSound(t) /\ GoesOn(s, t)
                         /\ SameInput(s.stream, t.stream)
                         /\ t.in_flight <= s.in_flight
                         /\ \/ ReleasedBy(t) = ReleasedBy(s)
                            \/ u.pc # "idle" /\ ReleasedBy(t) <= a
                         /\ \/ t.pc = "idle"
                            \/ /\ u.pc # "idle" /\ t.ack_no = a
                               /\ Len(t.unacknowledged) + i <= Len(s.unacknowledged)
           S == {i \in Nat : \E t : f[i] = {t} /\ Good(t, i)}
<1>8. 0 \in S
  <2>1. Len(u.unacknowledged) + 0 <= Len(s.unacknowledged)  BY <1>1, <1>6
  <2>2. u.in_flight <= s.in_flight /\ u.ack_no = a  BY <1>1, <1>6, <1>7 DEF a
  <2>3. Good(u, 0)  BY <1>1, <2>1, <2>2
  <2> HIDE DEF Good
  <2> QED  BY <1>5, <2>3
<1>9. ASSUME NEW i \in 1 .. N, i - 1 \in S PROVE i \in S
  <2>1. PICK t : f[i - 1] = {t} /\ Good(t, i - 1)  BY <1>9
  <2> DEFINE v == IF t.pc = "idle" THEN t ELSE AckRound(t)
  <2>2. f[i] = {v}  BY <1>5, <2>1 DEF AfterAckRound
  <2>3. Good(v, i)
    <3>1. CASE t.pc = "idle"
      BY <2>1, <3>1
    <3>2. CASE t.pc # "idle"
      <4>1. SenderSound(t) /\ 2 * t.in_flight < Modulus
        <5>1. t.in_flight <= s.in_flight /\ t.in_flight \in Nat /\ s.in_flight \in Nat
          BY <1>6, <2>1
        <5> QED  BY <2>1, <5>1, ModulusAssumption
      <4>2. /\ SenderSound(v) /\ GoesOn(t, v)
            /\ v.stream = t.stream
            /\ v.ack_no = t.ack_no \/ v.pc = "idle"
            /\ ReleasedBy(v) = ReleasedBy(t) \/ ReleasedBy(v) <= t.ack_no
            /\ v.in_flight <= t.in_flight
            /\ v.pc = "idle" \/ Len(v.unacknowledged) < Len(t.unacknowledged)
        BY <3>2, <4>1, AckRoundSound
      <4> HIDE DEF v
      <4>3. GoesOn(s, v)
        <5>1. /\ GoesOn(s, t) /\ GoesOn(t, v) /\ s.stream.popped \in Nat
              /\ t.stream.popped \in Nat /\ v.stream.popped \in Nat
          BY <1>2, <1>6, <2>1, <4>2
        <5> QED  BY ONLY <5>1, GoesOnInTurn
      <4>4. /\ Len(v.unacknowledged) \in Nat /\ Len(t.unacknowledged) \in Nat
            /\ v.in_flight \in Nat /\ t.in_flight \in Nat /\ s.in_flight \in Nat
        BY <1>6, <2>1, <4>2
      <4>5. /\ u.pc # "idle" /\ t.ack_no = a
            /\ Len(t.unacknowledged) + (i - 1) <= Len(s.unacknowledged)
        BY <2>1, <3>2
      <4>6. v.pc = "idle" \/ Len(v.unacknowledged) + i <= Len(s.unacknowledged)
        BY ONLY <1>2, <4>2, <4>4, <4>5, i \in 1 .. N
      <4>7. v.in_flight <= s.in_flight
        BY ONLY <2>1, <4>2, <4>4
      <4> QED  BY <2>1, <4>2, <4>3, <4>5, <4>6, <4>7
    <3> QED  BY <3>1, <3>2
  <2> HIDE DEF v, Good
  <2> QED  BY <1>2, <2>2, <2>3
<1> HIDE DEF S
<1>10. N \in S
  BY <1>2, <1>8, <1>9, RoundByRound, N \in 0 .. N
<1>11. PICK t : f[N] = {t} /\ Good(t, N)
  BY <1>10 DEF S
<1>12. Acked(s, m) = t
  BY <1>4, <1>11
<1>13. t.pc = "idle"
  <2>1. Len(t.unacknowledged) \in Nat
    BY <1>6, <1>11
  <2> DEFINE x == Len(t.unacknowledged)
             y == Len(s.unacknowledged)
  <2>2. x \in Nat /\ y \in Nat /\ N = y + 1  BY <1>2, <2>1
  <2> HIDE DEF x, y
  <2>3. ~(x + N <= y)  BY ONLY <2>2
  <2> QED  BY <1>11, <2>3 DEF x, y
<1> QED  BY <1>1, <1>11, <1>12, <1>13

-----------------------------------------------------------------------------
(***************************************************************************)
(* The receiving end.  What the Reassembler holds lies between what it has *)
(* written and what there is room for, and the output is closed exactly    *)
(* when all of the stream is written (reassembler.cc:17-74).               *)
(***************************************************************************)
BufferSound(b) ==
    /\ b \in Buffers
    /\ b.popped <= b.pushed /\ b.pushed <= b.popped + b.capacity
    /\ \A i \in b.held : b.pushed < i /\ i < b.popped + b.capacity
    /\ b.finSeen /\ b.pushed >= b.end => b.ended
    /\ b.ended => b.finSeen /\ b.pushed = b.end

\* An insert() adds to what the buffer has written; only its reader takes.
BufferGrows(b, t) ==
    /\ t.capacity = b.capacity /\ t.popped = b.popped
    /\ b.pushed <= t.pushed /\ (b.ended => t.ended)

\* All that b has seen is of a stream of which sent bytes have been sent.
Within(b, sent, finished) ==
    /\ b.pushed <= sent
    /\ \A i \in b.held : i < sent
    /\ b.finSeen => finished /\ b.end = sent

\* All that r has received is what s has sent.
ReceivedFrom(r, s) ==
    /\ r \in Receivers
    /\ BufferSound(r.buf)
    /\ Within(r.buf, s.stream.popped, s.FIN_sent)
    /\ IF r.isn = NoAck THEN r.buf.pushed = 0 /\ r.buf.held = {} /\ ~r.buf.finSeen
       ELSE r.isn = s.isn /\ s.first_ack

\* The numbers that r acknowledges.
Received(r) == IF r.isn = NoAck THEN 0 ELSE AbsoluteAckno(r)

\* A receiver forgets nothing.
ReceiverGrows(r, t) ==
    /\ r.isn # NoAck => t.isn = r.isn
    /\ Received(r) <= Received(t)

\* The acknowledgment in m is one that r has given, now or before.
AckedBy(m, r) ==
    /\ m \in ReceiverMessages
    /\ m.ackno # NoAck => /\ r.isn # NoAck
                          /\ \E a \in 1 .. Received(r) : m.ackno = Wrap(a, r.isn)

LEMMA BufferFields ==
    ASSUME NEW b \in Buffers
    PROVE  /\ b.capacity \in Nat /\ b.pushed \in Nat /\ b.popped \in Nat
           /\ b.held \subseteq Nat /\ b.finSeen \in BOOLEAN /\ b.end \in Nat
           /\ b.ended \in BOOLEAN
BY DEF Buffers

\* There is a first index that is not held.
LEMMA GapFound ==
    ASSUME NEW b, b.pushed \in Nat, Room(b) \in Nat, b.held \subseteq Nat,
           b.pushed + Room(b) \notin b.held
    PROVE  /\ FirstGap(b) \in Nat
           /\ b.pushed <= FirstGap(b) /\ FirstGap(b) <= b.pushed + Room(b)
           /\ FirstGap(b) \notin b.held
           /\ \A i \in Nat : b.pushed <= i /\ i < FirstGap(b) => i \in b.held
<1> DEFINE a == b.pushed
           z == b.pushed + Room(b)
           H == b.held
           U == {e \in a .. z : e \notin H}
           P(e) == e \notin H /\ \A i \in a .. e - 1 : i \in H
           g == CHOOSE e \in a .. z : P(e)
<1>1. a \in Nat /\ z \in Nat /\ a <= z /\ z \notin H
  OBVIOUS
<1>2. FirstGap(b) = g
  BY DEF FirstGap
<1> HIDE DEF a, z, H
<1>3. PICK e \in U : \A x \in U : e <= x
  <2>1. U \subseteq Nat /\ z \in U
    BY <1>1
  <2> QED  BY ONLY <2>1, SmallestElement
<1>4. P(e)
  <2>1. ASSUME NEW i \in a .. e - 1 PROVE i \in H
    <3>1. i \in a .. z /\ ~(e <= i)
      BY <1>1, <1>3
    <3> QED  BY <1>3, <3>1
  <2> QED  BY <1>3, <2>1
<1>5. g \in a .. z /\ P(g)
  <2>1. e \in a .. z  BY <1>3
  <2> HIDE DEF P
  <2> QED  BY <1>4, <2>1
<1> HIDE DEF g
<1>6. g \in Nat /\ a <= g /\ g <= z /\ g \notin H
  BY <1>1, <1>5
<1>7. \A i \in Nat : a <= i /\ i < g => i \in H
  BY <1>1, <1>5
<1> QED  BY <1>2, <1>6, <1>7 DEF a, z, H

\* What insert() does to the fields of a buffer, when it does something.
LEMMA DeliverFields ==
    ASSUME NEW b \in Buffers, FirstGap(b) \in Nat
    PROVE  LET t == Deliver(b)
           IN  /\ t \in Buffers
               /\ t.capacity = b.capacity /\ t.popped = b.popped
               /\ t.pushed = FirstGap(b)
               /\ t.held = {i \in b.held : i > FirstGap(b)}
               /\ t.finSeen = b.finSeen /\ t.end = b.end
               /\ t.ended = (b.ended \/ (b.finSeen /\ FirstGap(b) >= b.end))
<1> DEFINE g == FirstGap(b)
           H == {i \in b.held : i > g}
           e == b.ended \/ (b.finSeen /\ g >= b.end)
           t == [b EXCEPT !.pushed = g, !.held = H, !.ended = e]
<1>1. /\ g \in Nat /\ H \subseteq Nat /\ e \in BOOLEAN
  BY BufferFields
<1>2. Deliver(b) = t
  BY DEF Deliver
<1> HIDE DEF g, H, e
<1>3. /\ t \in Buffers
      /\ t.capacity = b.capacity /\ t.popped = b.popped /\ t.pushed = g
      /\ t.held = H /\ t.finSeen = b.finSeen /\ t.end = b.end /\ t.ended = e
  BY <1>1 DEF Buffers
<1> QED  BY <1>2, <1>3 DEF g, H, e

LEMMA WithEndFields ==
    ASSUME NEW b \in Buffers, NEW first \in Nat, NEW n \in Nat, NEW last \in BOOLEAN
    PROVE  LET t == WithEnd(b, first, n, last)
           IN  /\ t \in Buffers
               /\ t.capacity = b.capacity /\ t.popped = b.popped
               /\ t.pushed = b.pushed /\ t.held = b.held /\ t.ended = b.ended
               /\ t.finSeen = (last \/ b.finSeen)
               /\ t.end = IF last THEN first + n ELSE b.end
<1> DEFINE e == first + n
           t == [b EXCEPT !.finSeen = TRUE, !.end = e]
<1>1. CASE last
  <2>1. e \in Nat  OBVIOUS
  <2>2. WithEnd(b, first, n, last) = t  BY <1>1 DEF WithEnd
  <2> HIDE DEF e
  <2>3. /\ t \in Buffers
        /\ t.capacity = b.capacity /\ t.popped = b.popped /\ t.pushed = b.pushed
        /\ t.held = b.held /\ t.ended = b.ended /\ t.finSeen = TRUE /\ t.end = e
    BY <2>1 DEF Buffers
  <2> QED  BY <1>1, <2>2, <2>3 DEF e
<1>2. CASE ~last
  BY <1>2 DEF WithEnd, Buffers
<1> QED  BY <1>1, <1>2

LEMMA HeldReplaced ==
    ASSUME NEW b \in Buffers, NEW H, H \subseteq Nat
    PROVE  LET t == [b EXCEPT !.held = H]
           IN  /\ t \in Buffers
               /\ t.capacity = b.capacity /\ t.popped = b.popped
               /\ t.pushed = b.pushed /\ t.held = H /\ t.ended = b.ended
               /\ t.finSeen = b.finSeen /\ t.end = b.end
BY DEF Buffers

\* The room is what lies between the bytes written and the reader's allowance.
LEMMA RoomIs ==
    ASSUME NEW b, BufferSound(b)
    PROVE  /\ Room(b) \in Nat /\ b.pushed + Room(b) = b.popped + b.capacity
           /\ b.pushed + Room(b) \in Nat
<1>1. /\ b.capacity \in Nat /\ b.pushed \in Nat /\ b.popped \in Nat
      /\ b.popped <= b.pushed /\ b.pushed <= b.popped + b.capacity
  BY BufferFields DEF BufferSound
<1> QED  BY ONLY <1>1 DEF Room

(***************************************************************************)
(* A piece of the stream is inserted without an exception, and the buffer  *)
(* stays sound and within what was sent (reassembler.cc:17-74).            *)
(***************************************************************************)
LEMMA InsertSound ==
    ASSUME NEW b, BufferSound(b), NEW sent \in Nat, NEW finished \in BOOLEAN,
           Within(b, sent, finished),
           NEW first \in Nat, NEW n \in Nat, NEW last \in BOOLEAN,
           first + n <= sent, last => finished /\ first + n = sent
    PROVE  LET t == Insert(b, first, n, last)
           IN  /\ BufferSound(t) /\ Within(t, sent, finished)
               /\ BufferGrows(b, t)
               /\ ~InsertThrows(b, first, n, last)
<1> DEFINE known == WithEnd(b, first, n, last)
           fits  == {i \in first .. first + n - 1 : i >= b.pushed /\ i < Limit(known)}
           H == b.held \union fits
           c == [known EXCEPT !.held = H]
           t == Deliver(c)
<1>1. /\ b \in Buffers /\ b.capacity \in Nat /\ b.pushed \in Nat /\ b.popped \in Nat
      /\ b.held \subseteq Nat /\ b.finSeen \in BOOLEAN /\ b.end \in Nat
      /\ b.ended \in BOOLEAN
      /\ b.popped <= b.pushed /\ b.pushed <= b.popped + b.capacity
      /\ b.pushed <= sent
      /\ b.ended => b.finSeen /\ b.pushed = b.end
      /\ b.finSeen => finished /\ b.end = sent
  BY BufferFields DEF BufferSound, Within
<1>2. /\ Room(b) \in Nat /\ b.pushed + Room(b) = b.popped + b.capacity
  BY RoomIs
<1>3. /\ known \in Buffers
      /\ known.capacity = b.capacity /\ known.popped = b.popped
      /\ known.pushed = b.pushed /\ known.held = b.held /\ known.ended = b.ended
      /\ known.finSeen = (last \/ b.finSeen)
      /\ known.end = IF last THEN first + n ELSE b.end
  <2>1. b \in Buffers  BY <1>1
  <2> QED  BY ONLY <2>1, WithEndFields, first \in Nat, n \in Nat, last \in BOOLEAN
<1> HIDE DEF known
<1>4. /\ known.finSeen \in BOOLEAN /\ known.finSeen => finished /\ known.end = sent
  BY <1>1, <1>3
<1>5. Room(known) = Room(b)
  BY <1>3 DEF Room
<1>6. Limit(known) = IF known.finSeen THEN Smaller(sent, b.pushed + Room(b))
                     ELSE b.pushed + Room(b)
  BY <1>3, <1>4, <1>5 DEF Limit
<1>7. /\ Limit(known) \in Nat /\ Limit(known) <= b.pushed + Room(b)
      /\ b.pushed <= Limit(known)
      /\ known.finSeen => Limit(known) <= sent
      /\ first < b.pushed + Room(b) => first <= Limit(known)
  BY <1>1, <1>2, <1>6 DEF Smaller
<1>8. ~InsertThrows(b, first, n, last)
  <2>1. Ignores(b, first) \/ first < b.pushed + Room(b)
    BY <1>1, <1>2 DEF Ignores
  <2>2. ~(Limit(known) < b.pushed)  BY <1>1, <1>7
  <2>3. first < b.pushed + Room(b) => ~(Limit(known) < first)  BY <1>7
  <2> QED  BY <2>1, <2>2, <2>3 DEF InsertThrows, known
<1>9. CASE Ignores(b, first)
  <2>1. Insert(b, first, n, last) = b  BY <1>9 DEF Insert
  <2>2. BufferGrows(b, b)  BY <1>1 DEF BufferGrows
  <2> QED  BY <1>8, <2>1, <2>2
<1>10. CASE ~Ignores(b, first)
  <2>1. Insert(b, first, n, last) = t
    BY <1>8, <1>10 DEF Insert, known
  <2>2. /\ H \subseteq Nat
        /\ \A i \in H : b.pushed <= i /\ i < b.popped + b.capacity /\ i < sent
    <3>1. ASSUME NEW i \in fits
          PROVE  /\ i \in Nat /\ b.pushed <= i /\ i < b.popped + b.capacity /\ i < sent
      <4>1. /\ i \in first .. first + n - 1 /\ i >= b.pushed /\ i < Limit(known)
        BY <3>1
      <4> QED  BY ONLY <1>1, <1>2, <1>7, <4>1, first \in Nat, n \in Nat, sent \in Nat,
                       first + n <= sent
    <3>2. ASSUME NEW i \in b.held
          PROVE  /\ i \in Nat /\ b.pushed <= i /\ i < b.popped + b.capacity /\ i < sent
      BY <1>1, <3>2 DEF BufferSound, Within
    <3> HIDE DEF fits
    <3> QED  BY <3>1, <3>2
  <2> HIDE DEF H
  <2>3. /\ c \in Buffers
        /\ c.capacity = b.capacity /\ c.popped = b.popped
        /\ c.pushed = b.pushed /\ c.held = H /\ c.ended = b.ended
        /\ c.finSeen = known.finSeen /\ c.end = known.end
    BY <1>3, <2>2, HeldReplaced
  <2> HIDE DEF c
  <2> DEFINE g == FirstGap(c)
  <2>4. /\ g \in Nat /\ b.pushed <= g /\ g <= b.popped + b.capacity /\ g \notin H
        /\ \A i \in Nat : b.pushed <= i /\ i < g => i \in H
    <3>1. Room(c) = Room(b)  BY <2>3 DEF Room
    <3>2. c.pushed + Room(c) = b.popped + b.capacity  BY <1>2, <2>3, <3>1
    <3>3. b.popped + b.capacity \notin H
      <4>1. b.popped + b.capacity \in Nat /\ ~(b.popped + b.capacity < b.popped + b.capacity)
        BY <1>1
      <4> QED  BY <2>2, <4>1
    <3>4. c.pushed \in Nat /\ Room(c) \in Nat /\ c.held \subseteq Nat
          /\ c.pushed + Room(c) \notin c.held
      BY <1>1, <1>2, <2>2, <2>3, <3>1, <3>2, <3>3
    <3>5. /\ FirstGap(c) \in Nat
          /\ c.pushed <= FirstGap(c) /\ FirstGap(c) <= c.pushed + Room(c)
          /\ FirstGap(c) \notin c.held
          /\ \A i \in Nat : c.pushed <= i /\ i < FirstGap(c) => i \in c.held
      BY ONLY <3>4, GapFound
    <3> QED  BY <2>3, <3>2, <3>5
  <2>5. /\ t \in Buffers
        /\ t.capacity = b.capacity /\ t.popped = b.popped
        /\ t.pushed = g /\ t.held = {i \in H : i > g}
        /\ t.finSeen = known.finSeen /\ t.end = known.end
        /\ t.ended = (b.ended \/ (known.finSeen /\ g >= known.end))
    BY <2>3, <2>4, DeliverFields
  <2> HIDE DEF t, g
  <2>6. g <= sent
    <3>1. ~(b.pushed <= sent /\ sent < g)  BY <2>2, <2>4
    <3> QED  BY ONLY <1>1, <2>4, <3>1, sent \in Nat
  <2>7. \A i \in t.held : /\ t.pushed < i /\ i < t.popped + t.capacity /\ i < sent
    BY <2>2, <2>4, <2>5
  <2>8. t.finSeen /\ t.pushed >= t.end => t.ended
    BY <2>5
  <2>9. t.ended => t.finSeen /\ t.pushed = t.end
    <3>1. b.ended => known.finSeen /\ b.pushed = sent /\ known.end = sent
      BY <1>1, <1>3, <1>4
    <3>2. b.ended => g = sent
      BY ONLY <3>1, <2>4, <2>6, sent \in Nat
    <3>3. known.finSeen /\ g >= known.end => g = known.end
      BY ONLY <1>4, <2>4, <2>6, sent \in Nat
    <3> QED  BY <2>5, <3>1, <3>2, <3>3
  <2>10. t.popped <= t.pushed /\ t.pushed <= t.popped + t.capacity /\ b.pushed <= t.pushed
    BY ONLY <1>1, <2>4, <2>5
  <2>11. BufferSound(t)
    BY <2>5, <2>7, <2>8, <2>9, <2>10 DEF BufferSound
  <2>12. Within(t, sent, finished)
    BY <1>4, <2>5, <2>6, <2>7 DEF Within
  <2>13. BufferGrows(b, t)  BY <2>5, <2>10 DEF BufferGrows
  <2> QED  BY <1>8, <2>1, <2>11, <2>12, <2>13
<1> QED  BY <1>9, <1>10

-----------------------------------------------------------------------------
LEMMA SenderFields ==
    ASSUME NEW s, SenderSound(s)
    PROVE  /\ s \in Senders
           /\ s.isn \in RawValues /\ s.first_ack \in BOOLEAN /\ s.FIN_sent \in BOOLEAN
           /\ s.stream.popped \in Nat /\ s.stream.pushed \in Nat
           /\ s.stream.buffered \in Nat /\ s.stream.error \in BOOLEAN
           /\ s.stream.popped <= s.stream.pushed
           /\ s.next_seqno \in Nat /\ s.in_flight \in Nat /\ s.in_flight <= s.next_seqno
           /\ s.next_seqno = IF s.first_ack THEN 1 + s.stream.popped + Flag(s.FIN_sent)
                             ELSE 0
           /\ s.next_seqno <= s.stream.popped + 2
           /\ s.unacknowledged \in Seq(SenderMessages)
<1>1. /\ s \in Senders /\ StreamInv(s.stream) /\ NumbersSent(s)
      /\ Tiles(s.unacknowledged, s.isn, s.next_seqno, s.in_flight)
  BY DEF SenderSound, OutstandingTiles
<1>2. /\ s.isn \in RawValues /\ s.first_ack \in BOOLEAN /\ s.FIN_sent \in BOOLEAN
      /\ s.stream \in ByteStreams /\ s.next_seqno \in Nat /\ s.in_flight \in Nat
      /\ s.unacknowledged \in Seq(SenderMessages)
  BY <1>1 DEF Senders
<1>3. /\ s.stream.popped \in Nat /\ s.stream.pushed \in Nat /\ s.stream.buffered \in Nat
      /\ s.stream.error \in BOOLEAN
  BY <1>2 DEF ByteStreams
<1>4. s.stream.popped <= s.stream.pushed
  <2>1. s.stream.pushed = s.stream.popped + s.stream.buffered
    BY <1>1 DEF StreamInv, Accounting
  <2> QED  BY ONLY <1>3, <2>1
<1>5. s.next_seqno = IF s.first_ack THEN 1 + s.stream.popped + Flag(s.FIN_sent) ELSE 0
  BY <1>1, <1>2 DEF NumbersSent
<1>6. s.next_seqno <= s.stream.popped + 2
  <2>1. Flag(s.FIN_sent) \in Nat /\ Flag(s.FIN_sent) <= 1  BY DEF Flag
  <2> QED  BY ONLY <1>3, <1>5, <2>1
<1>7. s.in_flight <= s.next_seqno
  <2>1. CASE Len(s.unacknowledged) = 0
    BY <1>1, <1>2, <2>1 DEF Tiles
  <2>2. CASE Len(s.unacknowledged) # 0
    <3>1. 1 \in 1 .. Len(s.unacknowledged)  BY <1>2, <2>2
    <3>2. s.unacknowledged[1] \in SenderMessages  BY <1>2, <3>1
    <3>3. TrueSeqno(s.unacknowledged[1]) \in Nat  BY <3>2, MessageNumbers
    <3>4. s.in_flight = s.next_seqno - TrueSeqno(s.unacknowledged[1])
      BY <1>1, <2>2 DEF Tiles
    <3> QED  BY ONLY <1>2, <3>3, <3>4
  <2> QED  BY <2>1, <2>2
<1> QED  BY <1>1, <1>2, <1>3, <1>4, <1>5, <1>6, <1>7

LEMMA ReceiverFields ==
    ASSUME NEW r, NEW s, ReceivedFrom(r, s), SenderSound(s)
    PROVE  /\ r \in Receivers /\ r.isn \in RawValues \union {NoAck}
           /\ r.error \in BOOLEAN /\ r.threw \in BOOLEAN
           /\ BufferSound(r.buf) /\ Room(r.buf) \in Nat
           /\ r.buf \in Buffers /\ r.buf.pushed \in Nat /\ r.buf.ended \in BOOLEAN
           /\ r.buf.pushed <= s.stream.popped
           /\ r.buf.ended => s.FIN_sent /\ r.buf.pushed = s.stream.popped
           /\ AbsoluteAckno(r) \in Nat /\ AbsoluteAckno(r) >= 1
           /\ Received(r) \in Nat /\ Received(r) <= s.next_seqno
<1>1. /\ r \in Receivers /\ BufferSound(r.buf)
      /\ Within(r.buf, s.stream.popped, s.FIN_sent)
      /\ r.isn # NoAck => r.isn = s.isn /\ s.first_ack
  BY DEF ReceivedFrom
<1>2. /\ r.isn \in RawValues \union {NoAck} /\ r.error \in BOOLEAN /\ r.threw \in BOOLEAN
  BY <1>1 DEF Receivers
<1>3. r.buf \in Buffers /\ Room(r.buf) \in Nat
  BY <1>1, RoomIs DEF BufferSound
<1>4. r.buf.pushed \in Nat /\ r.buf.ended \in BOOLEAN
  BY <1>3, BufferFields
<1>5. /\ r.buf.pushed <= s.stream.popped
      /\ r.buf.ended => s.FIN_sent /\ r.buf.pushed = s.stream.popped
  BY <1>1 DEF Within, BufferSound
<1>6. /\ Flag(r.buf.ended) \in Nat /\ Flag(r.buf.ended) <= Flag(s.FIN_sent)
      /\ Flag(s.FIN_sent) \in Nat
  BY <1>4, <1>5 DEF Flag
<1>7. /\ s.stream.popped \in Nat /\ s.next_seqno \in Nat
      /\ s.first_ack => s.next_seqno = 1 + s.stream.popped + Flag(s.FIN_sent)
  BY SenderFields
<1>8. /\ AbsoluteAckno(r) \in Nat /\ AbsoluteAckno(r) >= 1
      /\ s.first_ack => AbsoluteAckno(r) <= s.next_seqno
  BY ONLY <1>4, <1>5, <1>6, <1>7 DEF AbsoluteAckno
<1>9. Received(r) \in Nat /\ Received(r) <= s.next_seqno
  BY ONLY <1>1, <1>7, <1>8 DEF Received
<1> QED  BY <1>1, <1>2, <1>3, <1>4, <1>5, <1>8, <1>9

(***************************************************************************)
(* A genuine segment that is not skipped is inserted where its bytes are   *)
(* in the sender's stream (tcp_receiver.cc:18-21).                         *)
(***************************************************************************)
LEMMA InPlace ==
    ASSUME NEW r, NEW s, ReceivedFrom(r, s), SenderSound(s),
           2 * (s.stream.popped + 2) < Modulus,
           NEW m, SentBy(m, s), SequenceLength(m) > 0, ~Skips(r, m)
    PROVE  /\ StreamIndex(r, m) = m.lo
           /\ (IF r.isn = NoAck THEN m.seqno ELSE r.isn) = s.isn
<1> DEFINE isn == IF r.isn = NoAck THEN m.seqno ELSE r.isn
           n == TrueSeqno(m)
           c == r.buf.pushed + 1
<1>1. /\ m \in SenderMessages
      /\ m.SYN => m.lo = 0
      /\ m.seqno = Wrap(n, s.isn)
      /\ m.lo + m.size <= s.stream.popped
  BY DEF SentBy
<1>2. m.lo \in Nat /\ m.size \in Nat /\ n \in Nat /\ m.SYN \in BOOLEAN
  BY <1>1, MessageNumbers DEF SenderMessages
<1>3. /\ s.stream.popped \in Nat /\ s.isn \in RawValues
      /\ r.buf.pushed \in Nat /\ r.buf.pushed <= s.stream.popped
  BY SenderFields, ReceiverFields
<1>4. isn = s.isn
  <2>1. CASE r.isn = NoAck
    <3>1. m.SYN  BY <2>1 DEF Skips
    <3>2. n = 0  BY <3>1 DEF TrueSeqno
    <3>3. Wrap(0, s.isn) = s.isn
      BY <1>3, ModulusAssumption DEF Wrap, RawValues
    <3> QED  BY <1>1, <2>1, <3>2, <3>3
  <2>2. CASE r.isn # NoAck
    BY <2>2 DEF ReceivedFrom
  <2> QED  BY <2>1, <2>2
<1>5. /\ n <= s.stream.popped + 1
      /\ n = IF m.SYN THEN 0 ELSE m.lo + 1
  BY <1>1, <1>2, <1>3 DEF TrueSeqno
<1>6. Unwrap(m.seqno, isn, c) = n
  <2>1. c \in Nat /\ n - c <= Modulus \div 2 /\ c - n < Modulus \div 2
    BY <1>2, <1>3, <1>5, ModulusAssumption, EvenAssumption
  <2> HIDE DEF isn, n, c
  <2> QED  BY ONLY <1>1, <1>2, <1>3, <1>4, <2>1, RoundTrip
<1>7. StreamIndex(r, m) = IF n = 0 THEN 0 ELSE n - 1
  BY <1>6 DEF StreamIndex
<1>8. (IF n = 0 THEN 0 ELSE n - 1) = m.lo
  BY <1>1, <1>2, <1>5
<1> QED  BY <1>4, <1>7, <1>8

\* A segment without sequence numbers changes nothing, wherever it is put.
LEMMA InsertNothing ==
    ASSUME NEW b, BufferSound(b), NEW sent \in Nat, NEW finished \in BOOLEAN,
           Within(b, sent, finished), NEW first \in Nat
    PROVE  LET t == Insert(b, first, 0, FALSE)
           IN  /\ BufferSound(t) /\ Within(t, sent, finished)
               /\ t.pushed = b.pushed /\ (t.ended <=> b.ended)
               /\ BufferGrows(b, t)
               /\ t.held = b.held /\ (t.finSeen <=> b.finSeen)
<1> DEFINE fits == {i \in first .. first + 0 - 1 : i >= b.pushed /\ i < Limit(b)}
           H == b.held \union fits
           c == [b EXCEPT !.held = H]
           t == Deliver(c)
<1>1. /\ b \in Buffers /\ b.capacity \in Nat /\ b.pushed \in Nat /\ b.popped \in Nat
      /\ b.held \subseteq Nat /\ b.finSeen \in BOOLEAN /\ b.end \in Nat
      /\ b.ended \in BOOLEAN
  BY BufferFields DEF BufferSound
<1>2. WithEnd(b, first, 0, FALSE) = b
  BY DEF WithEnd
<1>3. Insert(b, first, 0, FALSE) = b \/ Insert(b, first, 0, FALSE) = t
  BY <1>2 DEF Insert
<1>4. H = b.held
  <2>1. first .. first + 0 - 1 = {}  OBVIOUS
  <2>2. fits = {}  BY <2>1
  <2> HIDE DEF fits
  <2> QED  BY <2>2
<1> HIDE DEF H
<1>5. /\ c \in Buffers
      /\ c.capacity = b.capacity /\ c.popped = b.popped
      /\ c.pushed = b.pushed /\ c.held = b.held /\ c.ended = b.ended
      /\ c.finSeen = b.finSeen /\ c.end = b.end
  BY <1>1, <1>4, HeldReplaced
<1> HIDE DEF c
<1>6. FirstGap(c) = b.pushed
  <2> DEFINE g == FirstGap(c)
  <2>1. /\ c.pushed \in Nat /\ Room(c) \in Nat /\ c.held \subseteq Nat
        /\ c.pushed + Room(c) \notin c.held
    <3>1. Room(c) = Room(b)  BY <1>5 DEF Room
    <3>2. Room(b) \in Nat /\ b.pushed + Room(b) = b.popped + b.capacity
      BY RoomIs
    <3>3. b.popped + b.capacity \notin b.held
      <4>1. ~(b.popped + b.capacity < b.popped + b.capacity)
        BY <1>1
      <4> QED  BY <4>1 DEF BufferSound
    <3> QED  BY <1>1, <1>5, <3>1, <3>2, <3>3
  <2>2. /\ g \in Nat /\ b.pushed <= g
        /\ \A i \in Nat : b.pushed <= i /\ i < g => i \in b.held
    BY ONLY <1>5, <2>1, GapFound
  <2> HIDE DEF g
  <2>3. b.pushed \notin b.held
    <3>1. ~(b.pushed < b.pushed)  BY <1>1
    <3> QED  BY <3>1 DEF BufferSound
  <2>4. b.pushed <= b.pushed  BY <1>1
  <2>5. ~(b.pushed < g)  BY <1>1, <2>2, <2>3, <2>4
  <2>6. g = b.pushed  BY ONLY <1>1, <2>2, <2>5
  <2> QED  BY <2>6 DEF g
<1>7. /\ t \in Buffers
      /\ t.capacity = b.capacity /\ t.popped = b.popped
      /\ t.pushed = b.pushed /\ t.held = {i \in b.held : i > b.pushed}
      /\ t.finSeen = b.finSeen /\ t.end = b.end
      /\ t.ended = (b.ended \/ (b.finSeen /\ b.pushed >= b.end))
  BY <1>1, <1>5, <1>6, DeliverFields
<1> HIDE DEF t
<1>8. t.held = b.held
  <2>1. \A i \in b.held : i > b.pushed
    <3>1. \A i \in b.held : b.pushed < i  BY DEF BufferSound
    <3> QED  BY <1>1, <3>1
  <2> QED  BY <1>7, <2>1
<1>9. t.ended = b.ended
  <2>1. b.finSeen /\ b.pushed >= b.end => b.ended  BY DEF BufferSound
  <2> QED  BY <1>1, <1>7, <2>1
<1>10. BufferSound(t) /\ Within(t, sent, finished)
  BY <1>7, <1>8, <1>9 DEF BufferSound, Within
<1>11. BufferGrows(b, t) /\ BufferGrows(b, b)
  BY <1>1, <1>7, <1>9 DEF BufferGrows
<1> QED  BY <1>3, <1>7, <1>8, <1>9, <1>10, <1>11

LEMMA ErrorFlagged ==
    ASSUME NEW r \in Receivers
    PROVE  LET t == [r EXCEPT !.error = TRUE]
           IN  t \in Receivers /\ t.isn = r.isn /\ t.buf = r.buf
BY DEF Receivers

(***************************************************************************)
(* Whatever segment of the sender a receiver is given, new or old, it has  *)
(* then received a piece of what was sent, and not less than before        *)
(* (tcp_receiver.cc:5-24).                                                 *)
(***************************************************************************)
LEMMA ReceiveSegmentSound ==
    ASSUME NEW r, NEW s, ReceivedFrom(r, s), SenderSound(s),
           2 * (s.stream.popped + 2) < Modulus,
           NEW m, SentBy(m, s)
    PROVE  LET t == ReceiveSegment(r, m)
           IN  /\ ReceivedFrom(t, s) /\ ReceiverGrows(r, t)
               /\ BufferGrows(r.buf, t.buf)
<1>1. /\ r \in Receivers /\ BufferSound(r.buf)
      /\ Within(r.buf, s.stream.popped, s.FIN_sent)
      /\ r.isn \in RawValues \union {NoAck}
      /\ r.isn # NoAck => r.isn = s.isn /\ s.first_ack
      /\ r.isn = NoAck => r.buf.pushed = 0 /\ r.buf.held = {} /\ ~r.buf.finSeen
      /\ r.buf.pushed \in Nat /\ r.buf.ended \in BOOLEAN
      /\ Received(r) \in Nat
  BY ReceiverFields DEF ReceivedFrom
<1>2. /\ s.stream.popped \in Nat /\ s.FIN_sent \in BOOLEAN /\ s.isn \in RawValues
      /\ s.first_ack \in BOOLEAN
  BY SenderFields
<1>3. /\ m \in SenderMessages /\ m.lo \in Nat /\ m.size \in Nat /\ m.FIN \in BOOLEAN
      /\ m.SYN \in BOOLEAN /\ m.seqno \in RawValues
      /\ SequenceLength(m) \in Nat
      /\ SequenceLength(m) = Flag(m.SYN) + m.size + Flag(m.FIN)
  BY MessageNumbers DEF SentBy, SenderMessages, SequenceLength
<1>4. ReceiverGrows(r, r) /\ BufferGrows(r.buf, r.buf)
  BY <1>1 DEF ReceiverGrows, BufferGrows
<1>5. CASE m.RST
  <2> DEFINE t == [r EXCEPT !.error = TRUE]
  <2>1. ReceiveSegment(r, m) = t  BY <1>5 DEF ReceiveSegment
  <2>2. t \in Receivers /\ t.isn = r.isn /\ t.buf = r.buf
    BY <1>1, ErrorFlagged
  <2> HIDE DEF t
  <2>3. ReceivedFrom(t, s)  BY <2>2 DEF ReceivedFrom
  <2>4. Received(t) = Received(r)  BY <2>2 DEF Received, AbsoluteAckno
  <2>5. ReceiverGrows(r, t)  BY <1>1, <2>2, <2>4 DEF ReceiverGrows
  <2> QED  BY <1>4, <2>1, <2>2, <2>3, <2>5
<1>6. CASE ~m.RST /\ Skips(r, m)
  <2>1. ReceiveSegment(r, m) = r  BY <1>6 DEF ReceiveSegment
  <2> QED  BY <1>4, <2>1
<1>7. CASE ~m.RST /\ ~Skips(r, m)
  <2> DEFINE isn == IF r.isn = NoAck THEN m.seqno ELSE r.isn
             x   == StreamIndex(r, m)
             b   == Insert(r.buf, x, m.size, m.FIN)
             e   == InsertThrows(r.buf, x, m.size, m.FIN)
             t   == [r EXCEPT !.isn = isn, !.buf = b, !.threw = e]
  <2>1. ReceiveSegment(r, m) = t
    BY <1>7 DEF ReceiveSegment
  <2>2. e \in BOOLEAN
    BY DEF InsertThrows, Ignores
  <2>3. /\ BufferSound(b) /\ Within(b, s.stream.popped, s.FIN_sent)
        /\ BufferGrows(r.buf, b)
        /\ isn = s.isn /\ s.first_ack
    <3>1. CASE SequenceLength(m) = 0
      <4>1. ~m.SYN /\ m.size = 0 /\ m.FIN = FALSE
        BY <1>3, <3>1 DEF Flag
      <4>2. isn = s.isn /\ s.first_ack
        BY <1>1, <1>7, <4>1 DEF Skips
      <4>3. x \in Nat
        <5> DEFINE u == Unwrap(m.seqno, isn, r.buf.pushed + 1)
        <5>1. isn \in RawValues /\ m.seqno \in RawValues /\ r.buf.pushed + 1 \in Nat
          BY <1>1, <1>2, <1>3, <4>2
        <5>2. x = IF u = 0 THEN 0 ELSE u - 1  BY DEF StreamIndex
        <5> HIDE DEF isn
        <5>3. u \in Nat
          BY <5>1, UnwrapIsNearest DEF IsNearest
        <5> HIDE DEF u
        <5> QED  BY <5>2, <5>3
      <4>4. b = Insert(r.buf, x, 0, FALSE)
        BY <4>1
      <4> HIDE DEF b, x
      <4>5. /\ BufferSound(b) /\ Within(b, s.stream.popped, s.FIN_sent)
            /\ BufferGrows(r.buf, b)
        <5> DEFINE c == r.buf
                   k == s.stream.popped
                   f == s.FIN_sent
        <5>1. BufferSound(c) /\ Within(c, k, f) /\ k \in Nat /\ f \in BOOLEAN
          BY <1>1, <1>2
        <5>2. b = Insert(c, x, 0, FALSE)  BY <4>4
        <5> HIDE DEF c, k, f
        <5> DEFINE w == Insert(c, x, 0, FALSE)
        <5>3. /\ BufferSound(w) /\ Within(w, k, f)
              /\ BufferGrows(c, w)
          BY ONLY <4>3, <5>1, InsertNothing
        <5> HIDE DEF w
        <5>4. b = w  BY <5>2 DEF w
        <5> QED  BY <5>3, <5>4 DEF c, k, f
      <4> QED  BY <1>1, <4>2, <4>5
    <3>2. CASE SequenceLength(m) > 0
      <4>1. x = m.lo /\ isn = s.isn
        BY <1>7, <3>2, InPlace
      <4>2. /\ s.first_ack /\ m.lo + m.size <= s.stream.popped
            /\ m.FIN => s.FIN_sent /\ m.lo + m.size = s.stream.popped
        BY <3>2 DEF SentBy
      <4>3. b = Insert(r.buf, m.lo, m.size, m.FIN)
        BY <4>1
      <4> HIDE DEF b, x, isn
      <4>4. /\ BufferSound(b) /\ Within(b, s.stream.popped, s.FIN_sent)
            /\ BufferGrows(r.buf, b)
        <5> DEFINE c == r.buf
                   k == s.stream.popped
                   f == s.FIN_sent
                   i == m.lo
                   n == m.size
                   l == m.FIN
        <5>1. /\ BufferSound(c) /\ Within(c, k, f) /\ k \in Nat /\ f \in BOOLEAN
              /\ i \in Nat /\ n \in Nat /\ l \in BOOLEAN /\ i + n <= k
              /\ l => f /\ i + n = k
          BY <1>1, <1>2, <1>3, <4>2
        <5>2. b = Insert(c, i, n, l)  BY <4>3
        <5> HIDE DEF c, k, f, i, n, l
        <5>3. /\ BufferSound(b) /\ Within(b, k, f)
              /\ BufferGrows(c, b)
          BY ONLY <5>1, <5>2, InsertSound
        <5> QED  BY <5>3 DEF c, k, f
      <4>5. s.first_ack  BY <4>2
      <4> QED  BY ONLY <4>1, <4>4, <4>5
    <3> QED  BY <1>3, <3>1, <3>2
  <2>4. b \in Buffers /\ b.pushed \in Nat /\ b.ended \in BOOLEAN
    BY <2>3, BufferFields DEF BufferSound
  <2> HIDE DEF isn, b, e
  <2>5. t \in Receivers /\ t.isn = isn /\ t.buf = b
    <3>1. isn \in RawValues \union {NoAck}  BY <1>2, <2>3
    <3>2. r \in Receivers /\ b \in Buffers /\ e \in BOOLEAN  BY <1>1, <2>2, <2>4
    <3> QED  BY ONLY <3>1, <3>2 DEF Receivers
  <2> HIDE DEF t
  <2>6. t.isn = s.isn /\ t.isn # NoAck
    BY <1>2, <2>3, <2>5, NoAckAssumption
  <2>7. ReceivedFrom(t, s)
    BY <2>3, <2>5, <2>6 DEF ReceivedFrom
  <2>8. Received(r) <= Received(t)
    <3>1. /\ Received(t) = t.buf.pushed + 1 + Flag(t.buf.ended)
          /\ Received(r) = IF r.isn = NoAck THEN 0
                           ELSE r.buf.pushed + 1 + Flag(r.buf.ended)
      BY <2>6 DEF Received, AbsoluteAckno
    <3>2. /\ Flag(t.buf.ended) \in Nat /\ Flag(r.buf.ended) \in Nat
          /\ Flag(r.buf.ended) <= Flag(t.buf.ended)
      BY <1>1, <2>3, <2>4, <2>5 DEF Flag, BufferGrows
    <3>3. t.buf.pushed \in Nat /\ r.buf.pushed <= t.buf.pushed
      BY <2>3, <2>4, <2>5 DEF BufferGrows
    <3> QED  BY ONLY <1>1, <3>1, <3>2, <3>3
  <2>9. ReceiverGrows(r, t)
    BY <1>1, <2>6, <2>8 DEF ReceiverGrows
  <2>10. BufferGrows(r.buf, t.buf)
    BY <2>3, <2>5
  <2> QED  BY <2>1, <2>7, <2>9, <2>10
<1> QED  BY <1>5, <1>6, <1>7

\* Reading makes room and takes nothing else away.
LEMMA TakeSound ==
    ASSUME NEW r, NEW s, ReceivedFrom(r, s), NEW n \in Nat
    PROVE  LET t == [r EXCEPT !.buf = Take(r.buf, n)]
           IN  /\ ReceivedFrom(t, s) /\ Received(t) = Received(r) /\ t.isn = r.isn
               /\ t.buf.capacity = r.buf.capacity /\ t.buf.pushed = r.buf.pushed
               /\ t.buf.ended = r.buf.ended
               /\ n <= r.buf.pushed - r.buf.popped => t.buf.popped = r.buf.popped + n
<1> DEFINE b == r.buf
           k == b.popped + Smaller(n, b.pushed - b.popped)
           u == [b EXCEPT !.popped = k]
           t == [r EXCEPT !.buf = u]
<1>1. /\ r \in Receivers /\ BufferSound(b) /\ Within(b, s.stream.popped, s.FIN_sent)
      /\ b \in Buffers /\ b.capacity \in Nat /\ b.pushed \in Nat /\ b.popped \in Nat
      /\ b.popped <= b.pushed /\ b.pushed <= b.popped + b.capacity
      /\ b.held \subseteq Nat
  BY BufferFields DEF ReceivedFrom, BufferSound
<1>2. Take(b, n) = u
  BY DEF Take
<1> HIDE DEF b
<1>3. k \in Nat /\ b.popped <= k /\ k <= b.pushed
  <2> DEFINE d == b.pushed - b.popped
  <2>1. d \in Nat /\ b.popped + d = b.pushed  BY ONLY <1>1
  <2> HIDE DEF d
  <2>2. Smaller(n, d) \in Nat /\ Smaller(n, d) <= d
    BY ONLY <2>1, n \in Nat DEF Smaller
  <2>3. k = b.popped + Smaller(n, d)  BY DEF d
  <2> HIDE DEF k
  <2> QED  BY ONLY <1>1, <2>1, <2>2, <2>3
<1> HIDE DEF k
<1>4. /\ u \in Buffers /\ u.capacity = b.capacity /\ u.popped = k
      /\ u.pushed = b.pushed /\ u.held = b.held /\ u.ended = b.ended
      /\ u.finSeen = b.finSeen /\ u.end = b.end
  BY <1>1, <1>3 DEF Buffers
<1> HIDE DEF u
<1>5. t \in Receivers /\ t.isn = r.isn /\ t.buf = u
  BY <1>1, <1>4 DEF Receivers
<1>6. [r EXCEPT !.buf = Take(r.buf, n)] = t
  BY <1>2 DEF b
<1> HIDE DEF t
<1>7. \A i \in u.held : u.pushed < i /\ i < u.popped + u.capacity
  <2> SUFFICES ASSUME NEW i \in u.held
               PROVE  u.pushed < i /\ i < u.popped + u.capacity
    OBVIOUS
  <2>1. /\ i \in b.held /\ b.pushed < i /\ i < b.popped + b.capacity
    BY <1>1, <1>4 DEF BufferSound
  <2>2. i \in Nat  BY <1>1, <2>1
  <2> QED  BY ONLY <1>1, <1>3, <1>4, <2>1, <2>2
<1>8. u.popped <= u.pushed /\ u.pushed <= u.popped + u.capacity
  BY ONLY <1>1, <1>3, <1>4
<1>9. BufferSound(u)
  BY <1>1, <1>4, <1>7, <1>8 DEF BufferSound
<1>10. Within(u, s.stream.popped, s.FIN_sent)
  BY <1>1, <1>4 DEF Within
<1>11. ReceivedFrom(t, s)
  <2>1. IF r.isn = NoAck THEN b.pushed = 0 /\ b.held = {} /\ ~b.finSeen
        ELSE r.isn = s.isn /\ s.first_ack
    BY DEF ReceivedFrom, b
  <2> QED  BY <1>4, <1>5, <1>9, <1>10, <2>1 DEF ReceivedFrom
<1>12. Received(t) = Received(r)
  BY <1>4, <1>5 DEF Received, AbsoluteAckno, b
<1>13. n <= b.pushed - b.popped => u.popped = b.popped + n
  BY <1>4 DEF k, Smaller
<1> QED  BY <1>4, <1>5, <1>6, <1>11, <1>12, <1>13 DEF b

-----------------------------------------------------------------------------
(***************************************************************************)
(* Segments between the two ends.                                          *)
(***************************************************************************)
Segments == [sender : SenderMessages, receiver : ReceiverMessages]

\* m may be on its way from the peer q: neither half of it says what is not so.
Carried(m, q) ==
    m \in Segments /\ SentBy(m.sender, q.sender) /\ AckedBy(m.receiver, q.receiver)

\* What has been received stays received when the sender goes on.
LEMMA ReceivedStays ==
    ASSUME NEW r, NEW s, NEW t, ReceivedFrom(r, s), GoesOn(s, t),
           SenderSound(s), SenderSound(t)
    PROVE  ReceivedFrom(r, t)
<1>1. /\ s.stream.popped \in Nat /\ t.stream.popped \in Nat
  BY SenderFields
<1>2. /\ r \in Receivers /\ BufferSound(r.buf)
      /\ Within(r.buf, s.stream.popped, s.FIN_sent)
      /\ r.buf \in Buffers
  BY DEF ReceivedFrom, BufferSound
<1>3. r.buf.pushed \in Nat /\ r.buf.held \subseteq Nat
  BY <1>2, BufferFields
<1>4. /\ s.stream.popped <= t.stream.popped /\ t.isn = s.isn
      /\ s.first_ack => t.first_ack
      /\ s.FIN_sent => t.FIN_sent /\ t.stream.popped = s.stream.popped
  BY DEF GoesOn
<1>5. Within(r.buf, t.stream.popped, t.FIN_sent)
  <2>1. r.buf.pushed <= t.stream.popped
    <3>1. r.buf.pushed <= s.stream.popped  BY <1>2 DEF Within
    <3> QED  BY ONLY <1>1, <1>3, <1>4, <3>1
  <2>2. \A i \in r.buf.held : i < t.stream.popped
    <3> SUFFICES ASSUME NEW i \in r.buf.held PROVE i < t.stream.popped
      OBVIOUS
    <3>1. i < s.stream.popped /\ i \in Nat  BY <1>2, <1>3 DEF Within
    <3> QED  BY ONLY <1>1, <1>4, <3>1
  <2>3. r.buf.finSeen => t.FIN_sent /\ r.buf.end = t.stream.popped
    BY <1>2, <1>4 DEF Within
  <2> QED  BY <2>1, <2>2, <2>3 DEF Within
<1>6. IF r.isn = NoAck THEN r.buf.pushed = 0 /\ r.buf.held = {} /\ ~r.buf.finSeen
      ELSE r.isn = t.isn /\ t.first_ack
  BY <1>4 DEF ReceivedFrom
<1> QED  BY <1>2, <1>5, <1>6 DEF ReceivedFrom

LEMMA AckedStays ==
    ASSUME NEW m, NEW r, NEW t, AckedBy(m, r), ReceiverGrows(r, t),
           Received(r) \in Nat, Received(t) \in Nat, r.isn \in RawValues \union {NoAck}
    PROVE  AckedBy(m, t)
<1>1. m \in ReceiverMessages
  BY DEF AckedBy
<1>2. ASSUME m.ackno # NoAck
      PROVE  t.isn # NoAck /\ \E a \in 1 .. Received(t) : m.ackno = Wrap(a, t.isn)
  <2>1. PICK a \in 1 .. Received(r) : m.ackno = Wrap(a, r.isn)
    BY <1>2 DEF AckedBy
  <2>2. r.isn # NoAck /\ t.isn = r.isn /\ Received(r) <= Received(t)
    BY <1>2 DEF AckedBy, ReceiverGrows
  <2>3. a \in 1 .. Received(t)
    BY ONLY <2>1, <2>2, Received(r) \in Nat, Received(t) \in Nat
  <2> QED  BY <2>1, <2>2, <2>3
<1> QED  BY <1>1, <1>2 DEF AckedBy

LEMMA CarriedStays ==
    ASSUME NEW m, NEW q, NEW u, Carried(m, q), NEW s,
           SenderSound(q.sender), SenderSound(u.sender), GoesOn(q.sender, u.sender),
           SenderSound(s), ReceivedFrom(q.receiver, s), ReceivedFrom(u.receiver, s),
           ReceiverGrows(q.receiver, u.receiver)
    PROVE  Carried(m, u)
<1>1. SentBy(m.sender, u.sender)
  <2> DEFINE a == m.sender
             b == q.sender
             c == u.sender
  <2>1. SentBy(a, b) /\ GoesOn(b, c)
    BY DEF Carried
  <2>2. b.stream.popped \in Nat /\ c.stream.popped \in Nat
    <3> HIDE DEF b, c
    <3>1. SenderSound(b) /\ SenderSound(c)  BY DEF b, c
    <3> QED  BY <3>1, SenderFields
  <2> HIDE DEF a, b, c
  <2>3. SentBy(a, c)
    BY ONLY <2>1, <2>2, SentStaysSent
  <2> QED  BY <2>3 DEF a, c
<1>2. AckedBy(m.receiver, u.receiver)
  <2> DEFINE a == m.receiver
             b == q.receiver
             c == u.receiver
  <2>1. AckedBy(a, b) /\ ReceiverGrows(b, c) /\ ReceivedFrom(b, s) /\ ReceivedFrom(c, s)
    BY DEF Carried
  <2> HIDE DEF a, b, c
  <2>2. /\ Received(b) \in Nat /\ Received(c) \in Nat /\ b.isn \in RawValues \union {NoAck}
    BY <2>1, ReceiverFields
  <2>3. AckedBy(a, c)
    BY ONLY <2>1, <2>2, AckedStays
  <2> QED  BY <2>3 DEF a, c
<1> QED  BY <1>1, <1>2 DEF Carried

\* A reply acknowledges what has been received (tcp_receiver.cc:26-35).
LEMMA ReplyAcked ==
    ASSUME NEW r, NEW s, ReceivedFrom(r, s), SenderSound(s)
    PROVE  AckedBy(Reply(r), r)
<1>1. /\ r.isn \in RawValues \union {NoAck} /\ r.error \in BOOLEAN
      /\ Room(r.buf) \in Nat /\ AbsoluteAckno(r) \in Nat /\ AbsoluteAckno(r) >= 1
  BY ReceiverFields
<1> DEFINE a == IF r.isn = NoAck THEN NoAck ELSE Wrap(AbsoluteAckno(r), r.isn)
           w == Smaller(Room(r.buf), MaxWindow)
           e == r.error
<1>2. w \in 0 .. MaxWindow
  BY <1>1, MaxWindowAssumption DEF Smaller
<1>3. a \in RawValues \union {NoAck}
  <2>1. CASE r.isn = NoAck
    BY <2>1
  <2>2. CASE r.isn # NoAck
    <3>1. AbsoluteAckno(r) \in Int /\ r.isn \in Int
      BY <1>1, <2>2 DEF RawValues
    <3>2. Wrap(AbsoluteAckno(r), r.isn) \in RawValues
      BY ONLY <3>1, WrapIsSum
    <3> QED  BY <2>2, <3>2
  <2> QED  BY <2>1, <2>2
<1>4. Reply(r) = [ackno |-> a, window_size |-> w, RST |-> e]
  BY DEF Reply
<1>5. a # NoAck => r.isn # NoAck /\ \E k \in 1 .. Received(r) : a = Wrap(k, r.isn)
  <2> SUFFICES ASSUME r.isn # NoAck
               PROVE  \E k \in 1 .. Received(r) : a = Wrap(k, r.isn)
    OBVIOUS
  <2>1. Received(r) = AbsoluteAckno(r) /\ a = Wrap(AbsoluteAckno(r), r.isn)
    BY DEF Received
  <2> HIDE DEF a
  <2>2. Received(r) \in 1 .. Received(r)
    BY <1>1, <2>1
  <2> QED  BY <2>1, <2>2
<1>6. e \in BOOLEAN
  BY <1>1
<1> HIDE DEF a, w, e
<1>7. Reply(r) \in ReceiverMessages /\ Reply(r).ackno = a
  BY <1>2, <1>3, <1>4, <1>6 DEF ReceiverMessages
<1> QED  BY <1>5, <1>7 DEF AckedBy

(***************************************************************************)
(* An acknowledgment, however old, stands for no more than has been        *)
(* received (tcp_sender.cc:81-85).                                         *)
(***************************************************************************)
LEMMA AckIsHonest ==
    ASSUME NEW r, NEW s, ReceivedFrom(r, s), SenderSound(s),
           2 * (s.stream.popped + 2) < Modulus,
           NEW m, AckedBy(m, r), m.ackno # NoAck
    PROVE  AckNo(s, m) \in Nat /\ AckNo(s, m) <= Received(r)
<1>1. PICK a \in 1 .. Received(r) : m.ackno = Wrap(a, r.isn)
  BY DEF AckedBy
<1>2. r.isn = s.isn
  BY DEF AckedBy, ReceivedFrom
<1>3. /\ Received(r) \in Nat /\ Received(r) <= s.next_seqno
      /\ s.next_seqno \in Nat /\ s.next_seqno <= s.stream.popped + 2
      /\ s.stream.popped \in Nat /\ s.isn \in RawValues
  BY SenderFields, ReceiverFields
<1>4. /\ a \in Nat /\ a <= Received(r)
      /\ a - s.next_seqno <= Modulus \div 2 /\ s.next_seqno - a < Modulus \div 2
  BY <1>1, <1>3, ModulusAssumption, EvenAssumption
<1>5. Unwrap(Wrap(a, s.isn), s.isn, s.next_seqno) = a
  <2> DEFINE z == s.isn
             c == s.next_seqno
  <2>1. z \in RawValues /\ c \in Nat /\ a - c <= Modulus \div 2 /\ c - a < Modulus \div 2
    BY <1>3, <1>4
  <2> HIDE DEF z, c
  <2>2. Unwrap(Wrap(a, z), z, c) = a
    BY ONLY <1>4, <2>1, RoundTrip
  <2> QED  BY <2>2 DEF z, c
<1> QED  BY <1>1, <1>2, <1>4, <1>5 DEF AckNo

-----------------------------------------------------------------------------
(***************************************************************************)
(* One peer.  P agrees with the other end O, and may write w bytes.        *)
(***************************************************************************)
Agree(P, O, w) ==
    /\ P \in Peers
    /\ SenderSound(P.sender)
    /\ P.sender.stream.pushed <= w
    /\ ReceivedFrom(P.receiver, O.sender)
    /\ ReleasedBy(P.sender) <= Received(O.receiver)

\* A call that turns P into Q, and after which Q agrees with O as it was.
Moves(P, Q, O, w) ==
    /\ Agree(Q, O, w)
    /\ GoesOn(P.sender, Q.sender)
    /\ ReceiverGrows(P.receiver, Q.receiver)

LEMMA PeerFields ==
    ASSUME NEW P \in Peers
    PROVE  /\ P.sender \in Senders /\ P.sender.pc = "idle" /\ P.receiver \in Receivers
           /\ P.need_send \in BOOLEAN /\ P.linger \in BOOLEAN /\ P.quiet \in Nat
<1>1. /\ P.sender \in {s \in Senders : s.pc = "idle"} /\ P.receiver \in Receivers
      /\ P.need_send \in BOOLEAN /\ P.linger \in BOOLEAN /\ P.quiet \in Nat
  BY DEF Peers
<1> QED  BY <1>1

\* Half of the sequence space is more than a peer can be ahead.
LEMMA AgreeFields ==
    ASSUME NEW P, NEW O, NEW w \in Nat, Agree(P, O, w), SenderSound(O.sender),
           2 * (w + 2) < Modulus
    PROVE  /\ 2 * (P.sender.stream.popped + 2) < Modulus
           /\ 2 * P.sender.in_flight < Modulus
           /\ P.sender.stream.popped \in Nat /\ P.sender.stream.pushed \in Nat
           /\ Received(P.receiver) \in Nat
           /\ P.receiver.isn \in RawValues \union {NoAck}
<1> DEFINE s == P.sender
           r == P.receiver
           t == O.sender
<1>1. SenderSound(s) /\ s.stream.pushed <= w /\ ReceivedFrom(r, t) /\ SenderSound(t)
  BY DEF Agree
<1> HIDE DEF s, r, t
<1>2. /\ s.stream.popped \in Nat /\ s.stream.pushed \in Nat
      /\ s.stream.popped <= s.stream.pushed
      /\ s.in_flight \in Nat /\ s.in_flight <= s.next_seqno
      /\ s.next_seqno \in Nat /\ s.next_seqno <= s.stream.popped + 2
  BY <1>1, SenderFields
<1>3. Received(r) \in Nat /\ r.isn \in RawValues \union {NoAck}
  BY <1>1, ReceiverFields
<1>4. s.stream.popped <= w
  BY ONLY <1>1, <1>2, w \in Nat
<1>5. s.in_flight <= w + 2
  BY ONLY <1>2, <1>4, w \in Nat
<1>6. /\ 2 * (s.stream.popped + 2) < Modulus
      /\ 2 * s.in_flight < Modulus
  BY ONLY <1>2, <1>4, <1>5, w \in Nat, 2 * (w + 2) < Modulus, ModulusAssumption
<1> QED  BY <1>2, <1>3, <1>6 DEF s, r

LEMMA MovesNowhere ==
    ASSUME NEW P, NEW O, NEW w \in Nat, Agree(P, O, w), SenderSound(O.sender)
    PROVE  Moves(P, P, O, w)
<1> DEFINE s == P.sender
           r == P.receiver
           t == O.sender
<1>1. SenderSound(s) /\ ReceivedFrom(r, t) /\ SenderSound(t)
  BY DEF Agree
<1> HIDE DEF s, r, t
<1>2. s.stream.popped \in Nat /\ Received(r) \in Nat
  BY <1>1, SenderFields, ReceiverFields
<1>3. GoesOn(s, s)  BY <1>2, GoesNowhere
<1>4. ReceiverGrows(r, r)  BY <1>2 DEF ReceiverGrows
<1> QED  BY <1>3, <1>4 DEF Moves, s, r

LEMMA MovesInTurn ==
    ASSUME NEW P, NEW q, NEW Q, NEW O, NEW w \in Nat,
           Agree(P, O, w), SenderSound(O.sender), Moves(P, q, O, w), Moves(q, Q, O, w)
    PROVE  Moves(P, Q, O, w)
<1> DEFINE a == P.sender
           b == q.sender
           c == Q.sender
           d == P.receiver
           e == q.receiver
           f == Q.receiver
           t == O.sender
<1>1. /\ SenderSound(a) /\ SenderSound(b) /\ SenderSound(c) /\ SenderSound(t)
      /\ GoesOn(a, b) /\ GoesOn(b, c)
      /\ ReceivedFrom(d, t) /\ ReceivedFrom(e, t) /\ ReceivedFrom(f, t)
      /\ ReceiverGrows(d, e) /\ ReceiverGrows(e, f)
  BY DEF Agree, Moves
<1> HIDE DEF a, b, c, d, e, f, t
<1>2. GoesOn(a, c)
  <2>1. a.stream.popped \in Nat /\ b.stream.popped \in Nat /\ c.stream.popped \in Nat
    BY <1>1, SenderFields
  <2> QED  BY ONLY <1>1, <2>1, GoesOnInTurn
<1>3. ReceiverGrows(d, f)
  <2>1. Received(d) \in Nat /\ Received(e) \in Nat /\ Received(f) \in Nat
    BY <1>1, ReceiverFields
  <2>2. Received(d) <= Received(f)
    BY ONLY <1>1, <2>1 DEF ReceiverGrows
  <2> QED  BY <1>1, <2>2 DEF ReceiverGrows
<1> QED  BY <1>2, <1>3 DEF Moves, a, c, d, f

LEMMA CarriedAcrossMove ==
    ASSUME NEW m, NEW P, NEW Q, NEW O, NEW w \in Nat, Carried(m, P),
           Agree(P, O, w), SenderSound(O.sender), Moves(P, Q, O, w)
    PROVE  Carried(m, Q)
<1> DEFINE t == O.sender
<1>1. /\ SenderSound(P.sender) /\ SenderSound(Q.sender) /\ GoesOn(P.sender, Q.sender)
      /\ SenderSound(t) /\ ReceivedFrom(P.receiver, t) /\ ReceivedFrom(Q.receiver, t)
      /\ ReceiverGrows(P.receiver, Q.receiver)
  BY DEF Agree, Moves
<1> HIDE DEF t
<1> QED  BY <1>1, CarriedStays

\* Merging the RST flags of the halves of a segment does not touch what they say.
LEMMA SegmentCarried ==
    ASSUME NEW a, NEW b, NEW q, SentBy(a, q.sender), AckedBy(b, q.receiver)
    PROVE  Carried(Segment(a, b), q)
<1> DEFINE e == a.RST \/ b.RST
           x == [a EXCEPT !.RST = e]
           y == [b EXCEPT !.RST = e]
<1>1. a \in SenderMessages /\ b \in ReceiverMessages
  BY DEF SentBy, AckedBy
<1>2. e \in BOOLEAN
  OBVIOUS
<1>3. Segment(a, b) = [sender |-> x, receiver |-> y]
  BY DEF Segment
<1> HIDE DEF e
<1>4. /\ x \in SenderMessages /\ x.seqno = a.seqno /\ x.SYN = a.SYN
      /\ x.lo = a.lo /\ x.size = a.size /\ x.FIN = a.FIN
  BY <1>1, <1>2 DEF SenderMessages
<1>5. y \in ReceiverMessages /\ y.ackno = b.ackno
  BY <1>1, <1>2 DEF ReceiverMessages
<1> HIDE DEF x, y
<1>6. SequenceLength(x) = SequenceLength(a) /\ TrueSeqno(x) = TrueSeqno(a)
  BY <1>4 DEF SequenceLength, TrueSeqno
<1>7. SentBy(x, q.sender)
  <2> DEFINE s == q.sender
  <2>1. SentBy(a, s)  OBVIOUS
  <2> HIDE DEF s
  <2>2. SentBy(x, s)  BY <1>4, <1>6, <2>1 DEF SentBy
  <2> QED  BY <2>2 DEF s
<1>8. AckedBy(y, q.receiver)
  BY <1>5 DEF AckedBy
<1>9. Segment(a, b) \in Segments
  BY <1>3, <1>4, <1>5 DEF Segments
<1> QED  BY <1>3, <1>7, <1>8, <1>9 DEF Carried

-----------------------------------------------------------------------------
\* tcp_peer.hh:30.
LEMMA PushMoves ==
    ASSUME NEW P, NEW O, NEW w \in Nat, Agree(P, O, w), SenderSound(O.sender)
    PROVE  /\ Moves(P, PeerPush(P), O, w)
           /\ SameInput(P.sender.stream, PeerPush(P).sender.stream)
           /\ PeerPush(P).receiver = P.receiver
           /\ \A m \in PushSends(P) : Carried(m, PeerPush(P))
<1> DEFINE s == P.sender
           r == P.receiver
           t == Pushed(s)
           n == IF Len(t.unacknowledged) > Len(s.unacknowledged) THEN FALSE
                ELSE P.need_send
           Q == [P EXCEPT !.sender = t, !.need_send = n]
<1>1. /\ P \in Peers /\ SenderSound(s) /\ s.stream.pushed <= w
      /\ ReceivedFrom(r, O.sender)
      /\ ReleasedBy(s) <= Received(O.receiver)
  BY DEF Agree
<1>2. n \in BOOLEAN
  BY <1>1, PeerFields
<1>3. PeerPush(P) = Q
  BY DEF PeerPush
<1> HIDE DEF n
<1>4. /\ SenderSound(t) /\ GoesOn(s, t) /\ t.pc = "idle"
      /\ SameInput(s.stream, t.stream) /\ ReleasedBy(t) = ReleasedBy(s)
  <2> HIDE DEF s
  <2> QED  BY <1>1, PushedSound
<1>5. PushSends(P) = {Segment(t.unacknowledged[i], Reply(r)) :
                         i \in Len(s.unacknowledged) + 1 .. Len(t.unacknowledged)}
  BY DEF PushSends, Send
<1>6. Len(s.unacknowledged) \in Nat
  <2> HIDE DEF s
  <2>1. s.unacknowledged \in Seq(SenderMessages)  BY <1>1, SenderFields
  <2> QED  BY <2>1
<1> HIDE DEF t
<1>7. Q \in Peers /\ Q.sender = t /\ Q.receiver = r
  <2>1. t \in {x \in Senders : x.pc = "idle"}  BY <1>4, SenderFields
  <2>2. Q.sender = t /\ Q.receiver = r
    BY <1>1 DEF Peers
  <2>3. Q \in Peers
    BY <1>1, <1>2, <2>1 DEF Peers
  <2> QED  BY <2>2, <2>3
<1> HIDE DEF Q
<1>8. ReceiverGrows(r, r)
  <2>1. Received(r) \in Nat
    <3> DEFINE x == O.sender
    <3>1. ReceivedFrom(r, x) /\ SenderSound(x)  BY <1>1
    <3> HIDE DEF x, r
    <3> QED  BY <3>1, ReceiverFields
  <2> QED  BY <2>1 DEF ReceiverGrows
<1>9. Moves(P, Q, O, w)
  BY <1>1, <1>4, <1>7, <1>8 DEF Moves, Agree, SameInput
<1>10. \A m \in PushSends(P) : Carried(m, Q)
  <2> SUFFICES ASSUME NEW i \in Len(s.unacknowledged) + 1 .. Len(t.unacknowledged)
               PROVE  Carried(Segment(t.unacknowledged[i], Reply(r)), Q)
    BY <1>5
  <2>1. i \in 1 .. Len(t.unacknowledged)
    BY <1>6
  <2>2. SentBy(t.unacknowledged[i], t)
    BY <1>4, <2>1 DEF SenderSound
  <2>3. AckedBy(Reply(r), r)
    <3> DEFINE x == O.sender
    <3>1. ReceivedFrom(r, x) /\ SenderSound(x)  BY <1>1
    <3> HIDE DEF x, r
    <3> QED  BY <3>1, ReplyAcked
  <2> QED  BY <1>7, <2>2, <2>3, SegmentCarried
<1> QED  BY <1>3, <1>4, <1>7, <1>9, <1>10

\* The owner writes to the outbound stream or closes it, and push() is called.
LEMMA WriteMoves ==
    ASSUME NEW P, NEW O, NEW w \in Nat, Agree(P, O, w), SenderSound(O.sender),
           NEW c, StreamKept(P.sender.stream, c), c.pushed <= w
    PROVE  LET q == [P EXCEPT !.sender.stream = c]
           IN  /\ Moves(P, PeerPush(q), O, w)
               /\ SameInput(c, PeerPush(q).sender.stream)
               /\ PeerPush(q).receiver = P.receiver
               /\ \A m \in PushSends(q) : Carried(m, PeerPush(q))
<1> DEFINE s == P.sender
           r == P.receiver
           t == [s EXCEPT !.stream = c]
           q == [P EXCEPT !.sender = t]
<1>1. /\ P \in Peers /\ SenderSound(s) /\ s.pc = "idle"
      /\ ReceivedFrom(r, O.sender)
      /\ ReleasedBy(s) <= Received(O.receiver)
  BY PeerFields DEF Agree
<1>2. [P EXCEPT !.sender.stream = c] = q
  OBVIOUS
<1>3. /\ SenderSound(t) /\ GoesOn(s, t) /\ ReleasedBy(t) = ReleasedBy(s)
      /\ t.stream = c /\ t.pc = s.pc
  <2>1. StreamKept(s.stream, c)  OBVIOUS
  <2> HIDE DEF s
  <2> QED  BY <1>1, <2>1, StreamReplaced
<1> HIDE DEF t
<1>4. q \in Peers /\ q.sender = t /\ q.receiver = r
  <2>1. t \in {x \in Senders : x.pc = "idle"}  BY <1>1, <1>3, SenderFields
  <2> QED  BY <1>1, <2>1 DEF Peers
<1> HIDE DEF q
<1>5. ReceiverGrows(r, r)
  <2>1. Received(r) \in Nat
    <3> DEFINE x == O.sender
    <3>1. ReceivedFrom(r, x) /\ SenderSound(x)  BY <1>1
    <3> HIDE DEF x, r
    <3> QED  BY <3>1, ReceiverFields
  <2> QED  BY <2>1 DEF ReceiverGrows
<1>6. Moves(P, q, O, w)
  BY <1>1, <1>3, <1>4, <1>5 DEF Moves, Agree
<1>7. Agree(q, O, w)
  BY <1>6 DEF Moves
<1>8. /\ Moves(q, PeerPush(q), O, w)
      /\ SameInput(q.sender.stream, PeerPush(q).sender.stream)
      /\ PeerPush(q).receiver = q.receiver
      /\ \A m \in PushSends(q) : Carried(m, PeerPush(q))
  BY <1>7, PushMoves
<1>9. Moves(P, PeerPush(q), O, w)
  BY <1>6, <1>8, MovesInTurn
<1> QED  BY <1>2, <1>3, <1>4, <1>8, <1>9

\* tcp_peer.hh:31-35.
LEMMA TickMoves ==
    ASSUME NEW P, NEW O, NEW w \in Nat, Agree(P, O, w), SenderSound(O.sender)
    PROVE  /\ Moves(P, PeerTick(P, 1), O, w)
           /\ SameInput(P.sender.stream, PeerTick(P, 1).sender.stream)
           /\ PeerTick(P, 1).receiver = P.receiver
           /\ \A m \in TickSends(P, 1) : Carried(m, PeerTick(P, 1))
<1> DEFINE s == P.sender
           r == P.receiver
           t == Tick(s, 1)
           n == IF Expires(s, 1) THEN FALSE ELSE P.need_send
           k == Lesser(P.quiet + 1, LingerTime(P))
           Q == [P EXCEPT !.quiet = k, !.sender = t, !.need_send = n]
<1>1. /\ P \in Peers /\ SenderSound(s) /\ s.pc = "idle" /\ s.stream.pushed <= w
      /\ ReceivedFrom(r, O.sender)
      /\ ReleasedBy(s) <= Received(O.receiver)
  BY PeerFields DEF Agree
<1>2. n \in BOOLEAN
  BY <1>1, PeerFields
<1>3. k \in Nat
  <2>1. s.initial_RTO \in Nat
    <3> HIDE DEF s
    <3>1. s \in Senders  BY <1>1, SenderFields
    <3> QED  BY <3>1 DEF Senders
  <2> DEFINE i == s.initial_RTO
             l == LingerTime(P)
  <2>2. l = LingerFactor * i  BY DEF LingerTime
  <2>3. i \in Nat /\ P.quiet \in Nat  BY <1>1, <2>1, PeerFields
  <2> HIDE DEF i, l
  <2>4. l \in Nat  BY ONLY <2>2, <2>3, LingerAssumption
  <2> QED  BY ONLY <2>3, <2>4 DEF Lesser, l
<1>4. PeerTick(P, 1) = Q
  BY DEF PeerTick
<1> HIDE DEF n, k
<1>5. /\ SenderSound(t) /\ GoesOn(s, t) /\ ReleasedBy(t) = ReleasedBy(s)
      /\ t.stream = s.stream /\ t.pc = s.pc
  <2> HIDE DEF s
  <2>1. 1 \in Nat  OBVIOUS
  <2> QED  BY <1>1, <2>1, TickSound
<1> HIDE DEF t
<1>6. Q \in Peers /\ Q.sender = t /\ Q.receiver = r
  <2>1. t \in {x \in Senders : x.pc = "idle"}  BY <1>1, <1>5, SenderFields
  <2>2. Q.sender = t /\ Q.receiver = r
    BY <1>1 DEF Peers
  <2>3. Q \in Peers
    BY <1>1, <1>2, <1>3, <2>1 DEF Peers
  <2> QED  BY <2>2, <2>3
<1> HIDE DEF Q
<1>7. /\ ReceiverGrows(r, r) /\ AckedBy(Reply(r), r)
  <2> DEFINE x == O.sender
  <2>1. ReceivedFrom(r, x) /\ SenderSound(x)  BY <1>1
  <2> HIDE DEF x, r
  <2>2. Received(r) \in Nat /\ AckedBy(Reply(r), r)
    BY <2>1, ReceiverFields, ReplyAcked
  <2> QED  BY <2>2 DEF ReceiverGrows
<1>8. Moves(P, Q, O, w)
  BY <1>1, <1>5, <1>6, <1>7 DEF Moves, Agree
<1>9. ASSUME NEW m \in TickSends(P, 1) PROVE Carried(m, Q)
  <2> DEFINE a == Head(s.unacknowledged)
  <2>1. s.unacknowledged # << >> /\ m = Segment(a, Reply(r))
    BY <1>9 DEF TickSends, Send, Expires
  <2>2. SentBy(a, s)
    <3> HIDE DEF s
    <3>1. s.unacknowledged \in Seq(SenderMessages)  BY <1>1, SenderFields
    <3>2. 1 \in 1 .. Len(s.unacknowledged) /\ a = s.unacknowledged[1]
      BY <2>1, <3>1
    <3>3. \A i \in 1 .. Len(s.unacknowledged) : SentBy(s.unacknowledged[i], s)
      BY <1>1 DEF SenderSound
    <3> QED  BY <3>2, <3>3
  <2>3. Carried(Segment(a, Reply(r)), P)
    <3> HIDE DEF a
    <3> QED  BY <1>7, <2>2, SegmentCarried
  <2>4. Carried(m, P)
    BY <2>1, <2>3
  <2> QED  BY <1>8, <2>4, CarriedAcrossMove
<1>10. SameInput(s.stream, Q.sender.stream)
  BY <1>5, <1>6 DEF SameInput
<1> QED  BY <1>4, <1>6, <1>8, <1>9, <1>10

\* A message without sequence numbers says nothing of the stream (tcp_sender.cc:62-70).
LEMMA EmptySent ==
    ASSUME NEW s, SenderSound(s)
    PROVE  /\ EmptyMessage(s) \in SenderMessages
           /\ SequenceLength(EmptyMessage(s)) = 0
           /\ SentBy(EmptyMessage(s), s)
<1> DEFINE n == Wrap(s.next_seqno, s.isn)
           k == s.stream.popped
           e == s.stream.error
           m == EmptyMessage(s)
<1>1. m = [seqno |-> n, SYN |-> FALSE, lo |-> k, size |-> 0, FIN |-> FALSE, RST |-> e]
  BY DEF EmptyMessage
<1>2. n \in RawValues
  <2>1. s.next_seqno \in Int /\ s.isn \in Int
    <3>1. s.next_seqno \in Nat /\ s.isn \in RawValues  BY SenderFields
    <3> QED  BY <3>1 DEF RawValues
  <2> QED  BY ONLY <2>1, WrapIsSum
<1>3. k \in Nat /\ e \in BOOLEAN
  BY SenderFields
<1> HIDE DEF n, k, e, m
<1>4. m \in SenderMessages /\ ~m.SYN /\ m.size = 0 /\ ~m.FIN
  BY <1>1, <1>2, <1>3 DEF SenderMessages
<1>5. SequenceLength(m) = 0
  BY <1>4 DEF SequenceLength, Flag
<1>6. SentBy(m, s)
  BY <1>4, <1>5 DEF SentBy
<1> QED  BY <1>4, <1>5, <1>6 DEF m

\* What receive() makes of the two halves of a peer.
LEMMA HeardIs ==
    ASSUME NEW P \in Peers, NEW m,
           ReceiveSegment(P.receiver, m.sender) \in Receivers,
           Acked(P.sender, m.receiver) \in {x \in Senders : x.pc = "idle"}
    PROVE  LET q == Heard(P, m)
               R == ReceiveSegment(P.receiver, m.sender)
           IN  /\ q \in Peers /\ q.receiver = R
               /\ q.sender = P.sender \/ q.sender = Acked(P.sender, m.receiver)
<1> DEFINE d == ReplyDue(P, m)
           l == P.linger /\ ~(InboundClosed(P) /\ ~OutboundFinished(P))
           R == ReceiveSegment(P.receiver, m.sender)
           S == Acked(P.sender, m.receiver)
           a == [P EXCEPT !.quiet = 0, !.need_send = d, !.linger = l]
           b == [a EXCEPT !.receiver = R]
           c == [b EXCEPT !.sender = S]
<1>1. d \in BOOLEAN /\ l \in BOOLEAN
  <2>1. d \in BOOLEAN
    BY DEF ReplyDue
  <2>2. l \in BOOLEAN  OBVIOUS
  <2> QED  BY <2>1, <2>2
<1>2. Noted(P, m) = a
  BY DEF Noted
<1>3. Heard(P, m) = IF b.receiver.threw THEN b ELSE c
  BY <1>2 DEF Heard
<1> HIDE DEF d, l, R, S
<1>4. R \in Receivers /\ S \in {x \in Senders : x.pc = "idle"} /\ 0 \in Nat
  BY DEF R, S
<1>5. a \in Peers /\ a.sender = P.sender
  BY <1>1, <1>4 DEF Peers
<1> HIDE DEF a
<1>6. b \in Peers /\ b.receiver = R /\ b.sender = P.sender
  BY <1>4, <1>5 DEF Peers
<1> HIDE DEF b
<1>7. c \in Peers /\ c.receiver = R /\ c.sender = S
  BY <1>4, <1>6 DEF Peers
<1> HIDE DEF c
<1> QED  BY <1>3, <1>6, <1>7 DEF R, S

\* tcp_peer.hh:50-82.
LEMMA ReceiveMoves ==
    ASSUME NEW P, NEW O, NEW w \in Nat, NEW v \in Nat, Agree(P, O, w), Agree(O, P, v),
           2 * (w + 2) < Modulus, 2 * (v + 2) < Modulus,
           NEW m, Carried(m, O)
    PROVE  /\ Moves(P, PeerReceive(P, m), O, w)
           /\ SameInput(P.sender.stream, PeerReceive(P, m).sender.stream)
           /\ BufferGrows(P.receiver.buf, PeerReceive(P, m).receiver.buf)
           /\ \A x \in ReceiveSends(P, m) : Carried(x, PeerReceive(P, m))
<1> DEFINE s == P.sender
           r == P.receiver
           t == O.sender
           u == O.receiver
           a == m.sender
           b == m.receiver
           R == ReceiveSegment(r, a)
           S == Acked(s, b)
           q == Heard(P, m)
           Q == PeerReceive(P, m)
<1>1. /\ P \in Peers /\ SenderSound(s) /\ s.pc = "idle" /\ s.stream.pushed <= w
      /\ ReceivedFrom(r, t) /\ ReleasedBy(s) <= Received(u)
      /\ SenderSound(t) /\ ReceivedFrom(u, s)
  BY PeerFields DEF Agree
<1>2. /\ 2 * (s.stream.popped + 2) < Modulus /\ 2 * s.in_flight < Modulus
      /\ 2 * (t.stream.popped + 2) < Modulus
  BY <1>1, AgreeFields
<1>3. SentBy(a, t) /\ AckedBy(b, u) /\ b \in ReceiverMessages
  BY DEF Carried, AckedBy
<1>4. ReceivedFrom(R, t) /\ ReceiverGrows(r, R) /\ BufferGrows(r.buf, R.buf)
  <2> HIDE DEF r, t, a
  <2> QED  BY ONLY <1>1, <1>2, <1>3, ReceiveSegmentSound
<1>5. /\ SenderSound(S) /\ GoesOn(s, S) /\ S.pc = "idle"
      /\ SameInput(s.stream, S.stream)
      /\ \/ ReleasedBy(S) = ReleasedBy(s)
         \/ Acknowledges(s, b) /\ ReleasedBy(S) <= AckNo(s, b)
  <2> HIDE DEF s, b
  <2> QED  BY ONLY <1>1, <1>2, <1>3, AckedSound
<1> HIDE DEF R, S
<1>6. ReleasedBy(S) <= Received(u)
  <2>1. CASE ReleasedBy(S) = ReleasedBy(s)
    BY <1>1, <2>1
  <2>2. CASE Acknowledges(s, b) /\ ReleasedBy(S) <= AckNo(s, b)
    <3> HIDE DEF s, b, u
    <3>1. b.ackno # NoAck  BY <2>2 DEF Acknowledges
    <3>2. AckNo(s, b) \in Nat /\ AckNo(s, b) <= Received(u)
      BY ONLY <1>1, <1>2, <1>3, <3>1, AckIsHonest
    <3>3. Received(u) \in Nat
      BY <1>1, ReceiverFields
    <3>4. ReleasedBy(S) \in Nat
      <4>1. S \in Senders  BY <1>5, SenderFields
      <4>2. S.unacknowledged \in Seq(SenderMessages) /\ S.next_seqno \in Nat
        BY <4>1 DEF Senders
      <4>3. S.unacknowledged # << >> => Head(S.unacknowledged) \in SenderMessages
        BY <4>2
      <4> QED  BY <4>2, <4>3, MessageNumbers DEF ReleasedBy
    <3> QED  BY ONLY <2>2, <3>2, <3>3, <3>4
  <2> QED  BY <1>5, <2>1, <2>2
<1>7. /\ q \in Peers /\ q.receiver = R
      /\ q.sender = s \/ q.sender = S
  <2>1. R \in Receivers  BY <1>4 DEF ReceivedFrom
  <2>2. S \in {x \in Senders : x.pc = "idle"}  BY <1>5, SenderFields
  <2> QED  BY <1>1, <2>1, <2>2, HeardIs DEF R, S
<1> HIDE DEF q
<1>8. Agree(q, O, w)
  BY <1>1, <1>4, <1>5, <1>6, <1>7 DEF Agree, SameInput
<1>9. GoesOn(s, q.sender)
  <2>1. s.stream.popped \in Nat
    <3> HIDE DEF s
    <3> QED  BY <1>1, SenderFields
  <2>2. GoesOn(s, s)  BY <2>1, GoesNowhere
  <2> QED  BY <1>5, <1>7, <2>2
<1>10. Moves(P, q, O, w)
  BY <1>4, <1>7, <1>8, <1>9 DEF Moves
<1>11. CASE ~Active(P)
  <2>1. Q = P /\ ReceiveSends(P, m) = {}
    BY <1>11 DEF PeerReceive, ReceiveSends
  <2>2. Moves(P, P, O, w)
    BY <1>1, MovesNowhere
  <2>3. SameInput(s.stream, s.stream) /\ BufferGrows(r.buf, r.buf)
    <3>1. r.buf.pushed \in Nat
      <4> HIDE DEF r, t
      <4> QED  BY <1>1, ReceiverFields
    <3> QED  BY <3>1 DEF SameInput, BufferGrows
  <2> QED  BY <2>1, <2>2, <2>3
<1>12. CASE Active(P)
  <2>1. /\ Q \in Peers /\ Q.sender = q.sender /\ Q.receiver = q.receiver
    <3>1. Q = IF q.receiver.threw THEN q ELSE [q EXCEPT !.need_send = FALSE]
      BY <1>12 DEF PeerReceive, q
    <3>2. LET x == [q EXCEPT !.need_send = FALSE]
          IN  x \in Peers /\ x.sender = q.sender /\ x.receiver = q.receiver
      BY <1>7 DEF Peers
    <3> HIDE DEF Q
    <3> QED  BY <1>7, <3>1, <3>2
  <2> HIDE DEF Q
  <2>2. Moves(P, Q, O, w)
    BY <1>10, <2>1 DEF Moves, Agree
  <2>3. ASSUME NEW x \in ReceiveSends(P, m) PROVE Carried(x, Q)
    <3> DEFINE e == EmptyMessage(Q.sender)
               f == Reply(Q.receiver)
    <3>1. x = Segment(e, f)
      BY <2>1, <2>3 DEF ReceiveSends, Send, q
    <3>2. SentBy(e, Q.sender)
      <4> DEFINE z == Q.sender
      <4>1. SenderSound(z)  BY <2>2 DEF Moves, Agree
      <4> HIDE DEF z
      <4>2. SentBy(EmptyMessage(z), z)  BY <4>1, EmptySent
      <4> QED  BY <4>2 DEF z
    <3>3. AckedBy(f, Q.receiver)
      <4> DEFINE z == Q.receiver
      <4>1. ReceivedFrom(z, t)  BY <2>2 DEF Moves, Agree
      <4> HIDE DEF z, t
      <4>2. AckedBy(Reply(z), z)  BY <1>1, <4>1, ReplyAcked
      <4> QED  BY <4>2 DEF z
    <3> HIDE DEF e, f
    <3> QED  BY <3>1, <3>2, <3>3, SegmentCarried
  <2>4. SameInput(s.stream, Q.sender.stream) /\ BufferGrows(r.buf, Q.receiver.buf)
    BY <1>4, <1>5, <1>7, <2>1 DEF SameInput
  <2> QED  BY <2>2, <2>3, <2>4 DEF Q
<1> QED  BY <1>11, <1>12

LEMMA AgreeStays ==
    ASSUME NEW P, NEW Q, NEW O, NEW N, NEW w \in Nat, NEW v \in Nat,
           Agree(P, O, w), Agree(O, P, v), Moves(P, Q, O, w), Moves(O, N, P, v)
    PROVE  Agree(Q, N, w)
<1> DEFINE r == Q.receiver
           s == O.sender
           t == N.sender
           d == O.receiver
           e == N.receiver
           q == Q.sender
<1>1. /\ Q \in Peers /\ SenderSound(q) /\ q.stream.pushed <= w
      /\ ReceivedFrom(r, s) /\ ReleasedBy(q) <= Received(d)
      /\ SenderSound(s) /\ SenderSound(t) /\ GoesOn(s, t) /\ ReceiverGrows(d, e)
      /\ ReceivedFrom(d, P.sender) /\ ReceivedFrom(e, P.sender) /\ SenderSound(P.sender)
  BY DEF Agree, Moves
<1>2. ReceivedFrom(r, t)
  <2> HIDE DEF r, s, t
  <2> QED  BY ONLY <1>1, ReceivedStays
<1>3. Received(d) \in Nat /\ Received(e) \in Nat
  <2> DEFINE x == P.sender
  <2>1. ReceivedFrom(d, x) /\ ReceivedFrom(e, x) /\ SenderSound(x)  BY <1>1
  <2> HIDE DEF d, e, x
  <2> QED  BY <2>1, ReceiverFields
<1>4. ReleasedBy(q) \in Nat
  <2> HIDE DEF q
  <2>1. q.unacknowledged \in Seq(SenderMessages) /\ q.next_seqno \in Nat
    BY <1>1, SenderFields
  <2>2. q.unacknowledged # << >> => Head(q.unacknowledged) \in SenderMessages
    BY <2>1
  <2> QED  BY <2>1, <2>2, MessageNumbers DEF ReleasedBy
<1>5. ReleasedBy(q) <= Received(e)
  <2>1. Received(d) <= Received(e)  BY <1>1 DEF ReceiverGrows
  <2> QED  BY ONLY <1>1, <1>3, <1>4, <2>1
<1> QED  BY <1>1, <1>2, <1>5 DEF Agree

-----------------------------------------------------------------------------
(***************************************************************************)
(* The inductive invariant of a connection.  Either peer's sender and      *)
(* receiver are sound, what a receiver has is what the other end's sender  *)
(* has sent, no sender has released what the other end has not received,   *)
(* and every segment in the network, however old, is one that a sender     *)
(* sent with an acknowledgment that a receiver gave.                       *)
(***************************************************************************)
Phases == {"new", "opening", "open"}

Packets == [to : Sides, segment : Segments]

PeersAgree == \A p \in Sides : Agree(peer[p], peer[Other(p)], Writable[p])

NetworkIsHonest ==
    \A d \in network : d \in Packets /\ Carried(d.segment, peer[Other(d.to)])

IInv ==
    /\ peer \in [Sides -> Peers]
    /\ phase \in [Sides -> Phases]
    /\ faults \in Nat
    /\ PeersAgree
    /\ NetworkIsHonest

LEMMA OtherSide ==
    ASSUME NEW p \in Sides
    PROVE  Other(p) \in Sides /\ Other(Other(p)) = p /\ Other(p) # p
BY SidesAssumption DEF Sides, Other

LEMMA HalfTheSpace ==
    ASSUME NEW p \in Sides
    PROVE  Writable[p] \in Nat /\ 2 * (Writable[p] + 2) < Modulus
BY WritableAssumption, StreamAssumption

\* What is in a state that satisfies the invariant, for one side.
LEMMA SideOf ==
    ASSUME IInv, NEW p \in Sides
    PROVE  /\ Agree(peer[p], peer[Other(p)], Writable[p])
           /\ Agree(peer[Other(p)], peer[p], Writable[Other(p)])
           /\ SenderSound(peer[p].sender) /\ SenderSound(peer[Other(p)].sender)
           /\ ReceivedFrom(peer[p].receiver, peer[Other(p)].sender)
           /\ ReceivedFrom(peer[Other(p)].receiver, peer[p].sender)
           /\ peer[p] \in Peers
<1>1. /\ Agree(peer[p], peer[Other(p)], Writable[p])
      /\ Agree(peer[Other(p)], peer[p], Writable[Other(p)])
  BY OtherSide DEF IInv, PeersAgree
<1> QED  BY <1>1 DEF Agree

(***************************************************************************)
(* A step in which either peer makes a move, or none, and in which the     *)
(* network gets no segments but those of the peers.                        *)
(***************************************************************************)
LEMMA StepKeeps ==
    ASSUME IInv,
           peer' \in [Sides -> Peers], phase' \in [Sides -> Phases], faults' \in Nat,
           \A p \in Sides : Moves(peer[p], peer'[p], peer[Other(p)], Writable[p]),
           \A d \in network' :
               \/ d \in network
               \/ d \in Packets /\ Carried(d.segment, peer'[Other(d.to)])
    PROVE  IInv'
<1>1. ASSUME NEW p \in Sides
      PROVE  Agree(peer'[p], peer'[Other(p)], Writable[p])
  <2> DEFINE P == peer[p]
             O == peer[Other(p)]
             Q == peer'[p]
             N == peer'[Other(p)]
             w == Writable[p]
             v == Writable[Other(p)]
  <2>1. w \in Nat /\ v \in Nat
    BY OtherSide, HalfTheSpace
  <2>2. Agree(P, O, w) /\ Agree(O, P, v)
    BY SideOf
  <2>3. Moves(P, Q, O, w)
    OBVIOUS
  <2>4. Moves(O, N, P, v)
    <3>1. Moves(O, N, peer[Other(Other(p))], v)
      BY OtherSide
    <3> QED  BY <3>1, OtherSide
  <2> HIDE DEF P, O, Q, N, w, v
  <2>5. Agree(Q, N, w)
    BY ONLY <2>1, <2>2, <2>3, <2>4, AgreeStays
  <2> QED  BY <2>5 DEF Q, N, w
<1>2. ASSUME NEW d \in network'
      PROVE  d \in Packets /\ Carried(d.segment, peer'[Other(d.to)])
  <2>1. CASE d \in network
    <3>1. d \in Packets /\ Carried(d.segment, peer[Other(d.to)])
      BY <2>1 DEF IInv, NetworkIsHonest
    <3>2. d.to \in Sides
      BY <3>1 DEF Packets
    <3> DEFINE p == Other(d.to)
               m == d.segment
               P == peer[p]
               O == peer[Other(p)]
               Q == peer'[p]
               w == Writable[p]
    <3>3. p \in Sides
      BY <3>2, OtherSide
    <3>4. /\ w \in Nat /\ Agree(P, O, w) /\ SenderSound(O.sender)
      BY <3>3, SideOf, HalfTheSpace
    <3>5. Moves(P, Q, O, w) /\ Carried(m, P)
      BY <3>1, <3>3
    <3> HIDE DEF P, O, Q, w, m
    <3>6. Carried(m, Q)
      BY ONLY <3>4, <3>5, CarriedAcrossMove
    <3> QED  BY <3>1, <3>6 DEF m, Q
  <2>2. CASE d \notin network
    BY <2>2
  <2> QED  BY <2>1, <2>2
<1>3. PeersAgree'
  BY <1>1 DEF PeersAgree
<1>4. NetworkIsHonest'
  BY <1>2 DEF NetworkIsHonest
<1> QED  BY <1>3, <1>4 DEF IInv

\* A step in which one peer moves.
LEMMA OneMoves ==
    ASSUME IInv, NEW p \in Sides, NEW Q, Moves(peer[p], Q, peer[Other(p)], Writable[p]),
           peer' = [peer EXCEPT ![p] = Q],
           phase' \in [Sides -> Phases], faults' \in Nat,
           NEW S, \A m \in S : Carried(m, Q),
           \A d \in network' : d \in network \/ d \in To(Other(p), S)
    PROVE  IInv'
<1>1. Q \in Peers
  BY DEF Moves, Agree
<1>2. peer \in [Sides -> Peers]
  BY DEF IInv
<1>3. peer' \in [Sides -> Peers] /\ peer'[p] = Q
  BY <1>1, <1>2
<1>4. ASSUME NEW q \in Sides
      PROVE  Moves(peer[q], peer'[q], peer[Other(q)], Writable[q])
  <2>1. CASE q = p
    BY <1>3, <2>1
  <2>2. CASE q # p
    <3>1. peer'[q] = peer[q]
      BY <1>2, <2>2
    <3> DEFINE P == peer[q]
               O == peer[Other(q)]
               w == Writable[q]
    <3>2. w \in Nat /\ Agree(P, O, w) /\ SenderSound(O.sender)
      BY SideOf, HalfTheSpace
    <3> HIDE DEF P, O, w
    <3>3. Moves(P, P, O, w)
      BY ONLY <3>2, MovesNowhere
    <3> QED  BY <3>1, <3>3 DEF P, O, w
  <2> QED  BY <2>1, <2>2
<1>5. ASSUME NEW d \in To(Other(p), S)
      PROVE  d \in Packets /\ Carried(d.segment, peer'[Other(d.to)])
  <2>1. PICK m \in S : d = [to |-> Other(p), segment |-> m]
    BY <1>5 DEF To
  <2>2. d.to = Other(p) /\ d.segment = m /\ Carried(m, Q)
    BY <2>1
  <2>3. m \in Segments
    BY <2>2 DEF Carried
  <2>4. d \in Packets
    BY <2>1, <2>3, OtherSide DEF Packets
  <2>5. Other(d.to) = p
    BY <2>2, OtherSide
  <2> QED  BY <1>3, <2>2, <2>4, <2>5
<1> QED  BY <1>3, <1>4, <1>5, StepKeeps

-----------------------------------------------------------------------------
LEMMA NewPeersAgree ==
    ASSUME Init
    PROVE  IInv
<1>1. ASSUME NEW p \in Sides
      PROVE  peer[p] \in Peers /\ Agree(peer[p], peer[Other(p)], Writable[p])
  <2> DEFINE N(q) == NewPeer(SendCapacity, RecvCapacity, ISN[q], InitialRTO)
             s(q) == NewSender(SendCapacity, ISN[q], InitialRTO)
             b    == NewBuffer(RecvCapacity)
             r    == NewReceiver(RecvCapacity)
  <2>1. \A q \in Sides : /\ peer[q] = N(q)
                         /\ N(q) = [sender |-> s(q), receiver |-> r, need_send |-> FALSE,
                                    linger |-> TRUE, quiet |-> 0]
    BY DEF Init, NewPeer
  <2>2. \A q \in Sides : /\ SenderSound(s(q)) /\ s(q).pc = "idle" /\ s(q) \in Senders
                         /\ ReleasedBy(s(q)) = 0 /\ s(q).stream.pushed = 0
    <3> SUFFICES ASSUME NEW q \in Sides
                 PROVE  /\ SenderSound(s(q)) /\ s(q).pc = "idle" /\ s(q) \in Senders
                        /\ ReleasedBy(s(q)) = 0 /\ s(q).stream.pushed = 0
      OBVIOUS
    <3> DEFINE i == ISN[q]
               t == NewSender(SendCapacity, i, InitialRTO)
    <3>1. SendCapacity \in Nat /\ i \in RawValues /\ InitialRTO \in Nat
      BY ISNAssumption, CapacityAssumption, LingerAssumption
    <3> HIDE DEF i
    <3>2. SenderSound(t) /\ t.pc = "idle" /\ ReleasedBy(t) = 0 /\ t.stream.pushed = 0
      BY ONLY <3>1, NewSenderSound
    <3>3. t \in Senders  BY <3>2 DEF SenderSound
    <3> QED  BY <3>2, <3>3 DEF i
  <2>3. /\ b \in Buffers /\ b.capacity = RecvCapacity /\ b.pushed = 0 /\ b.popped = 0
        /\ b.held = {} /\ b.finSeen = FALSE /\ b.end = 0 /\ b.ended = FALSE
    BY CapacityAssumption DEF NewBuffer, Buffers
  <2>4. r \in Receivers /\ r.isn = NoAck /\ r.buf = b
    <3> HIDE DEF b
    <3>1. r = [isn |-> NoAck, buf |-> b, error |-> FALSE, threw |-> FALSE]
      BY DEF NewReceiver, b
    <3> HIDE DEF r
    <3> QED  BY <2>3, <3>1 DEF Receivers
  <2> HIDE DEF b, r, s
  <2>5. BufferSound(b)
    BY <2>3, CapacityAssumption DEF BufferSound
  <2>6. \A q \in Sides : /\ N(q) \in Peers /\ N(q).sender = s(q) /\ N(q).receiver = r
    <3> SUFFICES ASSUME NEW q \in Sides
                 PROVE  N(q) \in Peers /\ N(q).sender = s(q) /\ N(q).receiver = r
      OBVIOUS
    <3> DEFINE t == s(q)
    <3>1. t \in {x \in Senders : x.pc = "idle"}  BY <2>2
    <3>2. N(q) = [sender |-> t, receiver |-> r, need_send |-> FALSE,
                  linger |-> TRUE, quiet |-> 0]
      BY <2>1
    <3> HIDE DEF t, N
    <3>3. 0 \in Nat /\ FALSE \in BOOLEAN /\ TRUE \in BOOLEAN  OBVIOUS
    <3>4. N(q) \in Peers  BY <2>4, <3>1, <3>2, <3>3 DEF Peers
    <3> QED  BY <3>2, <3>4 DEF t
  <2> HIDE DEF N
  <2>7. ASSUME NEW q \in Sides PROVE ReceivedFrom(r, s(q))
    <3> DEFINE t == s(q)
    <3>1. t.stream.popped \in Nat
      <4>1. SenderSound(t)  BY <2>2
      <4> HIDE DEF t
      <4> QED  BY <4>1, SenderFields
    <3> HIDE DEF t
    <3>2. Within(b, t.stream.popped, t.FIN_sent)
      BY <2>3, <3>1 DEF Within
    <3>3. ReceivedFrom(r, t)
      BY <2>3, <2>4, <2>5, <3>2 DEF ReceivedFrom
    <3> QED  BY <3>3 DEF t
  <2>8. Received(r) = 0
    BY <2>4 DEF Received
  <2>9. Writable[p] \in Nat
    BY HalfTheSpace
  <2>10. Other(p) \in Sides
    BY OtherSide
  <2>11. /\ peer[p].sender = s(p) /\ peer[p].receiver = r /\ peer[p] \in Peers
         /\ peer[Other(p)].sender = s(Other(p)) /\ peer[Other(p)].receiver = r
    BY <2>1, <2>6, <2>10
  <2> QED  BY <2>2, <2>7, <2>8, <2>9, <2>10, <2>11 DEF Agree
<1>2. peer \in [Sides -> Peers]
  BY <1>1 DEF Init
<1>3. phase \in [Sides -> Phases] /\ faults \in Nat /\ network = {}
  BY DEF Init, Phases
<1>4. NetworkIsHonest
  BY <1>3 DEF NetworkIsHonest
<1> QED  BY <1>1, <1>2, <1>3, <1>4 DEF IInv, PeersAgree

\* The phase of a side whose peer has become q.
LEMMA PhaseKept ==
    ASSUME phase \in [Sides -> Phases], NEW p \in Sides, NEW q, Becomes(p, q)
    PROVE  phase' \in [Sides -> Phases] /\ peer' = [peer EXCEPT ![p] = q]
<1>1. phase' = [phase EXCEPT ![p] = IF Opened(p, q) THEN "open" ELSE phase[p]]
  BY DEF Becomes
<1>2. (IF Opened(p, q) THEN "open" ELSE phase[p]) \in Phases
  BY DEF Phases
<1> QED  BY <1>1, <1>2 DEF Becomes

LEMMA ConnectKeeps ==
    ASSUME IInv, Connect
    PROVE  IInv'
<1> DEFINE p == Client
           P == peer[p]
           O == peer[Other(p)]
           w == Writable[p]
           Q == PeerPush(P)
<1>1. p \in Sides
  BY DEF Sides
<1>2. w \in Nat /\ Agree(P, O, w) /\ SenderSound(O.sender)
  BY <1>1, SideOf, HalfTheSpace
<1>3. Moves(P, Q, O, w) /\ \A m \in PushSends(P) : Carried(m, Q)
  <2> HIDE DEF P, O, w
  <2> QED  BY ONLY <1>2, PushMoves
<1>4. /\ peer' = [peer EXCEPT ![p] = Q]
      /\ phase' \in [Sides -> Phases] /\ faults' \in Nat
      /\ network' = network \union To(Other(p), PushSends(P))
  BY <1>1 DEF Connect, Transmit, IInv, Phases
<1> HIDE DEF p, Q
<1>5. \A d \in network' : d \in network \/ d \in To(Other(p), PushSends(P))
  BY <1>4
<1> QED  BY ONLY <1>1, <1>3, <1>4, <1>5, IInv, OneMoves

\* What AppWrite and AppClose have in common.
LEMMA OutboundKeeps ==
    ASSUME IInv, NEW p \in Sides, NEW c, StreamKept(peer[p].sender.stream, c),
           c.pushed <= Writable[p], Outbound(p, c)
    PROVE  IInv'
<1> DEFINE P == peer[p]
           O == peer[Other(p)]
           w == Writable[p]
           q == [P EXCEPT !.sender.stream = c]
           Q == PeerPush(q)
<1>1. w \in Nat /\ Agree(P, O, w) /\ SenderSound(O.sender)
      /\ StreamKept(P.sender.stream, c) /\ c.pushed <= w
  BY SideOf, HalfTheSpace
<1>2. Moves(P, Q, O, w) /\ \A m \in PushSends(q) : Carried(m, Q)
  <2> HIDE DEF P, O, w
  <2> QED  BY ONLY <1>1, WriteMoves
<1>3. /\ Becomes(p, Q) /\ faults' = faults
      /\ network' = network \union To(Other(p), PushSends(q))
  BY DEF Outbound, Transmit
<1> HIDE DEF q, Q
<1>4. /\ peer' = [peer EXCEPT ![p] = Q]
      /\ phase' \in [Sides -> Phases] /\ faults' \in Nat
  BY <1>3, PhaseKept DEF IInv
<1>5. \A d \in network' : d \in network \/ d \in To(Other(p), PushSends(q))
  BY <1>3
<1> QED  BY ONLY <1>2, <1>4, <1>5, IInv, p \in Sides, OneMoves

LEMMA AppWriteKeeps ==
    ASSUME IInv, NEW p \in Sides, NEW n \in 1 .. SendCapacity, AppWrite(p, n)
    PROVE  IInv'
<1> DEFINE b == peer[p].sender.stream
<1>1. StreamInv(b)
  BY SideOf DEF SenderSound
<1>2. n \in Nat
  BY CapacityAssumption
<1>3. b.pushed + n <= Writable[p] /\ Outbound(p, Push(b, n))
  BY DEF AppWrite
<1>4. StreamKept(b, Push(b, n))
  <2> HIDE DEF b
  <2> QED  BY <1>1, <1>2, StreamOperations
<1>5. Push(b, n).pushed <= Writable[p]
  <2> DEFINE k == Writable[p]
             a == AvailableCapacity(b)
             u == Push(b, n)
  <2> HIDE DEF b
  <2>1. u.pushed = IF b.closed THEN b.pushed ELSE b.pushed + Lesser(n, a)
    BY <1>1, <1>2, PushInv
  <2>2. b.pushed \in Nat /\ k \in Nat /\ b.pushed + n <= k /\ a \in Nat
    <3>1. b \in ByteStreams /\ b.buffered <= b.capacity
      BY <1>1 DEF StreamInv, Accounting
    <3> QED  BY <1>3, <3>1, HalfTheSpace DEF ByteStreams, AvailableCapacity
  <2> HIDE DEF a, k, u
  <2>3. Lesser(n, a) \in Nat /\ Lesser(n, a) <= n
    BY ONLY <1>2, <2>2 DEF Lesser
  <2>4. u.pushed <= k
    BY ONLY <1>2, <2>1, <2>2, <2>3
  <2> QED  BY <2>4 DEF u, k
<1> DEFINE c == Push(b, n)
<1> HIDE DEF c
<1>6. StreamKept(peer[p].sender.stream, c) /\ c.pushed <= Writable[p] /\ Outbound(p, c)
  BY <1>3, <1>4, <1>5 DEF c
<1> QED  BY ONLY <1>6, IInv, p \in Sides, OutboundKeeps

LEMMA AppCloseKeeps ==
    ASSUME IInv, NEW p \in Sides, AppClose(p)
    PROVE  IInv'
<1> DEFINE b == peer[p].sender.stream
           c == Close(b)
<1>1. StreamInv(b) /\ b.pushed <= Writable[p]
  BY SideOf DEF SenderSound, Agree
<1>2. StreamKept(b, c) /\ c.pushed = b.pushed
  <2> HIDE DEF b
  <2> QED  BY <1>1, StreamOperations, CloseInv
<1>3. Outbound(p, c)
  BY DEF AppClose
<1> HIDE DEF c
<1>4. StreamKept(peer[p].sender.stream, c) /\ c.pushed <= Writable[p]
  BY <1>1, <1>2
<1> QED  BY ONLY <1>3, <1>4, IInv, p \in Sides, OutboundKeeps

LEMMA AppReadKeeps ==
    ASSUME IInv, NEW p \in Sides, NEW n \in 1 .. RecvCapacity, AppRead(p, n)
    PROVE  IInv'
<1> DEFINE P == peer[p]
           O == peer[Other(p)]
           w == Writable[p]
           r == P.receiver
           t == [r EXCEPT !.buf = Take(r.buf, n)]
           Q == [P EXCEPT !.receiver = t]
<1>1. /\ Agree(P, O, w) /\ P \in Peers /\ ReceivedFrom(r, O.sender)
      /\ SenderSound(O.sender) /\ SenderSound(P.sender)
  BY SideOf
<1>2. n \in Nat
  BY CapacityAssumption
<1>3. /\ peer' = [peer EXCEPT ![p] = Q]
      /\ phase' = phase /\ network' = network /\ faults' = faults
  BY DEF AppRead
<1>4. ReceivedFrom(t, O.sender) /\ Received(t) = Received(r) /\ t.isn = r.isn
  <2> DEFINE s == O.sender
  <2>1. ReceivedFrom(r, s)  BY <1>1
  <2> HIDE DEF r, s
  <2> QED  BY <1>2, <2>1, TakeSound DEF s
<1> HIDE DEF t
<1>5. Q \in Peers /\ Q.sender = P.sender /\ Q.receiver = t
  <2>1. t \in Receivers  BY <1>4 DEF ReceivedFrom
  <2> QED  BY <1>1, <2>1 DEF Peers
<1> HIDE DEF Q
<1>6. GoesOn(P.sender, P.sender) /\ Received(r) \in Nat
  <2> DEFINE s == P.sender
             k == O.sender
  <2>1. SenderSound(s) /\ ReceivedFrom(r, k) /\ SenderSound(k)  BY <1>1
  <2> HIDE DEF s, r, k
  <2>2. s.stream.popped \in Nat  BY <2>1, SenderFields
  <2>3. GoesOn(s, s) /\ Received(r) \in Nat
    BY <2>1, <2>2, GoesNowhere, ReceiverFields
  <2> QED  BY <2>3 DEF s
<1>7. ReceiverGrows(r, t)
  BY <1>4, <1>6 DEF ReceiverGrows
<1>8. Moves(P, Q, O, w)
  BY <1>1, <1>4, <1>5, <1>6, <1>7 DEF Moves, Agree
<1> DEFINE S == {}
<1>9. \A m \in S : Carried(m, Q)
  OBVIOUS
<1>10. phase' \in [Sides -> Phases] /\ faults' \in Nat
  BY <1>3 DEF IInv
<1>11. \A d \in network' : d \in network \/ d \in To(Other(p), S)
  BY <1>3
<1> HIDE DEF S
<1> QED  BY ONLY <1>3, <1>8, <1>9, <1>10, <1>11, IInv, p \in Sides, OneMoves

\* A peer is handed a segment that the other one may have sent.
LEMMA DeliveryKeeps ==
    ASSUME IInv, NEW p \in Sides, NEW m, Carried(m, peer[Other(p)]),
           Becomes(p, PeerReceive(peer[p], m)), faults' \in Nat,
           \A d \in network' : \/ d \in network
                               \/ d \in To(Other(p), ReceiveSends(peer[p], m))
    PROVE  IInv'
<1> DEFINE P == peer[p]
           O == peer[Other(p)]
           w == Writable[p]
           v == Writable[Other(p)]
           Q == PeerReceive(P, m)
           S == ReceiveSends(P, m)
<1>1. /\ w \in Nat /\ v \in Nat /\ Agree(P, O, w) /\ Agree(O, P, v)
      /\ 2 * (w + 2) < Modulus /\ 2 * (v + 2) < Modulus /\ Carried(m, O)
  BY SideOf, OtherSide, HalfTheSpace
<1>2. Moves(P, Q, O, w) /\ \A x \in S : Carried(x, Q)
  <2> HIDE DEF P, O, w, v
  <2> QED  BY ONLY <1>1, ReceiveMoves
<1>3. \A d \in network' : d \in network \/ d \in To(Other(p), S)
  OBVIOUS
<1> HIDE DEF Q, S
<1>4. peer' = [peer EXCEPT ![p] = Q] /\ phase' \in [Sides -> Phases]
  <2>1. Becomes(p, Q)  BY DEF Q
  <2> QED  BY <2>1, PhaseKept DEF IInv
<1> QED  BY ONLY <1>2, <1>3, <1>4, IInv, p \in Sides, faults' \in Nat, OneMoves

LEMMA ArriveKeeps ==
    ASSUME IInv, NEW p \in Sides, NEW d \in Deliveries(p), NEW rest \in SUBSET network,
           Arrive(d, rest), faults' \in Nat
    PROVE  IInv'
<1> DEFINE m == d.segment
<1>1. d \in network /\ d.to = p /\ Carried(m, peer[Other(p)])
  BY DEF Deliveries, IInv, NetworkIsHonest
<1>2. CASE ~Running(p) \/ Filtered(p, m)
  <2>1. network' = rest /\ peer' = peer /\ phase' = phase
    BY <1>1, <1>2 DEF Arrive
  <2>2. peer' \in [Sides -> Peers] /\ phase' \in [Sides -> Phases]
    BY <2>1 DEF IInv
  <2>3. ASSUME NEW q \in Sides
        PROVE  Moves(peer[q], peer'[q], peer[Other(q)], Writable[q])
    <3> DEFINE P == peer[q]
               O == peer[Other(q)]
               w == Writable[q]
    <3>1. w \in Nat /\ Agree(P, O, w) /\ SenderSound(O.sender)
      BY SideOf, HalfTheSpace
    <3> HIDE DEF P, O, w
    <3>2. Moves(P, P, O, w)
      BY ONLY <3>1, MovesNowhere
    <3> QED  BY <2>1, <3>2 DEF P, O, w
  <2>4. \A e \in network' : e \in network
    BY <2>1
  <2> QED  BY <2>2, <2>3, <2>4, StepKeeps
<1>3. CASE ~(~Running(p) \/ Filtered(p, m))
  <2>1. /\ Becomes(p, PeerReceive(peer[p], m))
        /\ network' = rest \union To(Other(p), ReceiveSends(peer[p], m))
    BY <1>1, <1>3 DEF Arrive
  <2>2. \A e \in network' : \/ e \in network
                            \/ e \in To(Other(p), ReceiveSends(peer[p], m))
    BY <2>1
  <2> HIDE DEF m
  <2> QED  BY <1>1, <2>1, <2>2, DeliveryKeeps
<1> QED  BY <1>2, <1>3

LEMMA ReceiveKeeps ==
    ASSUME IInv, NEW p \in Sides, Receive(p) \/ ReceiveCopy(p)
    PROVE  IInv'
<1>1. CASE Receive(p)
  <2>1. PICK d \in Deliveries(p) : Arrive(d, network \ {d}) /\ faults' = faults
    BY <1>1 DEF Receive
  <2>2. faults' \in Nat /\ network \ {d} \in SUBSET network
    BY <2>1 DEF IInv
  <2> QED  BY <2>1, <2>2, ArriveKeeps
<1>2. CASE ReceiveCopy(p)
  <2>1. PICK d \in Deliveries(p) : Arrive(d, network)
    BY <1>2 DEF ReceiveCopy
  <2>2. faults' \in Nat /\ network \in SUBSET network
    BY <1>2 DEF ReceiveCopy, IInv
  <2> QED  BY <2>1, <2>2, ArriveKeeps
<1> QED  BY <1>1, <1>2

\* A foreign reset says nothing that is not so.
LEMMA ResetIsCarried ==
    ASSUME IInv, NEW p \in Sides
    PROVE  LET O   == peer[Other(p)]
               snd == [EmptyMessage(O.sender) EXCEPT !.RST = TRUE]
           IN  Carried(Segment(snd, Reply(O.receiver)), O)
<1> DEFINE O   == peer[Other(p)]
           e   == EmptyMessage(O.sender)
           snd == [e EXCEPT !.RST = TRUE]
           rcv == Reply(O.receiver)
           m   == Segment(snd, rcv)
<1>1. SenderSound(O.sender) /\ ReceivedFrom(O.receiver, peer[p].sender)
      /\ SenderSound(peer[p].sender)
  BY SideOf
<1>2. SentBy(snd, O.sender)
  <2> DEFINE s == O.sender
  <2>1. e \in SenderMessages /\ SequenceLength(e) = 0
    <3> HIDE DEF s
    <3>1. SenderSound(s)  BY <1>1 DEF s
    <3>2. EmptyMessage(s) \in SenderMessages /\ SequenceLength(EmptyMessage(s)) = 0
      BY <3>1, EmptySent
    <3> QED  BY <3>2 DEF s
  <2> HIDE DEF e
  <2>2. snd \in SenderMessages /\ snd.SYN = e.SYN /\ snd.size = e.size /\ snd.FIN = e.FIN
    BY <2>1 DEF SenderMessages
  <2> HIDE DEF snd
  <2>3. SequenceLength(snd) = 0
    BY <2>1, <2>2 DEF SequenceLength
  <2> QED  BY <2>2, <2>3 DEF SentBy
<1>3. AckedBy(rcv, O.receiver)
  <2> DEFINE r == O.receiver
             s == peer[p].sender
  <2>1. ReceivedFrom(r, s) /\ SenderSound(s)  BY <1>1
  <2> HIDE DEF r, s
  <2>2. AckedBy(Reply(r), r)  BY <2>1, ReplyAcked
  <2> QED  BY <2>2 DEF r
<1>4. Carried(m, O)
  <2> HIDE DEF snd, rcv, O
  <2> QED  BY <1>2, <1>3, SegmentCarried
<1> QED  BY <1>4

LEMMA ResetKeeps ==
    ASSUME IInv, NEW p \in Sides, Reset(p)
    PROVE  IInv'
<1> DEFINE O   == peer[Other(p)]
           snd == [EmptyMessage(O.sender) EXCEPT !.RST = TRUE]
           rcv == Reply(O.receiver)
           m   == Segment(snd, rcv)
<1>1. /\ Becomes(p, PeerReceive(peer[p], m)) /\ faults' = faults
      /\ network' = network \union To(Other(p), ReceiveSends(peer[p], m))
  BY DEF Reset, Transmit
<1>2. Carried(m, O)
  BY ResetIsCarried
<1>3. faults' \in Nat
  BY <1>1 DEF IInv
<1>4. \A d \in network' : \/ d \in network
                          \/ d \in To(Other(p), ReceiveSends(peer[p], m))
  BY <1>1
<1> HIDE DEF m
<1> QED  BY <1>1, <1>2, <1>3, <1>4, DeliveryKeeps

LEMMA ClockKeeps ==
    ASSUME IInv, NEW sides \in Clocks, Clock(sides)
    PROVE  IInv'
<1> DEFINE T == Ticking(sides)
<1>1. T \subseteq Sides
  BY ClocksAssumption DEF Ticking
<1>2. /\ peer' = [p \in Sides |-> IF p \in T THEN PeerTick(peer[p], 1) ELSE peer[p]]
      /\ network' = network \union UNION {To(Other(p), TickSends(peer[p], 1)) : p \in T}
      /\ phase' = phase /\ faults' = faults
  BY DEF Clock
<1> HIDE DEF T
<1>3. ASSUME NEW p \in Sides
      PROVE  /\ Moves(peer[p], peer'[p], peer[Other(p)], Writable[p])
             /\ p \in T => \A m \in TickSends(peer[p], 1) : Carried(m, peer'[p])
  <2> DEFINE P == peer[p]
             O == peer[Other(p)]
             w == Writable[p]
             Q == peer'[p]
  <2>1. w \in Nat /\ Agree(P, O, w) /\ SenderSound(O.sender)
    BY SideOf, HalfTheSpace
  <2>2. Q = IF p \in T THEN PeerTick(P, 1) ELSE P
    BY <1>2
  <2> HIDE DEF P, O, w, Q
  <2>3. Moves(P, P, O, w)
    BY ONLY <2>1, MovesNowhere
  <2>4. /\ Moves(P, PeerTick(P, 1), O, w)
        /\ \A m \in TickSends(P, 1) : Carried(m, PeerTick(P, 1))
    BY ONLY <2>1, TickMoves
  <2>5. Moves(P, Q, O, w) /\ (p \in T => \A m \in TickSends(P, 1) : Carried(m, Q))
    BY ONLY <2>2, <2>3, <2>4
  <2> QED  BY <2>5 DEF P, O, w, Q
<1>4. peer' \in [Sides -> Peers]
  <2>1. \A p \in Sides : peer'[p] \in Peers
    BY <1>3 DEF Moves, Agree
  <2>2. peer' = [p \in Sides |-> peer'[p]]
    BY <1>2
  <2> QED  BY <2>1, <2>2
<1>5. phase' \in [Sides -> Phases] /\ faults' \in Nat
  BY <1>2 DEF IInv
<1>6. ASSUME NEW d \in network', d \notin network
      PROVE  d \in Packets /\ Carried(d.segment, peer'[Other(d.to)])
  <2>1. PICK p \in T : d \in To(Other(p), TickSends(peer[p], 1))
    BY <1>2, <1>6
  <2>2. PICK m \in TickSends(peer[p], 1) : d = [to |-> Other(p), segment |-> m]
    BY <2>1 DEF To
  <2>3. p \in Sides /\ Carried(m, peer'[p])
    BY <1>1, <1>3, <2>2
  <2>4. d.to = Other(p) /\ d.segment = m /\ m \in Segments
    BY <2>2, <2>3 DEF Carried
  <2>5. d \in Packets
    BY <2>2, <2>3, <2>4, OtherSide DEF Packets
  <2>6. Other(d.to) = p
    BY <2>3, <2>4, OtherSide
  <2> QED  BY <2>3, <2>4, <2>5, <2>6
<1> QED  BY <1>3, <1>4, <1>5, <1>6, StepKeeps

\* A step that leaves the peers alone and adds nothing to the network.
LEMMA NothingAdded ==
    ASSUME IInv, peer' = peer, phase' = phase, network' \subseteq network, faults' \in Nat
    PROVE  IInv'
<1>1. PeersAgree'
  BY DEF IInv, PeersAgree
<1>2. NetworkIsHonest'
  BY DEF IInv, NetworkIsHonest
<1> QED  BY <1>1, <1>2 DEF IInv

LEMMA InvariantHolds == Spec => []IInv
<1>1. Init => IInv
  BY NewPeersAgree
<1>2. IInv /\ [Next]_vars => IInv'
  <2> SUFFICES ASSUME IInv, [Next]_vars PROVE IInv'
    OBVIOUS
  <2>1. CASE Connect
    BY <2>1, ConnectKeeps
  <2>2. ASSUME NEW p \in Sides, NEW n \in 1 .. SendCapacity, AppWrite(p, n) PROVE IInv'
    BY <2>2, AppWriteKeeps
  <2>3. ASSUME NEW p \in Sides, AppClose(p) PROVE IInv'
    BY <2>3, AppCloseKeeps
  <2>4. ASSUME NEW p \in Sides, NEW n \in 1 .. RecvCapacity, AppRead(p, n) PROVE IInv'
    BY <2>4, AppReadKeeps
  <2>5. ASSUME NEW p \in Sides, Receive(p) \/ ReceiveCopy(p) PROVE IInv'
    BY <2>5, ReceiveKeeps
  <2>6. ASSUME NEW p \in Sides, Reset(p) PROVE IInv'
    BY <2>6, ResetKeeps
  <2>7. ASSUME NEW sides \in Clocks, Clock(sides) PROVE IInv'
    BY <2>7, ClockKeeps
  <2>8. ASSUME NEW d \in network, Lose(d) PROVE IInv'
    <3>1. peer' = peer /\ phase' = phase /\ network' \subseteq network /\ faults' \in Nat
      BY <2>8 DEF Lose, IInv
    <3> QED  BY <3>1, NothingAdded
  <2>9. CASE UNCHANGED vars
    <3>1. peer' = peer /\ phase' = phase /\ network' \subseteq network /\ faults' \in Nat
      BY <2>9 DEF vars, IInv
    <3> QED  BY <3>1, NothingAdded
  <2> QED  BY <2>1, <2>2, <2>3, <2>4, <2>5, <2>6, <2>7, <2>8, <2>9 DEF Next
<1> QED  BY <1>1, <1>2, PTL DEF Spec

-----------------------------------------------------------------------------
(***************************************************************************)
(* The type invariant of the connection.                                   *)
(***************************************************************************)
THEOREM TypeCorrect == Spec => []TypeOK
<1>1. IInv => TypeOK
  <2> SUFFICES ASSUME IInv PROVE TypeOK
    OBVIOUS
  <2>1. network \subseteq Packets
    BY DEF IInv, NetworkIsHonest
  <2>2. network \subseteq
           [to : Sides, segment : [sender : SenderMessages, receiver : ReceiverMessages]]
    BY <2>1 DEF Packets, Segments
  <2> QED  BY <2>2 DEF IInv, TypeOK, Phases
<1> QED  BY <1>1, InvariantHolds, PTL

(***************************************************************************)
(* However segments are lost, duplicated and reordered, one that occupies  *)
(* sequence numbers is dropped or inserted at the place of its bytes in    *)
(* the sender's stream (tcp_receiver.hh:15-16), as long as either stream   *)
(* is less than half the sequence space (StreamAssumption).                *)
(***************************************************************************)
THEOREM SegmentsInPlace == Spec => []InsertedInPlace
<1>1. IInv => InsertedInPlace
  <2> SUFFICES ASSUME IInv, NEW d \in network,
                      SequenceLength(d.segment.sender) > 0, ~d.segment.sender.RST,
                      ~Skips(peer[d.to].receiver, d.segment.sender)
               PROVE  StreamIndex(peer[d.to].receiver, d.segment.sender)
                      = d.segment.sender.lo
    BY DEF InsertedInPlace
  <2> DEFINE p == d.to
             r == peer[p].receiver
             s == peer[Other(p)].sender
             m == d.segment.sender
  <2>1. p \in Sides /\ SentBy(m, s)
    BY DEF IInv, NetworkIsHonest, Packets, Carried
  <2>2. ReceivedFrom(r, s) /\ SenderSound(s)
    BY <2>1, SideOf
  <2>3. 2 * (s.stream.popped + 2) < Modulus
    <3> DEFINE P == peer[Other(p)]
               O == peer[p]
               w == Writable[Other(p)]
    <3>1. /\ w \in Nat /\ 2 * (w + 2) < Modulus /\ Agree(P, O, w) /\ SenderSound(O.sender)
      BY <2>1, SideOf, OtherSide, HalfTheSpace
    <3> HIDE DEF P, O, w
    <3>2. 2 * (P.sender.stream.popped + 2) < Modulus
      BY ONLY <3>1, AgreeFields
    <3> QED  BY <3>2 DEF P
  <2>4. SequenceLength(m) > 0 /\ ~Skips(r, m)
    OBVIOUS
  <2> HIDE DEF r, s, m
  <2>5. StreamIndex(r, m) = m.lo
    BY ONLY <2>1, <2>2, <2>3, <2>4, InPlace
  <2> QED  BY <2>5 DEF r, m
<1> QED  BY <1>1, InvariantHolds, PTL

(***************************************************************************)
(* A sender releases no segment before the other end has all of it, a      *)
(* receiver has nothing that was not sent, and no acknowledgment in the    *)
(* network stands for more than has been received (tcp_sender.cc:81-99,    *)
(* tcp_receiver.cc:26-33).                                                 *)
(***************************************************************************)
THEOREM EndsAlwaysAgree == Spec => []EndsAgree
<1>1. IInv => EndsAgree
  <2> SUFFICES ASSUME IInv, NEW p \in Sides
               PROVE  /\ Released(p) <= Received(rcvr(p))
                      /\ Received(rcvr(p)) <= sndr(p).next_seqno
                      /\ \A d \in Deliveries(p) :
                             d.segment.receiver.ackno # NoAck =>
                                 AckNo(sndr(p), d.segment.receiver) <= Received(rcvr(p))
    BY DEF EndsAgree, Received
  <2> DEFINE s == peer[p].sender
             r == peer[Other(p)].receiver
  <2>1. /\ SenderSound(s) /\ ReceivedFrom(r, s) /\ ReleasedBy(s) <= Received(r)
    BY SideOf DEF Agree
  <2>2. Released(p) = ReleasedBy(s) /\ rcvr(p) = r /\ sndr(p) = s
    BY DEF Released, ReleasedBy, rcvr, sndr
  <2>3. 2 * (s.stream.popped + 2) < Modulus
    <3> DEFINE P == peer[p]
               O == peer[Other(p)]
               w == Writable[p]
    <3>1. w \in Nat /\ 2 * (w + 2) < Modulus /\ Agree(P, O, w) /\ SenderSound(O.sender)
      BY SideOf, HalfTheSpace
    <3> HIDE DEF P, O, w
    <3>2. 2 * (P.sender.stream.popped + 2) < Modulus
      BY ONLY <3>1, AgreeFields
    <3> QED  BY <3>2 DEF P
  <2>4. ASSUME NEW d \in Deliveries(p), d.segment.receiver.ackno # NoAck
        PROVE  AckNo(s, d.segment.receiver) <= Received(r)
    <3>1. AckedBy(d.segment.receiver, r)
      BY DEF Deliveries, IInv, NetworkIsHonest, Carried
    <3> HIDE DEF r, s
    <3> QED  BY <2>1, <2>3, <2>4, <3>1, AckIsHonest
  <2> HIDE DEF r, s
  <2>5. Received(r) <= s.next_seqno
    BY <2>1, ReceiverFields
  <2> QED  BY <2>1, <2>2, <2>4, <2>5
<1> QED  BY <1>1, InvariantHolds, PTL

(***************************************************************************)
(* A peer that has sent its FIN and is done without an error has all of    *)
(* the inbound stream and has delivered all of the outbound one            *)
(* (tcp_peer.hh:38-48).                                                    *)
(***************************************************************************)
THEOREM CleanEndsAreComplete == Spec => []CleanEndIsComplete
<1>1. IInv => CleanEndIsComplete
  <2> SUFFICES ASSUME IInv, NEW p \in Sides, CleanEnd(p), sndr(p).FIN_sent
               PROVE  /\ peer[p].receiver.buf.ended /\ rcvr(p).buf.ended
                      /\ rcvr(p).buf.pushed = sndr(p).stream.pushed
    BY DEF CleanEndIsComplete
  <2> DEFINE s == peer[p].sender
             r == peer[Other(p)].receiver
  <2>1. /\ SenderSound(s) /\ ReceivedFrom(r, s) /\ ReleasedBy(s) <= Received(r)
        /\ rcvr(p) = r /\ sndr(p) = s /\ s.FIN_sent
    BY SideOf DEF Agree, rcvr, sndr
  <2>2. /\ ~(s.in_flight > 0) /\ s.stream.buffered = 0
        /\ peer[p].receiver.buf.ended
    BY DEF CleanEnd, Active, OutboundFinished, IsFinished, InboundClosed
  <2> HIDE DEF r, s
  <2>3. /\ s.in_flight \in Nat /\ s.next_seqno \in Nat /\ s.stream.popped \in Nat
        /\ s.stream.pushed \in Nat /\ s.first_ack \in BOOLEAN
        /\ s.unacknowledged \in Seq(SenderMessages)
        /\ s.next_seqno = IF s.first_ack THEN 1 + s.stream.popped + Flag(s.FIN_sent) ELSE 0
    BY <2>1, SenderFields
  <2>4. s.first_ack /\ s.next_seqno = s.stream.popped + 2
    <3>1. s.first_ack  BY <2>1, <2>3 DEF SenderSound, NumbersSent
    <3>2. Flag(s.FIN_sent) = 1  BY <2>1 DEF Flag
    <3> QED  BY ONLY <2>3, <3>1, <3>2
  <2>5. s.stream.popped = s.stream.pushed
    <3>1. s.stream.pushed = s.stream.popped + s.stream.buffered
      BY <2>1 DEF SenderSound, StreamInv, Accounting
    <3> QED  BY ONLY <2>2, <2>3, <3>1
  <2>6. s.unacknowledged = << >>
    <3> SUFFICES ASSUME Len(s.unacknowledged) # 0 PROVE FALSE
      BY <2>3
    <3> DEFINE m == s.unacknowledged[1]
    <3>1. 1 \in 1 .. Len(s.unacknowledged)
      BY <2>3
    <3>2. Tiles(s.unacknowledged, s.isn, s.next_seqno, s.in_flight)
      BY <2>1 DEF SenderSound, OutstandingTiles
    <3>3. /\ SequenceLength(m) > 0 /\ TrueSeqno(m) + SequenceLength(m) <= s.next_seqno
          /\ s.in_flight = s.next_seqno - TrueSeqno(m)
      BY <3>1, <3>2 DEF Tiles
    <3>4. m \in SenderMessages
      BY <2>3, <3>1
    <3> HIDE DEF m
    <3>5. SequenceLength(m) \in Nat /\ TrueSeqno(m) \in Nat
      BY <3>4, MessageNumbers
    <3> QED  BY ONLY <2>2, <2>3, <3>3, <3>5
  <2>7. ReleasedBy(s) = s.next_seqno
    BY <2>6 DEF ReleasedBy
  <2>8. /\ r.buf.pushed \in Nat /\ r.buf.ended \in BOOLEAN
        /\ r.buf.pushed <= s.stream.popped /\ Received(r) \in Nat
    BY <2>1, ReceiverFields
  <2>9. r.buf.pushed + 1 + Flag(r.buf.ended) >= s.stream.popped + 2
    <3>1. Received(r) >= s.stream.popped + 2
      BY <2>1, <2>4, <2>7
    <3>2. Received(r) # 0
      BY ONLY <2>3, <2>8, <3>1
    <3>3. Received(r) = r.buf.pushed + 1 + Flag(r.buf.ended)
      BY <3>2 DEF Received, AbsoluteAckno
    <3> QED  BY <3>1, <3>3
  <2>10. r.buf.ended
    <3> SUFFICES ASSUME ~r.buf.ended PROVE FALSE
      OBVIOUS
    <3>1. Flag(r.buf.ended) = 0  BY DEF Flag
    <3> QED  BY ONLY <2>3, <2>8, <2>9, <3>1
  <2>11. r.buf.pushed = s.stream.popped
    <3>1. Flag(r.buf.ended) = 1  BY <2>10 DEF Flag
    <3> QED  BY ONLY <2>3, <2>8, <2>9, <3>1
  <2> QED  BY <2>1, <2>2, <2>5, <2>10, <2>11
<1> QED  BY <1>1, InvariantHolds, PTL

\* What is true of the ends of the streams in a state that satisfies the invariant.
LEMMA EndsTogether ==
    ASSUME IInv, EOFBytes = {}
    PROVE  NoEarlyEnd
<1> SUFFICES ASSUME IInv, NEW p \in Sides, rcvr(p).buf.ended
             PROVE  sndr(p).stream.closed /\ rcvr(p).buf.pushed = sndr(p).stream.pushed
  BY DEF NoEarlyEnd
<1> DEFINE s == peer[p].sender
           r == peer[Other(p)].receiver
<1>1. /\ SenderSound(s) /\ ReceivedFrom(r, s)
      /\ rcvr(p) = r /\ sndr(p) = s /\ r.buf.ended
  BY SideOf DEF rcvr, sndr
<1> HIDE DEF r, s
<1>2. s.FIN_sent /\ r.buf.pushed = s.stream.popped
  BY <1>1, ReceiverFields
<1>3. /\ StreamInv(s.stream) /\ s.stream.closed /\ NothingToSend(s.stream)
  BY <1>1, <1>2 DEF SenderSound, NumbersSent
<1>4. s.stream.buffered = 0
  <2> DEFINE b == s.stream
  <2>1. StreamInv(b) /\ b.closed /\ NothingToSend(b)  BY <1>3
  <2> HIDE DEF b
  <2>2. b.buffered = 0  BY <2>1, NothingLeft
  <2> QED  BY <2>2 DEF b
<1>5. s.stream.popped = s.stream.pushed
  <2>1. s.stream.pushed = s.stream.popped + s.stream.buffered
    BY <1>3 DEF StreamInv, Accounting
  <2>2. s.stream.popped \in Nat /\ s.stream.pushed \in Nat
    BY <1>1, SenderFields
  <2> QED  BY ONLY <1>4, <2>1, <2>2
<1> QED  BY <1>1, <1>2, <1>3, <1>5

(***************************************************************************)
(* An inbound stream ends with the last byte of a closed outbound stream,  *)
(* provided that no byte of the streams is 0xFF: a sender can take such a  *)
(* byte for its end mark (reassembler.cc:73-74, tcp_sender.cc:30, 43-49).  *)
(***************************************************************************)
THEOREM NeverEndsEarly ==
    ASSUME EOFBytes = {}
    PROVE  Spec => []NoEarlyEnd
<1>1. IInv => NoEarlyEnd
  BY EndsTogether
<1> QED  BY <1>1, InvariantHolds, PTL

-----------------------------------------------------------------------------
(***************************************************************************)
(* The streams that the connection implements.  For the data that p sends: *)
(* what ReliableStream knows of it.                                        *)
(***************************************************************************)
Written(p) == sndr(p).stream.pushed
Closed(p)  == sndr(p).stream.closed
Arrived(p) == rcvr(p).buf.pushed
Ended(p)   == rcvr(p).buf.ended
Taken(p)   == rcvr(p).buf.popped

(***************************************************************************)
(* What a step can make of a peer P: its owner writes, closes or reads, or *)
(* a segment arrives, or nothing that an application could notice happens. *)
(***************************************************************************)
SameOutput(P, Q) ==
    /\ Q.receiver.buf.pushed = P.receiver.buf.pushed
    /\ Q.receiver.buf.ended = P.receiver.buf.ended
    /\ Q.receiver.buf.popped = P.receiver.buf.popped

Unnoticed(P, Q) == SameInput(P.sender.stream, Q.sender.stream) /\ SameOutput(P, Q)

Writes(P, Q) ==
    /\ SameOutput(P, Q)
    /\ ~P.sender.stream.closed /\ Q.sender.stream.closed = P.sender.stream.closed
    /\ P.sender.stream.pushed <= Q.sender.stream.pushed

Closes(P, Q) ==
    /\ SameOutput(P, Q)
    /\ Q.sender.stream.closed = TRUE
    /\ Q.sender.stream.pushed = P.sender.stream.pushed

Reads(P, Q) ==
    /\ SameInput(P.sender.stream, Q.sender.stream)
    /\ Q.receiver.buf.pushed = P.receiver.buf.pushed
    /\ Q.receiver.buf.ended = P.receiver.buf.ended
    /\ Q.receiver.buf.popped \in P.receiver.buf.popped + 1 .. P.receiver.buf.pushed

Hears(P, Q) ==
    /\ SameInput(P.sender.stream, Q.sender.stream)
    /\ BufferGrows(P.receiver.buf, Q.receiver.buf)

SameSize(P, Q) == Q.receiver.buf.capacity = P.receiver.buf.capacity

Does(P, Q) ==
    /\ SameSize(P, Q)
    /\ \/ Unnoticed(P, Q) \/ Writes(P, Q) \/ Closes(P, Q) \/ Reads(P, Q) \/ Hears(P, Q)

\* Time may pass for both; of anything else there is one at a time.
OneDoes ==
    \/ \A p \in Sides : SameSize(peer[p], peer'[p]) /\ Unnoticed(peer[p], peer'[p])
    \/ \E p \in Sides : Does(peer[p], peer'[p]) /\ peer'[Other(p)] = peer[Other(p)]

LEMMA BecomesOne ==
    ASSUME IInv, NEW p \in Sides, NEW Q, peer' = [peer EXCEPT ![p] = Q],
           Does(peer[p], Q)
    PROVE  OneDoes
<1>1. Other(p) \in Sides /\ Other(p) # p /\ peer \in [Sides -> Peers]
  BY OtherSide DEF IInv
<1>2. peer'[p] = Q /\ peer'[Other(p)] = peer[Other(p)]
  BY <1>1
<1> QED  BY <1>2 DEF OneDoes

LEMMA ConnectDoes ==
    ASSUME IInv, Connect
    PROVE  OneDoes
<1> DEFINE p == Client
           P == peer[p]
           O == peer[Other(p)]
           w == Writable[p]
           Q == PeerPush(P)
<1>1. p \in Sides
  BY DEF Sides
<1>2. w \in Nat /\ Agree(P, O, w) /\ SenderSound(O.sender)
  BY <1>1, SideOf, HalfTheSpace
<1>3. SameInput(P.sender.stream, Q.sender.stream) /\ Q.receiver = P.receiver
  <2> HIDE DEF P, O, w
  <2> QED  BY ONLY <1>2, PushMoves
<1>4. peer' = [peer EXCEPT ![p] = Q]
  BY DEF Connect
<1> HIDE DEF Q, p
<1>5. Does(P, Q)
  BY <1>3 DEF Does, SameSize, Unnoticed, SameOutput
<1> QED  BY <1>1, <1>4, <1>5, BecomesOne

LEMMA OutboundDoes ==
    ASSUME IInv, NEW p \in Sides, NEW c, StreamKept(peer[p].sender.stream, c),
           c.pushed <= Writable[p], Outbound(p, c),
           \/ /\ ~peer[p].sender.stream.closed /\ ~c.closed
              /\ c.closed = peer[p].sender.stream.closed
              /\ peer[p].sender.stream.pushed <= c.pushed
           \/ c.closed = TRUE /\ c.pushed = peer[p].sender.stream.pushed
    PROVE  OneDoes
<1> DEFINE P == peer[p]
           O == peer[Other(p)]
           w == Writable[p]
           q == [P EXCEPT !.sender.stream = c]
           Q == PeerPush(q)
<1>1. w \in Nat /\ Agree(P, O, w) /\ SenderSound(O.sender)
      /\ StreamKept(P.sender.stream, c) /\ c.pushed <= w
  BY SideOf, HalfTheSpace
<1>2. SameInput(c, Q.sender.stream) /\ Q.receiver = P.receiver
  <2> HIDE DEF P, O, w
  <2> QED  BY ONLY <1>1, WriteMoves
<1>3. peer' = [peer EXCEPT ![p] = Q]
  BY DEF Outbound, Becomes
<1> HIDE DEF Q
<1>4. SameSize(P, Q) /\ SameOutput(P, Q)
  BY <1>2 DEF SameSize, SameOutput
<1>5. Writes(P, Q) \/ Closes(P, Q)
  BY <1>2, <1>4 DEF Writes, Closes, SameInput
<1>6. Does(P, Q)
  BY <1>4, <1>5 DEF Does
<1> QED  BY <1>3, <1>6, BecomesOne

LEMMA AppWriteDoes ==
    ASSUME IInv, NEW p \in Sides, NEW n \in 1 .. SendCapacity, AppWrite(p, n)
    PROVE  OneDoes
<1> DEFINE b == peer[p].sender.stream
           c == Push(b, n)
           a == AvailableCapacity(b)
           k == Writable[p]
<1>1. StreamInv(b) /\ b.pushed \in Nat /\ k \in Nat /\ n \in Nat
  <2>1. StreamInv(b) /\ n \in Nat /\ k \in Nat
    BY SideOf, HalfTheSpace, CapacityAssumption DEF SenderSound
  <2>2. b \in ByteStreams  BY <2>1 DEF StreamInv
  <2> QED  BY <2>1, <2>2 DEF ByteStreams
<1>2. n <= a /\ b.pushed + n <= k /\ ~b.closed /\ Outbound(p, c)
  BY DEF AppWrite, WantsToSend
<1> HIDE DEF b
<1>3. StreamKept(b, c)
  BY <1>1, StreamOperations
<1>4. c.closed = b.closed /\ c.pushed = b.pushed + n
  <2>1. c.closed = b.closed /\ c.pushed = b.pushed + Lesser(n, a)
    BY <1>1, <1>2, PushInv
  <2>2. Lesser(n, a) = n
    BY <1>2 DEF Lesser
  <2> QED  BY <2>1, <2>2
<1> HIDE DEF c, a, k
<1>5. b.pushed <= c.pushed /\ c.pushed <= k
  BY ONLY <1>1, <1>2, <1>4
<1> QED  BY <1>2, <1>3, <1>4, <1>5, OutboundDoes DEF b, k

LEMMA AppCloseDoes ==
    ASSUME IInv, NEW p \in Sides, AppClose(p)
    PROVE  OneDoes
<1> DEFINE b == peer[p].sender.stream
           c == Close(b)
<1>1. StreamInv(b) /\ b.pushed <= Writable[p]
  BY SideOf DEF SenderSound, Agree
<1>2. StreamKept(b, c) /\ c.pushed = b.pushed /\ c.closed = TRUE
  <2> HIDE DEF b
  <2> QED  BY <1>1, StreamOperations, CloseInv
<1>3. Outbound(p, c)
  BY DEF AppClose
<1> HIDE DEF c
<1> QED  BY <1>1, <1>2, <1>3, OutboundDoes

LEMMA AppReadDoes ==
    ASSUME IInv, NEW p \in Sides, NEW n \in 1 .. RecvCapacity, AppRead(p, n)
    PROVE  OneDoes
<1> DEFINE P == peer[p]
           s == peer[Other(p)].sender
           r == P.receiver
           t == [r EXCEPT !.buf = Take(r.buf, n)]
           Q == [P EXCEPT !.receiver = t]
<1>1. P \in Peers /\ ReceivedFrom(r, s) /\ n \in Nat
  BY SideOf, CapacityAssumption
<1>2. n <= r.buf.pushed - r.buf.popped
  <2>1. n <= Readable(p) /\ ~(n <= 0)
    BY CapacityAssumption DEF AppRead
  <2> QED  BY <2>1 DEF Readable
<1>3. peer' = [peer EXCEPT ![p] = Q]
  BY DEF AppRead
<1>4. /\ t \in Receivers
      /\ t.buf.capacity = r.buf.capacity /\ t.buf.pushed = r.buf.pushed
      /\ t.buf.ended = r.buf.ended /\ t.buf.popped = r.buf.popped + n
  <2> HIDE DEF s, r
  <2> QED  BY <1>1, <1>2, TakeSound DEF ReceivedFrom
<1>5. r.buf.pushed \in Nat /\ r.buf.popped \in Nat
  <2> HIDE DEF r, s
  <2> QED  BY <1>1, BufferFields DEF ReceivedFrom, BufferSound
<1> HIDE DEF t
<1>6. Q.sender = P.sender /\ Q.receiver = t
  BY <1>1, <1>4 DEF Peers
<1> HIDE DEF Q
<1>7. t.buf.popped \in r.buf.popped + 1 .. r.buf.pushed
  <2> DEFINE x == r.buf.popped
             y == r.buf.pushed
             z == t.buf.popped
  <2>1. x \in Nat /\ y \in Nat /\ n <= y - x /\ z = x + n  BY <1>2, <1>4, <1>5
  <2> HIDE DEF x, y, z
  <2>2. z \in x + 1 .. y  BY ONLY <2>1, n \in 1 .. RecvCapacity, CapacityAssumption
  <2> QED  BY <2>2 DEF x, y, z
<1>8. Does(P, Q)
  BY <1>4, <1>6, <1>7 DEF Does, SameSize, Reads, SameInput
<1> QED  BY <1>3, <1>8, BecomesOne

LEMMA DeliveryDoes ==
    ASSUME IInv, NEW p \in Sides, NEW m, Carried(m, peer[Other(p)]),
           peer' = [peer EXCEPT ![p] = PeerReceive(peer[p], m)]
    PROVE  OneDoes
<1> DEFINE P == peer[p]
           O == peer[Other(p)]
           w == Writable[p]
           v == Writable[Other(p)]
           Q == PeerReceive(P, m)
<1>1. /\ w \in Nat /\ v \in Nat /\ Agree(P, O, w) /\ Agree(O, P, v)
      /\ 2 * (w + 2) < Modulus /\ 2 * (v + 2) < Modulus /\ Carried(m, O)
  BY SideOf, OtherSide, HalfTheSpace
<1>2. /\ SameInput(P.sender.stream, Q.sender.stream)
      /\ BufferGrows(P.receiver.buf, Q.receiver.buf)
  <2> HIDE DEF P, O, w, v
  <2> QED  BY ONLY <1>1, ReceiveMoves
<1>3. peer' = [peer EXCEPT ![p] = Q]
  OBVIOUS
<1> HIDE DEF Q
<1>4. Does(P, Q)
  BY <1>2 DEF Does, Hears, SameSize, BufferGrows
<1> QED  BY <1>3, <1>4, BecomesOne

\* A step that leaves the peers as they are.
LEMMA NothingDone ==
    ASSUME peer' = peer
    PROVE  OneDoes
BY DEF OneDoes, SameSize, Unnoticed, SameInput, SameOutput

LEMMA ArriveDoes ==
    ASSUME IInv, NEW p \in Sides, NEW d \in Deliveries(p), NEW rest, Arrive(d, rest)
    PROVE  OneDoes
<1> DEFINE m == d.segment
<1>1. d \in network /\ d.to = p /\ Carried(m, peer[Other(p)])
  BY DEF Deliveries, IInv, NetworkIsHonest
<1>2. peer' = peer \/ peer' = [peer EXCEPT ![p] = PeerReceive(peer[p], m)]
  BY <1>1 DEF Arrive, Becomes
<1> HIDE DEF m
<1> QED  BY <1>1, <1>2, NothingDone, DeliveryDoes

LEMMA ResetDoes ==
    ASSUME IInv, NEW p \in Sides, Reset(p)
    PROVE  OneDoes
<1> DEFINE O   == peer[Other(p)]
           snd == [EmptyMessage(O.sender) EXCEPT !.RST = TRUE]
           rcv == Reply(O.receiver)
           m   == Segment(snd, rcv)
<1>1. peer' = [peer EXCEPT ![p] = PeerReceive(peer[p], m)]
  BY DEF Reset, Becomes
<1>2. Carried(m, O)
  BY ResetIsCarried
<1> HIDE DEF m
<1> QED  BY <1>1, <1>2, DeliveryDoes

LEMMA ClockDoes ==
    ASSUME IInv, NEW sides \in Clocks, Clock(sides)
    PROVE  OneDoes
<1> DEFINE T == Ticking(sides)
<1>1. peer' = [p \in Sides |-> IF p \in T THEN PeerTick(peer[p], 1) ELSE peer[p]]
  BY DEF Clock
<1> HIDE DEF T
<1>2. ASSUME NEW p \in Sides
      PROVE  SameSize(peer[p], peer'[p]) /\ Unnoticed(peer[p], peer'[p])
  <2> DEFINE P == peer[p]
             O == peer[Other(p)]
             w == Writable[p]
             Q == PeerTick(P, 1)
  <2>1. w \in Nat /\ Agree(P, O, w) /\ SenderSound(O.sender)
    BY SideOf, HalfTheSpace
  <2>2. SameInput(P.sender.stream, Q.sender.stream) /\ Q.receiver = P.receiver
    <3> HIDE DEF P, O, w
    <3> QED  BY ONLY <2>1, TickMoves
  <2>3. peer'[p] = P \/ peer'[p] = Q
    BY <1>1
  <2> HIDE DEF Q
  <2> QED  BY <2>2, <2>3 DEF SameSize, Unnoticed, SameInput, SameOutput
<1> QED  BY <1>2 DEF OneDoes

LEMMA NextDoes ==
    ASSUME IInv, [Next]_vars
    PROVE  OneDoes
<1>1. CASE Connect
  BY <1>1, ConnectDoes
<1>2. ASSUME NEW p \in Sides, NEW n \in 1 .. SendCapacity, AppWrite(p, n) PROVE OneDoes
  BY <1>2, AppWriteDoes
<1>3. ASSUME NEW p \in Sides, AppClose(p) PROVE OneDoes
  BY <1>3, AppCloseDoes
<1>4. ASSUME NEW p \in Sides, NEW n \in 1 .. RecvCapacity, AppRead(p, n) PROVE OneDoes
  BY <1>4, AppReadDoes
<1>5. ASSUME NEW p \in Sides, Receive(p) PROVE OneDoes
  BY <1>5, ArriveDoes DEF Receive
<1>6. ASSUME NEW p \in Sides, ReceiveCopy(p) PROVE OneDoes
  BY <1>6, ArriveDoes DEF ReceiveCopy
<1>7. ASSUME NEW p \in Sides, Reset(p) PROVE OneDoes
  BY <1>7, ResetDoes
<1>8. ASSUME NEW sides \in Clocks, Clock(sides) PROVE OneDoes
  BY <1>8, ClockDoes
<1>9. ASSUME NEW d \in network, Lose(d) PROVE OneDoes
  BY <1>9, NothingDone DEF Lose
<1>10. CASE UNCHANGED vars
  BY <1>10, NothingDone DEF vars
<1> QED  BY <1>1, <1>2, <1>3, <1>4, <1>5, <1>6, <1>7, <1>8, <1>9, <1>10 DEF Next

\* Every receiver keeps the room it was given.
AllFit == \A p \in Sides : peer[p].receiver.buf.capacity = RecvCapacity

LEMMA AllFitAlways == Spec => [](IInv /\ AllFit)
<1>1. Init => AllFit
  BY DEF Init, AllFit, NewPeer, NewReceiver, NewBuffer
<1>2. IInv /\ AllFit /\ [Next]_vars => AllFit'
  <2> SUFFICES ASSUME IInv, AllFit, [Next]_vars, NEW p \in Sides
               PROVE  peer'[p].receiver.buf.capacity = RecvCapacity
    BY DEF AllFit
  <2>1. OneDoes  BY NextDoes
  <2>2. SameSize(peer[p], peer'[p])
    <3>1. CASE \A q \in Sides : SameSize(peer[q], peer'[q])
      BY <3>1
    <3>2. ASSUME NEW q \in Sides, Does(peer[q], peer'[q]), peer'[Other(q)] = peer[Other(q)]
          PROVE  SameSize(peer[p], peer'[p])
      <4>1. p = q \/ p = Other(q)  BY DEF Sides, Other
      <4> QED  BY <3>2, <4>1 DEF Does, SameSize
    <3> QED  BY <2>1, <3>1, <3>2 DEF OneDoes
  <2> QED  BY <2>2 DEF SameSize, AllFit
<1>3. Spec => []AllFit
  BY <1>1, <1>2, InvariantHolds, PTL DEF Spec
<1> QED  BY <1>3, InvariantHolds, PTL

(***************************************************************************)
(* A step as either direction sees it: the writer's, the network's or the  *)
(* reader's, or none.                                                      *)
(***************************************************************************)
SameWriter(p) == Written(p)' = Written(p) /\ Closed(p)' = Closed(p)
SameReader(p) == Arrived(p)' = Arrived(p) /\ Ended(p)' = Ended(p) /\ Taken(p)' = Taken(p)

StreamStep(p) ==
    \/ SameWriter(p) /\ SameReader(p)
    \/ ~Closed(p) /\ Written(p)' >= Written(p) /\ Closed(p)' = Closed(p) /\ SameReader(p)
    \/ Closed(p)' = TRUE /\ Written(p)' = Written(p) /\ SameReader(p)
    \/ /\ SameWriter(p) /\ Taken(p)' = Taken(p)
       /\ Arrived(p)' >= Arrived(p) /\ (Ended(p) => Ended(p)')
    \/ /\ SameWriter(p) /\ Arrived(p)' = Arrived(p) /\ Ended(p)' = Ended(p)
       /\ Taken(p)' \in Taken(p) + 1 .. Arrived(p)

LEMMA EitherStream ==
    ASSUME OneDoes, NEW p \in Sides
    PROVE  StreamStep(p)
<1>1. Other(p) \in Sides /\ Other(Other(p)) = p /\ Other(p) # p
  BY OtherSide
<1>2. CASE \A q \in Sides : Unnoticed(peer[q], peer'[q])
  <2>1. Unnoticed(peer[p], peer'[p]) /\ Unnoticed(peer[Other(p)], peer'[Other(p)])
    BY <1>1, <1>2
  <2>2. SameWriter(p) /\ SameReader(p)
    BY <2>1 DEF Unnoticed, SameInput, SameOutput, SameWriter, SameReader,
                Written, Closed, Arrived, Ended, Taken, sndr, rcvr
  <2> QED  BY <2>2 DEF StreamStep
<1>3. ASSUME NEW q \in Sides, Does(peer[q], peer'[q]), peer'[Other(q)] = peer[Other(q)]
      PROVE  StreamStep(p)
  <2>1. CASE q = p
    <3>1. SameReader(p)
      BY <1>3, <2>1 DEF SameReader, Arrived, Ended, Taken, rcvr
    <3>2. SameWriter(p) \/ Writes(peer[p], peer'[p]) \/ Closes(peer[p], peer'[p])
      BY <1>3, <2>1 DEF Does, Unnoticed, Reads, Hears, SameInput,
                        SameWriter, Written, Closed, sndr
    <3>3. CASE SameWriter(p)
      BY <3>1, <3>3 DEF StreamStep
    <3>4. CASE Writes(peer[p], peer'[p])
      <4>1. /\ ~Closed(p) /\ Written(p) <= Written(p)' /\ Closed(p)' = Closed(p)
        BY <3>4 DEF Writes, Written, Closed, sndr
      <4> QED  BY <3>1, <4>1 DEF StreamStep
    <3>5. CASE Closes(peer[p], peer'[p])
      <4>1. Closed(p)' = TRUE /\ Written(p)' = Written(p)
        BY <3>5 DEF Closes, Written, Closed, sndr
      <4> QED  BY <3>1, <4>1 DEF StreamStep
    <3> QED  BY <3>2, <3>3, <3>4, <3>5
  <2>2. CASE q = Other(p)
    <3>1. SameWriter(p)
      BY <1>1, <1>3, <2>2 DEF SameWriter, Written, Closed, sndr
    <3>2. \/ SameOutput(peer[q], peer'[q]) \/ Reads(peer[q], peer'[q])
          \/ Hears(peer[q], peer'[q])
      BY <1>3 DEF Does, Unnoticed, Writes, Closes
    <3>3. CASE SameOutput(peer[q], peer'[q])
      <4>1. SameReader(p)
        BY <2>2, <3>3 DEF SameOutput, SameReader, Arrived, Ended, Taken, rcvr
      <4> QED  BY <3>1, <4>1 DEF StreamStep
    <3>4. CASE Reads(peer[q], peer'[q])
      <4>1. /\ Arrived(p)' = Arrived(p) /\ Ended(p)' = Ended(p)
            /\ Taken(p)' \in Taken(p) + 1 .. Arrived(p)
        BY <2>2, <3>4 DEF Reads, Arrived, Ended, Taken, rcvr
      <4> QED  BY <3>1, <4>1 DEF StreamStep
    <3>5. CASE Hears(peer[q], peer'[q])
      <4>1. /\ Taken(p)' = Taken(p)
            /\ Arrived(p) <= Arrived(p)' /\ (Ended(p) => Ended(p)')
        BY <2>2, <3>5 DEF Hears, BufferGrows, Arrived, Ended, Taken, rcvr
      <4> QED  BY <3>1, <4>1 DEF StreamStep
    <3> QED  BY <3>2, <3>3, <3>4, <3>5
  <2>3. q = p \/ q = Other(p)
    BY DEF Sides, Other
  <2> QED  BY <2>1, <2>2, <2>3
<1> QED  BY <1>2, <1>3 DEF OneDoes

\* How the two ends of a stream stand to each other.
StreamFacts(p) ==
    /\ Written(p) \in Nat /\ Closed(p) \in BOOLEAN
    /\ Arrived(p) \in Nat /\ Ended(p) \in BOOLEAN /\ Taken(p) \in Nat
    /\ Arrived(p) <= Written(p) /\ Arrived(p) <= Taken(p) + RecvCapacity
    /\ Ended(p) => Closed(p) /\ Arrived(p) = Written(p)

LEMMA StreamOf ==
    ASSUME IInv, AllFit, EOFBytes = {}, NEW p \in Sides
    PROVE  StreamFacts(p)
<1> DEFINE s == peer[p].sender
           r == peer[Other(p)].receiver
<1>1. /\ SenderSound(s) /\ ReceivedFrom(r, s) /\ r.buf.capacity = RecvCapacity
      /\ sndr(p) = s /\ rcvr(p) = r
  BY SideOf, OtherSide DEF sndr, rcvr, AllFit
<1>2. Ended(p) => Closed(p) /\ Arrived(p) = Written(p)
  BY EndsTogether DEF NoEarlyEnd, Ended, Closed, Arrived, Written
<1> HIDE DEF s, r
<1>3. /\ s.stream.popped \in Nat /\ s.stream.pushed \in Nat
      /\ s.stream.popped <= s.stream.pushed /\ s.stream.closed \in BOOLEAN
      /\ r.buf.pushed \in Nat /\ r.buf.ended \in BOOLEAN /\ r.buf.popped \in Nat
      /\ r.buf.pushed <= s.stream.popped
      /\ r.buf.pushed <= r.buf.popped + r.buf.capacity
  <2>1. s.stream.closed \in BOOLEAN
    BY <1>1 DEF SenderSound, StreamInv, ByteStreams
  <2>2. r.buf.popped \in Nat /\ r.buf.pushed <= r.buf.popped + r.buf.capacity
    BY <1>1, BufferFields DEF ReceivedFrom, BufferSound
  <2> QED  BY <1>1, <2>1, <2>2, SenderFields, ReceiverFields
<1>4. r.buf.pushed <= s.stream.pushed
  BY ONLY <1>3
<1> QED  BY <1>1, <1>2, <1>3, <1>4
         DEF StreamFacts, Written, Closed, Arrived, Ended, Taken

EveryStream == \A p \in Sides : StreamFacts(p)

LEMMA EveryStreamAlways ==
    ASSUME EOFBytes = {}
    PROVE  Spec => []EveryStream
<1>1. IInv /\ AllFit => EveryStream
  BY StreamOf DEF EveryStream
<1> QED  BY <1>1, AllFitAlways, PTL

(***************************************************************************)
(* Such a step is one of ReliableStream, whose variables are these.        *)
(***************************************************************************)
LEMMA ToServerStep ==
    ASSUME StreamStep(Client), StreamFacts(Client), StreamFacts(Client)'
    PROVE  [ToServer!Next]_(ToServer!vars)
<1> DEFINE w == Written(Client)
           c == Closed(Client)
           a == Arrived(Client)
           e == Ended(Client)
           t == Taken(Client)
<1>1. /\ w \in Nat /\ c \in BOOLEAN /\ a \in Nat /\ e \in BOOLEAN /\ t \in Nat
      /\ a <= w /\ (e => c /\ a = w)
  BY DEF StreamFacts
<1>2. /\ w' \in Nat /\ c' \in BOOLEAN /\ a' \in Nat /\ e' \in BOOLEAN /\ t' \in Nat
      /\ a' <= w' /\ a' <= t' + RecvCapacity /\ (e' => c' /\ a' = w')
  BY DEF StreamFacts
<1>3. CASE w' = w /\ c' = c /\ a' = a /\ e' = e /\ t' = t
  BY <1>3 DEF ToServer!vars, Written, Closed, Arrived, Ended, Taken
<1>4. CASE ~c /\ w' > w /\ c' = c /\ a' = a /\ e' = e /\ t' = t
  BY <1>2, <1>4 DEF ToServer!Next, ToServer!Write, Written, Closed, Arrived, Ended, Taken
<1>5. CASE c' = TRUE /\ w' = w /\ a' = a /\ e' = e /\ t' = t
  BY <1>5 DEF ToServer!Next, ToServer!CloseStream, Written, Closed, Arrived, Ended, Taken
<1>6. CASE ~e /\ w' = w /\ c' = c /\ t' = t /\ a' >= a
  <2>1. /\ a' \in a .. w /\ a' <= t + RecvCapacity /\ (e' => c /\ a' = w)
    BY <1>1, <1>2, <1>6
  <2>2. ToServer!Arrive
    BY <1>2, <1>6, <2>1 DEF ToServer!Arrive, Written, Closed, Arrived, Ended, Taken
  <2> QED  BY <2>2 DEF ToServer!Next
<1>7. CASE w' = w /\ c' = c /\ a' = a /\ e' = e /\ t' \in t + 1 .. a
  BY <1>7 DEF ToServer!Next, ToServer!Take, Written, Closed, Arrived, Ended, Taken
<1>8. \/ w' = w /\ c' = c /\ a' = a /\ e' = e /\ t' = t
      \/ ~c /\ w' >= w /\ c' = c /\ a' = a /\ e' = e /\ t' = t
      \/ c' = TRUE /\ w' = w /\ a' = a /\ e' = e /\ t' = t
      \/ w' = w /\ c' = c /\ t' = t /\ a' >= a /\ (e => e')
      \/ w' = w /\ c' = c /\ a' = a /\ e' = e /\ t' \in t + 1 .. a
  BY DEF StreamStep, SameWriter, SameReader
<1> HIDE DEF w, c, a, e, t
<1>9. w' >= w => w' = w \/ w' > w
  BY <1>1, <1>2
\* Nothing comes after the end.
<1>10. e /\ e' /\ w' = w /\ a' >= a => a' = a /\ e' = e
  <2>1. e /\ e' /\ w' = w => a' = a  BY <1>1, <1>2
  <2>2. e /\ e' => e' = e  BY ONLY <1>1, <1>2, Zenon
  <2> QED  BY ONLY <2>1, <2>2, Zenon
<1> QED  BY <1>3, <1>4, <1>5, <1>6, <1>7, <1>8, <1>9, <1>10

\* The other direction is the same with the sides exchanged.
LEMMA ToClientStep ==
    ASSUME StreamStep(Server), StreamFacts(Server), StreamFacts(Server)'
    PROVE  [ToClient!Next]_(ToClient!vars)
<1> DEFINE w == Written(Server)
           c == Closed(Server)
           a == Arrived(Server)
           e == Ended(Server)
           t == Taken(Server)
<1>1. /\ w \in Nat /\ c \in BOOLEAN /\ a \in Nat /\ e \in BOOLEAN /\ t \in Nat
      /\ a <= w /\ (e => c /\ a = w)
  BY DEF StreamFacts
<1>2. /\ w' \in Nat /\ c' \in BOOLEAN /\ a' \in Nat /\ e' \in BOOLEAN /\ t' \in Nat
      /\ a' <= w' /\ a' <= t' + RecvCapacity /\ (e' => c' /\ a' = w')
  BY DEF StreamFacts
<1>3. CASE w' = w /\ c' = c /\ a' = a /\ e' = e /\ t' = t
  BY <1>3 DEF ToClient!vars, Written, Closed, Arrived, Ended, Taken
<1>4. CASE ~c /\ w' > w /\ c' = c /\ a' = a /\ e' = e /\ t' = t
  BY <1>2, <1>4 DEF ToClient!Next, ToClient!Write, Written, Closed, Arrived, Ended, Taken
<1>5. CASE c' = TRUE /\ w' = w /\ a' = a /\ e' = e /\ t' = t
  BY <1>5 DEF ToClient!Next, ToClient!CloseStream, Written, Closed, Arrived, Ended, Taken
<1>6. CASE ~e /\ w' = w /\ c' = c /\ t' = t /\ a' >= a
  <2>1. /\ a' \in a .. w /\ a' <= t + RecvCapacity /\ (e' => c /\ a' = w)
    BY <1>1, <1>2, <1>6
  <2>2. ToClient!Arrive
    BY <1>2, <1>6, <2>1 DEF ToClient!Arrive, Written, Closed, Arrived, Ended, Taken
  <2> QED  BY <2>2 DEF ToClient!Next
<1>7. CASE w' = w /\ c' = c /\ a' = a /\ e' = e /\ t' \in t + 1 .. a
  BY <1>7 DEF ToClient!Next, ToClient!Take, Written, Closed, Arrived, Ended, Taken
<1>8. \/ w' = w /\ c' = c /\ a' = a /\ e' = e /\ t' = t
      \/ ~c /\ w' >= w /\ c' = c /\ a' = a /\ e' = e /\ t' = t
      \/ c' = TRUE /\ w' = w /\ a' = a /\ e' = e /\ t' = t
      \/ w' = w /\ c' = c /\ t' = t /\ a' >= a /\ (e => e')
      \/ w' = w /\ c' = c /\ a' = a /\ e' = e /\ t' \in t + 1 .. a
  BY DEF StreamStep, SameWriter, SameReader
<1> HIDE DEF w, c, a, e, t
<1>9. w' >= w => w' = w \/ w' > w
  BY <1>1, <1>2
\* Nothing comes after the end.
<1>10. e /\ e' /\ w' = w /\ a' >= a => a' = a /\ e' = e
  <2>1. e /\ e' /\ w' = w => a' = a  BY <1>1, <1>2
  <2>2. e /\ e' => e' = e  BY ONLY <1>1, <1>2, Zenon
  <2> QED  BY ONLY <2>1, <2>2, Zenon
<1> QED  BY <1>3, <1>4, <1>5, <1>6, <1>7, <1>8, <1>9, <1>10

(***************************************************************************)
(* Either direction implements ReliableStream: over a network that loses,  *)
(* duplicates and reorders, what one application writes arrives at the     *)
(* other in order, once, within the room there is, and its end with all of *)
(* it (tcp_sender.cc:16-60, tcp_receiver.cc:11-23, reassembler.cc:17-74),  *)
(* provided that no byte is 0xFF (tcp_sender.cc:30).                       *)
(***************************************************************************)
THEOREM StreamsAreReliable ==
    ASSUME EOFBytes = {}
    PROVE  Spec => ImplementsStream
<1>1. ASSUME Init
      PROVE  ToServer!Init /\ ToClient!Init
  <2>1. /\ Client \in Sides /\ Server \in Sides
        /\ Other(Client) = Server /\ Other(Server) = Client
    BY SidesAssumption DEF Sides, Other
  <2>2. \A p \in Sides : /\ peer[p].sender.stream.pushed = 0
                         /\ peer[p].sender.stream.closed = FALSE
                         /\ peer[p].receiver.buf.pushed = 0
                         /\ peer[p].receiver.buf.ended = FALSE
                         /\ peer[p].receiver.buf.popped = 0
    BY <1>1 DEF Init, NewPeer, NewSender, NewByteStream, NewReceiver, NewBuffer
  <2>3. ToServer!Init
    BY <2>1, <2>2 DEF ToServer!Init, sndr, rcvr
  <2>4. ToClient!Init
    BY <2>1, <2>2 DEF ToClient!Init, sndr, rcvr
  <2> QED  BY <2>3, <2>4
<1>2. ASSUME IInv, EveryStream, EveryStream', [Next]_vars
      PROVE  [ToServer!Next]_(ToServer!vars) /\ [ToClient!Next]_(ToClient!vars)
  <2>1. Client \in Sides /\ Server \in Sides
    BY DEF Sides
  <2>2. OneDoes
    BY <1>2, NextDoes
  <2>3. \A p \in Sides : StreamStep(p) /\ StreamFacts(p) /\ StreamFacts(p)'
    BY <1>2, <2>2, EitherStream DEF EveryStream
  <2> QED  BY <2>1, <2>3, ToServerStep, ToClientStep
<1> QED  BY <1>1, <1>2, InvariantHolds, EveryStreamAlways, PTL
         DEF Spec, ImplementsStream, ToServer!Spec, ToClient!Spec
=============================================================================
