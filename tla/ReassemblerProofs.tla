-------------------------- MODULE ReassemblerProofs ---------------------------
(***************************************************************************)
(* The Reassembler, whatever the capacity and the length of the stream and *)
(* in whatever order its substrings arrive: what the operators of insert() *)
(* compute, the invariants of ReassemblerSystem, and that the list of      *)
(* substrings behaves as the set of indexes of ReassemblySpec.             *)
(***************************************************************************)
EXTENDS ReassemblerSystem, ByteStreamLemmas

-----------------------------------------------------------------------------
(***************************************************************************)
(* Pieces of the peer's stream: parts of one, and two that follow each     *)
(* other (data.erase(), resize(), substr(), insert() and append()).        *)
(***************************************************************************)
LEMMA BytesAre ==
    ASSUME NEW f \in Nat, NEW n \in Nat
    PROVE  /\ Bytes(f, n) \in Seq(Nat)
           /\ Len(Bytes(f, n)) = n
           /\ \A i \in 1 .. n : Bytes(f, n)[i] = f + i - 1
<1>1. Bytes(f, n) \in [1 .. n -> Nat]
  BY DEF Bytes
<1>2. Bytes(f, n) \in Seq(Nat) /\ Len(Bytes(f, n)) = n
  BY <1>1
<1> QED  BY <1>2 DEF Bytes

LEMMA PartOfBytes ==
    ASSUME NEW f \in Nat, NEW n \in Nat, NEW a \in 1 .. n + 1, NEW b \in a - 1 .. n
    PROVE  SubSeq(Bytes(f, n), a, b) = Bytes(f + a - 1, b - a + 1)
<1> DEFINE s == Bytes(f, n)
           t == Bytes(f + a - 1, b - a + 1)
<1>1. /\ s \in Seq(Nat) /\ Len(s) = n
      /\ \A i \in 1 .. n : s[i] = f + i - 1
  BY BytesAre
<1>2. /\ t \in Seq(Nat) /\ Len(t) = b - a + 1
      /\ \A i \in 1 .. b - a + 1 : t[i] = (f + a - 1) + i - 1
  <2>1. f + a - 1 \in Nat /\ b - a + 1 \in Nat  OBVIOUS
  <2> QED  BY ONLY <2>1, BytesAre
<1> HIDE DEF s, t
<1>3. \A i \in a .. b : s[i] \in Nat
  BY <1>1
<1>4. /\ SubSeq(s, a, b) \in Seq(Nat)
      /\ Len(SubSeq(s, a, b)) = b - a + 1
      /\ \A i \in 1 .. b - a + 1 : SubSeq(s, a, b)[i] = s[a + i - 1]
  BY <1>3, SubSeqProperties
<1>5. \A i \in 1 .. b - a + 1 : SubSeq(s, a, b)[i] = t[i]
  <2> SUFFICES ASSUME NEW i \in 1 .. b - a + 1 PROVE SubSeq(s, a, b)[i] = t[i]
    OBVIOUS
  <2>1. a + i - 1 \in 1 .. n  OBVIOUS
  <2> QED  BY <1>1, <1>2, <1>4, <2>1
<1>6. SubSeq(s, a, b) = t
  BY <1>2, <1>4, <1>5, SeqEqual
<1> QED  BY <1>6 DEF s, t

LEMMA JoinedBytes ==
    ASSUME NEW f \in Nat, NEW n \in Nat, NEW k \in Nat
    PROVE  Bytes(f, n) \o Bytes(f + n, k) = Bytes(f, n + k)
<1> DEFINE s == Bytes(f, n)
           t == Bytes(f + n, k)
           u == Bytes(f, n + k)
<1>1. /\ s \in Seq(Nat) /\ Len(s) = n
      /\ \A i \in 1 .. n : s[i] = f + i - 1
  BY BytesAre
<1>2. /\ t \in Seq(Nat) /\ Len(t) = k
      /\ \A i \in 1 .. k : t[i] = (f + n) + i - 1
  <2>1. f + n \in Nat  OBVIOUS
  <2> QED  BY ONLY <2>1, k \in Nat, BytesAre
<1>3. /\ u \in Seq(Nat) /\ Len(u) = n + k
      /\ \A i \in 1 .. n + k : u[i] = f + i - 1
  BY BytesAre
<1> HIDE DEF s, t, u
<1>4. /\ s \o t \in Seq(Nat) /\ Len(s \o t) = n + k
      /\ \A i \in 1 .. n + k : (s \o t)[i] = IF i <= n THEN s[i] ELSE t[i - n]
  BY <1>1, <1>2, ConcatProperties
<1>5. \A i \in 1 .. n + k : (s \o t)[i] = u[i]
  <2> SUFFICES ASSUME NEW i \in 1 .. n + k PROVE (s \o t)[i] = u[i]
    OBVIOUS
  <2>1. CASE i <= n  BY <1>1, <1>3, <1>4, <2>1
  <2>2. CASE ~(i <= n)
    <3>1. i - n \in 1 .. k  BY <2>2
    <3>2. t[i - n] = (f + n) + (i - n) - 1  BY <1>2, <3>1
    <3>3. u[i] = f + i - 1  BY <1>3
    <3>4. (s \o t)[i] = t[i - n]  BY <1>4, <2>2
    <3> QED  BY ONLY f \in Nat, n \in Nat, i \in 1 .. n + k, k \in Nat, <3>2, <3>3, <3>4
  <2> QED  BY <2>1, <2>2
<1>6. s \o t = u
  BY <1>3, <1>4, <1>5, SeqEqual
<1> QED  BY <1>6 DEF s, t, u

\* Nothing is a piece of the stream anywhere.
LEMMA NoBytes == ASSUME NEW f \in Nat PROVE Bytes(f, 0) = << >>
BY BytesAre, EmptySeq

-----------------------------------------------------------------------------
\* What the list holds: pieces of the stream, none of them empty.
Pieces == {e \in [first : Nat, data : Seq(Nat)] :
              Size(e) > 0 /\ e.data = Bytes(e.first, Size(e))}

LEMMA PieceFields ==
    ASSUME NEW e \in Pieces
    PROVE  /\ e.first \in Nat /\ e.data \in Seq(Nat)
           /\ Size(e) \in Nat \ {0} /\ End(e) \in Nat /\ End(e) = e.first + Size(e)
           /\ e.data = Bytes(e.first, Size(e))
BY DEF Pieces, Size, End

LEMMA PieceMade ==
    ASSUME NEW f \in Nat, NEW n \in Nat \ {0}
    PROVE  /\ [first |-> f, data |-> Bytes(f, n)] \in Pieces
           /\ Size([first |-> f, data |-> Bytes(f, n)]) = n
           /\ End([first |-> f, data |-> Bytes(f, n)]) = f + n
<1> DEFINE e == [first |-> f, data |-> Bytes(f, n)]
<1>1. Bytes(f, n) \in Seq(Nat) /\ Len(Bytes(f, n)) = n
  BY BytesAre
<1>2. e \in [first : Nat, data : Seq(Nat)] /\ e.first = f /\ e.data = Bytes(f, n)
  BY <1>1
<1> HIDE DEF e
<1>3. Size(e) = n /\ End(e) = f + n
  BY <1>1, <1>2 DEF Size, End
<1>4. e \in Pieces
  BY <1>2, <1>3 DEF Pieces
<1> QED  BY <1>3, <1>4 DEF e

-----------------------------------------------------------------------------
\* The equation of the sum in TotalSize, up to entry k.
SumsUpTo(f, l, k) ==
    f = [n \in 0 .. k |-> IF n = 0 THEN 0 ELSE f[n - 1] + Size(l[n])]

LEMMA SumsAre ==
    ASSUME NEW l, NEW k \in Nat, NEW f, SumsUpTo(f, l, k)
    PROVE  /\ f[0] = 0
           /\ \A n \in 1 .. k : f[n] = f[n - 1] + Size(l[n])
<1>1. \A n \in 0 .. k : f[n] = IF n = 0 THEN 0 ELSE f[n - 1] + Size(l[n])
  BY DEF SumsUpTo
<1> QED  BY <1>1

LEMMA SumsExist ==
    ASSUME NEW l, NEW N \in Nat
    PROVE  \E f : SumsUpTo(f, l, N)
<1> DEFINE S == {k \in Nat : \E f : SumsUpTo(f, l, k)}
<1>1. 0 \in S
  <2>1. SumsUpTo([n \in 0 .. 0 |-> 0], l, 0)  BY DEF SumsUpTo
  <2> QED  BY <2>1
<1>2. ASSUME NEW k \in 1 .. N, k - 1 \in S PROVE k \in S
  <2>1. PICK f : SumsUpTo(f, l, k - 1)  BY <1>2
  <2> DEFINE g == [n \in 0 .. k |-> IF n = 0 THEN 0 ELSE f[n - 1] + Size(l[n])]
  <2>2. \A n \in 0 .. k - 1 : f[n] = IF n = 0 THEN 0 ELSE f[n - 1] + Size(l[n])
    BY <2>1 DEF SumsUpTo
  <2>3. \A n \in 0 .. k - 1 : g[n] = f[n]
    BY <2>2
  <2>4. \A n \in 0 .. k : g[n] = IF n = 0 THEN 0 ELSE g[n - 1] + Size(l[n])
    <3> SUFFICES ASSUME NEW n \in 0 .. k
                 PROVE  g[n] = IF n = 0 THEN 0 ELSE g[n - 1] + Size(l[n])
      OBVIOUS
    <3>1. n # 0 => n - 1 \in 0 .. k - 1  OBVIOUS
    <3> QED  BY <2>3, <3>1
  <2>5. g = [n \in 0 .. k |-> g[n]]  OBVIOUS
  <2> HIDE DEF g
  <2>6. SumsUpTo(g, l, k)  BY <2>4, <2>5 DEF SumsUpTo
  <2> QED  BY <2>6
<1> HIDE DEF S
<1>3. N \in S
  BY <1>1, <1>2, RoundByRound, N \in 0 .. N
<1> QED  BY <1>3 DEF S

LEMMA TotalSizeIsSum ==
    ASSUME NEW l, Len(l) \in Nat
    PROVE  \E f : SumsUpTo(f, l, Len(l)) /\ TotalSize(l) = f[Len(l)]
<1>1. \E f : SumsUpTo(f, l, Len(l))
  BY SumsExist
<1> DEFINE sum == CHOOSE f : SumsUpTo(f, l, Len(l))
<1>2. SumsUpTo(sum, l, Len(l))
  BY <1>1
<1>3. TotalSize(l) = sum[Len(l)]
  BY DEF TotalSize, SumsUpTo
<1> QED  BY <1>2, <1>3

(***************************************************************************)
(* What TotalSize adds up: nothing for no entries, and for one list after  *)
(* another what both hold.                                                 *)
(***************************************************************************)
LEMMA SizeOfNothing == TotalSize(<< >>) = 0
<1>1. Len(<< >>) = 0
  BY EmptySeq
<1>2. PICK f : SumsUpTo(f, << >>, 0) /\ TotalSize(<< >>) = f[0]
  BY <1>1, TotalSizeIsSum
<1> QED  BY <1>2, SumsAre

LEMMA SizeOfOne ==
    ASSUME NEW e \in Pieces
    PROVE  TotalSize(<<e>>) = Size(e)
<1>1. Len(<<e>>) = 1 /\ <<e>>[1] = e
  OBVIOUS
<1>2. PICK f : SumsUpTo(f, <<e>>, 1) /\ TotalSize(<<e>>) = f[1]
  BY <1>1, TotalSizeIsSum
<1>3. f[0] = 0 /\ f[1] = f[0] + Size(<<e>>[1])
  BY <1>2, SumsAre
<1> QED  BY <1>1, <1>2, <1>3, PieceFields

LEMMA TotalSizeType ==
    ASSUME NEW l \in Seq(Pieces)
    PROVE  TotalSize(l) \in Nat
<1>1. PICK f : SumsUpTo(f, l, Len(l)) /\ TotalSize(l) = f[Len(l)]
  BY TotalSizeIsSum
<1> DEFINE S == {k \in Nat : f[k] \in Nat}
<1>2. 0 \in S
  BY <1>1, SumsAre
<1>3. ASSUME NEW k \in 1 .. Len(l), k - 1 \in S PROVE k \in S
  <2>1. f[k] = f[k - 1] + Size(l[k])
    BY <1>1, SumsAre
  <2>2. Size(l[k]) \in Nat
    BY ElementOfSeq, PieceFields
  <2> QED  BY <1>3, <2>1, <2>2
<1> HIDE DEF S
<1>4. Len(l) \in S
  BY <1>2, <1>3, RoundByRound, Len(l) \in 0 .. Len(l), Len(l) \in Nat
<1> QED  BY <1>1, <1>4 DEF S

LEMMA SizeOfJoined ==
    ASSUME NEW a \in Seq(Pieces), NEW b \in Seq(Pieces)
    PROVE  TotalSize(a \o b) = TotalSize(a) + TotalSize(b)
<1> DEFINE m == Len(a)
           n == Len(b)
           c == a \o b
<1>1. /\ m \in Nat /\ n \in Nat /\ c \in Seq(Pieces) /\ Len(c) = m + n
      /\ \A i \in 1 .. m : c[i] = a[i]
      /\ \A i \in 1 .. n : c[m + i] = b[i]
  BY ConcatProperties
<1>2. /\ \A i \in 1 .. m : Size(a[i]) \in Nat
      /\ \A i \in 1 .. n : Size(b[i]) \in Nat
  BY ElementOfSeq, PieceFields
<1>3. PICK f : SumsUpTo(f, a, m) /\ TotalSize(a) = f[m]
  BY <1>1, TotalSizeIsSum
<1>4. PICK g : SumsUpTo(g, b, n) /\ TotalSize(b) = g[n]
  BY <1>1, TotalSizeIsSum
<1> HIDE DEF m, n, c
<1>5. PICK h : SumsUpTo(h, c, m + n) /\ TotalSize(c) = h[m + n]
  BY <1>1, TotalSizeIsSum
<1>6. /\ f[0] = 0 /\ \A i \in 1 .. m : f[i] = f[i - 1] + Size(a[i])
      /\ g[0] = 0 /\ \A i \in 1 .. n : g[i] = g[i - 1] + Size(b[i])
      /\ h[0] = 0 /\ \A i \in 1 .. m + n : h[i] = h[i - 1] + Size(c[i])
  <2>1. m \in Nat /\ n \in Nat /\ m + n \in Nat  BY <1>1
  <2>2. f[0] = 0 /\ \A i \in 1 .. m : f[i] = f[i - 1] + Size(a[i])
    BY ONLY <2>1, <1>3, SumsAre
  <2>3. g[0] = 0 /\ \A i \in 1 .. n : g[i] = g[i - 1] + Size(b[i])
    BY ONLY <2>1, <1>4, SumsAre
  <2>4. h[0] = 0 /\ \A i \in 1 .. m + n : h[i] = h[i - 1] + Size(c[i])
    BY ONLY <2>1, <1>5, SumsAre
  <2> QED  BY <2>2, <2>3, <2>4
<1>7. h[m] = f[m] /\ f[m] \in Nat
  <2> DEFINE S == {i \in Nat : h[i] = f[i] /\ f[i] \in Nat}
  <2>1. 0 \in S  BY <1>6
  <2>2. ASSUME NEW i \in 1 .. m, i - 1 \in S PROVE i \in S
    <3>1. /\ h[i] = h[i - 1] + Size(c[i]) /\ f[i] = f[i - 1] + Size(a[i])
          /\ c[i] = a[i] /\ Size(a[i]) \in Nat
      <4>1. i \in 1 .. m + n  BY <1>1
      <4> QED  BY <1>1, <1>2, <1>6, <4>1
    <3> QED  BY <1>1, <2>2, <3>1
  <2> HIDE DEF S
  <2>3. m \in S  BY <1>1, <2>1, <2>2, RoundByRound, m \in 0 .. m
  <2> QED  BY <2>3 DEF S
<1>8. h[m + n] = f[m] + g[n]
  <2> DEFINE S == {i \in Nat : h[m + i] = f[m] + g[i] /\ g[i] \in Nat}
  <2>1. 0 \in S  BY <1>1, <1>6, <1>7
  <2>2. ASSUME NEW i \in 1 .. n, i - 1 \in S PROVE i \in S
    <3>1. m + i \in 1 .. m + n /\ (m + i) - 1 = m + (i - 1) /\ i \in Nat
      BY <1>1
    <3>2. h[m + i] = h[m + (i - 1)] + Size(b[i])
      BY <1>1, <1>6, <3>1
    <3>3. g[i] = g[i - 1] + Size(b[i]) /\ Size(b[i]) \in Nat
      BY <1>2, <1>6
    <3>4. h[m + (i - 1)] = f[m] + g[i - 1] /\ g[i - 1] \in Nat
      BY <2>2
    <3>5. h[m + i] = f[m] + g[i] /\ g[i] \in Nat
      BY ONLY <1>7, <3>2, <3>3, <3>4
    <3> QED  BY <3>1, <3>5
  <2> HIDE DEF S
  <2>3. n \in S  BY <1>1, <2>1, <2>2, RoundByRound, n \in 0 .. n
  <2> QED  BY <2>3 DEF S
<1> QED  BY <1>3, <1>4, <1>5, <1>7, <1>8 DEF c, m, n

-----------------------------------------------------------------------------
(***************************************************************************)
(* A list as the merge needs it: disjoint pieces in the order of their     *)
(* places, between two indexes, and the indexes that they hold.            *)
(***************************************************************************)
Ordered(l) ==
    /\ l \in Seq(Pieces)
    /\ \A i, j \in 1 .. Len(l) : i < j => End(l[i]) <= l[j].first

Within(l, lo, hi) == \A i \in 1 .. Len(l) : lo <= l[i].first /\ End(l[i]) <= hi

Held(l) == {x \in Nat : \E i \in 1 .. Len(l) : l[i].first <= x /\ x < End(l[i])}

LEMMA NothingHeld ==
    ASSUME NEW lo \in Nat, NEW hi \in Nat
    PROVE  Ordered(<< >>) /\ Within(<< >>, lo, hi) /\ Held(<< >>) = {}
<1>1. << >> \in Seq(Pieces) /\ Len(<< >>) = 0
  BY EmptySeq
<1> QED  BY <1>1 DEF Ordered, Within, Held

LEMMA OneHeld ==
    ASSUME NEW e \in Pieces, NEW lo \in Nat, NEW hi \in Nat
    PROVE  /\ Ordered(<<e>>) /\ Len(<<e>>) = 1 /\ <<e>>[1] = e
           /\ lo <= e.first /\ End(e) <= hi => Within(<<e>>, lo, hi)
           /\ Held(<<e>>) = {x \in Nat : e.first <= x /\ x < End(e)}
<1>1. <<e>> \in Seq(Pieces) /\ Len(<<e>>) = 1 /\ <<e>>[1] = e
  OBVIOUS
<1> QED  BY <1>1 DEF Ordered, Within, Held

LEMMA PartHeld ==
    ASSUME NEW l, Ordered(l), NEW a \in 1 .. Len(l) + 1, NEW b \in a - 1 .. Len(l)
    PROVE  /\ Ordered(SubSeq(l, a, b)) /\ Len(SubSeq(l, a, b)) = b - a + 1
           /\ \A i \in 1 .. b - a + 1 : SubSeq(l, a, b)[i] = l[a + i - 1]
<1>1. l \in Seq(Pieces) /\ Len(l) \in Nat
  BY DEF Ordered
<1>2. \A i \in a .. b : l[i] \in Pieces
  BY <1>1, ElementOfSeq
<1> DEFINE m == SubSeq(l, a, b)
<1>3. /\ m \in Seq(Pieces) /\ Len(m) = b - a + 1
      /\ \A i \in 1 .. b - a + 1 : m[i] = l[a + i - 1]
  BY <1>1, <1>2, SubSeqProperties
<1> HIDE DEF m
<1>4. ASSUME NEW i \in 1 .. Len(m), NEW j \in 1 .. Len(m), i < j
      PROVE  End(m[i]) <= m[j].first
  <2>1. /\ a + i - 1 \in 1 .. Len(l) /\ a + j - 1 \in 1 .. Len(l)
        /\ a + i - 1 < a + j - 1
    BY <1>1, <1>3, <1>4
  <2>2. End(l[a + i - 1]) <= l[a + j - 1].first
    BY <2>1 DEF Ordered
  <2>3. m[i] = l[a + i - 1] /\ m[j] = l[a + j - 1]
    BY <1>3
  <2> QED  BY ONLY <2>2, <2>3
<1>5. Ordered(m)
  BY <1>3, <1>4 DEF Ordered
<1> QED  BY <1>3, <1>5 DEF m

LEMMA JoinedHeld ==
    ASSUME NEW a, Ordered(a), NEW b, Ordered(b)
    PROVE  /\ a \o b \in Seq(Pieces) /\ Len(a \o b) = Len(a) + Len(b)
           /\ Held(a \o b) = Held(a) \union Held(b)
           /\ \A lo, hi \in Nat :
                 Within(a \o b, lo, hi) <=> Within(a, lo, hi) /\ Within(b, lo, hi)
           /\ (\A i \in 1 .. Len(a), j \in 1 .. Len(b) : End(a[i]) <= b[j].first)
                 => Ordered(a \o b)
<1> DEFINE m == Len(a)
           n == Len(b)
           c == a \o b
<1>1. /\ a \in Seq(Pieces) /\ b \in Seq(Pieces)
      /\ \A i, j \in 1 .. m : i < j => End(a[i]) <= a[j].first
      /\ \A i, j \in 1 .. n : i < j => End(b[i]) <= b[j].first
  BY DEF Ordered
<1>2. /\ m \in Nat /\ n \in Nat /\ c \in Seq(Pieces) /\ Len(c) = m + n
      /\ \A i \in 1 .. m : c[i] = a[i]
      /\ \A i \in 1 .. m + n : ~(i <= m) => c[i] = b[i - m]
  BY <1>1, ConcatProperties
<1>3. \A i \in 1 .. n : c[m + i] = b[i]
  BY <1>2
<1> HIDE DEF m, n, c
<1>4. Held(c) = Held(a) \union Held(b)
  <2>1. ASSUME NEW x \in Held(c) PROVE x \in Held(a) \union Held(b)
    <3>1. PICK i \in 1 .. m + n : c[i].first <= x /\ x < End(c[i])
      BY <1>2, <2>1 DEF Held
    <3>2. CASE i <= m
      <4>1. i \in 1 .. m  BY <3>2
      <4> QED  BY <1>2, <2>1, <3>1, <4>1 DEF Held, m
    <3>3. CASE ~(i <= m)
      <4>1. i - m \in 1 .. n  BY <1>2, <3>3
      <4>2. c[i] = b[i - m]  BY <1>2, <3>3
      <4> QED  BY <2>1, <3>1, <4>1, <4>2 DEF Held, n
    <3> QED  BY <3>2, <3>3
  <2>2. ASSUME NEW x \in Held(a) PROVE x \in Held(c)
    <3>1. PICK i \in 1 .. m : a[i].first <= x /\ x < End(a[i])
      BY <2>2 DEF Held, m
    <3>2. i \in 1 .. m + n /\ c[i] = a[i]  BY <1>2
    <3> QED  BY <1>2, <2>2, <3>1, <3>2 DEF Held
  <2>3. ASSUME NEW x \in Held(b) PROVE x \in Held(c)
    <3>1. PICK i \in 1 .. n : b[i].first <= x /\ x < End(b[i])
      BY <2>3 DEF Held, n
    <3>2. m + i \in 1 .. m + n /\ c[m + i] = b[i]  BY <1>2, <1>3
    <3> QED  BY <1>2, <2>3, <3>1, <3>2 DEF Held
  <2> QED  BY <2>1, <2>2, <2>3
<1>5. ASSUME NEW lo \in Nat, NEW hi \in Nat
      PROVE  Within(c, lo, hi) <=> Within(a, lo, hi) /\ Within(b, lo, hi)
  <2>1. ASSUME Within(c, lo, hi) PROVE Within(a, lo, hi) /\ Within(b, lo, hi)
    <3>1. \A i \in 1 .. m : i \in 1 .. m + n /\ c[i] = a[i]  BY <1>2
    <3>2. \A i \in 1 .. n : m + i \in 1 .. m + n /\ c[m + i] = b[i]  BY <1>2, <1>3
    <3>3. \A i \in 1 .. m + n : lo <= c[i].first /\ End(c[i]) <= hi
      BY <1>2, <2>1 DEF Within
    <3>4. Within(a, lo, hi)  BY <3>1, <3>3 DEF Within, m
    <3>5. ASSUME NEW i \in 1 .. n PROVE lo <= b[i].first /\ End(b[i]) <= hi
      BY <3>2, <3>3
    <3> QED  BY <3>4, <3>5 DEF Within, n
  <2>2. ASSUME Within(a, lo, hi), Within(b, lo, hi) PROVE Within(c, lo, hi)
    <3>1. ASSUME NEW i \in 1 .. m + n PROVE lo <= c[i].first /\ End(c[i]) <= hi
      <4>1. CASE i <= m
        <5>1. i \in 1 .. m  BY <4>1
        <5> QED  BY <1>2, <2>2, <5>1 DEF Within, m
      <4>2. CASE ~(i <= m)
        <5>1. i - m \in 1 .. n /\ c[i] = b[i - m]  BY <1>2, <4>2
        <5> QED  BY <2>2, <5>1 DEF Within, n
      <4> QED  BY <4>1, <4>2
    <3> QED  BY <1>2, <3>1 DEF Within
  <2> QED  BY <2>1, <2>2
<1>6. ASSUME \A i \in 1 .. m, j \in 1 .. n : End(a[i]) <= b[j].first
      PROVE  Ordered(c)
  <2>1. ASSUME NEW i \in 1 .. m + n, NEW j \in 1 .. m + n, i < j
        PROVE  End(c[i]) <= c[j].first
    <3>1. CASE j <= m
      <4>1. i \in 1 .. m /\ j \in 1 .. m  BY <1>2, <2>1, <3>1
      <4> QED  BY <1>1, <1>2, <2>1, <4>1
    <3>2. CASE i <= m /\ ~(j <= m)
      <4>1. i \in 1 .. m /\ j - m \in 1 .. n /\ c[j] = b[j - m]  BY <1>2, <3>2
      <4> QED  BY <1>2, <1>6, <4>1
    <3>3. CASE ~(i <= m)
      <4>1. /\ i - m \in 1 .. n /\ c[i] = b[i - m]
            /\ j - m \in 1 .. n /\ c[j] = b[j - m] /\ i - m < j - m
        BY <1>2, <2>1, <3>3
      <4> QED  BY <1>1, <4>1
    <3> QED  BY <3>1, <3>2, <3>3
  <2> QED  BY <1>2, <2>1 DEF Ordered
<1> QED  BY <1>2, <1>4, <1>5, <1>6 DEF c, m, n

-----------------------------------------------------------------------------
(***************************************************************************)
(* What the two searches of insert() find in an ordered list (upper_bound  *)
(* and lower_bound, reassembler.cc:34-39).                                 *)
(***************************************************************************)
LEMMA FirstOfIs ==
    ASSUME NEW l, Len(l) \in Nat, NEW found, found \subseteq 1 .. Len(l)
    PROVE  /\ FirstOf(found, l) \in 1 .. Len(l) + 1
           /\ FirstOf(found, l) <= Len(l) => FirstOf(found, l) \in found
           /\ \A i \in 1 .. Len(l) : i < FirstOf(found, l) => i \notin found
<1>1. CASE found = {}
  BY <1>1 DEF FirstOf
<1>2. CASE found # {}
  <2>1. found \subseteq Nat  OBVIOUS
  <2>2. \E i \in found : \A j \in found : i <= j
    BY <1>2, <2>1, SmallestElement
  <2>3. FirstOf(found, l) = CHOOSE i \in found : \A j \in found : i <= j
    BY <1>2 DEF FirstOf
  <2> DEFINE k == FirstOf(found, l)
  <2>4. k \in found /\ \A j \in found : k <= j
    BY <2>2, <2>3
  <2> HIDE DEF k
  <2>5. k \in 1 .. Len(l)
    BY <2>4
  <2>6. ASSUME NEW i \in 1 .. Len(l), i < k PROVE i \notin found
    BY <2>4, <2>5, <2>6
  <2>7. k \in 1 .. Len(l) + 1
    BY <2>5
  <2> QED  BY <2>4, <2>6, <2>7 DEF k
<1> QED  BY <1>1, <1>2

LEMMA EndingAfterIs ==
    ASSUME NEW l, Ordered(l), NEW index \in Nat
    PROVE  /\ EndingAfter(l, index) \in 1 .. Len(l) + 1
           /\ \A i \in 1 .. Len(l) : i < EndingAfter(l, index) <=> End(l[i]) <= index
<1> DEFINE found == {i \in 1 .. Len(l) : index < End(l[i])}
           k == FirstOf(found, l)
<1>1. /\ l \in Seq(Pieces) /\ Len(l) \in Nat
      /\ \A i, j \in 1 .. Len(l) : i < j => End(l[i]) <= l[j].first
  BY DEF Ordered
<1>2. \A i \in 1 .. Len(l) : /\ End(l[i]) \in Nat /\ l[i].first \in Nat
                             /\ l[i].first < End(l[i])
  BY <1>1, ElementOfSeq, PieceFields
<1>3. k \in 1 .. Len(l) + 1 /\ (k <= Len(l) => k \in found)
      /\ \A i \in 1 .. Len(l) : i < k => i \notin found
  BY <1>1, FirstOfIs
<1>4. EndingAfter(l, index) = k
  BY DEF EndingAfter
<1> HIDE DEF k
<1>5. ASSUME NEW i \in 1 .. Len(l) PROVE i < k <=> End(l[i]) <= index
  <2>1. CASE i < k  BY <1>2, <1>3, <2>1
  <2>2. CASE i = k  BY <1>2, <1>3, <2>2
  <2>3. CASE k < i
    <3>1. k \in 1 .. Len(l) /\ index < End(l[k])  BY <1>1, <1>3, <2>3
    <3>2. End(l[k]) <= l[i].first  BY <1>1, <2>3, <3>1
    <3> QED  BY <1>2, <1>3, <2>3, <3>1, <3>2
  <2> QED  BY <1>3, <2>1, <2>2, <2>3
<1> QED  BY <1>3, <1>4, <1>5

LEMMA StartingFromIs ==
    ASSUME NEW l, Ordered(l), NEW index \in Nat
    PROVE  /\ StartingFrom(l, index) \in 1 .. Len(l) + 1
           /\ \A i \in 1 .. Len(l) : i < StartingFrom(l, index) <=> l[i].first < index
<1> DEFINE found == {i \in 1 .. Len(l) : index <= l[i].first}
           k == FirstOf(found, l)
<1>1. /\ l \in Seq(Pieces) /\ Len(l) \in Nat
      /\ \A i, j \in 1 .. Len(l) : i < j => End(l[i]) <= l[j].first
  BY DEF Ordered
<1>2. \A i \in 1 .. Len(l) : /\ End(l[i]) \in Nat /\ l[i].first \in Nat
                             /\ l[i].first < End(l[i])
  BY <1>1, ElementOfSeq, PieceFields
<1>3. k \in 1 .. Len(l) + 1 /\ (k <= Len(l) => k \in found)
      /\ \A i \in 1 .. Len(l) : i < k => i \notin found
  BY <1>1, FirstOfIs
<1>4. StartingFrom(l, index) = k
  BY DEF StartingFrom
<1> HIDE DEF k
<1>5. ASSUME NEW i \in 1 .. Len(l) PROVE i < k <=> l[i].first < index
  <2>1. CASE i < k  BY <1>2, <1>3, <2>1
  <2>2. CASE i = k  BY <1>2, <1>3, <2>2
  <2>3. CASE k < i
    <3>1. k \in 1 .. Len(l) /\ index <= l[k].first  BY <1>1, <1>3, <2>3
    <3>2. End(l[k]) <= l[i].first  BY <1>1, <2>3, <3>1
    <3> QED  BY <1>2, <1>3, <2>3, <3>1, <3>2
  <2> QED  BY <1>3, <2>1, <2>2, <2>3
<1> QED  BY <1>3, <1>4, <1>5

-----------------------------------------------------------------------------
\* The list m is what the merge makes of l, into which it puts [f, f + n).
Merged(s, l, f, n, lo, hi, m) ==
    /\ Merge(s, f, Bytes(f, n)) = [s EXCEPT !.lists = m, !.bytes_pending = TotalSize(m)]
    /\ Ordered(m) /\ Within(m, lo, hi)
    /\ Held(m) = Held(l) \union {x \in Nat : f <= x /\ x < f + n}

(***************************************************************************)
(* Lines 33-61: the merge keeps the list ordered and within its bounds,    *)
(* holds what was held and the new substring, each index once, and counts  *)
(* the bytes.                                                              *)
(***************************************************************************)
LEMMA MergeAddsSubstring ==
    ASSUME NEW l, Ordered(l), NEW lo \in Nat, NEW hi \in Nat, Within(l, lo, hi),
           NEW f \in Nat, NEW n \in Nat, lo <= f, f + n <= hi,
           NEW s, s.lists = l, s.bytes_pending = TotalSize(l)
    PROVE  \E m : Merged(s, l, f, n, lo, hi, m)
<1> DEFINE K      == Len(l)
           to     == f + n
           left   == EndingAfter(l, f)
           right  == StartingFrom(l, to)
           before == IF left <= K /\ f > l[left].first
                     THEN SubSeq(l[left].data, 1, f - l[left].first) ELSE << >>
           from   == f - Len(before)
           after  == IF right > 1 /\ to < End(l[right - 1])
                     THEN SubSeq(l[right - 1].data, to - l[right - 1].first + 1,
                                 Size(l[right - 1]))
                     ELSE << >>
           upto   == to + Len(after)
           whole  == [first |-> from, data |-> before \o Bytes(f, n) \o after]
<1>1. /\ l \in Seq(Pieces) /\ K \in Nat
      /\ \A i, j \in 1 .. K : i < j => End(l[i]) <= l[j].first
  BY DEF Ordered
<1>2. /\ to \in Nat /\ f <= to /\ to <= hi
      /\ Bytes(f, n) \in Seq(Nat) /\ Len(Bytes(f, n)) = n
  BY BytesAre
<1>3. \A i \in 1 .. K : /\ l[i] \in Pieces /\ l[i].first \in Nat /\ Size(l[i]) \in Nat \ {0}
                        /\ End(l[i]) \in Nat /\ End(l[i]) = l[i].first + Size(l[i])
                        /\ l[i].data = Bytes(l[i].first, Size(l[i]))
                        /\ lo <= l[i].first /\ End(l[i]) <= hi
  <2>1. \A i \in 1 .. K : l[i] \in Pieces
    BY <1>1, ElementOfSeq
  <2>2. \A i \in 1 .. K : lo <= l[i].first /\ End(l[i]) <= hi
    BY DEF Within
  <2> QED  BY <2>1, <2>2, PieceFields
<1>4. /\ left \in 1 .. K + 1
      /\ \A i \in 1 .. K : i < left <=> End(l[i]) <= f
  BY EndingAfterIs
<1>5. /\ right \in 1 .. K + 1
      /\ \A i \in 1 .. K : i < right <=> l[i].first < to
  BY <1>2, StartingFromIs
<1>6. Merge(s, f, Bytes(f, n)) =
          [s EXCEPT !.lists = SubSeq(l, 1, left - 1)
                              \o (IF whole.data = << >> THEN << >> ELSE <<whole>>)
                              \o SubSeq(l, right, K),
                    !.bytes_pending = TotalSize(l)
                              - TotalSize(SubSeq(l, left, right - 1)) + Size(whole)]
  BY <1>2 DEF Merge
<1> HIDE DEF to, left, right
\* The substring does not end before it starts, nor do the searches cross.
<1>7. left <= right
  <2>1. ASSUME right < left PROVE FALSE
    <3>1. right \in 1 .. K  BY <1>1, <1>4, <1>5, <2>1
    <3>2. End(l[right]) <= f /\ ~(l[right].first < to)
      BY <1>1, <1>4, <1>5, <2>1, <3>1
    <3> QED  BY <1>2, <1>3, <3>1, <3>2
  <2> QED  BY <1>4, <1>5, <2>1
\* What is taken from the entry in which the substring begins.
<1>8. /\ before = Bytes(from, f - from) /\ from \in Nat /\ from <= f /\ lo <= from
      /\ from < f => /\ left <= K /\ left < right /\ from = l[left].first
      /\ left <= K /\ left < right => from <= l[left].first
      /\ \A i \in 1 .. K : i < left => End(l[i]) <= from
  <2>1. CASE left <= K /\ f > l[left].first
    <3>1. left \in 1 .. K /\ ~(End(l[left]) <= f)  BY <1>1, <1>4, <2>1
    <3> DEFINE e == l[left]
    <3>2. /\ e.first \in Nat /\ Size(e) \in Nat \ {0} /\ End(e) = e.first + Size(e)
          /\ e.data = Bytes(e.first, Size(e)) /\ lo <= e.first
          /\ f > e.first /\ ~(End(e) <= f)
      BY <1>3, <2>1, <3>1
    <3>3. before = SubSeq(e.data, 1, f - e.first)
      BY <2>1
    <3> HIDE DEF e, before
    <3>4. SubSeq(Bytes(e.first, Size(e)), 1, f - e.first) = Bytes(e.first, f - e.first)
      <4>1. 1 \in 1 .. Size(e) + 1 /\ f - e.first \in 1 - 1 .. Size(e)
        BY <3>2
      <4>2. SubSeq(Bytes(e.first, Size(e)), 1, f - e.first)
               = Bytes(e.first + 1 - 1, f - e.first - 1 + 1)
        BY <3>2, <4>1, PartOfBytes
      <4>3. e.first + 1 - 1 = e.first /\ f - e.first - 1 + 1 = f - e.first
        BY <3>2
      <4> QED  BY <4>2, <4>3
    <3>5. before = Bytes(e.first, f - e.first)
      BY <3>2, <3>3, <3>4
    <3>6. Len(before) = f - e.first
      <4>1. f - e.first \in Nat  BY <3>2
      <4> QED  BY <3>2, <3>5, <4>1, BytesAre
    <3>7. from = e.first
      BY <3>2, <3>6
    <3> HIDE DEF from
    <3>8. left < right
      <4>1. l[left].first < to  BY <1>2, <3>2 DEF e
      <4> QED  BY <1>5, <3>1, <4>1
    <3>9. \A i \in 1 .. K : i < left => End(l[i]) <= l[left].first
      BY <1>1, <3>1
    <3> QED  BY <2>1, <3>2, <3>5, <3>7, <3>8, <3>9 DEF e
  <2>2. CASE ~(left <= K /\ f > l[left].first)
    <3>1. before = << >>  BY <2>2
    <3> HIDE DEF before
    <3>2. from = f
      <4>1. Len(before) = 0  BY <3>1, EmptySeq
      <4> QED  BY <4>1
    <3> HIDE DEF from
    <3>3. before = Bytes(f, 0) /\ f - f = 0  BY <3>1, NoBytes
    <3>4. left <= K => f <= l[left].first
      BY <1>1, <1>3, <1>4, <2>2
    <3> QED  BY <1>4, <3>2, <3>3, <3>4
  <2> QED  BY <2>1, <2>2
\* What is taken from the entry in which the substring ends.
<1>9. /\ after = Bytes(to, upto - to) /\ upto \in Nat /\ to <= upto /\ upto <= hi
      /\ to < upto => /\ left < right /\ upto = End(l[right - 1])
      /\ left < right => End(l[right - 1]) <= upto
      /\ \A i \in 1 .. K : ~(i < right) => upto <= l[i].first
  <2>1. CASE right > 1 /\ to < End(l[right - 1])
    <3>1. right - 1 \in 1 .. K /\ right - 1 < right  BY <1>5, <2>1
    <3> DEFINE e == l[right - 1]
    <3>2. /\ e.first \in Nat /\ Size(e) \in Nat \ {0} /\ End(e) = e.first + Size(e)
          /\ e.data = Bytes(e.first, Size(e)) /\ End(e) <= hi /\ End(e) \in Nat
          /\ to < End(e) /\ e.first < to
      BY <1>3, <1>5, <2>1, <3>1
    <3>3. after = SubSeq(e.data, to - e.first + 1, Size(e))
      BY <2>1
    <3> HIDE DEF e, after
    <3>4. SubSeq(Bytes(e.first, Size(e)), to - e.first + 1, Size(e)) = Bytes(to, End(e) - to)
      <4>1. /\ to - e.first + 1 \in 1 .. Size(e) + 1
            /\ Size(e) \in (to - e.first + 1) - 1 .. Size(e)
        BY <1>2, <3>2
      <4>2. SubSeq(Bytes(e.first, Size(e)), to - e.first + 1, Size(e))
               = Bytes(e.first + (to - e.first + 1) - 1, Size(e) - (to - e.first + 1) + 1)
        BY <3>2, <4>1, PartOfBytes
      <4>3. /\ e.first + (to - e.first + 1) - 1 = to
            /\ Size(e) - (to - e.first + 1) + 1 = End(e) - to
        BY <1>2, <3>2
      <4> QED  BY <4>2, <4>3
    <3>5. after = Bytes(to, End(e) - to)
      BY <3>2, <3>3, <3>4
    <3>6. Len(after) = End(e) - to
      <4>1. End(e) - to \in Nat  BY <1>2, <3>2
      <4> QED  BY <1>2, <3>5, <4>1, BytesAre
    <3>7. upto = End(e)
      BY <1>2, <3>2, <3>6
    <3> HIDE DEF upto
    <3>8. left < right
      <4>1. ~(End(l[right - 1]) <= f)  BY <1>2, <3>2 DEF e
      <4>2. ~(right - 1 < left)  BY <1>4, <3>1, <4>1
      <4> QED  BY <1>4, <1>5, <4>2
    <3>9. \A i \in 1 .. K : ~(i < right) => End(l[right - 1]) <= l[i].first
      BY <1>1, <1>5, <3>1
    <3>10. upto = End(l[right - 1]) /\ upto \in Nat  BY <3>2, <3>7 DEF e
    <3>11. after = Bytes(to, upto - to) /\ to <= upto /\ upto <= hi
      BY <1>2, <3>2, <3>5, <3>7
    <3> QED  BY <3>8, <3>9, <3>10, <3>11
  <2>2. CASE ~(right > 1 /\ to < End(l[right - 1]))
    <3>1. after = << >>  BY <2>2
    <3> HIDE DEF after
    <3>2. upto = to
      <4>1. Len(after) = 0  BY <3>1, EmptySeq
      <4> QED  BY <1>2, <4>1
    <3> HIDE DEF upto
    <3>3. after = Bytes(to, 0) /\ to - to = 0  BY <1>2, <3>1, NoBytes
    <3>4. left < right => End(l[right - 1]) <= to
      <4> SUFFICES ASSUME left < right PROVE End(l[right - 1]) <= to
        OBVIOUS
      <4>1. right > 1 /\ right - 1 \in 1 .. K  BY <1>4, <1>5
      <4> QED  BY <1>2, <1>3, <2>2, <4>1
    <3>5. \A i \in 1 .. K : ~(i < right) => to <= l[i].first
      BY <1>2, <1>3, <1>5
    <3> QED  BY <1>2, <3>2, <3>3, <3>4, <3>5
  <2> QED  BY <2>1, <2>2
<1>10. whole.data = Bytes(from, upto - from) /\ Size(whole) = upto - from
  <2>3. whole.data = before \o Bytes(f, n) \o after
    OBVIOUS
  <2> HIDE DEF whole, before, after, from, upto
  <2>1. before \o Bytes(f, n) = Bytes(from, to - from)
    <3> DEFINE p == f - from
    <3>1. p \in Nat /\ from + p = f /\ p + n = to - from
      BY <1>8 DEF to
    <3>2. from \in Nat /\ n \in Nat /\ before = Bytes(from, p)
      BY <1>8
    <3> HIDE DEF p
    <3>3. Bytes(from, p) \o Bytes(from + p, n) = Bytes(from, p + n)
      BY ONLY <3>1, <3>2, JoinedBytes, ZenonT(60)
    <3> QED  BY ONLY <3>1, <3>2, <3>3
  <2>2. Bytes(from, to - from) \o after = Bytes(from, upto - from)
    <3>1. /\ to - from \in Nat /\ upto - to \in Nat /\ from + (to - from) = to
          /\ (to - from) + (upto - to) = upto - from
      BY <1>2, <1>8, <1>9
    <3>2. Bytes(from, to - from) \o Bytes(from + (to - from), upto - to)
              = Bytes(from, (to - from) + (upto - to))
      <4>1. from \in Nat  BY <1>8
      <4>2. to - from \in Nat /\ upto - to \in Nat  BY <3>1
      <4> QED  BY ONLY <4>1, <4>2, JoinedBytes
    <3> QED  BY <1>9, <3>1, <3>2
  <2>4. whole.data = Bytes(from, upto - from)
    BY <2>1, <2>2, <2>3
  <2>5. upto - from \in Nat
    BY <1>2, <1>8, <1>9
  <2> QED  BY <1>8, <2>4, <2>5, BytesAre DEF Size
<1>11. whole = [first |-> from, data |-> Bytes(from, upto - from)]
  BY <1>10
<1> HIDE DEF before, from, after, upto, whole
<1> DEFINE A == SubSeq(l, 1, left - 1)
           M == SubSeq(l, left, right - 1)
           B == SubSeq(l, right, K)
           W == IF upto = from THEN << >> ELSE <<whole>>
           m == A \o W \o B
\* The entries before those that are absorbed, these, and the ones after them.
<1>12. /\ Ordered(A) /\ Len(A) = left - 1
       /\ \A i \in 1 .. left - 1 : A[i] = l[i]
  <2>1. 1 \in 1 .. K + 1 /\ left - 1 \in 1 - 1 .. K  BY <1>1, <1>4
  <2>2. /\ Ordered(A) /\ Len(A) = left - 1 - 1 + 1
        /\ \A i \in 1 .. left - 1 - 1 + 1 : A[i] = l[1 + i - 1]
    BY <2>1, PartHeld
  <2> HIDE DEF A
  <2>3. left - 1 - 1 + 1 = left - 1 /\ \A i \in 1 .. left - 1 : 1 + i - 1 = i
    BY <1>4
  <2> QED  BY <2>2, <2>3
<1>13. /\ Ordered(M) /\ Len(M) = right - left
       /\ \A i \in 1 .. right - left : M[i] = l[left + i - 1]
  <2>1. left \in 1 .. K + 1 /\ right - 1 \in left - 1 .. K  BY <1>1, <1>4, <1>5, <1>7
  <2>2. right - 1 - left + 1 = right - left  BY <1>4, <1>5
  <2>3. /\ Ordered(M) /\ Len(M) = right - 1 - left + 1
        /\ \A i \in 1 .. right - 1 - left + 1 : M[i] = l[left + i - 1]
    BY <2>1, PartHeld
  <2> QED  BY <2>2, <2>3
<1>14. /\ Ordered(B) /\ Len(B) = K - right + 1
       /\ \A i \in 1 .. K - right + 1 : B[i] = l[right + i - 1]
  <2>1. right \in 1 .. K + 1 /\ K \in right - 1 .. K  BY <1>1, <1>5
  <2> QED  BY <2>1, PartHeld
<1>15. l = (A \o M) \o B
  <2>1. A \o M = SubSeq(l, 1, right - 1)
    <3>1. /\ 1 \in 1 .. K + 1 /\ left - 1 \in 1 - 1 .. K /\ right - 1 \in left - 1 .. K
          /\ left - 1 + 1 = left
      BY <1>1, <1>4, <1>5, <1>7
    <3>2. SubSeq(l, 1, left - 1) \o SubSeq(l, left - 1 + 1, right - 1)
              = SubSeq(l, 1, right - 1)
      BY <1>1, <3>1, ConcatAdjacentSubSeq
    <3> QED  BY <3>1, <3>2
  <2>2. SubSeq(l, 1, right - 1) \o B = SubSeq(l, 1, K)
    <3>1. /\ 1 \in 1 .. K + 1 /\ right - 1 \in 1 - 1 .. K /\ K \in right - 1 .. K
          /\ right - 1 + 1 = right
      BY <1>1, <1>5
    <3>2. SubSeq(l, 1, right - 1) \o SubSeq(l, right - 1 + 1, K) = SubSeq(l, 1, K)
      BY <1>1, <3>1, ConcatAdjacentSubSeq
    <3> QED  BY <3>1, <3>2
  <2>3. SubSeq(l, 1, K) = l
    BY <1>1, SubSeqFull
  <2> QED  BY <2>1, <2>2, <2>3
<1> HIDE DEF A, M, B
\* The new entry, if there is any.
<1>16. /\ Ordered(W) /\ Within(W, lo, hi) /\ TotalSize(W) = Size(whole)
       /\ Held(W) = {x \in Nat : from <= x /\ x < upto}
       /\ \A i \in 1 .. Len(W) : W[i].first = from /\ End(W[i]) = upto
  <2>1. CASE upto = from
    <3>1. W = << >> /\ Len(W) = 0  BY <2>1, EmptySeq
    <3>2. Size(whole) = 0  BY <1>8, <1>10, <2>1
    <3>3. {x \in Nat : from <= x /\ x < upto} = {}  BY <1>8, <2>1
    <3> QED  BY <3>1, <3>2, <3>3, NothingHeld, SizeOfNothing
  <2>2. CASE upto # from
    <3>1. W = <<whole>>  BY <2>2
    <3>2. upto - from \in Nat \ {0} /\ from + (upto - from) = upto
      BY <1>2, <1>8, <1>9, <2>2
    <3>3. whole \in Pieces /\ End(whole) = upto /\ whole.first = from
      BY <1>8, <1>11, <3>2, PieceMade
    <3>4. lo <= whole.first /\ End(whole) <= hi
      BY <1>8, <1>9, <3>3
    <3> HIDE DEF W
    <3> QED  BY <3>1, <3>3, <3>4, OneHeld, SizeOfOne
  <2> QED  BY <2>1, <2>2
<1> HIDE DEF W
\* Everything absorbed lies within the new entry.
<1>17. Held(M) \subseteq {x \in Nat : from <= x /\ x < upto}
  <2> SUFFICES ASSUME NEW x \in Held(M) PROVE from <= x /\ x < upto
    BY DEF Held
  <2>1. PICK i \in 1 .. right - left : M[i].first <= x /\ x < End(M[i])
    BY <1>13 DEF Held
  <2> DEFINE j == left + i - 1
  <2>2. /\ j \in 1 .. K /\ left \in 1 .. K /\ right - 1 \in 1 .. K
        /\ left <= j /\ j <= right - 1 /\ left < right
    BY <1>1, <1>4, <1>5
  <2>3. l[j].first <= x /\ x < End(l[j])
    BY <1>13, <2>1
  <2>4. x \in Nat  BY DEF Held
  <2> HIDE DEF j
  <2>5. from <= x
    <3>1. CASE j = left
      <4>1. from <= l[j].first /\ from \in Nat /\ l[j].first \in Nat
        BY <1>3, <1>8, <2>2, <3>1
      <4> QED  BY ONLY <2>3, <2>4, <4>1
    <3>2. CASE j # left
      <4>1. End(l[left]) <= l[j].first
        <5>1. left \in 1 .. K /\ j \in 1 .. K /\ left < j
          BY <1>1, <1>4, <2>2, <3>2
        <5> QED  BY ONLY <1>1, <5>1
      <4>2. from <= l[left].first /\ from \in Nat  BY <1>8, <2>2
      <4>3. l[left].first < End(l[left])
        <5>1. l[left] \in Pieces  BY <1>3, <2>2
        <5> QED  BY ONLY <5>1, PieceFields
      <4>4. l[left].first \in Nat /\ End(l[left]) \in Nat /\ l[j].first \in Nat  BY <1>3, <2>2
      <4> QED  BY ONLY <2>3, <2>4, <4>1, <4>2, <4>3, <4>4
    <3> QED  BY <3>1, <3>2
  <2>6. x < upto
    <3>1. CASE j = right - 1
      BY <1>3, <1>9, <2>2, <2>3, <2>4, <3>1
    <3>2. CASE j # right - 1
      <4>1. End(l[j]) <= l[right - 1].first  BY <1>1, <2>2, <3>2
      <4>2. l[right - 1].first < to  BY <1>5, <2>2
      <4>3. l[right - 1].first \in Nat /\ End(l[j]) \in Nat  BY <1>3, <2>2
      <4>4. to \in Nat /\ upto \in Nat /\ to <= upto  BY <1>2, <1>9
      <4> QED  BY ONLY <2>3, <2>4, <4>1, <4>2, <4>3, <4>4
    <3> QED  BY <3>1, <3>2
  <2> QED  BY <2>5, <2>6
\* The new entry holds the substring and what was absorbed, and nothing else.
<1>18. Held(W) = Held(M) \union {x \in Nat : f <= x /\ x < f + n}
  <2>1. ASSUME NEW x \in Nat, from <= x, x < f PROVE x \in Held(M)
    <3>1. from < f  BY <1>8, <2>1
    <3>2. left \in 1 .. K /\ left < right /\ from = l[left].first /\ ~(End(l[left]) <= f)
      BY <1>1, <1>4, <1>8, <3>1
    <3>3. 1 \in 1 .. right - left /\ left + 1 - 1 = left  BY <1>4, <1>5, <3>2
    <3>4. M[1] = l[left]  BY <1>13, <3>3
    <3>5. M[1].first <= x /\ x < End(M[1])
      BY <1>3, <2>1, <3>2, <3>4
    <3> QED  BY <1>13, <3>3, <3>5 DEF Held
  <2>2. ASSUME NEW x \in Nat, to <= x, x < upto PROVE x \in Held(M)
    <3>1. to < upto  BY <1>2, <1>9, <2>2
    <3>2. /\ left < right /\ upto = End(l[right - 1]) /\ right - 1 \in 1 .. K
          /\ l[right - 1].first < to
      BY <1>1, <1>4, <1>5, <1>9, <3>1
    <3>3. right - left \in 1 .. right - left /\ left + (right - left) - 1 = right - 1
      BY <1>4, <1>5, <3>2
    <3>4. M[right - left] = l[right - 1]  BY <1>13, <3>3
    <3>5. M[right - left].first <= x /\ x < End(M[right - left])
      BY <1>2, <1>3, <2>2, <3>2, <3>4
    <3> QED  BY <1>13, <3>3, <3>5 DEF Held
  <2>3. ASSUME NEW x \in Nat, from <= x, x < upto
        PROVE  x \in Held(M) \/ (f <= x /\ x < f + n)
    <3>1. x < f \/ to <= x \/ (f <= x /\ x < f + n)  BY <1>2 DEF to
    <3> QED  BY <2>1, <2>2, <2>3, <3>1
  <2>4. ASSUME NEW x \in Nat, f <= x, x < f + n PROVE from <= x /\ x < upto
    BY <1>2, <1>8, <1>9, <2>4 DEF to
  <2> QED  BY <1>16, <1>17, <2>3, <2>4
<1>19. /\ Ordered(A \o W) /\ Held(A \o W) = Held(A) \union Held(W)
       /\ Within(A \o W, lo, hi) <=> Within(A, lo, hi)
  <2>1. ASSUME NEW i \in 1 .. Len(A), NEW j \in 1 .. Len(W)
        PROVE  End(A[i]) <= W[j].first
    <3>1. i \in 1 .. K /\ i < left /\ A[i] = l[i]  BY <1>1, <1>4, <1>12
    <3> QED  BY <1>8, <1>16, <3>1
  <2> QED  BY <1>12, <1>16, <2>1, JoinedHeld
<1>20. /\ Ordered(m) /\ Held(m) = Held(A \o W) \union Held(B)
       /\ Within(m, lo, hi) <=> Within(A \o W, lo, hi) /\ Within(B, lo, hi)
  <2>1. ASSUME NEW i \in 1 .. Len(A \o W), NEW j \in 1 .. Len(B)
        PROVE  End((A \o W)[i]) <= B[j].first
    <3> DEFINE k == right + j - 1
    <3>1. k \in 1 .. K /\ ~(k < right) /\ B[j] = l[k]
      <4>1. /\ K \in Nat /\ right \in 1 .. K + 1 /\ j \in 1 .. K - right + 1
            /\ B[j] = l[right + j - 1]
        BY <1>1, <1>5, <1>14
      <4> QED  BY ONLY <4>1, SMTT(30) DEF k
    <3> HIDE DEF k
    <3>2. upto <= l[k].first  BY <1>9, <3>1
    <3>3. CASE i <= Len(A)
      <4>1. i \in 1 .. K /\ i < left /\ A[i] = l[i] /\ (A \o W)[i] = A[i]
        <5>1. i \in 1 .. left - 1  BY <1>4, <1>12, <3>3
        <5>2. (A \o W)[i] = A[i]
          BY <1>12, <1>16, <3>3, ConcatProperties DEF Ordered
        <5> QED  BY <1>1, <1>4, <1>12, <5>1, <5>2
      <4>2. i < k  BY <1>1, <1>4, <1>5, <1>7, <3>1, <4>1
      <4> QED  BY <1>1, <3>1, <4>1, <4>2
    <3>4. CASE ~(i <= Len(A))
      <4>1. /\ Len(A \o W) = Len(A) + Len(W) /\ (A \o W)[i] = W[i - Len(A)]
            /\ Len(A) \in Nat /\ Len(W) \in Nat
        <5>1. A \in Seq(Pieces) /\ W \in Seq(Pieces)
          BY <1>12, <1>16 DEF Ordered
        <5>2. /\ Len(A \o W) = Len(A) + Len(W) /\ Len(A) \in Nat /\ Len(W) \in Nat
              /\ \A k0 \in 1 .. Len(A) + Len(W) :
                    (A \o W)[k0] = IF k0 <= Len(A) THEN A[k0] ELSE W[k0 - Len(A)]
          BY ONLY <5>1, ConcatProperties
        <5> QED  BY <3>4, <5>2
      <4>2. i - Len(A) \in 1 .. Len(W)  BY <3>4, <4>1
      <4> QED  BY <1>16, <3>1, <3>2, <4>1, <4>2
    <3> QED  BY <3>3, <3>4
  <2> QED  BY <1>14, <1>19, <2>1, JoinedHeld
<1>21. /\ Held(l) = (Held(A) \union Held(M)) \union Held(B)
       /\ Within(A, lo, hi) /\ Within(B, lo, hi)
       /\ TotalSize(l) = (TotalSize(A) + TotalSize(M)) + TotalSize(B)
  <2>1. Ordered(A \o M)
    <3>1. ASSUME NEW i \in 1 .. Len(A), NEW j \in 1 .. Len(M)
          PROVE  End(A[i]) <= M[j].first
      <4>1. /\ i \in 1 .. K /\ A[i] = l[i] /\ left + j - 1 \in 1 .. K
            /\ M[j] = l[left + j - 1] /\ i < left + j - 1
        BY <1>1, <1>4, <1>5, <1>12, <1>13
      <4> QED  BY <1>1, <4>1
    <3> QED  BY <1>12, <1>13, <3>1, JoinedHeld
  <2>2. /\ Held(A \o M) = Held(A) \union Held(M)
        /\ Within(A \o M, lo, hi) <=> Within(A, lo, hi) /\ Within(M, lo, hi)
    BY <1>12, <1>13, JoinedHeld
  <2>3. /\ Held((A \o M) \o B) = Held(A \o M) \union Held(B)
        /\ Within((A \o M) \o B, lo, hi) <=> Within(A \o M, lo, hi) /\ Within(B, lo, hi)
    BY <1>14, <2>1, JoinedHeld
  <2>4. /\ A \in Seq(Pieces) /\ M \in Seq(Pieces) /\ B \in Seq(Pieces)
        /\ A \o M \in Seq(Pieces)
    BY <1>12, <1>13, <1>14, <2>1 DEF Ordered
  <2>5. TotalSize((A \o M) \o B) = (TotalSize(A) + TotalSize(M)) + TotalSize(B)
    BY <2>4, SizeOfJoined
  <2> QED  BY <1>15, <2>2, <2>3, <2>5
<1>22. TotalSize(m) = TotalSize(l) - TotalSize(M) + Size(whole)
  <2>1. /\ A \in Seq(Pieces) /\ M \in Seq(Pieces) /\ B \in Seq(Pieces) /\ W \in Seq(Pieces)
        /\ A \o W \in Seq(Pieces)
    BY <1>12, <1>13, <1>14, <1>16, <1>19 DEF Ordered
  <2>2. TotalSize(m) = (TotalSize(A) + TotalSize(W)) + TotalSize(B)
    BY <2>1, SizeOfJoined
  <2>3. /\ TotalSize(A) \in Nat /\ TotalSize(M) \in Nat /\ TotalSize(B) \in Nat
        /\ TotalSize(W) \in Nat
    BY <2>1, TotalSizeType
  <2> HIDE DEF m
  <2> QED  BY <1>16, <1>21, <2>2, <2>3
<1>23. (IF whole.data = << >> THEN << >> ELSE <<whole>>) = W
  <2>1. whole.data = << >> <=> upto = from
    <3>1. upto - from \in Nat /\ whole.data = Bytes(from, upto - from)
      BY <1>2, <1>8, <1>9, <1>10
    <3>2. Len(whole.data) = upto - from  BY <1>8, <3>1, BytesAre
    <3>3. upto - from = 0 => whole.data = << >>  BY <1>8, <3>1, NoBytes
    <3>4. whole.data = << >> => Len(whole.data) = 0  BY EmptySeq
    <3> QED  BY <1>2, <1>8, <1>9, <3>2, <3>3, <3>4
  <2> QED  BY <2>1 DEF W
<1>24. Merge(s, f, Bytes(f, n)) = [s EXCEPT !.lists = m, !.bytes_pending = TotalSize(m)]
  BY <1>6, <1>22, <1>23 DEF A, B, M
<1>25. /\ Within(m, lo, hi)
       /\ Held(m) = Held(l) \union {x \in Nat : f <= x /\ x < f + n}
  BY <1>18, <1>19, <1>20, <1>21
<1> HIDE DEF m
<1>26. Merged(s, l, f, n, lo, hi, m)
  BY <1>20, <1>24, <1>25 DEF Merged
<1> QED  BY <1>26

-----------------------------------------------------------------------------
(***************************************************************************)
(* What the loop at lines 64-70 keeps: the output has what was expected    *)
(* before, the list lies between what is expected and both the room of the *)
(* output and the end of the stream, and the output is closed only then.   *)
(***************************************************************************)
Reassemblers ==
    [output : ByteStreams, lists : Seq(Pieces), bytes_pending : Nat, expecting : Nat,
     terminate : Nat, closed : BOOLEAN, written : Seq(Nat), threw : BOOLEAN]

LoopInv(s) ==
    /\ s \in Reassemblers
    /\ StreamInv(s.output) /\ s.output.capacity = Capacity
    /\ s.written = Bytes(0, s.expecting)
    /\ s.output.pushed = s.expecting /\ s.expecting <= StreamLength
    /\ Ordered(s.lists)
    /\ Within(s.lists, s.expecting, s.expecting + AvailableCapacity(s.output))
    /\ Within(s.lists, s.expecting, StreamLength)
    /\ s.bytes_pending = TotalSize(s.lists)
    /\ s.closed => s.terminate = StreamLength
    /\ s.output.closed => s.closed /\ s.expecting = StreamLength

\* What the loop leaves alone, and which indexes it takes from the list.
Delivers(s, t) ==
    /\ t.closed = s.closed /\ t.terminate = s.terminate /\ t.threw = s.threw
    /\ t.output.popped = s.output.popped /\ t.output.closed = s.output.closed
    /\ t.output.capacity = s.output.capacity
    /\ s.expecting <= t.expecting
    /\ Held(s.lists) = Held(t.lists) \union {x \in Nat : s.expecting <= x /\ x < t.expecting}

LEMMA RoomOfStream ==
    ASSUME NEW b, StreamInv(b)
    PROVE  /\ AvailableCapacity(b) \in Nat /\ b.pushed \in Nat /\ b.popped \in Nat
           /\ b.capacity \in Nat /\ b.closed \in BOOLEAN /\ b.buffered \in Nat
           /\ b.pushed = b.popped + b.buffered
           /\ b.pushed + AvailableCapacity(b) = b.popped + b.capacity
           /\ AvailableCapacity(b) = b.capacity - (b.pushed - b.popped)
<1>1. b \in ByteStreams /\ Accounting(b)
  BY DEF StreamInv
<1> QED  BY <1>1 DEF ByteStreams, Accounting, AvailableCapacity

LEMMA FrontIsWritten ==
    ASSUME NEW s, LoopInv(s), FrontIsDue(s)
    PROVE  /\ LoopInv(WriteFront(s)) /\ Delivers(s, WriteFront(s))
           /\ Len(WriteFront(s).lists) = Len(s.lists) - 1
<1> DEFINE e == Head(s.lists)
           k == Size(e)
           hi == s.expecting + AvailableCapacity(s.output)
           out == Push(s.output, k)
           t == WriteFront(s)
           l == Tail(s.lists)
<1>1. /\ s \in Reassemblers /\ s.lists \in Seq(Pieces) /\ s.lists # << >>
      /\ s.expecting \in Nat /\ e.first = s.expecting /\ s.bytes_pending \in Nat
      /\ s.terminate \in Nat /\ s.closed \in BOOLEAN /\ s.threw \in BOOLEAN
      /\ s.written = Bytes(0, s.expecting)
  BY DEF LoopInv, Reassemblers, FrontIsDue
<1>2. /\ Len(s.lists) \in Nat \ {0} /\ e = s.lists[1] /\ e \in Pieces
  BY <1>1
<1>3. /\ k \in Nat \ {0} /\ End(e) = s.expecting + k
      /\ e.data = Bytes(s.expecting, k)
  BY <1>1, <1>2, PieceFields
<1>4. End(e) <= hi /\ End(e) <= StreamLength
  <2>1. 1 \in 1 .. Len(s.lists)  BY <1>2
  <2> QED  BY <1>2, <2>1 DEF LoopInv, Within
<1>5. /\ StreamInv(s.output) /\ s.output.pushed = s.expecting
      /\ s.output.capacity = Capacity
  BY DEF LoopInv
<1>6. AvailableCapacity(s.output) \in Nat /\ StreamLength \in Nat /\ hi \in Nat
  BY <1>1, <1>5, RoomOfStream, LengthAssumption
<1>7. ~s.output.closed /\ Lesser(k, AvailableCapacity(s.output)) = k
  <2>1. s.expecting # StreamLength  BY <1>1, <1>3, <1>4, <1>6
  <2>2. k <= AvailableCapacity(s.output)  BY <1>1, <1>3, <1>4, <1>6
  <2> QED  BY <2>1, <2>2 DEF LoopInv, Lesser
<1>8. /\ StreamInv(out) /\ out.popped = s.output.popped /\ out.closed = s.output.closed
      /\ out.capacity = s.output.capacity /\ out.pushed = s.expecting + k
  BY <1>3, <1>5, <1>7, PushInv
<1>9. /\ t = [s EXCEPT !.bytes_pending = s.bytes_pending - k,
                       !.expecting = s.expecting + k,
                       !.written = s.written \o SubSeq(e.data, 1, k),
                       !.output = out,
                       !.lists = l]
  <2>1. out.pushed - s.output.pushed = k  BY <1>1, <1>3, <1>5, <1>8
  <2> QED  BY ONLY <2>1, ZenonT(60) DEF WriteFront, t, out, l, k, e
<1>10. s.expecting + k + AvailableCapacity(out) = hi
  BY <1>1, <1>3, <1>5, <1>8, RoomOfStream
<1>11. s.written \o SubSeq(e.data, 1, k) = Bytes(0, s.expecting + k)
  <2>1. SubSeq(e.data, 1, k) = Bytes(s.expecting, k)
    <3>1. Bytes(s.expecting, k) \in Seq(Nat) /\ Len(Bytes(s.expecting, k)) = k
      BY <1>1, <1>3, BytesAre
    <3> QED  BY <1>3, <3>1, SubSeqFull
  <2>2. 0 + s.expecting = s.expecting  BY <1>1
  <2>3. Bytes(0, s.expecting) \o Bytes(0 + s.expecting, k) = Bytes(0, s.expecting + k)
    <3>1. 0 \in Nat /\ s.expecting \in Nat /\ k \in Nat  BY <1>1, <1>3
    <3> QED  BY ONLY <3>1, JoinedBytes
  <2> QED  BY <1>1, <2>1, <2>2, <2>3
<1> HIDE DEF out
<1>12. /\ Ordered(l) /\ Len(l) = Len(s.lists) - 1
       /\ \A i \in 1 .. Len(l) : l[i] = s.lists[i + 1]
  <2>1. 2 \in 1 .. Len(s.lists) + 1 /\ Len(s.lists) \in 2 - 1 .. Len(s.lists)
    BY <1>2
  <2>2. Ordered(s.lists)  BY DEF LoopInv
  <2>3. l = SubSeq(s.lists, 2, Len(s.lists))
    BY <1>1, TailIsSubSeq
  <2> HIDE DEF l
  <2>4. /\ Ordered(l) /\ Len(l) = Len(s.lists) - 2 + 1
        /\ \A i \in 1 .. Len(s.lists) - 2 + 1 : l[i] = s.lists[2 + i - 1]
    BY ONLY <2>1, <2>2, <2>3, PartHeld
  <2>5. Len(s.lists) - 2 + 1 = Len(s.lists) - 1  BY <1>2
  <2>6. \A i \in 1 .. Len(l) : 2 + i - 1 = i + 1  BY <1>2, <2>4
  <2> QED  BY <2>4, <2>5, <2>6
<1>13. s.lists = <<e>> \o l
  BY <1>1
<1>14. /\ Held(s.lists) = Held(<<e>>) \union Held(l)
       /\ TotalSize(s.lists) = k + TotalSize(l) /\ TotalSize(l) \in Nat
  <2>1. Ordered(<<e>>) /\ TotalSize(<<e>>) = k
    BY <1>2, OneHeld, SizeOfOne, 0 \in Nat
  <2> HIDE DEF l, e
  <2>2. <<e>> \in Seq(Pieces) /\ l \in Seq(Pieces)
    BY <1>12, <2>1 DEF Ordered
  <2> QED  BY <1>12, <1>13, <2>1, <2>2, JoinedHeld, SizeOfJoined, TotalSizeType
<1>15. Held(<<e>>) = {x \in Nat : s.expecting <= x /\ x < s.expecting + k}
  BY <1>1, <1>2, <1>3, OneHeld, 0 \in Nat
<1>16. ASSUME NEW lim \in Nat, Within(s.lists, s.expecting, lim)
       PROVE  Within(l, s.expecting + k, lim)
  <2> SUFFICES ASSUME NEW i \in 1 .. Len(l)
               PROVE  s.expecting + k <= l[i].first /\ End(l[i]) <= lim
    BY DEF Within
  <2>1. i + 1 \in 1 .. Len(s.lists) /\ 1 \in 1 .. Len(s.lists) /\ 1 < i + 1
    BY <1>2, <1>12
  <2>2. End(s.lists[1]) <= s.lists[i + 1].first
    BY <2>1 DEF LoopInv, Ordered
  <2>3. End(s.lists[i + 1]) <= lim
    BY <1>16, <2>1 DEF Within
  <2> QED  BY <1>2, <1>3, <1>12, <2>2, <2>3
<1> HIDE DEF l, e, k
<1>17. /\ t.output = out /\ t.lists = l /\ t.bytes_pending = s.bytes_pending - k
       /\ t.expecting = s.expecting + k /\ t.written = Bytes(0, s.expecting + k)
       /\ t.terminate = s.terminate /\ t.closed = s.closed /\ t.threw = s.threw
  BY <1>1, <1>9, <1>11 DEF Reassemblers
<1>18. t \in Reassemblers
  <2>1. out \in ByteStreams  BY <1>8 DEF StreamInv
  <2>2. l \in Seq(Pieces)  BY <1>12 DEF Ordered
  <2>3. s.bytes_pending - k = TotalSize(l)  BY <1>3, <1>14 DEF LoopInv
  <2>4. s.expecting + k \in Nat  BY <1>1, <1>3
  <2>5. Bytes(0, s.expecting + k) \in Seq(Nat)  BY <2>4, BytesAre
  <2>6. t = [s EXCEPT !.bytes_pending = TotalSize(l), !.expecting = s.expecting + k,
                      !.written = Bytes(0, s.expecting + k), !.output = out,
                      !.lists = l]
    BY <1>9, <1>11, <2>3
  <2>7. TotalSize(l) \in Nat /\ s \in Reassemblers  BY <1>1, <1>14
  <2> HIDE DEF t
  <2> QED  BY ONLY <2>1, <2>2, <2>4, <2>5, <2>6, <2>7 DEF Reassemblers
<1> HIDE DEF t
<1>19. LoopInv(t)
  <2>1. Within(l, s.expecting + k, s.expecting + k + AvailableCapacity(out))
    <3>1. Within(s.lists, s.expecting, hi)  BY DEF LoopInv
    <3> QED  BY <1>6, <1>10, <1>16, <3>1
  <2>2. Within(l, s.expecting + k, StreamLength)
    <3>1. Within(s.lists, s.expecting, StreamLength)  BY DEF LoopInv
    <3> QED  BY <1>6, <1>16, <3>1
  <2>3. s.bytes_pending - k = TotalSize(l)  BY <1>3, <1>14 DEF LoopInv
  <2>4. s.expecting + k <= StreamLength  BY <1>3, <1>4
  <2>5. s.closed => s.terminate = StreamLength  BY DEF LoopInv
  <2> QED  BY <1>5, <1>7, <1>8, <1>12, <1>17, <1>18, <2>1, <2>2, <2>3, <2>4, <2>5 DEF LoopInv
<1>20. Delivers(s, t)
  <2>1. s.expecting <= s.expecting + k  BY <1>1, <1>3
  <2> QED  BY <1>8, <1>14, <1>15, <1>17, <2>1 DEF Delivers
<1> QED  BY <1>12, <1>17, <1>19, <1>20 DEF t

-----------------------------------------------------------------------------
\* What the loop of WriteOut has made of s after each of k rounds.
Rounds(f, s, k) ==
    f = [n \in 0 .. k |-> IF n = 0 THEN s ELSE WriteIfDue(f[n - 1])]

LEMMA RoundsExist ==
    ASSUME NEW s, NEW N \in Nat
    PROVE  \E f : Rounds(f, s, N)
<1> DEFINE S == {k \in Nat : \E f : Rounds(f, s, k)}
<1>1. 0 \in S
  <2>1. Rounds([n \in 0 .. 0 |-> s], s, 0)  BY DEF Rounds
  <2> QED  BY <2>1
<1>2. ASSUME NEW k \in 1 .. N, k - 1 \in S PROVE k \in S
  <2>1. PICK f : Rounds(f, s, k - 1)  BY <1>2
  <2> DEFINE g == [n \in 0 .. k |-> IF n = 0 THEN s ELSE WriteIfDue(f[n - 1])]
  <2>2. \A n \in 0 .. k - 1 : f[n] = IF n = 0 THEN s ELSE WriteIfDue(f[n - 1])
    BY <2>1 DEF Rounds
  <2>3. \A n \in 0 .. k - 1 : g[n] = f[n]
    BY <2>2
  <2>4. \A n \in 0 .. k : g[n] = IF n = 0 THEN s ELSE WriteIfDue(g[n - 1])
    <3> SUFFICES ASSUME NEW n \in 0 .. k
                 PROVE  g[n] = IF n = 0 THEN s ELSE WriteIfDue(g[n - 1])
      OBVIOUS
    <3>1. n # 0 => n - 1 \in 0 .. k - 1  OBVIOUS
    <3> QED  BY <2>3, <3>1
  <2>5. g = [n \in 0 .. k |-> g[n]]  OBVIOUS
  <2> HIDE DEF g
  <2>6. Rounds(g, s, k)  BY <2>4, <2>5 DEF Rounds
  <2> QED  BY <2>6
<1> HIDE DEF S
<1>3. N \in S
  BY <1>1, <1>2, RoundByRound, N \in 0 .. N
<1> QED  BY <1>3 DEF S

LEMMA DeliversInTurn ==
    ASSUME NEW s, NEW t, NEW u, Delivers(s, t), Delivers(t, u),
           s.expecting \in Nat, t.expecting \in Nat, u.expecting \in Nat
    PROVE  Delivers(s, u)
<1>1. /\ Held(s.lists) = Held(t.lists)
                         \union {x \in Nat : s.expecting <= x /\ x < t.expecting}
      /\ Held(t.lists) = Held(u.lists)
                         \union {x \in Nat : t.expecting <= x /\ x < u.expecting}
      /\ s.expecting <= t.expecting /\ t.expecting <= u.expecting
  BY DEF Delivers
<1>2. {x \in Nat : s.expecting <= x /\ x < u.expecting}
        = {x \in Nat : s.expecting <= x /\ x < t.expecting}
          \union {x \in Nat : t.expecting <= x /\ x < u.expecting}
  BY <1>1
<1>3. Held(s.lists) = Held(u.lists)
                      \union {x \in Nat : s.expecting <= x /\ x < u.expecting}
  BY <1>1, <1>2
<1>4. s.expecting <= u.expecting
  BY <1>1
<1> QED  BY <1>3, <1>4 DEF Delivers

(***************************************************************************)
(* Lines 64-70: the loop keeps LoopInv, writes out only what is next, and  *)
(* ends when the front of the list, if there is one, is not.               *)
(***************************************************************************)
LEMMA LoopWritesOut ==
    ASSUME NEW s, LoopInv(s)
    PROVE  /\ LoopInv(WriteOut(s)) /\ Delivers(s, WriteOut(s))
           /\ ~FrontIsDue(WriteOut(s))
<1> DEFINE N == Len(s.lists)
           f == CHOOSE g : Rounds(g, s, N)
<1>1. s.lists \in Seq(Pieces) /\ N \in Nat /\ s.expecting \in Nat
  BY DEF LoopInv, Reassemblers
<1>2. Rounds(f, s, N)
  BY <1>1, RoundsExist
<1>3. WriteOut(s) = f[N]
  BY DEF WriteOut, Rounds
<1> HIDE DEF f, N
<1>4. f[0] = s /\ \A n \in 1 .. N : f[n] = WriteIfDue(f[n - 1])
  <2>1. \A n \in 0 .. N : f[n] = IF n = 0 THEN s ELSE WriteIfDue(f[n - 1])
    BY <1>2 DEF Rounds
  <2> QED  BY <1>1, <2>1
<1> DEFINE S == {n \in Nat : /\ LoopInv(f[n]) /\ Delivers(s, f[n])
                             /\ ~FrontIsDue(f[n]) \/ Len(f[n].lists) = N - n}
<1>5. 0 \in S
  <2>1. {x \in Nat : s.expecting <= x /\ x < s.expecting} = {}  BY <1>1
  <2>2. Delivers(s, s)  BY <1>1, <2>1 DEF Delivers
  <2> QED  BY <1>1, <1>4, <2>2 DEF N
<1>6. ASSUME NEW n \in 1 .. N, n - 1 \in S PROVE n \in S
  <2> DEFINE u == f[n - 1]
  <2>1. LoopInv(u) /\ Delivers(s, u) /\ f[n] = WriteIfDue(u) /\ n \in Nat
    BY <1>4, <1>6
  <2>2. ~FrontIsDue(u) \/ Len(u.lists) = N - (n - 1)
    BY <1>6
  <2> HIDE DEF u
  <2>3. CASE ~FrontIsDue(u)
    BY <2>1, <2>3 DEF WriteIfDue
  <2>4. CASE FrontIsDue(u)
    <3>1. f[n] = WriteFront(u)  BY <2>1, <2>4 DEF WriteIfDue
    <3>2. /\ LoopInv(f[n]) /\ Delivers(u, f[n]) /\ Len(f[n].lists) = Len(u.lists) - 1
      BY <2>1, <2>4, <3>1, FrontIsWritten
    <3>3. u.expecting \in Nat /\ f[n].expecting \in Nat
      BY <2>1, <3>2 DEF LoopInv, Reassemblers
    <3>4. Delivers(s, f[n])
      BY <1>1, <2>1, <3>2, <3>3, DeliversInTurn
    <3>5. Len(f[n].lists) = N - n  BY <1>1, <2>2, <2>4, <3>2
    <3> QED  BY <3>2, <3>4, <3>5
  <2> QED  BY <2>3, <2>4
<1> HIDE DEF S
<1>7. N \in S
  BY <1>1, <1>5, <1>6, RoundByRound, N \in 0 .. N
<1>8. LoopInv(f[N]) /\ Delivers(s, f[N]) /\ (~FrontIsDue(f[N]) \/ Len(f[N].lists) = N - N)
  BY <1>7 DEF S
<1>9. ~FrontIsDue(f[N])
  <2>1. SUFFICES ASSUME Len(f[N].lists) = 0 PROVE ~FrontIsDue(f[N])
    BY <1>1, <1>8
  <2>2. f[N].lists \in Seq(Pieces)  BY <1>8 DEF LoopInv, Reassemblers
  <2>3. f[N].lists = << >>  BY <2>1, <2>2, EmptySeq
  <2> QED  BY <2>3 DEF FrontIsDue
<1> QED  BY <1>3, <1>8, <1>9

-----------------------------------------------------------------------------
\* An ordered list lies between two indexes if what it holds does.
LEMMA HeldWithin ==
    ASSUME NEW l, Ordered(l), NEW lo \in Nat, NEW hi \in Nat
    PROVE  Within(l, lo, hi) <=> \A x \in Held(l) : lo <= x /\ x < hi
<1>1. \A i \in 1 .. Len(l) : /\ l[i].first \in Nat /\ End(l[i]) \in Nat
                             /\ l[i].first < End(l[i])
  <2> SUFFICES ASSUME NEW i \in 1 .. Len(l)
               PROVE  /\ l[i].first \in Nat /\ End(l[i]) \in Nat
                      /\ l[i].first < End(l[i])
    OBVIOUS
  <2>1. l[i] \in Pieces  BY ElementOfSeq DEF Ordered
  <2> QED  BY ONLY <2>1, PieceFields
<1>2. ASSUME Within(l, lo, hi), NEW x \in Held(l) PROVE lo <= x /\ x < hi
  <2>1. PICK i \in 1 .. Len(l) : l[i].first <= x /\ x < End(l[i])
    BY <1>2 DEF Held
  <2>2. lo <= l[i].first /\ End(l[i]) <= hi  BY <1>2 DEF Within
  <2>3. x \in Nat  BY <1>2 DEF Held
  <2> QED  BY <1>1, <2>1, <2>2, <2>3
<1>3. ASSUME \A x \in Held(l) : lo <= x /\ x < hi, NEW i \in 1 .. Len(l)
      PROVE  lo <= l[i].first /\ End(l[i]) <= hi
  <2>1. l[i].first \in Held(l)  BY <1>1 DEF Held
  <2>2. End(l[i]) - 1 \in Held(l)
    <3>1. End(l[i]) - 1 \in Nat /\ l[i].first <= End(l[i]) - 1 /\ End(l[i]) - 1 < End(l[i])
      BY <1>1
    <3> QED  BY <3>1 DEF Held
  <2>3. lo <= l[i].first  BY <1>3, <2>1
  <2>4. End(l[i]) - 1 < hi  BY <1>3, <2>2
  <2> QED  BY <1>1, <2>3, <2>4
<1> QED  BY <1>2, <1>3 DEF Within

(***************************************************************************)
(* Between two calls of insert() nothing is due, and the output is closed  *)
(* once all of the stream has been written, if its end is known.           *)
(***************************************************************************)
Settled(s) ==
    /\ LoopInv(s)
    /\ ~FrontIsDue(s)
    /\ s.closed /\ s.expecting = StreamLength /\ ~s.threw => s.output.closed

\* What the peer's segments carry, as Arrive passes it to insert().
Genuine(first, n, last) ==
    /\ first \in Nat /\ n \in Nat /\ last \in BOOLEAN
    /\ \/ first + n < StreamLength /\ ~last
       \/ first + n = StreamLength
       \/ first = StreamLength + 1 /\ n = 0 /\ ~last

\* The steps of insert(): is it ignored, what does it learn, where must it stop.
Ignored(s, first) ==
    \/ IsFinished(s.output)
    \/ AvailableCapacity(s.output) = 0
    \/ first >= s.expecting + AvailableCapacity(s.output)

Known(s, first, n, last) ==
    IF last THEN [s EXCEPT !.closed = TRUE, !.terminate = first + n] ELSE s

LimitOf(s, known) ==
    IF known.closed THEN Lesser(known.terminate, s.expecting + AvailableCapacity(s.output))
    ELSE s.expecting + AvailableCapacity(s.output)

StaleOf(s, first) == IF first < s.expecting THEN s.expecting - first ELSE 0

StartOf(s, first) == first + StaleOf(s, first)

LEMMA InsertInSteps ==
    ASSUME NEW s, NEW f, NEW bytes, NEW last, NEW n, Len(bytes) = n
    PROVE  LET known  == Known(s, f, n, last)
               limit  == LimitOf(s, known)
               start  == StartOf(s, f)
               data   == SubSeq(bytes, StaleOf(s, f) + 1, n)
               excess == start + Len(data) >= limit
           IN  Insert(s, f, bytes, last) =
                  IF Ignored(s, f) THEN s
                  ELSE IF excess /\ limit < start THEN [known EXCEPT !.threw = TRUE]
                  ELSE CloseAtEnd(WriteOut(Merge(known, start,
                           IF excess THEN SubSeq(data, 1, limit - start) ELSE data)))
BY DEF Insert, Ignored, Known, LimitOf, StartOf, StaleOf

LEMMA KnownKeeps ==
    ASSUME NEW s, LoopInv(s), NEW f, NEW n, NEW last, Genuine(f, n, last)
    PROVE  /\ LoopInv(Known(s, f, n, last))
           /\ Known(s, f, n, last) \in Reassemblers
           /\ Known(s, f, n, last).output = s.output
           /\ Known(s, f, n, last).lists = s.lists
           /\ Known(s, f, n, last).expecting = s.expecting
           /\ Known(s, f, n, last).bytes_pending = s.bytes_pending
           /\ Known(s, f, n, last).threw = s.threw
           /\ Known(s, f, n, last).closed = (s.closed \/ last)
           /\ Known(s, f, n, last).terminate = IF last THEN StreamLength ELSE s.terminate
<1> DEFINE u == Known(s, f, n, last)
<1>1. CASE ~last
  <2>1. u = s  BY <1>1 DEF Known
  <2>3. s \in Reassemblers /\ s.closed \in BOOLEAN  BY DEF LoopInv, Reassemblers
  <2> QED  BY <1>1, <2>1, <2>3
<1>2. CASE last
  <2>1. f + n = StreamLength /\ StreamLength \in Nat
    BY <1>2, LengthAssumption DEF Genuine
  <2>2. u = [s EXCEPT !.closed = TRUE, !.terminate = StreamLength]
    BY <1>2, <2>1 DEF Known
  <2>3. s \in Reassemblers  BY DEF LoopInv
  <2>4. /\ u \in Reassemblers /\ u.output = s.output /\ u.lists = s.lists
        /\ u.expecting = s.expecting /\ u.bytes_pending = s.bytes_pending
        /\ u.threw = s.threw /\ u.closed = TRUE /\ u.terminate = StreamLength
        /\ u.written = s.written
    BY <2>1, <2>2, <2>3 DEF Reassemblers
  <2> HIDE DEF u
  <2>6. LoopInv(u)
    BY <2>4 DEF LoopInv
  <2> QED  BY <1>2, <2>4, <2>6 DEF u
<1>3. last \in BOOLEAN  BY DEF Genuine
<1> QED  BY <1>1, <1>2, <1>3

(***************************************************************************)
(* Lines 11-31: what insert() does, with what is left of the substring     *)
(* when its stale part and what exceeds the limit are cut off.             *)
(***************************************************************************)
LEMMA InsertCuts ==
    ASSUME NEW s, LoopInv(s), NEW f, NEW n, NEW last, Genuine(f, n, last)
    PROVE  LET known == Known(s, f, n, last)
               start == StartOf(s, f)
           IN  /\ Ignored(s, f) => Insert(s, f, Bytes(f, n), last) = s
               /\ ~Ignored(s, f) /\ LimitOf(s, known) < start
                     => Insert(s, f, Bytes(f, n), last) = [known EXCEPT !.threw = TRUE]
               /\ ~Ignored(s, f) /\ ~(LimitOf(s, known) < start)
                     => \E size \in Nat :
                           /\ start + size <= LimitOf(s, known)
                           /\ {x \in Nat : start <= x /\ x < start + size}
                                 = {x \in Nat : /\ f <= x /\ x < f + n
                                                /\ s.expecting <= x /\ x < LimitOf(s, known)}
                           /\ Insert(s, f, Bytes(f, n), last)
                                 = CloseAtEnd(WriteOut(Merge(known, start, Bytes(start, size))))
<1> DEFINE known == Known(s, f, n, last)
           limit == LimitOf(s, known)
           start == StartOf(s, f)
           stale == StaleOf(s, f)
           size  == IF stale <= n THEN n - stale ELSE 0
           data  == SubSeq(Bytes(f, n), stale + 1, n)
           excess == start + Len(data) >= limit
<1>1. /\ f \in Nat /\ n \in Nat /\ last \in BOOLEAN
      /\ s.expecting \in Nat /\ StreamLength \in Nat
  BY LengthAssumption DEF Genuine, LoopInv, Reassemblers
<1>2. /\ known.output = s.output /\ known.expecting = s.expecting
      /\ known.closed => known.terminate = StreamLength
  <2>1. LoopInv(known) /\ known.output = s.output /\ known.expecting = s.expecting
    BY KnownKeeps
  <2> HIDE DEF known
  <2> QED  BY <2>1 DEF LoopInv
<1>3. limit \in Nat
  <2>1. AvailableCapacity(s.output) \in Nat  BY RoomOfStream DEF LoopInv
  <2> HIDE DEF known
  <2>2. s.expecting + AvailableCapacity(s.output) \in Nat  BY <1>1, <2>1
  <2> QED  BY <1>1, <1>2, <2>2 DEF LimitOf, Lesser
<1>4. /\ start \in Nat /\ stale \in Nat /\ start = f + stale
      /\ \A x \in Nat : start <= x <=> f <= x /\ s.expecting <= x
  BY <1>1 DEF StartOf, StaleOf
<1>5. data = Bytes(start, size) /\ Len(data) = size /\ size \in Nat
      /\ \A x \in Nat : start <= x => (x < start + size <=> x < f + n)
  <2> HIDE DEF start, stale
  <2>1. size \in Nat  BY <1>1, <1>4
  <2>2. data = Bytes(start, size)
    <3>1. CASE stale <= n
      <4>1. stale + 1 \in 1 .. n + 1 /\ n \in (stale + 1) - 1 .. n
        BY <1>1, <1>4, <3>1
      <4>2. SubSeq(Bytes(f, n), stale + 1, n) = Bytes(f + (stale + 1) - 1, n - (stale + 1) + 1)
        BY <1>1, <4>1, PartOfBytes
      <4>3. f + (stale + 1) - 1 = start /\ n - (stale + 1) + 1 = size
        BY <1>1, <1>4, <3>1
      <4> QED  BY <4>2, <4>3
    <3>2. CASE ~(stale <= n)
      <4>1. size = 0  BY <3>2
      <4>2. n < stale + 1 /\ stale + 1 \in Int /\ n \in Int  BY <1>1, <1>4, <3>2
      <4>3. data = << >>  BY <4>2, SubSeqEmpty
      <4> QED  BY <1>4, <4>1, <4>3, NoBytes
    <3> QED  BY <3>1, <3>2
  <2>3. \A x \in Nat : start <= x => (x < start + size <=> x < f + n)
    BY <1>1, <1>4
  <2> HIDE DEF size, data
  <2> QED  BY <1>4, <2>1, <2>2, <2>3, BytesAre
<1>6. Insert(s, f, Bytes(f, n), last) =
        IF Ignored(s, f) THEN s
        ELSE IF excess /\ limit < start THEN [known EXCEPT !.threw = TRUE]
        ELSE CloseAtEnd(WriteOut(Merge(known, start,
                 IF excess THEN SubSeq(data, 1, limit - start) ELSE data)))
  <2>1. Len(Bytes(f, n)) = n  BY <1>1, BytesAre
  <2> QED  BY ONLY <2>1, InsertInSteps
<1> HIDE DEF data, size, limit, start, known, stale
<1>7. limit < start => excess
  BY <1>3, <1>4, <1>5
<1>8. ASSUME ~(limit < start)
      PROVE  \E k \in Nat :
                /\ start + k <= limit
                /\ {x \in Nat : start <= x /\ x < start + k}
                      = {x \in Nat : /\ f <= x /\ x < f + n
                                     /\ s.expecting <= x /\ x < limit}
                /\ (IF excess THEN SubSeq(data, 1, limit - start) ELSE data) = Bytes(start, k)
  <2>1. CASE excess
    <3>1. limit - start \in Nat /\ limit - start <= size /\ start + (limit - start) = limit
      BY <1>3, <1>4, <1>5, <1>8, <2>1
    <3>2. SubSeq(Bytes(start, size), 1, limit - start) = Bytes(start, limit - start)
      <4>1. 1 \in 1 .. size + 1 /\ limit - start \in 1 - 1 .. size
        BY <1>5, <3>1
      <4>2. SubSeq(Bytes(start, size), 1, limit - start)
               = Bytes(start + 1 - 1, limit - start - 1 + 1)
        BY <1>4, <1>5, <4>1, PartOfBytes
      <4>3. start + 1 - 1 = start /\ limit - start - 1 + 1 = limit - start
        BY <1>3, <1>4
      <4> QED  BY <4>2, <4>3
    <3>3. {x \in Nat : start <= x /\ x < start + (limit - start)}
              = {x \in Nat : /\ f <= x /\ x < f + n
                             /\ s.expecting <= x /\ x < limit}
      <4>1. ASSUME NEW x \in Nat, start <= x, x < limit PROVE x < f + n
        <5>1. x < start + size  BY <1>3, <1>4, <1>5, <2>1, <4>1
        <5> QED  BY <1>5, <4>1, <5>1
      <4> QED  BY <1>4, <3>1, <4>1
    <3> QED  BY <1>3, <1>5, <2>1, <3>1, <3>2, <3>3
  <2>2. CASE ~excess
    <3>1. start + size <= limit  BY <1>3, <1>4, <1>5, <2>2
    <3>2. {x \in Nat : start <= x /\ x < start + size}
              = {x \in Nat : /\ f <= x /\ x < f + n
                             /\ s.expecting <= x /\ x < limit}
      <4>1. ASSUME NEW x \in Nat, x < start + size PROVE x < limit
        BY <1>3, <1>4, <1>5, <3>1, <4>1
      <4> QED  BY <1>4, <1>5, <4>1
    <3> QED  BY <1>5, <2>2, <3>1, <3>2
  <2> QED  BY <2>1, <2>2
<1> HIDE DEF excess
<1>9. ASSUME ~Ignored(s, f), ~(limit < start)
      PROVE  \E k \in Nat :
                /\ start + k <= limit
                /\ {x \in Nat : start <= x /\ x < start + k}
                      = {x \in Nat : /\ f <= x /\ x < f + n
                                     /\ s.expecting <= x /\ x < limit}
                /\ Insert(s, f, Bytes(f, n), last)
                      = CloseAtEnd(WriteOut(Merge(known, start, Bytes(start, k))))
  BY <1>6, <1>8, <1>9
<1>10. Ignored(s, f) => Insert(s, f, Bytes(f, n), last) = s
  BY <1>6
<1>11. ~Ignored(s, f) /\ limit < start
          => Insert(s, f, Bytes(f, n), last) = [known EXCEPT !.threw = TRUE]
  BY <1>6, <1>7
<1> QED  BY <1>9, <1>10, <1>11 DEF known, limit, start

\* Lines 73-74: nothing but the flag of the output changes, and only at the end.
LEMMA CloseAtEndSettles ==
    ASSUME NEW s, LoopInv(s), ~FrontIsDue(s)
    PROVE  LET t == CloseAtEnd(s)
           IN  /\ Settled(t)
               /\ t.lists = s.lists /\ t.expecting = s.expecting
               /\ t.closed = s.closed /\ t.terminate = s.terminate
               /\ t.output.popped = s.output.popped
               /\ t.output.capacity = s.output.capacity
               /\ t.output.closed
                     = (s.output.closed \/ (s.closed /\ s.expecting >= s.terminate))
<1> DEFINE t   == CloseAtEnd(s)
           out == Close(s.output)
<1>1. /\ s \in Reassemblers /\ s.closed \in BOOLEAN /\ s.threw \in BOOLEAN
      /\ s.expecting \in Nat /\ s.terminate \in Nat /\ StreamLength \in Nat
      /\ s.closed => s.terminate = StreamLength
      /\ s.expecting <= StreamLength
      /\ s.output.closed => s.closed /\ s.expecting = StreamLength
      /\ StreamInv(s.output) /\ s.output.closed \in BOOLEAN
  BY LengthAssumption, RoomOfStream DEF LoopInv, Reassemblers
<1>2. CASE ~(s.closed /\ s.expecting >= s.terminate)
  <2>1. t = s  BY <1>2 DEF CloseAtEnd
  <2>2. ~(s.closed /\ s.expecting = StreamLength)  BY <1>1, <1>2
  <2>3. Settled(s)  BY <2>2 DEF Settled
  <2> QED  BY <1>1, <1>2, <2>1, <2>3
<1>3. CASE s.closed /\ s.expecting >= s.terminate
  <2>1. t = [s EXCEPT !.output = out]  BY <1>3 DEF CloseAtEnd
  <2>2. s.expecting = StreamLength  BY <1>1, <1>3
  <2>3. /\ StreamInv(out) /\ out.popped = s.output.popped /\ out.pushed = s.output.pushed
        /\ out.closed = TRUE /\ out.capacity = s.output.capacity
    BY <1>1, CloseInv
  <2>4. AvailableCapacity(out) = AvailableCapacity(s.output)
    BY <1>1, <2>3, RoomOfStream
  <2> HIDE DEF out
  <2>5. /\ t.output = out /\ t.lists = s.lists /\ t.expecting = s.expecting
        /\ t.closed = s.closed /\ t.terminate = s.terminate /\ t.threw = s.threw
        /\ t.written = s.written /\ t.bytes_pending = s.bytes_pending
    BY <1>1, <2>1 DEF Reassemblers
  <2>6. t \in Reassemblers
    <3>1. out \in ByteStreams  BY <2>3 DEF StreamInv
    <3> QED  BY <1>1, <2>1, <3>1 DEF Reassemblers
  <2> HIDE DEF t
  <2>7. LoopInv(t)
    BY <1>3, <2>2, <2>3, <2>4, <2>5, <2>6 DEF LoopInv
  <2>8. Settled(t)
    BY <2>3, <2>5, <2>7 DEF Settled, FrontIsDue
  <2>9. t.output.closed = TRUE  BY <2>3, <2>5
  <2>10. t.output.popped = s.output.popped /\ t.output.capacity = s.output.capacity
    BY <2>3, <2>5
  <2> QED  BY <1>3, <2>5, <2>8, <2>9, <2>10 DEF t
<1> QED  BY <1>2, <1>3

(***************************************************************************)
(* insert() as a whole, for whatever substring of the stream: it keeps the *)
(* Reassembler settled, and what it stores or writes out are the indexes   *)
(* it held and those of the substring it has room for.                     *)
(***************************************************************************)
Accepted(s, t, f, n, last) ==
    LET known == Known(s, f, n, last)
        limit == LimitOf(s, known)
    IN  /\ t.closed = known.closed /\ t.terminate = known.terminate
        /\ t.output.popped = s.output.popped /\ t.output.capacity = s.output.capacity
        /\ t.output.closed
              = (s.output.closed \/ (known.closed /\ t.expecting >= known.terminate))
        /\ s.expecting <= t.expecting
        /\ Held(s.lists) \union {x \in Nat : /\ f <= x /\ x < f + n
                                             /\ s.expecting <= x /\ x < limit}
              = Held(t.lists) \union {x \in Nat : s.expecting <= x /\ x < t.expecting}

LEMMA InsertAccepts ==
    ASSUME NEW s, Settled(s), NEW f, NEW n, NEW last, Genuine(f, n, last),
           ~Ignored(s, f), ~(LimitOf(s, Known(s, f, n, last)) < StartOf(s, f))
    PROVE  /\ Settled(Insert(s, f, Bytes(f, n), last))
           /\ Accepted(s, Insert(s, f, Bytes(f, n), last), f, n, last)
<1> DEFINE known == Known(s, f, n, last)
           limit == LimitOf(s, known)
           start == StartOf(s, f)
           hi    == s.expecting + AvailableCapacity(s.output)
           fits  == {x \in Nat : /\ f <= x /\ x < f + n
                                 /\ s.expecting <= x /\ x < limit}
           t     == Insert(s, f, Bytes(f, n), last)
<1>1. LoopInv(s)
  BY DEF Settled
<1>2. /\ f \in Nat /\ n \in Nat /\ s.expecting \in Nat /\ StreamLength \in Nat
      /\ AvailableCapacity(s.output) \in Nat /\ hi \in Nat
      /\ f + n <= StreamLength \/ n = 0
  BY <1>1, LengthAssumption, RoomOfStream DEF Genuine, LoopInv, Reassemblers
<1>3. /\ LoopInv(known) /\ known \in Reassemblers /\ known.output = s.output
      /\ known.lists = s.lists /\ known.expecting = s.expecting
      /\ known.bytes_pending = s.bytes_pending
  BY <1>1, KnownKeeps
<1>4. start \in Nat /\ s.expecting <= start
  BY <1>2 DEF StartOf, StaleOf
<1>5. PICK size \in Nat : /\ start + size <= limit
                          /\ {x \in Nat : start <= x /\ x < start + size} = fits
                          /\ t = CloseAtEnd(WriteOut(Merge(known, start, Bytes(start, size))))
  BY <1>1, InsertCuts
<1> HIDE DEF known, start
<1>6. limit <= hi /\ limit \in Nat
  <2>1. known.closed => known.terminate \in Nat  BY <1>3 DEF Reassemblers
  <2> QED  BY <1>2, <2>1 DEF LimitOf, Lesser
<1>7. start + size <= hi
  BY <1>2, <1>4, <1>5, <1>6
<1>8. \A x \in fits : x < StreamLength /\ s.expecting <= x
  BY <1>2
<1> HIDE DEF limit, fits, t, hi
<1>9. PICK m : /\ Merge(known, start, Bytes(start, size)) =
                     [known EXCEPT !.lists = m, !.bytes_pending = TotalSize(m)]
               /\ Ordered(m) /\ Within(m, s.expecting, hi)
               /\ Held(m) = Held(s.lists) \union fits
  <2>1. /\ Ordered(s.lists) /\ Within(s.lists, s.expecting, hi)
        /\ known.bytes_pending = TotalSize(s.lists)
    BY <1>1, <1>3 DEF LoopInv, hi
  <2>2. /\ s.expecting \in Nat /\ hi \in Nat /\ start \in Nat /\ size \in Nat
        /\ s.expecting <= start /\ start + size <= hi /\ known.lists = s.lists
    BY <1>2, <1>3, <1>4, <1>5, <1>7
  <2>3. \E m : Merged(known, s.lists, start, size, s.expecting, hi, m)
    BY ONLY <2>1, <2>2, MergeAddsSubstring
  <2> QED  BY <1>5, <2>3 DEF Merged
<1> DEFINE v == [known EXCEPT !.lists = m, !.bytes_pending = TotalSize(m)]
           u == WriteOut(v)
<1>10. /\ v.output = s.output /\ v.lists = m /\ v.bytes_pending = TotalSize(m)
       /\ v.expecting = s.expecting /\ v.closed = known.closed
       /\ v.terminate = known.terminate /\ v.written = known.written
  BY <1>3 DEF Reassemblers
<1>11. v \in Reassemblers
  <2>1. m \in Seq(Pieces)  BY <1>9 DEF Ordered
  <2>2. TotalSize(m) \in Nat  BY <2>1, TotalSizeType
  <2> QED  BY ONLY <1>3, <2>1, <2>2 DEF v, Reassemblers
<1> HIDE DEF v
<1>12. Within(m, s.expecting, StreamLength)
  <2>1. Ordered(s.lists) /\ Within(s.lists, s.expecting, StreamLength)
    BY <1>1 DEF LoopInv
  <2>2. \A x \in Held(s.lists) : s.expecting <= x /\ x < StreamLength
    BY <1>2, <2>1, HeldWithin
  <2>3. \A x \in Held(m) : s.expecting <= x /\ x < StreamLength
    BY <1>8, <1>9, <2>2
  <2> QED  BY <1>2, <1>9, <2>3, HeldWithin
<1>13. LoopInv(v)
  BY <1>3, <1>9, <1>10, <1>11, <1>12 DEF LoopInv, hi
<1>14. LoopInv(u) /\ Delivers(v, u) /\ ~FrontIsDue(u)
  BY <1>13, LoopWritesOut
<1>15. t = CloseAtEnd(u)
  BY <1>5, <1>9 DEF v
<1> HIDE DEF u
<1>16. /\ Settled(t)
       /\ t.lists = u.lists /\ t.expecting = u.expecting
       /\ t.closed = u.closed /\ t.terminate = u.terminate
       /\ t.output.popped = u.output.popped
       /\ t.output.capacity = u.output.capacity
       /\ t.output.closed
             = (u.output.closed \/ (u.closed /\ u.expecting >= u.terminate))
  BY <1>14, <1>15, CloseAtEndSettles
<1>17. /\ u.closed = known.closed /\ u.terminate = known.terminate
       /\ u.output.popped = s.output.popped /\ u.output.closed = s.output.closed
       /\ u.output.capacity = s.output.capacity /\ s.expecting <= u.expecting
       /\ Held(m) = Held(u.lists) \union {x \in Nat : s.expecting <= x /\ x < u.expecting}
  BY <1>10, <1>14 DEF Delivers
<1>18. /\ t.closed = known.closed /\ t.terminate = known.terminate
       /\ t.output.popped = s.output.popped /\ t.output.capacity = s.output.capacity
       /\ s.expecting <= t.expecting
       /\ t.output.closed
             = (s.output.closed \/ (known.closed /\ t.expecting >= known.terminate))
       /\ Held(s.lists) \union fits
             = Held(t.lists) \union {x \in Nat : s.expecting <= x /\ x < t.expecting}
  BY <1>9, <1>16, <1>17
<1>19. Accepted(s, t, f, n, last)
  BY <1>18 DEF Accepted, known, limit, fits
<1> QED  BY <1>16, <1>19 DEF t

LEMMA InsertSettles ==
    ASSUME NEW s, Settled(s), NEW f, NEW n, NEW last, Genuine(f, n, last)
    PROVE  Settled(Insert(s, f, Bytes(f, n), last))
<1> DEFINE known == Known(s, f, n, last)
           t     == [known EXCEPT !.threw = TRUE]
<1>1. LoopInv(s) /\ ~FrontIsDue(s)
  BY DEF Settled
<1>2. CASE Ignored(s, f)
  BY <1>1, <1>2, InsertCuts
<1>3. CASE ~Ignored(s, f) /\ ~(LimitOf(s, known) < StartOf(s, f))
  BY <1>3, InsertAccepts
<1>4. CASE ~Ignored(s, f) /\ LimitOf(s, known) < StartOf(s, f)
  <2>1. Insert(s, f, Bytes(f, n), last) = t
    BY <1>1, <1>4, InsertCuts
  <2>2. /\ LoopInv(known) /\ known \in Reassemblers
        /\ known.lists = s.lists /\ known.expecting = s.expecting
    BY <1>1, KnownKeeps
  <2> HIDE DEF known
  <2>3. /\ t \in Reassemblers /\ t.threw = TRUE /\ t.lists = known.lists
        /\ t.expecting = known.expecting /\ t.output = known.output
        /\ t.closed = known.closed /\ t.terminate = known.terminate
        /\ t.written = known.written /\ t.bytes_pending = known.bytes_pending
    BY <2>2 DEF Reassemblers
  <2> HIDE DEF t
  <2>4. LoopInv(t)
    BY <2>2, <2>3 DEF LoopInv
  <2>5. ~FrontIsDue(t)
    BY <1>1, <2>2, <2>3 DEF FrontIsDue
  <2> QED  BY <2>1, <2>3, <2>4, <2>5 DEF Settled
<1> QED  BY <1>2, <1>3, <1>4

\* The reader only makes room.
LEMMA ReadSettles ==
    ASSUME NEW s, Settled(s), NEW n \in Nat
    PROVE  Settled(PopOutput(s, n))
<1> DEFINE out == Pop(s.output, n)
           t   == PopOutput(s, n)
<1>1. /\ LoopInv(s) /\ ~FrontIsDue(s) /\ s \in Reassemblers /\ StreamInv(s.output)
      /\ s.expecting \in Nat
  BY DEF Settled, LoopInv, Reassemblers
<1>2. /\ StreamInv(out) /\ out.pushed = s.output.pushed /\ out.closed = s.output.closed
      /\ out.capacity = s.output.capacity
      /\ out.popped = s.output.popped + Lesser(n, s.output.buffered)
  BY <1>1, PopInv
<1>3. AvailableCapacity(s.output) <= AvailableCapacity(out)
  BY <1>1, <1>2, RoomOfStream DEF Lesser
<1>4. /\ AvailableCapacity(s.output) \in Nat /\ AvailableCapacity(out) \in Nat
  BY <1>1, <1>2, RoomOfStream
<1> HIDE DEF out
<1>5. t = [s EXCEPT !.output = out]
  BY DEF PopOutput, out
<1>6. /\ t.output = out /\ t.lists = s.lists /\ t.expecting = s.expecting
      /\ t.closed = s.closed /\ t.terminate = s.terminate /\ t.threw = s.threw
      /\ t.written = s.written /\ t.bytes_pending = s.bytes_pending
  BY <1>1, <1>5 DEF Reassemblers
<1>7. t \in Reassemblers
  <2>1. out \in ByteStreams  BY <1>2 DEF StreamInv
  <2> QED  BY <1>1, <1>5, <2>1 DEF Reassemblers
<1> HIDE DEF t
<1>8. Within(s.lists, s.expecting, s.expecting + AvailableCapacity(out))
  <2> SUFFICES ASSUME NEW i \in 1 .. Len(s.lists)
               PROVE  /\ s.expecting <= s.lists[i].first
                      /\ End(s.lists[i]) <= s.expecting + AvailableCapacity(out)
    BY DEF Within
  <2>1. /\ s.expecting <= s.lists[i].first
        /\ End(s.lists[i]) <= s.expecting + AvailableCapacity(s.output)
    BY <1>1 DEF LoopInv, Within
  <2>2. s.lists[i] \in Pieces
    BY <1>1, ElementOfSeq DEF LoopInv, Ordered
  <2>3. End(s.lists[i]) \in Nat  BY <2>2, PieceFields
  <2> QED  BY <1>1, <1>3, <1>4, <2>1, <2>3
<1>9. LoopInv(t)
  BY <1>1, <1>2, <1>6, <1>7, <1>8 DEF LoopInv
<1> QED  BY <1>1, <1>2, <1>6, <1>9 DEF Settled, FrontIsDue, t

-----------------------------------------------------------------------------
(***************************************************************************)
(* The inductive invariant: between two calls the Reassembler is settled.  *)
(***************************************************************************)
IInv == Settled(r)

\* A Reassembler that has just been constructed is settled.
LEMMA InitSettled == Init => IInv
<1> SUFFICES ASSUME Init PROVE IInv
  OBVIOUS
<1> DEFINE out == NewByteStream(Capacity)
<1>1. Capacity \in Nat /\ StreamLength \in Nat
  BY LengthAssumption
<1>2. StreamInv(out)
  BY <1>1, NewStreamInv
<1>3. out.pushed = 0 /\ out.closed = FALSE /\ out.capacity = Capacity
  BY DEF NewByteStream
<1>4. AvailableCapacity(out) \in Nat
  BY <1>2, RoomOfStream
<1> HIDE DEF out
<1>5. r = [output |-> out, lists |-> << >>, bytes_pending |-> 0,
           expecting |-> 0, terminate |-> 0, closed |-> FALSE,
           written |-> << >>, threw |-> FALSE]
  BY DEF Init, r, NewReassembler, out
<1>6. /\ Ordered(<< >>) /\ << >> \in Seq(Pieces) /\ << >> \in Seq(Nat)
      /\ Within(<< >>, 0, StreamLength) /\ Within(<< >>, 0, 0 + AvailableCapacity(out))
      /\ TotalSize(<< >>) = 0 /\ Bytes(0, 0) = << >>
  <2>1. 0 \in Nat /\ 0 + AvailableCapacity(out) \in Nat  BY <1>4
  <2>2. Ordered(<< >>) /\ Within(<< >>, 0, StreamLength)
    BY ONLY <1>1, <2>1, NothingHeld
  <2>3. Within(<< >>, 0, 0 + AvailableCapacity(out))
    BY ONLY <1>1, <2>1, NothingHeld
  <2>4. Bytes(0, 0) = << >>  BY <2>1, NoBytes
  <2> QED  BY <2>2, <2>3, <2>4, SizeOfNothing
<1>7. r \in Reassemblers
  <2>1. out \in ByteStreams  BY <1>2 DEF StreamInv
  <2> QED  BY <1>5, <1>6, <2>1 DEF Reassemblers
<1>8. /\ r.output = out /\ r.lists = << >> /\ r.bytes_pending = 0 /\ r.expecting = 0
      /\ r.closed = FALSE /\ r.written = << >>
  BY <1>5
<1> HIDE DEF r
<1>9. LoopInv(r)
  BY <1>1, <1>2, <1>3, <1>6, <1>7, <1>8 DEF LoopInv
<1> QED  BY <1>8, <1>9 DEF IInv, Settled, FrontIsDue

\* What Arrive passes to insert() comes from the peer's stream.
LEMMA ArrivalIsGenuine ==
    ASSUME NEW first \in 0 .. StreamLength + 1, NEW n \in 0 .. StreamLength,
           NEW last \in BOOLEAN, Arrive(first, n, last)
    PROVE  /\ Genuine(first, n, last)
           /\ r' = Insert(r, first, Bytes(first, n), last)
BY LengthAssumption DEF Arrive, Genuine, r

\* insert() and the reader keep the Reassembler settled.
LEMMA NextSettles == IInv /\ [Next]_reassembler => IInv'
<1> SUFFICES ASSUME Settled(r), [Next]_reassembler PROVE Settled(r')
  BY DEF IInv
<1>1. CASE UNCHANGED reassembler
  BY <1>1 DEF r
<1>2. ASSUME NEW first \in 0 .. StreamLength + 1, NEW n \in 0 .. StreamLength,
             NEW last \in BOOLEAN, Arrive(first, n, last)
      PROVE  Settled(r')
  BY <1>2, ArrivalIsGenuine, InsertSettles
<1>3. ASSUME NEW n \in 1 .. Capacity, Read(n) PROVE Settled(r')
  <2>1. r' = PopOutput(r, n) /\ n \in Nat
    BY <1>3, LengthAssumption DEF Read, r
  <2> QED  BY <2>1, ReadSettles
<1> QED  BY <1>1, <1>2, <1>3 DEF Next

LEMMA AlwaysSettled == Spec => []IInv
<1> QED  BY InitSettled, NextSettles, PTL DEF Spec

-----------------------------------------------------------------------------
(***************************************************************************)
(* Every field of the Reassembler keeps its type, through every insert()   *)
(* and every read (reassembler.hh:43-54).                                  *)
(***************************************************************************)
THEOREM TypeCorrect == Spec => []TypeOK
<1>1. IInv => TypeOK
  <2> SUFFICES ASSUME LoopInv(r) PROVE TypeOK
    BY DEF IInv, Settled
  <2>1. r \in Reassemblers /\ Ordered(r.lists)
    BY DEF LoopInv
  <2>2. \A i \in 1 .. L : r.lists[i].first \in Nat
    <3> SUFFICES ASSUME NEW i \in 1 .. Len(r.lists) PROVE r.lists[i].first \in Nat
      BY DEF L
    <3>1. r.lists[i] \in Pieces  BY <2>1, ElementOfSeq DEF Ordered
    <3> QED  BY <3>1, PieceFields
  <2> QED  BY <2>1, <2>2 DEF TypeOK, Reassemblers
<1> QED  BY <1>1, AlwaysSettled, PTL

(***************************************************************************)
(* Whatever substrings arrive, in whatever order and however often, what   *)
(* has been written to the output is the beginning of the peer's stream,   *)
(* each byte once (reassembler.cc:33-70).                                  *)
(***************************************************************************)
THEOREM OutputAlwaysPrefix == Spec => []OutputIsPrefix
<1>1. IInv => OutputIsPrefix
  <2> SUFFICES ASSUME LoopInv(r) PROVE OutputIsPrefix
    BY DEF IInv, Settled
  <2>1. r.expecting \in Nat /\ r.written = Bytes(0, r.expecting)
        /\ r.output.pushed = r.expecting
    BY DEF LoopInv, Reassemblers
  <2>2. Len(r.written) = r.expecting
    <3>1. 0 \in Nat  OBVIOUS
    <3> QED  BY <2>1, <3>1, BytesAre
  <2> QED  BY <2>1, <2>2 DEF OutputIsPrefix
<1> QED  BY <1>1, AlwaysSettled, PTL

(***************************************************************************)
(* Disjoint pieces between two indexes hold no more bytes than lie there.  *)
(***************************************************************************)
LEMMA SizeFits ==
    ASSUME NEW l, Ordered(l), NEW lo \in Nat, NEW hi \in Nat, lo <= hi, Within(l, lo, hi)
    PROVE  lo + TotalSize(l) <= hi
<1> DEFINE N == Len(l)
<1>1. /\ l \in Seq(Pieces) /\ N \in Nat
      /\ \A i, j \in 1 .. N : i < j => End(l[i]) <= l[j].first
  BY DEF Ordered
<1>2. \A i \in 1 .. N : /\ l[i].first \in Nat /\ Size(l[i]) \in Nat /\ End(l[i]) \in Nat
                        /\ End(l[i]) = l[i].first + Size(l[i])
                        /\ lo <= l[i].first /\ End(l[i]) <= hi
  <2>1. \A i \in 1 .. N : l[i] \in Pieces  BY <1>1, ElementOfSeq
  <2>2. \A i \in 1 .. N : lo <= l[i].first /\ End(l[i]) <= hi  BY DEF Within
  <2> QED  BY <2>1, <2>2, PieceFields
<1>3. PICK f : SumsUpTo(f, l, N) /\ TotalSize(l) = f[N]
  BY <1>1, TotalSizeIsSum
<1> HIDE DEF N
<1>4. f[0] = 0 /\ \A k \in 1 .. N : f[k] = f[k - 1] + Size(l[k])
  BY <1>1, <1>3, SumsAre
<1> DEFINE S == {k \in Nat : f[k] \in Nat /\ (k # 0 => lo + f[k] <= End(l[k]))}
<1>5. 0 \in S
  BY <1>4
<1>6. ASSUME NEW k \in 1 .. N, k - 1 \in S PROVE k \in S
  <2>1. f[k] = f[k - 1] + Size(l[k]) /\ f[k - 1] \in Nat
    BY <1>4, <1>6
  <2>2. lo + f[k - 1] <= l[k].first
    <3>1. CASE k = 1
      <4>1. f[k - 1] = 0  BY <1>4, <3>1
      <4> QED  BY <1>2, <4>1
    <3>2. CASE k # 1
      <4>1. k - 1 \in 1 .. N /\ k - 1 < k /\ k - 1 # 0  BY <1>1, <3>2
      <4>2. End(l[k - 1]) <= l[k].first /\ End(l[k - 1]) \in Nat  BY <1>1, <1>2, <4>1
      <4>3. lo + f[k - 1] <= End(l[k - 1])  BY <1>6, <4>1
      <4> QED  BY <1>2, <2>1, <4>2, <4>3
    <3> QED  BY <3>1, <3>2
  <2> QED  BY <1>2, <2>1, <2>2
<1> HIDE DEF S
<1>7. N \in S
  BY <1>1, <1>5, <1>6, RoundByRound, N \in 0 .. N
<1>8. f[N] \in Nat /\ (N # 0 => lo + f[N] <= End(l[N]))
  BY <1>7 DEF S
<1>9. CASE N = 0
  BY <1>3, <1>4, <1>9
<1>10. CASE N # 0
  <2>1. N \in 1 .. N  BY <1>1, <1>10
  <2> QED  BY <1>2, <1>3, <1>8, <1>10, <2>1
<1> QED  BY <1>9, <1>10

(***************************************************************************)
(* What is held back is an ordered list of disjoint pieces of the stream   *)
(* past the next byte expected, within the room of the output, and         *)
(* bytes_pending counts them: with what is buffered no more than the       *)
(* capacity (reassembler.cc:33-70, reassembler.hh:29-30).                  *)
(***************************************************************************)
THEOREM HeldAlwaysOrderly == Spec => []HeldIsOrderly
<1>1. IInv => HeldIsOrderly
  <2> SUFFICES ASSUME LoopInv(r), ~FrontIsDue(r) PROVE HeldIsOrderly
    BY DEF IInv, Settled
  <2> DEFINE l  == r.lists
             hi == r.expecting + AvailableCapacity(r.output)
  <2>1. /\ Ordered(l) /\ l \in Seq(Pieces) /\ Within(l, r.expecting, hi)
        /\ r.bytes_pending = TotalSize(l)
        /\ StreamInv(r.output) /\ r.output.capacity = Capacity
        /\ r.expecting \in Nat
    BY DEF LoopInv, Ordered, Reassemblers
  <2>2. /\ AvailableCapacity(r.output) \in Nat /\ hi \in Nat /\ r.expecting <= hi
        /\ r.output.buffered \in Nat /\ Capacity \in Nat
    BY <2>1, RoomOfStream
  <2>3. \A i \in 1 .. Len(l) : /\ l[i].first \in Nat /\ Size(l[i]) \in Nat \ {0}
                               /\ End(l[i]) = l[i].first + Size(l[i])
                               /\ l[i].data = Bytes(l[i].first, Size(l[i]))
    <3>1. \A i \in 1 .. Len(l) : l[i] \in Pieces  BY <2>1, ElementOfSeq
    <3> QED  BY <3>1, PieceFields
  <2>4. \A i \in 1 .. Len(l) : r.expecting <= l[i].first /\ End(l[i]) <= hi
    BY <2>1 DEF Within
  <2>5. \A i, j \in 1 .. Len(l) : i < j => End(l[i]) <= l[j].first
    BY <2>1 DEF Ordered
  <2>6. \A i \in 1 .. Len(l) : l[i].first > r.expecting
    <3> SUFFICES ASSUME NEW i \in 1 .. Len(l) PROVE l[i].first > r.expecting
      OBVIOUS
    <3>1. l # << >> /\ Len(l) \in Nat /\ 1 \in 1 .. Len(l) /\ Head(l) = l[1]
      BY <2>1
    <3>2. l[1].first # r.expecting  BY <3>1 DEF FrontIsDue
    <3>3. CASE i = 1  BY <2>1, <2>3, <2>4, <3>2, <3>3
    <3>4. CASE i # 1
      <4>1. 1 < i  BY <3>4
      <4>2. End(l[1]) <= l[i].first  BY <2>5, <3>1, <4>1
      <4> QED  BY <2>1, <2>3, <2>4, <3>1, <3>2, <4>2
    <3> QED  BY <3>3, <3>4
  <2>7. \A i \in 1 .. Len(l) - 1 : End(l[i]) <= l[i + 1].first
    <3> SUFFICES ASSUME NEW i \in 1 .. Len(l) - 1 PROVE End(l[i]) <= l[i + 1].first
      OBVIOUS
    <3>1. i \in 1 .. Len(l) /\ i + 1 \in 1 .. Len(l) /\ i < i + 1
      BY <2>1
    <3> QED  BY <2>5, <3>1
  <2>8. TotalSize(l) + r.output.buffered <= Capacity
    <3>1. r.expecting + TotalSize(l) <= hi  BY <2>1, <2>2, SizeFits
    <3>2. TotalSize(l) \in Nat  BY <2>1, TotalSizeType
    <3>3. AvailableCapacity(r.output) = Capacity - r.output.buffered
      BY <2>1 DEF AvailableCapacity
    <3> HIDE DEF l
    <3> QED  BY ONLY <2>1, <2>2, <3>1, <3>2, <3>3, SMTT(30) DEF hi
  <2> QED  BY <2>1, <2>3, <2>4, <2>6, <2>7, <2>8 DEF HeldIsOrderly, L
<1> QED  BY <1>1, AlwaysSettled, PTL

(***************************************************************************)
(* The output is closed exactly when the end of the stream is known and    *)
(* all of the stream has been written (reassembler.cc:15-18, 73-74).       *)
(***************************************************************************)
THEOREM ClosedAlwaysAtEnd == Spec => []ClosedExactlyAtEnd
<1>1. IInv => ClosedExactlyAtEnd
  BY DEF IInv, Settled, LoopInv, ClosedExactlyAtEnd
<1> QED  BY <1>1, AlwaysSettled, PTL

-----------------------------------------------------------------------------
\* The indexes held, as IndexSetOf collects them from the data of the list.
LEMMA IndexesHeld ==
    ASSUME NEW l, Ordered(l)
    PROVE  UNION {{l[i].data[j] : j \in 1 .. Size(l[i])} : i \in 1 .. Len(l)} = Held(l)
<1> DEFINE U == UNION {{l[i].data[j] : j \in 1 .. Size(l[i])} : i \in 1 .. Len(l)}
<1>1. \A i \in 1 .. Len(l) : /\ l[i].first \in Nat /\ Size(l[i]) \in Nat
                             /\ End(l[i]) = l[i].first + Size(l[i])
                             /\ l[i].data = Bytes(l[i].first, Size(l[i]))
  <2>1. \A i \in 1 .. Len(l) : l[i] \in Pieces  BY ElementOfSeq DEF Ordered
  <2> QED  BY <2>1, PieceFields
<1>2. \A i \in 1 .. Len(l) : \A j \in 1 .. Size(l[i]) : l[i].data[j] = l[i].first + j - 1
  BY <1>1, BytesAre
<1>3. ASSUME NEW x \in U PROVE x \in Held(l)
  <2>1. PICK i \in 1 .. Len(l) : \E j \in 1 .. Size(l[i]) : x = l[i].data[j]
    BY <1>3
  <2>2. PICK j \in 1 .. Size(l[i]) : x = l[i].data[j]
    BY <2>1
  <2>3. x = l[i].first + j - 1
    BY <1>2, <2>2
  <2>4. x \in Nat /\ l[i].first <= x /\ x < End(l[i])
    BY <1>1, <2>3
  <2> QED  BY <2>4 DEF Held
<1>4. ASSUME NEW x \in Held(l) PROVE x \in U
  <2>1. PICK i \in 1 .. Len(l) : l[i].first <= x /\ x < End(l[i])
    BY <1>4 DEF Held
  <2>2. x \in Nat
    BY <1>4 DEF Held
  <2> DEFINE j == x - l[i].first + 1
  <2>3. j \in 1 .. Size(l[i]) /\ x = l[i].first + j - 1
    BY <1>1, <2>1, <2>2
  <2>4. x = l[i].data[j]
    BY <1>2, <2>3
  <2> HIDE DEF j
  <2> QED  BY <2>3, <2>4
<1> HIDE DEF U
<1>5. U = Held(l)
  BY <1>3, <1>4
<1> QED  BY <1>5 DEF U

\* What a settled Reassembler amounts to.
LEMMA IndexSetIs ==
    ASSUME NEW s, LoopInv(s)
    PROVE  IndexSetOf(s) = [capacity |-> Capacity, pushed |-> s.expecting,
                            popped |-> s.output.popped, held |-> Held(s.lists),
                            finSeen |-> s.closed, end |-> s.terminate,
                            ended |-> s.output.closed]
<1>1. /\ Ordered(s.lists) /\ s.output.capacity = Capacity
      /\ s.output.pushed = s.expecting
  BY DEF LoopInv
<1> DEFINE l == s.lists
<1>2. UNION {{l[i].data[j] : j \in 1 .. Size(l[i])} : i \in 1 .. Len(l)} = Held(l)
  BY <1>1, IndexesHeld
<1> QED  BY <1>1, <1>2 DEF IndexSetOf

\* The next byte expected is not held, and nothing before it is.
LEMMA GapIsExpected ==
    ASSUME NEW s, Settled(s)
    PROVE  \A x \in Held(s.lists) : x \in Nat /\ s.expecting < x
<1> SUFFICES ASSUME NEW x \in Held(s.lists) PROVE x \in Nat /\ s.expecting < x
  OBVIOUS
<1> DEFINE l == s.lists
<1>1. /\ l \in Seq(Pieces) /\ s.expecting \in Nat
      /\ \A i, j \in 1 .. Len(l) : i < j => End(l[i]) <= l[j].first
      /\ \A i \in 1 .. Len(l) : s.expecting <= l[i].first
      /\ ~FrontIsDue(s)
  BY DEF Settled, LoopInv, Ordered, Within, Reassemblers
<1>2. PICK i \in 1 .. Len(l) : l[i].first <= x /\ x < End(l[i])
  BY DEF Held
<1>3. x \in Nat
  BY DEF Held
<1>4. l[i] \in Pieces /\ l[i].first \in Nat
  <2>1. l[i] \in Pieces  BY <1>1, ElementOfSeq
  <2> QED  BY <2>1, PieceFields
<1>5. /\ 1 \in 1 .. Len(l) /\ l # << >> /\ Head(l) = l[1] /\ l[1].first # s.expecting
  BY <1>1, <1>2 DEF FrontIsDue
<1>6. l[1].first \in Nat /\ End(l[1]) \in Nat /\ l[1].first < End(l[1])
  <2>1. l[1] \in Pieces  BY <1>1, <1>5, ElementOfSeq
  <2> QED  BY <2>1, PieceFields
<1>7. s.expecting < l[1].first
  BY <1>1, <1>5, <1>6
<1>8. CASE i = 1
  BY <1>1, <1>2, <1>3, <1>6, <1>7, <1>8
<1>9. CASE i # 1
  <2>1. 1 < i  BY <1>9
  <2>2. End(l[1]) <= l[i].first  BY <1>1, <1>5, <2>1
  <2> QED  BY <1>1, <1>2, <1>3, <1>4, <1>6, <1>7, <2>2
<1> QED  BY <1>8, <1>9

\* The abstract delivery, where the gap is known.
LEMMA DeliverIs ==
    ASSUME NEW b, NEW e \in Nat, b.pushed \in Nat, Abstract!Room(b) \in Nat,
           b.pushed <= e, e <= b.pushed + Abstract!Room(b), e \notin b.held,
           \A i \in b.pushed .. e - 1 : i \in b.held
    PROVE  Abstract!Deliver(b) = [b EXCEPT !.pushed = e,
                                           !.held   = {i \in b.held : i > e},
                                           !.ended  = b.ended \/ (b.finSeen /\ e >= b.end)]
<1> DEFINE IsGap(g) == g \notin b.held /\ \A i \in b.pushed .. g - 1 : i \in b.held
           range == b.pushed .. b.pushed + Abstract!Room(b)
<1>1. e \in range /\ IsGap(e)
  OBVIOUS
<1>2. ASSUME NEW g \in range, IsGap(g) PROVE g = e
  <2>1. g \in Nat  OBVIOUS
  <2>2. CASE g < e
    <3>1. g \in b.pushed .. e - 1  BY <2>1, <2>2
    <3> QED  BY <1>2, <3>1
  <2>3. CASE e < g
    <3>1. e \in b.pushed .. g - 1  BY <2>1, <2>3
    <3> QED  BY <1>2, <3>1
  <2> QED  BY <2>1, <2>2, <2>3
<1>3. Abstract!FirstGap(b) = CHOOSE g \in range : IsGap(g)
  BY DEF Abstract!FirstGap
<1> HIDE DEF IsGap, range
<1>4. Abstract!FirstGap(b) = e
  BY <1>1, <1>2, <1>3
<1> QED  BY <1>4 DEF Abstract!Deliver

(***************************************************************************)
(* insert() on the list is insert() on the set of indexes that it holds.   *)
(***************************************************************************)
LEMMA InsertRefines ==
    ASSUME NEW s, Settled(s), NEW f, NEW n, NEW last, Genuine(f, n, last)
    PROVE  IndexSetOf(Insert(s, f, Bytes(f, n), last))
              = Abstract!Insert(IndexSetOf(s), f, n, last)
<1> DEFINE b     == IndexSetOf(s)
           known == Known(s, f, n, last)
           limit == LimitOf(s, known)
           start == StartOf(s, f)
           t     == Insert(s, f, Bytes(f, n), last)
           ab    == Abstract!WithEnd(b, f, n, last)
           fits  == {x \in Nat : /\ f <= x /\ x < f + n
                                 /\ s.expecting <= x /\ x < limit}
<1>1. /\ LoopInv(s) /\ s.expecting \in Nat /\ f \in Nat /\ n \in Nat /\ last \in BOOLEAN
      /\ s.closed \in BOOLEAN
  BY DEF Settled, LoopInv, Reassemblers, Genuine
<1>2. b = [capacity |-> Capacity, pushed |-> s.expecting, popped |-> s.output.popped,
           held |-> Held(s.lists), finSeen |-> s.closed, end |-> s.terminate,
           ended |-> s.output.closed]
  BY <1>1, IndexSetIs
<1>3. /\ s.output.pushed = s.expecting /\ s.output.capacity = Capacity
      /\ AvailableCapacity(s.output) \in Nat /\ s.output.popped \in Nat
      /\ Capacity \in Nat /\ s.output.closed \in BOOLEAN /\ s.output.buffered \in Nat
      /\ s.expecting = s.output.popped + s.output.buffered
      /\ AvailableCapacity(s.output) = Capacity - (s.expecting - s.output.popped)
  BY <1>1, RoomOfStream DEF LoopInv
<1>4. Abstract!Room(b) = AvailableCapacity(s.output)
  BY <1>2, <1>3 DEF Abstract!Room
<1>5. Abstract!Finished(b) <=> IsFinished(s.output)
  BY <1>2, <1>3 DEF Abstract!Finished, IsFinished
<1>6. Abstract!Ignores(b, f) <=> Ignored(s, f)
  <2>1. b.pushed = s.expecting  BY <1>2
  <2> HIDE DEF b
  <2> QED  BY <1>4, <1>5, <2>1 DEF Abstract!Ignores, Ignored
<1>7. /\ LoopInv(known) /\ known.output = s.output /\ known.lists = s.lists
      /\ known.expecting = s.expecting /\ known \in Reassemblers
      /\ known.closed = (s.closed \/ last)
  BY <1>1, KnownKeeps
<1>8. known.terminate = IF last THEN f + n ELSE s.terminate
  <2>1. s \in Reassemblers  BY <1>1 DEF LoopInv
  <2> QED  BY <2>1 DEF Known, Reassemblers
<1> HIDE DEF known
<1>9. ab = [capacity |-> Capacity, pushed |-> s.expecting, popped |-> s.output.popped,
            held |-> Held(s.lists), finSeen |-> known.closed, end |-> known.terminate,
            ended |-> s.output.closed]
  <2>1. CASE last
    <3>1. ab = [b EXCEPT !.finSeen = TRUE, !.end = f + n]
      BY <2>1 DEF Abstract!WithEnd
    <3>2. known.closed = TRUE /\ known.terminate = f + n
      BY <1>1, <1>7, <1>8, <2>1
    <3> HIDE DEF b, ab
    <3>3. ab = [b EXCEPT !.finSeen = known.closed, !.end = known.terminate]
      BY <3>1, <3>2, Zenon
    <3> QED  BY <1>2, <3>3
  <2>2. CASE ~last
    <3>1. ab = b
      BY <2>2 DEF Abstract!WithEnd
    <3>2. known.closed = s.closed /\ known.terminate = s.terminate
      BY <1>1, <1>7, <1>8, <2>2
    <3> QED  BY <1>2, <3>1, <3>2
  <2> QED  BY <2>1, <2>2
<1>10. IndexSetOf(known) = ab
  BY <1>7, <1>9, IndexSetIs
<1>11. Abstract!Limit(ab) = limit
  <2>1. Abstract!Room(ab) = AvailableCapacity(s.output)
    BY <1>3, <1>9 DEF Abstract!Room
  <2> QED  BY <1>9, <2>1 DEF Abstract!Limit, Abstract!Smaller, LimitOf, Lesser
<1>12. start = IF f < s.expecting THEN s.expecting ELSE f
  BY <1>1 DEF StartOf, StaleOf
<1>13. Abstract!InsertThrows(b, f, n, last) <=> ~Ignored(s, f) /\ limit < start
  <2>1. b.pushed = s.expecting  BY <1>2
  <2> HIDE DEF b, limit, start
  <2> QED  BY <1>6, <1>11, <1>12, <2>1 DEF Abstract!InsertThrows
<1> HIDE DEF b, limit, start, ab
<1>14. Abstract!Insert(b, f, n, last) =
         IF Ignored(s, f) THEN b
         ELSE IF limit < start THEN ab
         ELSE Abstract!Deliver([ab EXCEPT !.held = Held(s.lists) \union fits])
  <2>1. limit \in Nat
    <3>1. known.terminate \in Nat /\ s.expecting + AvailableCapacity(s.output) \in Nat
      BY <1>1, <1>3, <1>7 DEF Reassemblers
    <3> QED  BY <3>1 DEF limit, LimitOf, Lesser
  <2>2. {i \in f .. f + n - 1 : i >= s.expecting /\ i < limit} = fits
    BY <1>1, <2>1
  <2>3. b.held = Held(s.lists) /\ b.pushed = s.expecting
    BY <1>2
  <2> HIDE DEF fits
  <2> QED  BY <1>6, <1>11, <1>13, <2>2, <2>3 DEF Abstract!Insert, ab
<1> HIDE DEF fits, t
<1>15. CASE Ignored(s, f)
  <2>1. t = s  BY <1>1, <1>15, InsertCuts DEF t
  <2> QED  BY <1>14, <1>15, <2>1 DEF b, t
<1>16. CASE ~Ignored(s, f) /\ limit < start
  <2>1. t = [known EXCEPT !.threw = TRUE]
    BY <1>1, <1>16, InsertCuts DEF t, known, limit, start
  <2>2. /\ t.output = known.output /\ t.lists = known.lists /\ t.closed = known.closed
        /\ t.terminate = known.terminate
    BY <1>7, <2>1 DEF Reassemblers
  <2>3. IndexSetOf(t) = IndexSetOf(known)
    BY <2>2 DEF IndexSetOf
  <2> QED  BY <1>10, <1>14, <1>16, <2>3 DEF b, t
<1>17. CASE ~Ignored(s, f) /\ ~(limit < start)
  <2>1. Settled(t) /\ Accepted(s, t, f, n, last)
    BY <1>17, InsertAccepts DEF t, known, limit, start
  <2>2. /\ t.closed = known.closed /\ t.terminate = known.terminate
        /\ t.output.popped = s.output.popped
        /\ t.output.closed
              = (s.output.closed \/ (known.closed /\ t.expecting >= known.terminate))
        /\ s.expecting <= t.expecting
        /\ Held(s.lists) \union fits
              = Held(t.lists) \union {x \in Nat : s.expecting <= x /\ x < t.expecting}
    BY <2>1 DEF Accepted, known, limit, fits
  <2>3. /\ LoopInv(t) /\ t.expecting \in Nat
        /\ \A x \in Held(t.lists) : x \in Nat /\ t.expecting < x
    BY <2>1, GapIsExpected DEF Settled, LoopInv, Reassemblers
  <2>4. IndexSetOf(t) = [capacity |-> Capacity, pushed |-> t.expecting,
                         popped |-> s.output.popped, held |-> Held(t.lists),
                         finSeen |-> known.closed, end |-> known.terminate,
                         ended |-> t.output.closed]
    BY <2>2, <2>3, IndexSetIs
  <2>5. t.expecting <= s.expecting + AvailableCapacity(s.output)
    <3>1. /\ t.output.pushed = t.expecting /\ t.output.capacity = Capacity
          /\ StreamInv(t.output)
      BY <2>3 DEF LoopInv
    <3>2. /\ AvailableCapacity(t.output) \in Nat
          /\ t.expecting + AvailableCapacity(t.output) = t.output.popped + Capacity
      BY <3>1, RoomOfStream
    <3> QED  BY <1>1, <1>3, <2>2, <2>3, <3>2
  <2> DEFINE H == Held(s.lists) \union fits
             d == [ab EXCEPT !.held = H]
  <2>6. d = [capacity |-> Capacity, pushed |-> s.expecting, popped |-> s.output.popped,
             held |-> H, finSeen |-> known.closed, end |-> known.terminate,
             ended |-> s.output.closed]
    BY <1>9
  <2>7. /\ t.expecting \notin H
        /\ \A i \in s.expecting .. t.expecting - 1 : i \in H
        /\ {i \in H : i > t.expecting} = Held(t.lists)
    <3>1. H = Held(t.lists) \union {x \in Nat : s.expecting <= x /\ x < t.expecting}
      BY <2>2
    <3> HIDE DEF H
    <3>2. t.expecting \notin H
      BY <2>3, <3>1
    <3>3. \A i \in s.expecting .. t.expecting - 1 : i \in H
      BY <1>1, <2>3, <3>1
    <3>4. {i \in H : i > t.expecting} = Held(t.lists)
      BY <2>3, <3>1
    <3> QED  BY <3>2, <3>3, <3>4
  <2> HIDE DEF H, d
  <2>8. d.pushed = s.expecting /\ d.held = H /\ d.finSeen = known.closed
        /\ d.end = known.terminate /\ d.ended = s.output.closed
        /\ Abstract!Room(d) = AvailableCapacity(s.output)
    BY <1>3, <2>6 DEF Abstract!Room
  <2>9. Abstract!Deliver(d) = [d EXCEPT !.pushed = t.expecting,
                                        !.held = {i \in H : i > t.expecting},
                                        !.ended = s.output.closed \/ (known.closed
                                                     /\ t.expecting >= known.terminate)]
    <3>1. /\ d.pushed \in Nat /\ Abstract!Room(d) \in Nat /\ t.expecting \in Nat
          /\ d.pushed <= t.expecting /\ t.expecting <= d.pushed + Abstract!Room(d)
          /\ t.expecting \notin d.held
          /\ \A i \in d.pushed .. t.expecting - 1 : i \in d.held
      BY <1>1, <1>3, <2>2, <2>3, <2>5, <2>7, <2>8
    <3>2. Abstract!Deliver(d) = [d EXCEPT !.pushed = t.expecting,
                                          !.held = {i \in d.held : i > t.expecting},
                                          !.ended = d.ended \/ (d.finSeen
                                                       /\ t.expecting >= d.end)]
      BY ONLY <3>1, DeliverIs
    <3> QED  BY <2>8, <3>2
  <2>10. Abstract!Deliver(d) = IndexSetOf(t)
    BY <2>2, <2>4, <2>6, <2>7, <2>9
  <2> QED  BY <1>14, <1>17, <2>10 DEF b, t, d, H
<1> QED  BY <1>15, <1>16, <1>17

(***************************************************************************)
(* The list of substrings of insert() behaves as the set of the indexes it *)
(* holds, and the output takes an index as soon as it is next in line: the *)
(* Reassembler implements ReassemblySpec (reassembler.cc:11-74).           *)
(***************************************************************************)
THEOREM Refinement == Spec => ImplementsIndexSet
<1>1. Init => Abstract!Init
  <2> SUFFICES ASSUME Init PROVE IndexSetOf(r) = Abstract!NewBuffer(Capacity)
    BY DEF Abstract!Init
  <2>1. LoopInv(r)
    BY InitSettled DEF IInv, Settled
  <2>2. /\ r.expecting = 0 /\ r.output.popped = 0 /\ r.lists = << >>
        /\ r.closed = FALSE /\ r.terminate = 0 /\ r.output.closed = FALSE
    BY DEF Init, r, NewReassembler, NewByteStream
  <2>3. Held(r.lists) = {}
    BY <2>2, NothingHeld, 0 \in Nat
  <2> HIDE DEF r
  <2> QED  BY <2>1, <2>2, <2>3, IndexSetIs DEF Abstract!NewBuffer
<1>2. IInv /\ [Next]_reassembler => [Abstract!Next]_(IndexSetOf(r))
  <2> SUFFICES ASSUME Settled(r), [Next]_reassembler
               PROVE  Abstract!Next \/ IndexSetOf(r') = IndexSetOf(r)
    BY DEF IInv
  <2>1. CASE UNCHANGED reassembler
    BY <2>1 DEF r
  <2>2. ASSUME NEW first \in 0 .. StreamLength + 1, NEW n \in 0 .. StreamLength,
               NEW last \in BOOLEAN, Arrive(first, n, last)
        PROVE  Abstract!Next
    <3> DEFINE sub == [first |-> first, size |-> n, last |-> last]
    <3>1. Genuine(first, n, last) /\ r' = Insert(r, first, Bytes(first, n), last)
      BY <2>2, ArrivalIsGenuine
    <3>2. IndexSetOf(r') = Abstract!Insert(IndexSetOf(r), first, n, last)
      BY <3>1, InsertRefines
    <3>3. sub \in Abstract!Arrivals
      <4>1. CASE first = StreamLength + 1 /\ n = 0 /\ ~last
        BY <4>1 DEF Abstract!Arrivals, Abstract!AckAfterFin
      <4>2. CASE \/ first + n < StreamLength /\ ~last
                 \/ first + n = StreamLength
        <5>1. sub.first = first /\ sub.size = n /\ sub.last = last
          OBVIOUS
        <5>2. first \in 0 .. StreamLength
          BY <4>2, LengthAssumption
        <5>3. sub \in Abstract!Substrings
          BY <5>2 DEF Abstract!Substrings
        <5> HIDE DEF sub
        <5>4. Abstract!Genuine(sub)
          BY <4>2, <5>1 DEF Abstract!Genuine
        <5> QED  BY <5>3, <5>4 DEF Abstract!Arrivals
      <4> QED  BY <3>1, <4>1, <4>2 DEF Genuine
    <3>4. Abstract!Arrive(sub)
      BY <3>2 DEF Abstract!Arrive
    <3> HIDE DEF sub
    <3> QED  BY <3>3, <3>4 DEF Abstract!Next
  <2>3. ASSUME NEW n \in 1 .. Capacity, Read(n)
        PROVE  Abstract!Next
    <3>1. r' = PopOutput(r, n) /\ n \in Nat /\ LoopInv(r)
      BY <2>3, LengthAssumption DEF Read, r, Settled
    <3>2. LoopInv(r')
      BY <3>1, ReadSettles DEF Settled
    <3>3. r \in Reassemblers /\ StreamInv(r.output)
      BY <3>1 DEF LoopInv
    <3>4. /\ r'.lists = r.lists /\ r'.expecting = r.expecting /\ r'.closed = r.closed
          /\ r'.terminate = r.terminate /\ r'.output = Pop(r.output, n)
      BY <3>1, <3>3 DEF PopOutput, Reassemblers
    <3>5. /\ r'.output.closed = r.output.closed
          /\ r'.output.popped = r.output.popped + Lesser(n, r.output.buffered)
      BY <3>1, <3>3, <3>4, PopInv
    <3>6. r.expecting = r.output.popped + r.output.buffered
          /\ r.output.popped \in Nat /\ r.output.buffered \in Nat
      BY <3>1, <3>3, RoomOfStream DEF LoopInv
    <3>7. IndexSetOf(r) = [capacity |-> Capacity, pushed |-> r.expecting,
                           popped |-> r.output.popped, held |-> Held(r.lists),
                           finSeen |-> r.closed, end |-> r.terminate,
                           ended |-> r.output.closed]
      BY <3>1, IndexSetIs
    <3>8. IndexSetOf(r') = [capacity |-> Capacity, pushed |-> r.expecting,
                            popped |-> r.output.popped + Lesser(n, r.output.buffered),
                            held |-> Held(r.lists), finSeen |-> r.closed,
                            end |-> r.terminate, ended |-> r.output.closed]
      BY <3>2, <3>4, <3>5, IndexSetIs
    <3>9. IndexSetOf(r') = Abstract!Take(IndexSetOf(r), n)
      <4>1. r.expecting - r.output.popped = r.output.buffered  BY <3>6
      <4> QED  BY <3>7, <3>8, <4>1 DEF Abstract!Take, Abstract!Smaller, Lesser
    <3>10. Abstract!Read(n)
      BY <3>9 DEF Abstract!Read
    <3> QED  BY <3>10 DEF Abstract!Next
  <2> QED  BY <2>1, <2>2, <2>3 DEF Next
<1> QED  BY <1>1, <1>2, AlwaysSettled, PTL DEF Spec, ImplementsIndexSet, Abstract!Spec
=============================================================================
