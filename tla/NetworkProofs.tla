--------------------------- MODULE NetworkProofs ----------------------------
(***************************************************************************)
(* What holds of every network, every table, every traffic and any number  *)
(* of faults: the types, the choice of a route, that an interface believes *)
(* what it heard last, and that it does not flood its segment with         *)
(* requests.                                                               *)
(***************************************************************************)
EXTENDS Network, FiniteSets, TLAPS, FiniteSetTheorems, NaturalsInduction,
        WellFoundedInduction

(***************************************************************************)
(* What the operators of Router and NetworkInterface compute: the loop of  *)
(* Router::route() over its table finds the longest match, and each method *)
(* of an interface keeps its type and transmits frames.                    *)
(***************************************************************************)

\* Induction over the turns of a loop: there is a first one that goes wrong.
LEMMA Least ==
    ASSUME NEW T, T \subseteq Nat, T # {}
    PROVE  \E j \in T : \A i \in T : j <= i
<1>1. PICK j \in T : \A i \in T : ~ (<<i, j>> \in OpToRel(<, Nat))
  BY NatLessThanWellFounded, WFMin
<1>2. ASSUME NEW i \in T PROVE j <= i
  <2>1. i \in Nat /\ j \in Nat  OBVIOUS
  <2>2. i < j => <<i, j>> \in OpToRel(<, Nat)  BY <2>1 DEF OpToRel
  <2>3. ~ (<<i, j>> \in OpToRel(<, Nat))  BY <1>1
  <2>4. ~ (i < j)  BY <2>2, <2>3
  <2> QED  BY <2>1, <2>4
<1> QED  BY <1>2

-----------------------------------------------------------------------------
\* The equation of Span, up to a length that is k less than Width.
Spans(f, k) ==
    f = [length \in Width - k .. Width |->
            IF length = Width THEN 1 ELSE 2 * f[length + 1]]

LEMMA SpanIsDefined ==
    ASSUME NEW k \in 0 .. Width
    PROVE  \E f : Spans(f, k)
<1> DEFINE Undefined == {j \in 0 .. Width : ~ \E f : Spans(f, j)}
<1>1. SUFFICES ASSUME Undefined # {} PROVE FALSE
  OBVIOUS
<1>2. PICK j \in Undefined : \A i \in Undefined : j <= i
  <2>1. Undefined \subseteq Nat  BY WidthAssumption
  <2> HIDE DEF Undefined
  <2> QED  BY <1>1, <2>1, Least
<1>3. j # 0
  <2>1. Spans([length \in Width .. Width |-> 1], 0)  BY WidthAssumption DEF Spans
  <2> QED  BY <2>1
<1>4. j - 1 \in 0 .. Width /\ j - 1 \notin Undefined
  BY <1>2, <1>3, WidthAssumption
<1>5. PICK f : Spans(f, j - 1)
  BY <1>4
<1> DEFINE g == [length \in Width - j .. Width |->
                    IF length = Width THEN 1 ELSE 2 * f[length + 1]]
<1>6. Spans(g, j)
  <2>1. \A length \in Width - j .. Width :
            length # Width => length + 1 \in Width - (j - 1) .. Width
    BY WidthAssumption
  <2>2. \A length \in Width - (j - 1) .. Width :
            f[length] = IF length = Width THEN 1 ELSE 2 * f[length + 1]
    BY <1>5 DEF Spans
  <2>3. \A length \in Width - (j - 1) .. Width : g[length] = f[length]
    <3>1. \A length \in Width - (j - 1) .. Width : length \in Width - j .. Width
      BY WidthAssumption
    <3> QED  BY <2>2, <3>1
  <2>4. \A length \in Width - j .. Width :
            g[length] = IF length = Width THEN 1 ELSE 2 * g[length + 1]
    BY <2>1, <2>3
  <2>5. g = [length \in Width - j .. Width |-> g[length]]  OBVIOUS
  <2> HIDE DEF g
  <2> QED  BY <2>4, <2>5 DEF Spans
<1> QED  BY <1>6

LEMMA SpanEquation ==
    \A length \in 0 .. Width :
        Span[length] = IF length = Width THEN 1 ELSE 2 * Span[length + 1]
<1>1. \E f : Spans(f, Width)  BY SpanIsDefined, WidthAssumption
<1>2. \A f : Spans(f, Width) <=>
          f = [length \in 0 .. Width |-> IF length = Width THEN 1 ELSE 2 * f[length + 1]]
  BY WidthAssumption DEF Spans
<1>3. Span = CHOOSE f : f = [length \in 0 .. Width |->
                                IF length = Width THEN 1 ELSE 2 * f[length + 1]]
  BY DEF Span
<1>4. Span = [length \in 0 .. Width |-> IF length = Width THEN 1 ELSE 2 * Span[length + 1]]
  BY <1>1, <1>2, <1>3
<1> QED  BY <1>4

LEMMA SpanIsPositive == \A length \in 0 .. Width : Span[length] \in Nat \ {0}
<1> DEFINE Wrong == {j \in 0 .. Width : Span[Width - j] \notin Nat \ {0}}
<1>1. SUFFICES ASSUME Wrong # {} PROVE FALSE
  <2>1. ASSUME NEW length \in 0 .. Width, Span[length] \notin Nat \ {0} PROVE Wrong # {}
    <3>1. Width - length \in 0 .. Width /\ Width - (Width - length) = length
      BY WidthAssumption
    <3> QED  BY <2>1, <3>1
  <2> QED  BY <2>1
<1>2. PICK j \in Wrong : \A i \in Wrong : j <= i
  <2>1. Wrong \subseteq Nat  BY WidthAssumption
  <2> HIDE DEF Wrong
  <2> QED  BY <1>1, <2>1, Least
<1>3. j # 0
  <2>1. Span[Width - 0] = 1  BY SpanEquation, WidthAssumption
  <2> QED  BY <2>1
<1>4. j - 1 \in 0 .. Width /\ j - 1 \notin Wrong
  BY <1>2, <1>3, WidthAssumption
<1>5. Span[Width - (j - 1)] \in Nat \ {0}  BY <1>4
<1>6. /\ Width - j \in 0 .. Width /\ Width - j # Width
      /\ Width - (j - 1) = Width - j + 1
  BY <1>3, WidthAssumption
<1>7. Span[Width - j] = 2 * Span[Width - (j - 1)]
  BY <1>6, SpanEquation
<1> QED  BY <1>5, <1>7

\* Two numbers have the same quotient if they are the same but for the remainders.
LEMMA SameQuotient ==
    ASSUME NEW p \in Nat \ {0}, NEW a \in Nat, NEW b \in Nat
    PROVE  a - (a % p) = b - (b % p) <=> a \div p = b \div p
<1>1. /\ a \div p \in Int /\ a % p \in Int /\ a = p * (a \div p) + (a % p)
      /\ b \div p \in Int /\ b % p \in Int /\ b = p * (b \div p) + (b % p)
  OBVIOUS
<1> DEFINE x == a \div p
           y == b \div p
           r == a % p
           s == b % p
<1> HIDE DEF x, y, r, s
<1>2. a - r = p * x /\ b - s = p * y
  <2>1. x \in Int /\ r \in Int /\ a = p * x + r  BY <1>1 DEF x, r
  <2>2. y \in Int /\ s \in Int /\ b = p * y + s  BY <1>1 DEF y, s
  <2> QED  BY <2>1, <2>2
<1>3. p * x = p * y <=> x = y
  <2>1. x \in Int /\ y \in Int  BY <1>1 DEF x, y
  <2> QED  BY <2>1
<1> QED  BY <1>2, <1>3 DEF x, y, r, s

-----------------------------------------------------------------------------
\* The choice after the n-th entry, from that after the one before.
Chosen(table, dst, shift, n, before) ==
    IF /\ Matches(table[n], dst, shift)
       /\ \/ before = 0
          \/ table[n].netmask > table[before].netmask
    THEN n ELSE before

\* f is what the loop has chosen after each of the first k entries.
Chooses(f, table, dst, shift, k) ==
    f = [n \in 0 .. k |-> IF n = 0 THEN 0 ELSE Chosen(table, dst, shift, n, f[n - 1])]

LEMMA LoopIsDefined ==
    ASSUME NEW table, NEW dst, NEW shift, NEW k \in Nat
    PROVE  \E f : Chooses(f, table, dst, shift, k)
<1> DEFINE Undefined == {j \in Nat : ~ \E f : Chooses(f, table, dst, shift, j)}
<1>1. SUFFICES ASSUME Undefined # {} PROVE FALSE
  OBVIOUS
<1>2. PICK j \in Undefined : \A i \in Undefined : j <= i
  BY <1>1, Least
<1>3. j # 0
  <2>1. Chooses([n \in 0 .. 0 |-> 0], table, dst, shift, 0)
    BY DEF Chooses
  <2> QED BY <2>1
<1>4. j - 1 \in Nat /\ j - 1 \notin Undefined
  BY <1>2, <1>3
<1>5. PICK f : Chooses(f, table, dst, shift, j - 1)
  BY <1>4
<1> DEFINE g == [n \in 0 .. j |-> IF n < j THEN f[n]
                                  ELSE Chosen(table, dst, shift, j, f[j - 1])]
<1>6. Chooses(g, table, dst, shift, j)
  <2>1. \A n \in 0 .. j : n # 0 => n - 1 \in 0 .. j - 1 /\ g[n - 1] = f[n - 1]
    BY <1>3
  <2>2. \A n \in 0 .. j - 1 :
            f[n] = IF n = 0 THEN 0 ELSE Chosen(table, dst, shift, n, f[n - 1])
    BY <1>5 DEF Chooses
  <2>3. \A n \in 0 .. j :
            g[n] = IF n = 0 THEN 0 ELSE Chosen(table, dst, shift, n, g[n - 1])
    BY <1>3, <2>1, <2>2
  <2>4. g = [n \in 0 .. j |-> g[n]]
    OBVIOUS
  <2> HIDE DEF g
  <2> QED BY <2>3, <2>4 DEF Chooses
<1> QED BY <1>6

LEMMA BestMatchLoop ==
    ASSUME NEW table, NEW dst, NEW shift, Len(table) \in Nat
    PROVE  \E f : /\ Chooses(f, table, dst, shift, Len(table))
                  /\ BestMatch(table, dst, shift) = f[Len(table)]
<1>1. \E f : Chooses(f, table, dst, shift, Len(table))
  BY LoopIsDefined
<1>2. BestMatch(table, dst, shift)
        = (CHOOSE f : Chooses(f, table, dst, shift, Len(table)))[Len(table)]
  BY DEF BestMatch, Chooses, Chosen
<1> QED BY <1>1, <1>2

\* The invariant of the loop: b is the longest of the first k that match, or 0.
LongestOf(table, dst, shift, k, b) ==
    /\ b \in 0 .. k
    /\ b # 0 => Matches(table[b], dst, shift)
    /\ \A n \in 1 .. k :
          Matches(table[n], dst, shift) =>
              /\ b # 0 /\ table[n].netmask <= table[b].netmask
              /\ n < b => table[n].netmask < table[b].netmask

LEMMA ChosenIsLongest ==
    ASSUME NEW table \in Seq(RouterEntries), NEW dst, NEW shift,
           NEW k \in 1 .. Len(table), NEW b, LongestOf(table, dst, shift, k - 1, b)
    PROVE  LongestOf(table, dst, shift, k, Chosen(table, dst, shift, k, b))
<1> DEFINE c == Chosen(table, dst, shift, k, b)
           M(n) == Matches(table[n], dst, shift)
           L(n) == table[n].netmask
<1>1. ASSUME NEW n \in 1 .. k PROVE L(n) \in Nat
  <2>1. table[n] \in RouterEntries  OBVIOUS
  <2> QED  BY <2>1, WidthAssumption DEF RouterEntries
<1>2. /\ b \in 0 .. k - 1 /\ (b # 0 => M(b))
      /\ \A n \in 1 .. k - 1 : M(n) => b # 0 /\ L(n) <= L(b) /\ (n < b => L(n) < L(b))
  BY DEF LongestOf
<1>3. \/ c = k /\ M(k) /\ (b = 0 \/ L(k) > L(b))
      \/ c = b /\ ~(M(k) /\ (b = 0 \/ L(k) > L(b)))
  BY DEF Chosen
<1> HIDE DEF c, M, L
<1>4. /\ c \in 0 .. k /\ (c # 0 => M(c))
      /\ \A n \in 1 .. k : M(n) => c # 0 /\ L(n) <= L(c) /\ (n < c => L(n) < L(c))
  <2>1. CASE c = k /\ M(k) /\ (b = 0 \/ L(k) > L(b))
    BY <1>1, <1>2, <2>1
  <2>2. CASE c = b /\ ~(M(k) /\ (b = 0 \/ L(k) > L(b)))
    BY <1>1, <1>2, <2>2
  <2> QED  BY <1>3, <2>1, <2>2
<1> QED  BY <1>4 DEF LongestOf, c, M, L

LEMMA BestMatchIsLongest ==
    ASSUME NEW table \in Seq(RouterEntries), NEW dst, NEW shift
    PROVE  LongestOf(table, dst, shift, Len(table), BestMatch(table, dst, shift))
<1>1. PICK f : /\ Chooses(f, table, dst, shift, Len(table))
               /\ BestMatch(table, dst, shift) = f[Len(table)]
  BY BestMatchLoop
<1> DEFINE Wrong == {j \in 0 .. Len(table) : ~ LongestOf(table, dst, shift, j, f[j])}
<1>2. SUFFICES ASSUME Wrong # {} PROVE FALSE
  BY <1>1
<1>3. PICK j \in Wrong : \A i \in Wrong : j <= i
  <2>1. Wrong \subseteq Nat  OBVIOUS
  <2> HIDE DEF Wrong
  <2> QED  BY <1>2, <2>1, Least
<1>4. \A n \in 0 .. Len(table) :
          f[n] = IF n = 0 THEN 0 ELSE Chosen(table, dst, shift, n, f[n - 1])
  BY <1>1 DEF Chooses
<1>5. j # 0
  <2>1. f[0] = 0  BY <1>4
  <2>2. LongestOf(table, dst, shift, 0, 0)  BY DEF LongestOf
  <2> QED  BY <2>1, <2>2
<1>6. j - 1 \in 0 .. Len(table) /\ j - 1 \notin Wrong  BY <1>3, <1>5
<1>7. LongestOf(table, dst, shift, j - 1, f[j - 1])  BY <1>6
<1>8. LongestOf(table, dst, shift, j, f[j])
  <2>1. j \in 1 .. Len(table)  BY <1>5
  <2>2. f[j] = Chosen(table, dst, shift, j, f[j - 1])  BY <1>4, <1>5
  <2> QED  BY <1>7, <2>1, <2>2, ChosenIsLongest
<1> QED  BY <1>8
-----------------------------------------------------------------------------
LEMMA DecrementedType ==
    ASSUME NEW d \in Datagrams, ~Expires(d)
    PROVE  /\ Decremented(d) \in Datagrams /\ Decremented(d).ttl < d.ttl
           /\ Decremented(d).id = d.id /\ Decremented(d).dst = d.dst
<1>1. d.ttl \in 1 .. MaxTTL  BY TTLAssumption DEF Datagrams, Expires
<1>2. (d.ttl + MaxTTL) % (MaxTTL + 1) = d.ttl - 1  BY <1>1, TTLAssumption
<1>3. Decremented(d) = [d EXCEPT !.ttl = d.ttl - 1]  BY <1>2 DEF Decremented
<1>4. d.ttl - 1 \in 0 .. MaxTTL /\ d.ttl - 1 < d.ttl  BY <1>1, TTLAssumption
<1> QED  BY <1>3, <1>4 DEF Datagrams

LEMMA NewInterfaceType ==
    ASSUME NEW e \in EthernetAddresses, NEW p \in IPAddresses
    PROVE  /\ NewInterface(e, p) \in Interfaces
           /\ NewInterface(e, p).ethernet = e /\ NewInterface(e, p).ip = p
BY DEF NewInterface, Interfaces

LEMMA SendType ==
    ASSUME NEW i \in Interfaces, NEW d \in Datagrams, NEW hop \in IPAddresses
    PROVE  /\ SendDatagram(i, d, hop) \in Interfaces
           /\ SendDatagram(i, d, hop).ethernet = i.ethernet
           /\ SendDatagram(i, d, hop).ip = i.ip
           /\ SendDatagram(i, d, hop).arp_map = i.arp_map
           /\ SendDatagram(i, d, hop).datagrams_received = i.datagrams_received
           /\ SendTransmits(i, d, hop) \in Seq(Frames)
<1>1. /\ i.ethernet \in EthernetAddresses /\ i.ip \in IPAddresses
      /\ i.arp_map \in [IPAddresses -> Mappings \union {Absent}]
      /\ i.wait_list \in [IPAddresses -> Waiting \union {Absent}]
  BY DEF Interfaces
<1>2. [dgrams |-> <<d>>, age |-> 0] \in Waiting
  BY PeriodAssumption DEF Waiting
<1>3. SendDatagram(i, d, hop) \in Interfaces
  BY <1>2 DEF SendDatagram, Interfaces
<1>4. /\ SendDatagram(i, d, hop).ethernet = i.ethernet
      /\ SendDatagram(i, d, hop).ip = i.ip
      /\ SendDatagram(i, d, hop).arp_map = i.arp_map
      /\ SendDatagram(i, d, hop).datagrams_received = i.datagrams_received
  BY DEF SendDatagram, Interfaces
<1>5. ARPRequest(i, hop) \in Frames
  BY <1>1 DEF ARPRequest, Frame, Frames, Addresses, ARPMessages
<1>6. ASSUME i.arp_map[hop] # Absent
      PROVE  Frame(i.arp_map[hop].ethernet, i.ethernet, "IPv4", d) \in Frames
  <2>1. i.arp_map[hop] \in Mappings  BY <1>1, <1>6
  <2>2. i.arp_map[hop].ethernet \in EthernetAddresses  BY <2>1 DEF Mappings
  <2> QED  BY <1>1, <2>2 DEF Frame, Frames, Addresses
<1>7. SendTransmits(i, d, hop) \in Seq(Frames)
  BY <1>5, <1>6 DEF SendTransmits
<1> QED  BY <1>3, <1>4, <1>7

\* What a frame says, by its type.
LEMMA FrameType ==
    ASSUME NEW f \in Frames
    PROVE  /\ f.src \in EthernetAddresses
           /\ f.type \in {"IPv4", "ARP"}
           /\ f.type = "IPv4" => f.payload \in Datagrams
           /\ f.type = "ARP" => /\ f.payload.sender_ip \in IPAddresses
                                /\ f.payload.sender_ethernet \in EthernetAddresses
BY DEF Frames, ARPMessages

LEMMA RecvType ==
    ASSUME NEW i \in Interfaces, NEW f \in Frames
    PROVE  /\ RecvFrame(i, f) \in Interfaces
           /\ RecvFrame(i, f).ethernet = i.ethernet
           /\ RecvFrame(i, f).ip = i.ip
           /\ RecvTransmits(i, f) \in Seq(Frames)
<1> DEFINE m == f.payload
<1>1. /\ i.ethernet \in EthernetAddresses /\ i.ip \in IPAddresses
      /\ i.arp_map \in [IPAddresses -> Mappings \union {Absent}]
      /\ i.wait_list \in [IPAddresses -> Waiting \union {Absent}]
      /\ i.datagrams_received \in Seq(Datagrams)
  BY DEF Interfaces
<1>2. CASE ~IsForUs(i, f)
  <2>1. RecvFrame(i, f) = i  BY <1>2 DEF RecvFrame
  <2>2. RecvTransmits(i, f) = << >>  BY <1>2 DEF RecvTransmits
  <2> QED  BY <2>1, <2>2
<1>3. CASE IsForUs(i, f) /\ f.type = "ARP"
  <2>1. m.sender_ip \in IPAddresses /\ m.sender_ethernet \in EthernetAddresses
    BY <1>3, FrameType
  <2>2. Learned(i, m) \in [IPAddresses -> Mappings \union {Absent}]
    <3> DEFINE old == i.arp_map[m.sender_ip]
               age == IF old = Absent THEN 0 ELSE old.age
    <3>1. Learned(i, m) = [i.arp_map EXCEPT ![m.sender_ip] =
                              [ethernet |-> m.sender_ethernet, age |-> age]]
      BY <1>1, <2>1 DEF Learned
    <3>2. age \in 0 .. ARP_MAP_TTL - 1
      <4>1. old = Absent \/ old \in Mappings  BY <1>1, <2>1
      <4> QED  BY <4>1, PeriodAssumption DEF Mappings
    <3>3. [ethernet |-> m.sender_ethernet, age |-> age] \in Mappings
      BY <2>1, <3>2 DEF Mappings
    <3> HIDE DEF age, m
    <3> QED  BY <1>1, <3>1, <3>3
  <2>3. Released(i, m) \in [IPAddresses -> Waiting \union {Absent}]
    BY <1>1 DEF Released
  <2>4. RecvFrame(i, f) = [i EXCEPT !.arp_map = Learned(i, m), !.wait_list = Released(i, m)]
    BY <1>3 DEF RecvFrame
  <2>5. /\ RecvFrame(i, f) \in Interfaces
        /\ RecvFrame(i, f).ethernet = i.ethernet /\ RecvFrame(i, f).ip = i.ip
    BY <2>2, <2>3, <2>4 DEF Interfaces
  <2>6. RecvTransmits(i, f) \in Seq(Frames)
    <3> DEFINE waiting == i.wait_list[m.sender_ip]
               out == [n \in DOMAIN waiting.dgrams |->
                          Frame(m.sender_ethernet, i.ethernet, "IPv4", waiting.dgrams[n])]
    <3>1. ARPReply(i, m) \in Frames
      BY <1>1, <2>1 DEF ARPReply, Frame, Frames, Addresses, ARPMessages
    <3>2. ASSUME waiting # Absent PROVE out \in Seq(Frames)
      <4>1. waiting \in Waiting  BY <1>1, <2>1, <3>2
      <4>2. waiting.dgrams \in Seq(Datagrams)  BY <4>1 DEF Waiting
      <4>3. ASSUME NEW n \in DOMAIN waiting.dgrams
            PROVE  Frame(m.sender_ethernet, i.ethernet, "IPv4", waiting.dgrams[n]) \in Frames
        <5>1. waiting.dgrams[n] \in Datagrams  BY <4>2
        <5> QED  BY <1>1, <2>1, <5>1 DEF Frame, Frames, Addresses
      <4> DEFINE dgrams == waiting.dgrams
      <4>4. DOMAIN dgrams = 1 .. Len(dgrams) /\ Len(dgrams) \in Nat
        <5>1. dgrams \in Seq(Datagrams)  BY <4>2
        <5> HIDE DEF dgrams
        <5> QED  BY <5>1
      <4> HIDE DEF waiting
      <4> QED  BY <4>3, <4>4
    <3> HIDE DEF waiting, m
    <3> QED  BY <1>3, <3>1, <3>2 DEF RecvTransmits, m, waiting
  <2> QED  BY <2>5, <2>6
<1>4. CASE IsForUs(i, f) /\ f.type = "IPv4"
  <2>1. f.payload \in Datagrams  BY <1>4, FrameType
  <2>2. RecvFrame(i, f) = i \/ RecvFrame(i, f) = [i EXCEPT !.datagrams_received = Append(@, f.payload)]
    BY <1>4 DEF RecvFrame
  <2>3. Append(i.datagrams_received, f.payload) \in Seq(Datagrams)  BY <1>1, <2>1
  <2>4. /\ RecvFrame(i, f) \in Interfaces
        /\ RecvFrame(i, f).ethernet = i.ethernet /\ RecvFrame(i, f).ip = i.ip
    BY <2>2, <2>3 DEF Interfaces
  <2>5. RecvTransmits(i, f) = << >>  BY <1>4 DEF RecvTransmits
  <2> QED  BY <2>4, <2>5
<1> QED  BY <1>2, <1>3, <1>4, FrameType

LEMMA AgedType ==
    ASSUME NEW t \in Nat
    PROVE  /\ \A e \in Mappings \union {Absent} :
                 Aged(e, t, ARP_MAP_TTL) \in Mappings \union {Absent}
           /\ \A w \in Waiting \union {Absent} :
                 Aged(w, t, ARP_RETX_PERIOD) \in Waiting \union {Absent}
<1>1. ASSUME NEW e \in Mappings, e.age + t < ARP_MAP_TTL
      PROVE  [e EXCEPT !.age = @ + t] \in Mappings
  <2>1. e.age \in Nat  BY PeriodAssumption DEF Mappings
  <2>2. e.age + t \in 0 .. ARP_MAP_TTL - 1  BY <1>1, <2>1, PeriodAssumption
  <2> QED  BY <2>2 DEF Mappings
<1>2. ASSUME NEW w \in Waiting, w.age + t < ARP_RETX_PERIOD
      PROVE  [w EXCEPT !.age = @ + t] \in Waiting
  <2>1. w.age \in Nat  BY PeriodAssumption DEF Waiting
  <2>2. w.age + t \in 0 .. ARP_RETX_PERIOD - 1  BY <1>2, <2>1, PeriodAssumption
  <2> QED  BY <2>2 DEF Waiting
<1>3. \A e \in Mappings : e.age \in Nat  BY PeriodAssumption DEF Mappings
<1>4. \A w \in Waiting : w.age \in Nat  BY PeriodAssumption DEF Waiting
<1> QED  BY <1>1, <1>2, <1>3, <1>4, PeriodAssumption DEF Aged

LEMMA TickType ==
    ASSUME NEW i \in Interfaces, NEW t \in Nat
    PROVE  /\ Tick(i, t) \in Interfaces
           /\ Tick(i, t).ethernet = i.ethernet /\ Tick(i, t).ip = i.ip
           /\ Tick(i, t).datagrams_received = i.datagrams_received
<1>1. [a \in IPAddresses |-> Aged(i.arp_map[a], t, ARP_MAP_TTL)]
        \in [IPAddresses -> Mappings \union {Absent}]
  BY AgedType DEF Interfaces
<1>2. [a \in IPAddresses |-> Aged(i.wait_list[a], t, ARP_RETX_PERIOD)]
        \in [IPAddresses -> Waiting \union {Absent}]
  BY AgedType DEF Interfaces
<1> QED  BY <1>1, <1>2 DEF Tick, Interfaces

-----------------------------------------------------------------------------
(***************************************************************************)
(* What the code compares by masks is the prefix, except that a mask of no *)
(* bits may be left whole: what matches has the prefix also then.          *)
(***************************************************************************)
LEMMA MatchesIsPrefix ==
    ASSUME zero_shift \in ZeroShifts, NEW entry \in RouterEntries, NEW dst \in IPAddresses
    PROVE  /\ Matches(entry, dst, zero_shift) => HasPrefix(entry, dst)
           /\ entry.netmask > 0 \/ zero_shift = "cleared" =>
                 (HasPrefix(entry, dst) => Matches(entry, dst, zero_shift))
<1> DEFINE length == entry.netmask
           p == Span[length]
<1>1. length \in 0 .. Width /\ length \in Nat /\ entry.ipv4 \in IPAddresses
  BY WidthAssumption DEF RouterEntries
<1>2. p \in Nat \ {0}
  BY <1>1, SpanIsPositive
<1>3. dst \in Nat /\ entry.ipv4 \in Nat
  <2>1. Span[0] \in Nat  BY SpanIsPositive, WidthAssumption
  <2> QED  BY <1>1, <2>1, WidthAssumption
<1>4. HasPrefix(entry, dst) <=> dst \div p = entry.ipv4 \div p
  BY DEF HasPrefix
<1>5. CASE length # 0
  <2>1. Matches(entry, dst, zero_shift) <=> entry.ipv4 - (entry.ipv4 % p) = dst - (dst % p)
    BY <1>5 DEF Matches, NetAddr
  <2> HIDE DEF p
  <2>2. entry.ipv4 - (entry.ipv4 % p) = dst - (dst % p)
            <=> entry.ipv4 \div p = dst \div p
    BY <1>2, <1>3, SameQuotient
  <2> QED  BY <1>4, <2>1, <2>2
<1>6. CASE length = 0 /\ zero_shift = "unshifted"
  <2>1. Matches(entry, dst, zero_shift) => entry.ipv4 = dst
    BY <1>6 DEF Matches, NetAddr
  <2> QED  BY <1>4, <1>6, <2>1
<1>7. CASE length = 0 /\ zero_shift = "cleared"
  <2>1. Matches(entry, dst, zero_shift)  BY <1>7 DEF Matches, NetAddr
  <2>2. HasPrefix(entry, dst)
    <3> DEFINE q == Span[0]
    <3>1. q \in Nat \ {0} /\ dst < q /\ entry.ipv4 < q
      BY <1>1, <1>2, <1>3, <1>7, WidthAssumption
    <3>2. HasPrefix(entry, dst) <=> dst \div q = entry.ipv4 \div q
      BY <1>7 DEF HasPrefix
    <3> HIDE DEF q
    <3>3. dst \div q = 0 /\ entry.ipv4 \div q = 0  BY <1>3, <3>1
    <3> QED  BY <3>2, <3>3
  <2> QED  BY <2>1, <2>2
<1> QED  BY <1>1, <1>5, <1>6, <1>7 DEF ZeroShifts

\* The build does not change, and the table has entries only.
TableInv == zero_shift \in ZeroShifts /\ router_map \in Seq(RouterEntries)

LEMMA TableIsKept == TableInv /\ [Next]_vars => TableInv'
<1> SUFFICES ASSUME TableInv, [Next]_vars PROVE TableInv'  OBVIOUS
<1>1. ASSUME NEW entry \in TableRoutes, AddRoute(entry) PROVE TableInv'
  <2>1. entry \in RouterEntries  BY TopologyAssumption
  <2> QED  BY <1>1, <2>1 DEF AddRoute, TableInv
<1>2. ASSUME UNCHANGED <<zero_shift, router_map>> PROVE TableInv'
  BY <1>2 DEF TableInv
<1>3. ASSUME NEW message \in Traffic, NEW hop \in IPAddresses,
             HostSend(message.from, message.datagram, hop)
      PROVE  UNCHANGED <<zero_shift, router_map>>
  BY <1>3 DEF HostSend
<1>4. ASSUME NEW n \in Names, Deliver(n) \/ Lose(n)
      PROVE  UNCHANGED <<zero_shift, router_map>>
  BY <1>4 DEF Deliver, Lose
<1>5. ASSUME RouteStart \/ RouteOne \/ RouteNext
      PROVE  UNCHANGED <<zero_shift, router_map>>
  BY <1>5 DEF RouteStart, RouteOne, RouteNext
<1>6. ASSUME NEW t \in Ticks, TimePasses(t)
      PROVE  UNCHANGED <<zero_shift, router_map>>
  BY <1>6 DEF TimePasses
<1>7. ASSUME NEW n \in Hosts, NEW ethernet \in EthernetAddresses, Restart(n, ethernet)
      PROVE  UNCHANGED <<zero_shift, router_map>>
  BY <1>7 DEF Restart
<1>8. CASE UNCHANGED vars  BY <1>2, <1>8 DEF vars
<1> QED  BY <1>1, <1>2, <1>3, <1>4, <1>5, <1>6, <1>7, <1>8 DEF Next

LEMMA TableChoosesLongest == TableInv => LongestPrefixWins
<1> SUFFICES ASSUME TableInv, NEW dst \in IPAddresses, ~LeftToTheBuild(dst)
             PROVE  LET best == BestMatch(router_map, dst, zero_shift)
                    IN  IF Applicable(dst) = {} THEN best = 0
                        ELSE /\ best \in Applicable(dst)
                             /\ \A k \in Applicable(dst) :
                                   /\ router_map[k].netmask <= router_map[best].netmask
                                   /\ k < best =>
                                         router_map[k].netmask < router_map[best].netmask
  BY DEF LongestPrefixWins
<1> DEFINE best == BestMatch(router_map, dst, zero_shift)
           A == Applicable(dst)
           L(k) == router_map[k].netmask
           M(k) == Matches(router_map[k], dst, zero_shift)
<1>1. LongestOf(router_map, dst, zero_shift, Len(router_map), best)
  BY BestMatchIsLongest DEF TableInv
<1>2. DOMAIN router_map = 1 .. Len(router_map) /\ A \subseteq DOMAIN router_map
  BY DEF TableInv, Applicable
<1>3. ASSUME NEW k \in DOMAIN router_map
      PROVE  /\ L(k) \in Nat
             /\ M(k) => k \in A
             /\ k \in A /\ (L(k) > 0 \/ zero_shift = "cleared") => M(k)
  <2>1. router_map[k] \in RouterEntries  BY DEF TableInv
  <2>2. L(k) \in Nat  BY <2>1, WidthAssumption DEF RouterEntries
  <2> QED  BY <2>1, <2>2, MatchesIsPrefix DEF TableInv, Applicable
<1>4. zero_shift = "cleared" \/ A = {} \/ \E k \in A : L(k) > 0
  <2>1. \A k \in A : L(k) \in Nat  BY <1>2, <1>3
  <2>2. zero_shift \in {"unshifted", "cleared"}  BY DEF TableInv, ZeroShifts
  <2> QED  BY <2>1, <2>2 DEF LeftToTheBuild
<1>5. /\ best \in 0 .. Len(router_map) /\ (best # 0 => M(best))
      /\ \A k \in DOMAIN router_map :
            M(k) => best # 0 /\ L(k) <= L(best) /\ (k < best => L(k) < L(best))
  BY <1>1, <1>2 DEF LongestOf
<1> HIDE DEF best, A, L, M
<1>6. best # 0 => best \in A /\ L(best) \in Nat  BY <1>2, <1>3, <1>5
<1>7. CASE zero_shift = "cleared"
  BY <1>2, <1>3, <1>5, <1>6, <1>7 DEF best, A, L
<1>8. CASE A = {}
  BY <1>6, <1>8 DEF best, A
<1>9. ASSUME NEW j \in A, L(j) > 0
      PROVE  /\ best \in A
             /\ \A k \in A : L(k) <= L(best) /\ (k < best => L(k) < L(best))
  <2>1. j \in DOMAIN router_map /\ M(j)  BY <1>2, <1>3, <1>9
  <2>2. best # 0 /\ L(j) <= L(best) /\ best \in A /\ L(best) \in Nat /\ L(j) \in Nat
    BY <1>3, <1>5, <1>6, <2>1
  <2>3. L(best) > 0  BY <1>9, <2>2
  <2>4. ASSUME NEW k \in A PROVE L(k) <= L(best) /\ (k < best => L(k) < L(best))
    <3>1. k \in DOMAIN router_map /\ L(k) \in Nat  BY <1>2, <1>3
    <3>2. CASE L(k) > 0  BY <1>3, <1>5, <3>1, <3>2
    <3>3. CASE L(k) = 0  BY <2>2, <2>3, <3>3
    <3> QED  BY <3>1, <3>2, <3>3
  <2> QED  BY <2>2, <2>4
<1>10. CASE A # {} /\ zero_shift # "cleared"
  BY <1>4, <1>9, <1>10 DEF best, A, L
<1> QED  BY <1>7, <1>8, <1>10

(***************************************************************************)
(* The route of an address is the longest prefix that it has, and the      *)
(* first of them, for every table and every width of an address; only      *)
(* where nothing but a default route applies does it depend on the outcome *)
(* of the shift by that width (router.cc:36-44).                           *)
(***************************************************************************)
THEOREM LongestPrefixAlwaysWins == Spec => []LongestPrefixWins
<1>1. Init => TableInv  BY DEF Init, TableInv
<1> QED  BY <1>1, TableIsKept, TableChoosesLongest, PTL DEF Spec

-----------------------------------------------------------------------------
TypeInv ==
    /\ TableInv /\ Len(router_map) <= MaxRoutes
    /\ iface \in [Names -> Interfaces]
    /\ \A n \in Names : iface[n].ethernet \in had[n] /\ iface[n].ip = IP[n]
    /\ inbox \in [Names -> Seq(Frames)]
    /\ routing \in 0 .. Len(Ports) /\ faults \in 0 .. MaxFaults
    /\ origin \in [Ids -> Datagrams \union {Absent}]
    /\ had \in [Names -> SUBSET EthernetAddresses]
    /\ sent \in [Names -> [Ids -> Nat]]
    /\ asked \in [Names -> [IPAddresses -> 0 .. ARP_RETX_PERIOD]]
    /\ heard \in [Names -> [IPAddresses -> Mappings \union {Absent}]]

LEMMA TypeInvTypes == TypeInv => TypeOK
<1> SUFFICES ASSUME TypeInv PROVE TypeOK  OBVIOUS
<1>1. ASSUME NEW n \in Names
      PROVE  /\ iface[n].ethernet \in had[n] /\ iface[n].ip = IP[n]
             /\ iface[n].arp_map \in [IPAddresses -> Mappings \union {Absent}]
             /\ iface[n].datagrams_received \in Seq(Datagrams)
             /\ \A k \in DOMAIN inbox[n] : inbox[n][k] \in Frames
             /\ \A a \in IPAddresses :
                   iface[n].wait_list[a] # Absent =>
                       /\ iface[n].wait_list[a].age \in 0 .. ARP_RETX_PERIOD - 1
                       /\ iface[n].wait_list[a].dgrams \in Seq(Datagrams)
  <2>1. iface[n] \in Interfaces /\ inbox[n] \in Seq(Frames)  BY DEF TypeInv
  <2>2. ASSUME NEW a \in IPAddresses, iface[n].wait_list[a] # Absent
        PROVE  iface[n].wait_list[a] \in Waiting
    BY <2>1, <2>2 DEF Interfaces
  <2>3. iface[n].ethernet \in had[n] /\ iface[n].ip = IP[n]  BY DEF TypeInv
  <2> QED  BY <2>1, <2>2, <2>3 DEF Interfaces, Waiting
<1> QED  BY <1>1 DEF TypeOK, TypeInv, TableInv

LEMMA CarriedType ==
    ASSUME NEW S, NEW inboxes \in [Names -> Seq(S)], NEW n, NEW frames \in Seq(S)
    PROVE  Carried(inboxes, n, frames) \in [Names -> Seq(S)]
BY DEF Carried

LEMMA CopiesType ==
    ASSUME NEW frames \in Seq(Frames), NEW id
    PROVE  Copies(frames, id) \in Nat
<1> DEFINE K == {k \in DOMAIN frames : frames[k].type = "IPv4" /\ frames[k].payload.id = id}
<1>1. K \in SUBSET (1 .. Len(frames))  OBVIOUS
<1>2. IsFiniteSet(1 .. Len(frames))  BY FS_Interval
<1>3. IsFiniteSet(K)  BY <1>1, <1>2, FS_Subset
<1> QED  BY <1>3, FS_CardinalityType DEF Copies

LEMMA NotedType ==
    ASSUME TypeInv, NEW n, NEW frames \in Seq(Frames), Noted(n, frames)
    PROVE  /\ sent' \in [Names -> [Ids -> Nat]]
           /\ asked' \in [Names -> [IPAddresses -> 0 .. ARP_RETX_PERIOD]]
<1>1. [id \in Ids |-> sent[n][id] + Copies(frames, id)] \in [Ids -> Nat] \/ n \notin Names
  BY CopiesType DEF TypeInv
<1>2. \/ n \notin Names
      \/ [a \in IPAddresses |-> IF Requests(frames, a) THEN 0 ELSE asked[n][a]]
            \in [IPAddresses -> 0 .. ARP_RETX_PERIOD]
  BY PeriodAssumption DEF TypeInv
<1>3. sent' = [sent EXCEPT ![n] = [id \in Ids |-> sent[n][id] + Copies(frames, id)]]
  BY DEF Noted
<1>4. asked' = [asked EXCEPT ![n] =
          [a \in IPAddresses |-> IF Requests(frames, a) THEN 0 ELSE asked[n][a]]]
  BY DEF Noted
<1> QED  BY <1>1, <1>2, <1>3, <1>4 DEF TypeInv

LEMMA LaterType ==
    ASSUME NEW t \in Nat, NEW q \in 0 .. ARP_RETX_PERIOD
    PROVE  Later(q, t, ARP_RETX_PERIOD) \in 0 .. ARP_RETX_PERIOD
BY PeriodAssumption DEF Later

\* What the loop of route() works on, when there is a route.
LEMMA RouteTypes ==
    ASSUME TypeInv, routing # 0, iface[Ports[routing]].datagrams_received # << >>
    PROVE  LET d    == Head(iface[Ports[routing]].datagrams_received)
               best == BestMatch(router_map, d.dst, zero_shift)
           IN  /\ Ports[routing] \in Names
               /\ d \in Datagrams
               /\ Tail(iface[Ports[routing]].datagrams_received) \in Seq(Datagrams)
               /\ best # 0 => /\ Ports[router_map[best].interface_idx] \in Names
                              /\ \E k \in DOMAIN Ports :
                                    Ports[router_map[best].interface_idx] = Ports[k]
                              /\ NextHop(router_map[best], d) \in IPAddresses
<1> DEFINE from == Ports[routing]
           d    == Head(iface[from].datagrams_received)
           best == BestMatch(router_map, d.dst, zero_shift)
<1>1. /\ DOMAIN Ports = 1 .. Len(Ports) /\ Len(Ports) \in Nat
      /\ \A k \in DOMAIN Ports : Ports[k] \in Names
  BY TopologyAssumption DEF Names
<1>2. from \in Names  BY <1>1 DEF TypeInv
<1>3. iface[from].datagrams_received \in Seq(Datagrams)
  BY <1>2 DEF TypeInv, Interfaces
<1>4. d \in Datagrams /\ Tail(iface[from].datagrams_received) \in Seq(Datagrams)
  BY <1>3
<1>5. ASSUME best # 0
      PROVE  /\ router_map[best].interface_idx \in 1 .. Len(Ports)
             /\ NextHop(router_map[best], d) \in IPAddresses
  <2>1. LongestOf(router_map, d.dst, zero_shift, Len(router_map), best)
    BY BestMatchIsLongest DEF TypeInv, TableInv
  <2>2. best \in 1 .. Len(router_map)
    <3> HIDE DEF best
    <3>1. best \in 0 .. Len(router_map)  BY <2>1 DEF LongestOf
    <3>2. Len(router_map) \in Nat  BY DEF TypeInv, TableInv
    <3> QED  BY <1>5, <3>1, <3>2
  <2>3. router_map[best] \in RouterEntries  BY <2>2 DEF TypeInv, TableInv
  <2>4. d.dst \in IPAddresses  BY <1>4 DEF Datagrams
  <2> HIDE DEF best, d
  <2> QED  BY <2>3, <2>4, TopologyAssumption DEF RouterEntries, NextHop
<1> QED  BY <1>1, <1>2, <1>4, <1>5

(***************************************************************************)
(* What the body of the loop of route() does to the interfaces: it takes a *)
(* datagram from a port, and may then send it, decremented, from another.  *)
(***************************************************************************)
Popped(popped) ==
    /\ popped \in [Names -> Interfaces]
    /\ \A m \in Names :
          /\ popped[m].ethernet = iface[m].ethernet /\ popped[m].ip = iface[m].ip
          /\ popped[m].arp_map = iface[m].arp_map
          /\ popped[m].wait_list = iface[m].wait_list
          /\ \A S : iface[m].datagrams_received \in Seq(S)
                       => popped[m].datagrams_received \in Seq(S)

Drops(popped) == iface' = popped /\ UNCHANGED <<inbox, sent, asked>>

Sends(popped, from, to, d, hop) ==
    /\ from \in Names /\ to \in {Ports[k] : k \in DOMAIN Ports} /\ to \in Names
    /\ d \in Datagrams /\ hop \in IPAddresses
    /\ \A S : iface[from].datagrams_received \in Seq(S) => d \in S
    /\ ~Expires(d) /\ Decremented(d) \in Datagrams
    /\ iface' = [popped EXCEPT ![to] = SendDatagram(popped[to], Decremented(d), hop)]
    /\ inbox' = Carried(inbox, to, SendTransmits(popped[to], Decremented(d), hop))
    /\ Noted(to, SendTransmits(popped[to], Decremented(d), hop))

LEMMA RouteOneEffect ==
    ASSUME TypeInv, RouteOne
    PROVE  /\ UNCHANGED <<zero_shift, router_map, routing, faults, origin, heard, had>>
           /\ \E popped : /\ Popped(popped)
                          /\ \/ Drops(popped)
                             \/ \E from, to, d, hop : Sends(popped, from, to, d, hop)
<1> DEFINE from == Ports[routing]
           d    == Head(iface[from].datagrams_received)
           rest == Tail(iface[from].datagrams_received)
           best == BestMatch(router_map, d.dst, zero_shift)
           to   == Ports[router_map[best].interface_idx]
           hop  == NextHop(router_map[best], d)
           popped == [iface EXCEPT ![from].datagrams_received = rest]
           frames == SendTransmits(popped[to], Decremented(d), hop)
<1>1. /\ from \in Names /\ d \in Datagrams /\ rest \in Seq(Datagrams)
      /\ best # 0 => /\ to \in Names /\ hop \in IPAddresses
                     /\ to \in {Ports[k] : k \in DOMAIN Ports}
  BY RouteTypes DEF RouteOne
<1>2. /\ IF Expires(d) \/ best = 0
         THEN iface' = popped /\ UNCHANGED <<inbox, sent, asked>>
         ELSE /\ iface' = [popped EXCEPT ![to] = SendDatagram(popped[to], Decremented(d), hop)]
              /\ inbox' = Carried(inbox, to, frames)
              /\ Noted(to, frames)
      /\ UNCHANGED <<zero_shift, router_map, routing, faults, origin, heard, had>>
  BY DEF RouteOne
<1>3. ASSUME NEW S, iface[from].datagrams_received \in Seq(S)
      PROVE  d \in S /\ rest \in Seq(S)
  <2>1. iface[from].datagrams_received # << >>  BY DEF RouteOne
  <2> QED  BY <1>3, <2>1
<1> HIDE DEF from, d, rest, best, to, hop
<1>4. Popped(popped)
  <2>1. [iface[from] EXCEPT !.datagrams_received = rest] \in Interfaces
    <3> DEFINE i == iface[from]
    <3>1. i \in Interfaces  BY <1>1 DEF TypeInv
    <3> HIDE DEF i
    <3>2. [i EXCEPT !.datagrams_received = rest] \in Interfaces
      BY <1>1, <3>1 DEF Interfaces
    <3> QED  BY <3>2 DEF i
  <2>2. popped \in [Names -> Interfaces]  BY <1>1, <2>1 DEF TypeInv
  <2>3. ASSUME NEW m \in Names
        PROVE  /\ popped[m].ethernet = iface[m].ethernet /\ popped[m].ip = iface[m].ip
               /\ popped[m].arp_map = iface[m].arp_map
               /\ popped[m].wait_list = iface[m].wait_list
               /\ \A S : iface[m].datagrams_received \in Seq(S)
                            => popped[m].datagrams_received \in Seq(S)
    <3>1. iface[m] \in Interfaces  BY DEF TypeInv
    <3>2. CASE m = from
      <4>1. popped[m] = [iface[m] EXCEPT !.datagrams_received = rest]
        BY <1>1, <3>2 DEF TypeInv
      <4>2. popped[m].datagrams_received = rest  BY <3>1, <4>1 DEF Interfaces
      <4> HIDE DEF popped
      <4> QED  BY <1>3, <3>1, <3>2, <4>1, <4>2 DEF Interfaces
    <3>3. CASE m # from
      <4>1. popped[m] = iface[m]  BY <1>1, <3>3 DEF TypeInv
      <4> QED  BY <4>1
    <3> QED  BY <3>2, <3>3
  <2> HIDE DEF popped
  <2> QED  BY <2>2, <2>3 DEF Popped
<1>5. CASE Expires(d) \/ best = 0
  <2>1. Drops(popped)  BY <1>2, <1>5 DEF Drops
  <2> QED  BY <1>2, <1>4, <2>1
<1>6. CASE ~(Expires(d) \/ best = 0)
  <2>1. Decremented(d) \in Datagrams  BY <1>1, <1>6, DecrementedType
  <2> HIDE DEF popped
  <2>2. Sends(popped, from, to, d, hop)
    BY <1>1, <1>2, <1>3, <1>6, <2>1 DEF Sends
  <2> QED  BY <1>2, <1>4, <2>2
<1> QED  BY <1>5, <1>6

LEMMA InitTypeInv == Init => TypeInv
<1> SUFFICES ASSUME Init PROVE TypeInv  OBVIOUS
<1>1. TableInv /\ Len(router_map) <= MaxRoutes
  <2>1. router_map = << >> /\ zero_shift \in ZeroShifts  BY DEF Init
  <2>2. router_map \in Seq(RouterEntries) /\ Len(router_map) = 0  BY <2>1
  <2> QED  BY <2>1, <2>2, TopologyAssumption DEF TableInv
<1>2. ASSUME NEW n \in Names
      PROVE  /\ iface[n] \in Interfaces
             /\ iface[n].ethernet \in had[n] /\ iface[n].ip = IP[n]
             /\ had[n] \in SUBSET EthernetAddresses
  <2>1. iface[n] = NewInterface(FirstEthernet[n], IP[n]) /\ had[n] = {FirstEthernet[n]}
    BY DEF Init
  <2>2. FirstEthernet[n] \in EthernetAddresses /\ IP[n] \in IPAddresses
    BY TopologyAssumption
  <2> QED  BY <2>1, <2>2, NewInterfaceType
<1>3. iface \in [Names -> Interfaces] /\ had \in [Names -> SUBSET EthernetAddresses]
  BY <1>2 DEF Init
<1>4. inbox \in [Names -> Seq(Frames)]  BY DEF Init
<1>5. routing \in 0 .. Len(Ports) /\ faults \in 0 .. MaxFaults
  BY TopologyAssumption DEF Init
<1>6. /\ origin \in [Ids -> Datagrams \union {Absent}]
      /\ sent \in [Names -> [Ids -> Nat]]
      /\ asked \in [Names -> [IPAddresses -> 0 .. ARP_RETX_PERIOD]]
      /\ heard \in [Names -> [IPAddresses -> Mappings \union {Absent}]]
  BY PeriodAssumption DEF Init
<1> QED  BY <1>1, <1>2, <1>3, <1>4, <1>5, <1>6 DEF TypeInv

LEMMA HostSendTypeInv ==
    ASSUME TypeInv, NEW message \in Traffic, NEW hop \in IPAddresses,
           HostSend(message.from, message.datagram, hop)
    PROVE  TypeInv'
<1> DEFINE n == message.from
           d == message.datagram
           frames == SendTransmits(iface[n], d, hop)
<1>1. n \in Names /\ d \in Datagrams  BY TopologyAssumption DEF Names
<1>2. iface[n] \in Interfaces  BY <1>1 DEF TypeInv
<1>3. /\ SendDatagram(iface[n], d, hop) \in Interfaces
      /\ SendDatagram(iface[n], d, hop).ethernet = iface[n].ethernet
      /\ SendDatagram(iface[n], d, hop).ip = iface[n].ip
      /\ frames \in Seq(Frames)
  BY <1>1, <1>2, SendType
<1>4. /\ iface' = [iface EXCEPT ![n] = SendDatagram(@, d, hop)]
      /\ inbox' = Carried(inbox, n, frames)
      /\ Noted(n, frames)
      /\ origin' = [origin EXCEPT ![d.id] = d]
      /\ UNCHANGED <<zero_shift, router_map, routing, faults, heard, had>>
  BY DEF HostSend
<1> HIDE DEF n, d, frames
<1>5. iface' \in [Names -> Interfaces]  BY <1>1, <1>3, <1>4 DEF TypeInv
<1>6. ASSUME NEW m \in Names PROVE iface'[m].ethernet \in had'[m] /\ iface'[m].ip = IP[m]
  <2>1. iface[m].ethernet \in had[m] /\ iface[m].ip = IP[m]  BY DEF TypeInv
  <2>2. iface'[m] = IF m = n THEN SendDatagram(iface[n], d, hop) ELSE iface[m]
    BY <1>1, <1>4 DEF TypeInv
  <2> QED  BY <1>3, <1>4, <2>1, <2>2
<1>7. inbox' \in [Names -> Seq(Frames)]  BY <1>3, <1>4, CarriedType DEF TypeInv
<1>8. origin' \in [Ids -> Datagrams \union {Absent}]  BY <1>1, <1>4 DEF TypeInv
<1> QED  BY <1>3, <1>4, <1>5, <1>6, <1>7, <1>8, NotedType DEF TypeInv, TableInv

LEMMA DeliverTypeInv ==
    ASSUME TypeInv, NEW n \in Names, Deliver(n)
    PROVE  TypeInv'
<1> DEFINE f == Head(inbox[n])
           frames == RecvTransmits(iface[n], f)
<1>1. f \in Frames /\ Tail(inbox[n]) \in Seq(Frames)
  <2>1. inbox[n] \in Seq(Frames) /\ inbox[n] # << >>  BY DEF TypeInv, Deliver
  <2> QED  BY <2>1
<1>2. iface[n] \in Interfaces  BY DEF TypeInv
<1>3. /\ RecvFrame(iface[n], f) \in Interfaces
      /\ RecvFrame(iface[n], f).ethernet = iface[n].ethernet
      /\ RecvFrame(iface[n], f).ip = iface[n].ip
      /\ frames \in Seq(Frames)
  BY <1>1, <1>2, RecvType
<1>4. /\ iface' = [iface EXCEPT ![n] = RecvFrame(@, f)]
      /\ inbox' = Carried([inbox EXCEPT ![n] = Tail(@)], n, frames)
      /\ Noted(n, frames)
      /\ heard' = IF f.type = "ARP" /\ IsForUs(iface[n], f)
                  THEN [heard EXCEPT ![n][f.payload.sender_ip] =
                           [ethernet |-> f.payload.sender_ethernet, age |-> 0]]
                  ELSE heard
      /\ UNCHANGED <<zero_shift, router_map, routing, faults, origin, had>>
  BY DEF Deliver
<1>5. heard' \in [Names -> [IPAddresses -> Mappings \union {Absent}]]
  <2>1. CASE f.type = "ARP"
    <3>1. f.payload.sender_ethernet \in EthernetAddresses  BY <1>1, <2>1, FrameType
    <3>2. [ethernet |-> f.payload.sender_ethernet, age |-> 0] \in Mappings
      BY <3>1, PeriodAssumption DEF Mappings
    <3> HIDE DEF f
    <3> QED  BY <1>4, <3>2 DEF TypeInv
  <2>2. CASE f.type # "ARP"  BY <1>4, <2>2 DEF TypeInv
  <2> QED  BY <2>1, <2>2
<1> HIDE DEF f, frames
<1>6. iface' \in [Names -> Interfaces]  BY <1>3, <1>4 DEF TypeInv
<1>7. ASSUME NEW m \in Names PROVE iface'[m].ethernet \in had'[m] /\ iface'[m].ip = IP[m]
  <2>1. iface[m].ethernet \in had[m] /\ iface[m].ip = IP[m]  BY DEF TypeInv
  <2>2. iface'[m] = IF m = n THEN RecvFrame(iface[n], f) ELSE iface[m]
    BY <1>4 DEF TypeInv
  <2> QED  BY <1>3, <1>4, <2>1, <2>2
<1>8. inbox' \in [Names -> Seq(Frames)]
  <2>1. [inbox EXCEPT ![n] = Tail(@)] \in [Names -> Seq(Frames)]  BY <1>1 DEF TypeInv
  <2> QED  BY <1>3, <1>4, <2>1, CarriedType
<1> QED  BY <1>3, <1>4, <1>5, <1>6, <1>7, <1>8, NotedType DEF TypeInv, TableInv

LEMMA RouteOneTypeInv ==
    ASSUME TypeInv, RouteOne
    PROVE  TypeInv'
<1>1. UNCHANGED <<zero_shift, router_map, routing, faults, origin, heard, had>>
  BY RouteOneEffect
<1>2. PICK popped : /\ Popped(popped)
                    /\ \/ Drops(popped)
                       \/ \E from, to, d, hop : Sends(popped, from, to, d, hop)
  BY RouteOneEffect
<1>3. ASSUME NEW m \in Names
      PROVE  /\ popped[m] \in Interfaces
             /\ popped[m].ethernet \in had[m] /\ popped[m].ip = IP[m]
  BY <1>2 DEF Popped, TypeInv
<1>4. CASE Drops(popped)
  BY <1>1, <1>2, <1>3, <1>4 DEF Popped, Drops, TypeInv, TableInv
<1>5. ASSUME NEW from, NEW to, NEW d, NEW hop, Sends(popped, from, to, d, hop)
      PROVE  TypeInv'
  <2> DEFINE sending == SendDatagram(popped[to], Decremented(d), hop)
             frames  == SendTransmits(popped[to], Decremented(d), hop)
  <2>1. /\ to \in Names /\ Decremented(d) \in Datagrams /\ hop \in IPAddresses
        /\ iface' = [popped EXCEPT ![to] = sending]
        /\ inbox' = Carried(inbox, to, frames) /\ Noted(to, frames)
    BY <1>5 DEF Sends
  <2>2. /\ sending \in Interfaces /\ frames \in Seq(Frames)
        /\ sending.ethernet = popped[to].ethernet /\ sending.ip = popped[to].ip
    BY <1>3, <2>1, SendType
  <2> HIDE DEF sending, frames
  <2>3. \A m \in Names : iface'[m] = IF m = to THEN sending ELSE popped[m]
    BY <1>2, <2>1 DEF Popped
  <2>4. iface' \in [Names -> Interfaces]  BY <1>2, <2>1, <2>2 DEF Popped
  <2>5. \A m \in Names : iface'[m].ethernet \in had'[m] /\ iface'[m].ip = IP[m]
    BY <1>1, <1>3, <2>2, <2>3
  <2>6. inbox' \in [Names -> Seq(Frames)]  BY <2>1, <2>2, CarriedType DEF TypeInv
  <2> QED  BY <1>1, <2>1, <2>2, <2>4, <2>5, <2>6, NotedType DEF TypeInv, TableInv
<1> QED  BY <1>2, <1>4, <1>5

LEMMA TimePassesTypeInv ==
    ASSUME TypeInv, NEW t \in Ticks, TimePasses(t)
    PROVE  TypeInv'
<1>1. t \in Nat  BY TopologyAssumption
<1>2. /\ iface' = [n \in Names |-> Tick(iface[n], t)]
      /\ asked' = [n \in Names |-> [a \in IPAddresses |->
                      Later(asked[n][a], t, ARP_RETX_PERIOD)]]
      /\ heard' = [n \in Names |-> [a \in IPAddresses |->
                      Aged(heard[n][a], t, ARP_MAP_TTL)]]
      /\ UNCHANGED <<zero_shift, router_map, inbox, routing, origin, sent, had>>
  BY DEF TimePasses
<1>3. faults' \in 0 .. MaxFaults  BY TopologyAssumption DEF TypeInv, TimePasses
<1>4. ASSUME NEW n \in Names
      PROVE  /\ iface'[n] \in Interfaces
             /\ iface'[n].ethernet \in had'[n] /\ iface'[n].ip = IP[n]
  <2>1. iface[n] \in Interfaces /\ iface[n].ethernet \in had[n] /\ iface[n].ip = IP[n]
    BY DEF TypeInv
  <2>2. iface'[n] = Tick(iface[n], t)  BY <1>2
  <2> QED  BY <1>1, <1>2, <2>1, <2>2, TickType
<1>5. iface' \in [Names -> Interfaces]  BY <1>2, <1>4
<1>6. asked' \in [Names -> [IPAddresses -> 0 .. ARP_RETX_PERIOD]]
  BY <1>1, <1>2, LaterType DEF TypeInv
<1>7. heard' \in [Names -> [IPAddresses -> Mappings \union {Absent}]]
  BY <1>1, <1>2, AgedType DEF TypeInv
<1> QED  BY <1>2, <1>3, <1>4, <1>5, <1>6, <1>7 DEF TypeInv, TableInv

LEMMA RestartTypeInv ==
    ASSUME TypeInv, NEW n \in Hosts, NEW ethernet \in EthernetAddresses, Restart(n, ethernet)
    PROVE  TypeInv'
<1>1. n \in Names /\ IP[n] \in IPAddresses  BY TopologyAssumption DEF Names
<1>2. /\ NewInterface(ethernet, IP[n]) \in Interfaces
      /\ NewInterface(ethernet, IP[n]).ethernet = ethernet
      /\ NewInterface(ethernet, IP[n]).ip = IP[n]
  BY <1>1, NewInterfaceType
<1>3. /\ iface' = [iface EXCEPT ![n] = NewInterface(ethernet, IP[n])]
      /\ inbox' = [inbox EXCEPT ![n] = << >>]
      /\ faults' = faults + 1 /\ faults < MaxFaults
      /\ had' = [had EXCEPT ![n] = @ \union {ethernet}]
      /\ heard' = [heard EXCEPT ![n] = [a \in IPAddresses |-> Absent]]
      /\ asked' = [asked EXCEPT ![n] = [a \in IPAddresses |-> ARP_RETX_PERIOD]]
      /\ UNCHANGED <<zero_shift, router_map, routing, origin, sent>>
  BY DEF Restart
<1>4. ASSUME NEW m \in Names PROVE iface'[m].ethernet \in had'[m] /\ iface'[m].ip = IP[m]
  <2>1. iface[m].ethernet \in had[m] /\ iface[m].ip = IP[m]  BY DEF TypeInv
  <2>2. iface'[m] = IF m = n THEN NewInterface(ethernet, IP[n]) ELSE iface[m]
    BY <1>3 DEF TypeInv
  <2>3. had'[m] = IF m = n THEN had[m] \union {ethernet} ELSE had[m]
    BY <1>3 DEF TypeInv
  <2> QED  BY <1>2, <2>1, <2>2, <2>3
<1>5. iface' \in [Names -> Interfaces] /\ inbox' \in [Names -> Seq(Frames)]
  BY <1>1, <1>2, <1>3 DEF TypeInv
<1>6. had' \in [Names -> SUBSET EthernetAddresses]  BY <1>1, <1>3 DEF TypeInv
<1>7. heard' \in [Names -> [IPAddresses -> Mappings \union {Absent}]]
  BY <1>1, <1>3 DEF TypeInv
<1>8. asked' \in [Names -> [IPAddresses -> 0 .. ARP_RETX_PERIOD]]
  BY <1>1, <1>3, PeriodAssumption DEF TypeInv
<1>9. faults' \in 0 .. MaxFaults  BY <1>3, TopologyAssumption DEF TypeInv
<1> QED  BY <1>3, <1>4, <1>5, <1>6, <1>7, <1>8, <1>9 DEF TypeInv, TableInv

LEMMA NextTypeInv == TypeInv /\ [Next]_vars => TypeInv'
<1> SUFFICES ASSUME TypeInv, [Next]_vars PROVE TypeInv'  OBVIOUS
<1>1. ASSUME NEW entry \in TableRoutes, AddRoute(entry) PROVE TypeInv'
  <2>1. entry \in RouterEntries  BY TopologyAssumption
  <2>2. /\ router_map' = Append(router_map, entry) /\ Len(router_map) < MaxRoutes
        /\ UNCHANGED <<zero_shift, network, routing, faults, history>>
    BY <1>1 DEF AddRoute
  <2>3. router_map' \in Seq(RouterEntries) /\ Len(router_map') <= MaxRoutes
    BY <2>1, <2>2, TopologyAssumption DEF TypeInv, TableInv
  <2> QED  BY <2>2, <2>3 DEF TypeInv, TableInv, network, history
<1>2. CASE RouteStart
  <2>1. /\ routing' = 1 /\ UNCHANGED <<zero_shift, router_map, network, faults, history>>
        /\ \E k : k \in DOMAIN Ports
    BY <1>2 DEF RouteStart
  <2>2. DOMAIN Ports = 1 .. Len(Ports) /\ Len(Ports) \in Nat  BY TopologyAssumption
  <2>3. routing' \in 0 .. Len(Ports)  BY <2>1, <2>2
  <2> QED  BY <2>1, <2>3 DEF TypeInv, TableInv, network, history
<1>3. CASE RouteNext
  <2>1. Len(Ports) \in Nat  BY TopologyAssumption
  <2>2. routing' \in 0 .. Len(Ports)  BY <1>3, <2>1 DEF RouteNext, TypeInv
  <2> QED  BY <1>3, <2>2 DEF RouteNext, TypeInv, TableInv, network, history
<1>4. ASSUME NEW n \in Names, Lose(n) PROVE TypeInv'
  <2>1. /\ inbox[n] \in Seq(Frames) /\ inbox[n] # << >>
        /\ inbox' = [inbox EXCEPT ![n] = Tail(@)]
        /\ faults' = faults + 1 /\ faults < MaxFaults
        /\ UNCHANGED <<zero_shift, router_map, iface, routing, history>>
    BY <1>4 DEF Lose, TypeInv
  <2>2. inbox' \in [Names -> Seq(Frames)]  BY <2>1 DEF TypeInv
  <2>3. faults' \in 0 .. MaxFaults  BY <2>1, TopologyAssumption DEF TypeInv
  <2> QED  BY <2>1, <2>2, <2>3 DEF TypeInv, TableInv, history
<1>5. CASE UNCHANGED vars
  BY <1>5 DEF TypeInv, TableInv, vars, network, history
<1> QED
  BY <1>1, <1>2, <1>3, <1>4, <1>5, HostSendTypeInv, DeliverTypeInv, RouteOneTypeInv,
     TimePassesTypeInv, RestartTypeInv DEF Next

\* The types of all that the network keeps, of the frames on their way too.
THEOREM TypeCorrect == Spec => []TypeOK
<1> QED  BY InitTypeInv, NextTypeInv, TypeInvTypes, PTL DEF Spec

-----------------------------------------------------------------------------
\* An entry is not older than the last request, which is as old as counts.
Bounds(e, q) == e # Absent => e.age <= q \/ q = ARP_RETX_PERIOD

\* What an interface remembers of the times q since it asked for addresses.
Remembers(i, q) ==
    \A a \in IPAddresses :
        /\ Bounds(i.arp_map[a], q[a]) /\ Bounds(i.wait_list[a], q[a])
        /\ i.arp_map[a] = Absent /\ i.wait_list[a] = Absent => q[a] = ARP_RETX_PERIOD

RequestInv == TypeInv /\ \A n \in Names : Remembers(iface[n], asked[n])

\* What a step makes of an interface and of the times since it asked.
Kept(q, j, r) ==
    /\ Remembers(j, r)
    /\ \A a \in IPAddresses : r[a] < q[a] => q[a] = ARP_RETX_PERIOD

Times == [IPAddresses -> 0 .. ARP_RETX_PERIOD]

\* The requests among the frames of a method, at the times q, make the times later.
AskedNow(frames, q) == [a \in IPAddresses |-> IF Requests(frames, a) THEN 0 ELSE q[a]]

LEMMA SameKept ==
    ASSUME NEW i, NEW j, NEW q \in Times, Remembers(i, q),
           j.arp_map = i.arp_map, j.wait_list = i.wait_list
    PROVE  Kept(q, j, q)
BY PeriodAssumption DEF Kept, Remembers, Times

LEMMA NewKept ==
    ASSUME NEW e, NEW p, NEW q \in Times
    PROVE  Kept(q, NewInterface(e, p), [a \in IPAddresses |-> ARP_RETX_PERIOD])
BY PeriodAssumption DEF Kept, Remembers, Times, NewInterface, Bounds

\* send_datagram() asks only if nothing is remembered, and then the datagram waits.
LEMMA SendKept ==
    ASSUME NEW i \in Interfaces, NEW d \in Datagrams, NEW hop \in IPAddresses,
           NEW q \in Times, Remembers(i, q)
    PROVE  Kept(q, SendDatagram(i, d, hop), AskedNow(SendTransmits(i, d, hop), q))
<1> DEFINE frames == SendTransmits(i, d, hop)
           j == SendDatagram(i, d, hop)
           w == [dgrams |-> <<d>>, age |-> 0]
<1>1. CASE Asks(i, hop)
  <2>1. frames = <<ARPRequest(i, hop)>>  BY <1>1 DEF Asks, SendTransmits
  <2>2. ASSUME NEW a PROVE Requests(frames, a) <=> a = hop
    <3>1. DOMAIN frames = {1} /\ frames[1] = ARPRequest(i, hop)  BY <2>1
    <3>2. /\ ARPRequest(i, hop).type = "ARP"
          /\ ARPRequest(i, hop).payload.opcode = "request"
          /\ ARPRequest(i, hop).payload.target_ip = hop
      BY DEF ARPRequest, Frame
    <3> HIDE DEF frames
    <3> QED  BY <3>1, <3>2 DEF Requests
  <2>3. j.arp_map = i.arp_map /\ j.wait_list = [i.wait_list EXCEPT ![hop] = w]
    BY <1>1 DEF SendDatagram, Interfaces
  <2>4. q[hop] = ARP_RETX_PERIOD  BY <1>1 DEF Asks, Remembers
  <2>5. w # Absent
    <3>1. w \in Waiting  BY PeriodAssumption DEF Waiting
    <3> QED  BY <3>1, AbsentAssumption
  <2> DEFINE r == AskedNow(frames, q)
  <2>6. \A a \in IPAddresses : r[a] = IF a = hop THEN 0 ELSE q[a]
    BY <2>2 DEF AskedNow
  <2> HIDE DEF frames, r, j
  <2>7. Bounds(w, 0)  BY DEF Bounds
  <2> HIDE DEF w
  <2>8. ASSUME NEW a \in IPAddresses
        PROVE  /\ Bounds(j.arp_map[a], r[a]) /\ Bounds(j.wait_list[a], r[a])
               /\ j.arp_map[a] = Absent /\ j.wait_list[a] = Absent => r[a] = ARP_RETX_PERIOD
               /\ r[a] < q[a] => q[a] = ARP_RETX_PERIOD
    <3>1. CASE a = hop
      <4>1. j.arp_map[a] = Absent /\ j.wait_list[a] = w /\ r[a] = 0
        BY <1>1, <2>3, <2>6, <3>1 DEF Asks, Interfaces
      <4> QED  BY <2>4, <2>5, <2>7, <3>1, <4>1 DEF Bounds
    <3>2. CASE a # hop
      <4>1. /\ j.arp_map[a] = i.arp_map[a] /\ j.wait_list[a] = i.wait_list[a]
            /\ r[a] = q[a]
        BY <2>3, <2>6, <3>2 DEF Interfaces
      <4>2. q[a] \in Nat  BY PeriodAssumption DEF Times
      <4> QED  BY <4>1, <4>2 DEF Remembers
    <3> QED  BY <3>1, <3>2
  <2> QED  BY <2>8 DEF Kept, Remembers, j, r, frames
<1>2. CASE ~Asks(i, hop)
  <2>1. j = i  BY <1>2 DEF SendDatagram
  <2>2. \A a : ~Requests(frames, a)
    BY <1>2 DEF SendTransmits, Requests, Frame
  <2>3. AskedNow(frames, q) = q  BY <2>2 DEF AskedNow, Times
  <2> QED  BY <2>1, <2>3, SameKept
<1> QED  BY <1>1, <1>2

\* recv_frame() learns with age 0 or keeps the age, and what waits is released only
\* when there is an entry in the map; it never asks.
LEMMA RecvKept ==
    ASSUME NEW i \in Interfaces, NEW f \in Frames, NEW q \in Times, Remembers(i, q)
    PROVE  Kept(q, RecvFrame(i, f), AskedNow(RecvTransmits(i, f), q))
<1> DEFINE j == RecvFrame(i, f)
           m == f.payload
           s == m.sender_ip
<1>1. AskedNow(RecvTransmits(i, f), q) = q
  <2>1. ASSUME NEW a PROVE ~Requests(RecvTransmits(i, f), a)
    <3>1. CASE f.type # "ARP" \/ ~IsForUs(i, f)
      <4>1. RecvTransmits(i, f) = << >>  BY <3>1 DEF RecvTransmits
      <4>2. DOMAIN << >> = {}  OBVIOUS
      <4> QED  BY <4>1, <4>2 DEF Requests
    <3>2. CASE ~(f.type # "ARP" \/ ~IsForUs(i, f)) /\ AsksUs(i, m)
      <4>1. RecvTransmits(i, f) = <<ARPReply(i, m)>>  BY <3>2 DEF RecvTransmits
      <4> QED  BY <4>1 DEF Requests, ARPReply, Frame
    <3>3. CASE ~(f.type # "ARP" \/ ~IsForUs(i, f)) /\ ~AsksUs(i, m)
      <4> DEFINE waiting == i.wait_list[s]
                 out == [k \in DOMAIN waiting.dgrams |->
                            Frame(m.sender_ethernet, i.ethernet, "IPv4", waiting.dgrams[k])]
      <4>1. RecvTransmits(i, f) = << >> \/ RecvTransmits(i, f) = out
        BY <3>3 DEF RecvTransmits
      <4>2. \A k \in DOMAIN out : out[k].type = "IPv4"  BY DEF Frame
      <4>3. DOMAIN << >> = {}  OBVIOUS
      <4> HIDE DEF out
      <4> QED  BY <4>1, <4>2, <4>3 DEF Requests
    <3> QED  BY <3>1, <3>2, <3>3
  <2> QED  BY <2>1 DEF AskedNow, Times
<1>2. CASE IsForUs(i, f) /\ f.type = "ARP"
  <2>1. s \in IPAddresses /\ m.sender_ethernet \in EthernetAddresses  BY <1>2, FrameType
  <2>2. j.arp_map = Learned(i, m) /\ j.wait_list = Released(i, m)
    BY <1>2 DEF RecvFrame, Interfaces
  <2> DEFINE old == i.arp_map[s]
             e == [ethernet |-> m.sender_ethernet, age |-> IF old = Absent THEN 0 ELSE old.age]
  <2>3. Learned(i, m) = [i.arp_map EXCEPT ![s] = e]
    BY <2>1 DEF Learned, Interfaces
  <2>4. e # Absent
    <3>1. old = Absent \/ old \in Mappings  BY <2>1 DEF Interfaces
    <3>2. (IF old = Absent THEN 0 ELSE old.age) \in 0 .. ARP_MAP_TTL - 1
      BY <3>1, PeriodAssumption DEF Mappings
    <3>3. e \in Mappings  BY <2>1, <3>2 DEF Mappings
    <3> QED  BY <3>3, AbsentAssumption
  <2>5. Bounds(e, q[s])
    <3>1. q[s] \in Nat /\ Bounds(old, q[s])
      BY <2>1, PeriodAssumption DEF Remembers, Times
    <3> QED  BY <3>1 DEF Bounds
  <2> HIDE DEF e, old, j, m, s
  <2>6. ASSUME NEW a \in IPAddresses
        PROVE  /\ j.arp_map[a] = IF a = s THEN e ELSE i.arp_map[a]
               /\ \/ j.wait_list[a] = i.wait_list[a]
                  \/ a = s /\ j.wait_list[a] = Absent
    BY <2>1, <2>2, <2>3 DEF Released, Interfaces, s
  <2>7. ASSUME NEW a \in IPAddresses
        PROVE  /\ Bounds(j.arp_map[a], q[a]) /\ Bounds(j.wait_list[a], q[a])
               /\ j.arp_map[a] = Absent /\ j.wait_list[a] = Absent => q[a] = ARP_RETX_PERIOD
    <3>1. /\ Bounds(i.arp_map[a], q[a]) /\ Bounds(i.wait_list[a], q[a])
          /\ i.arp_map[a] = Absent /\ i.wait_list[a] = Absent => q[a] = ARP_RETX_PERIOD
      BY DEF Remembers
    <3>2. Bounds(Absent, q[a])  BY DEF Bounds
    <3> QED  BY <2>4, <2>5, <2>6, <3>1, <3>2
  <2>8. Remembers(j, q)  BY <2>7 DEF Remembers
  <2> QED  BY <1>1, <2>8, PeriodAssumption DEF Kept, Times, j
<1>3. CASE ~(IsForUs(i, f) /\ f.type = "ARP")
  <2>1. j.arp_map = i.arp_map /\ j.wait_list = i.wait_list
    BY <1>3 DEF RecvFrame, Interfaces
  <2> QED  BY <1>1, <2>1, SameKept
<1> QED  BY <1>2, <1>3

\* What becomes of an entry in a time t.
IsAged(e, old, t, limit) ==
    /\ e # Absent => e.age \in Nat
    /\ old = Absent <=> e = Absent \/ e.age + t >= limit
    /\ old # Absent => old = [e EXCEPT !.age = e.age + t] /\ old.age = e.age + t

LEMMA AgedEffect ==
    ASSUME NEW t \in Nat
    PROVE  /\ \A e \in Mappings \union {Absent} :
                 IsAged(e, Aged(e, t, ARP_MAP_TTL), t, ARP_MAP_TTL)
           /\ \A w \in Waiting \union {Absent} :
                 IsAged(w, Aged(w, t, ARP_RETX_PERIOD), t, ARP_RETX_PERIOD)
<1>1. ASSUME NEW e \in Mappings \union {Absent}
      PROVE  IsAged(e, Aged(e, t, ARP_MAP_TTL), t, ARP_MAP_TTL)
  <2>1. CASE e = Absent  BY <2>1 DEF IsAged, Aged
  <2>2. CASE e # Absent
    <3>1. e \in Mappings /\ e.age \in Nat  BY <2>2, PeriodAssumption DEF Mappings
    <3>2. ASSUME e.age + t < ARP_MAP_TTL
          PROVE  /\ [e EXCEPT !.age = e.age + t] # Absent
                 /\ [e EXCEPT !.age = e.age + t].age = e.age + t
      <4>1. e.age + t \in 0 .. ARP_MAP_TTL - 1  BY <3>1, <3>2, PeriodAssumption
      <4>2. [e EXCEPT !.age = e.age + t] \in Mappings  BY <3>1, <4>1 DEF Mappings
      <4>3. [e EXCEPT !.age = e.age + t].age = e.age + t  BY <3>1 DEF Mappings
      <4> QED  BY <4>2, <4>3, AbsentAssumption
    <3> QED  BY <2>2, <3>1, <3>2, PeriodAssumption DEF IsAged, Aged
  <2> QED  BY <2>1, <2>2
<1>2. ASSUME NEW w \in Waiting \union {Absent}
      PROVE  IsAged(w, Aged(w, t, ARP_RETX_PERIOD), t, ARP_RETX_PERIOD)
  <2>1. CASE w = Absent  BY <2>1 DEF IsAged, Aged
  <2>2. CASE w # Absent
    <3>1. w \in Waiting /\ w.age \in Nat  BY <2>2, PeriodAssumption DEF Waiting
    <3>2. ASSUME w.age + t < ARP_RETX_PERIOD
          PROVE  /\ [w EXCEPT !.age = w.age + t] # Absent
                 /\ [w EXCEPT !.age = w.age + t].age = w.age + t
      <4>1. w.age + t \in 0 .. ARP_RETX_PERIOD - 1  BY <3>1, <3>2, PeriodAssumption
      <4>2. [w EXCEPT !.age = w.age + t] \in Waiting  BY <3>1, <4>1 DEF Waiting
      <4>3. [w EXCEPT !.age = w.age + t].age = w.age + t  BY <3>1 DEF Waiting
      <4> QED  BY <4>2, <4>3, AbsentAssumption
    <3> QED  BY <2>2, <3>1, <3>2, PeriodAssumption DEF IsAged, Aged
  <2> QED  BY <2>1, <2>2
<1> QED  BY <1>1, <1>2

\* An entry grows older with the request, and is forgotten when the request is old.
LEMMA AgedBounds ==
    ASSUME NEW e, NEW old, NEW t \in Nat, NEW limit \in Nat, IsAged(e, old, t, limit),
           ARP_RETX_PERIOD <= limit, NEW q \in 0 .. ARP_RETX_PERIOD, Bounds(e, q),
           NEW late, late = Later(q, t, ARP_RETX_PERIOD)
    PROVE  /\ Bounds(old, late) /\ q <= late
           /\ old = Absent /\ e # Absent => late = ARP_RETX_PERIOD
           /\ q = ARP_RETX_PERIOD => late = ARP_RETX_PERIOD
<1>1. /\ late \in Nat /\ q <= late
      /\ q = ARP_RETX_PERIOD => late = ARP_RETX_PERIOD
      /\ late = ARP_RETX_PERIOD \/ (late = q + t /\ q + t <= ARP_RETX_PERIOD)
  BY PeriodAssumption DEF Later
<1>2. CASE e = Absent
  BY <1>1, <1>2 DEF IsAged, Bounds
<1>3. CASE e # Absent
  <2>1. e.age \in Nat /\ (e.age <= q \/ q = ARP_RETX_PERIOD)
    BY <1>3 DEF IsAged, Bounds
  <2>2. CASE old = Absent
    <3>1. e.age + t >= limit  BY <1>3, <2>2 DEF IsAged
    <3>2. late = ARP_RETX_PERIOD  BY <1>1, <2>1, <3>1, PeriodAssumption
    <3> QED  BY <1>1, <2>2, <3>2 DEF Bounds
  <2>3. CASE old # Absent
    <3>1. old.age = e.age + t  BY <2>3 DEF IsAged
    <3>2. old.age <= late \/ late = ARP_RETX_PERIOD  BY <1>1, <2>1, <3>1
    <3> QED  BY <1>1, <2>3, <3>2 DEF Bounds
  <2> QED  BY <2>2, <2>3
<1> QED  BY <1>2, <1>3

\* tick() forgets an address only when a request for it may be repeated.
LEMMA TickKept ==
    ASSUME NEW i \in Interfaces, NEW t \in Nat, NEW q \in Times, Remembers(i, q)
    PROVE  Kept(q, Tick(i, t), [a \in IPAddresses |-> Later(q[a], t, ARP_RETX_PERIOD)])
<1> DEFINE j == Tick(i, t)
           r == [a \in IPAddresses |-> Later(q[a], t, ARP_RETX_PERIOD)]
<1>1. ASSUME NEW a \in IPAddresses
      PROVE  /\ Bounds(j.arp_map[a], r[a]) /\ Bounds(j.wait_list[a], r[a])
             /\ j.arp_map[a] = Absent /\ j.wait_list[a] = Absent => r[a] = ARP_RETX_PERIOD
             /\ r[a] < q[a] => q[a] = ARP_RETX_PERIOD
  <2>1. /\ i.arp_map[a] \in Mappings \union {Absent}
        /\ i.wait_list[a] \in Waiting \union {Absent}
    BY DEF Interfaces
  <2>2. /\ j.arp_map[a] = Aged(i.arp_map[a], t, ARP_MAP_TTL)
        /\ j.wait_list[a] = Aged(i.wait_list[a], t, ARP_RETX_PERIOD)
    BY DEF Tick, Interfaces
  <2>3. /\ q[a] \in 0 .. ARP_RETX_PERIOD
        /\ Bounds(i.arp_map[a], q[a]) /\ Bounds(i.wait_list[a], q[a])
        /\ i.arp_map[a] = Absent /\ i.wait_list[a] = Absent => q[a] = ARP_RETX_PERIOD
    BY DEF Remembers, Times
  <2>4. /\ IsAged(i.arp_map[a], j.arp_map[a], t, ARP_MAP_TTL)
        /\ IsAged(i.wait_list[a], j.wait_list[a], t, ARP_RETX_PERIOD)
    BY <2>1, <2>2, AgedEffect
  <2>5. /\ r[a] = Later(q[a], t, ARP_RETX_PERIOD)
        /\ r[a] \in 0 .. ARP_RETX_PERIOD
    BY <2>3, LaterType
  <2> DEFINE e    == i.arp_map[a]
             old  == j.arp_map[a]
             w    == i.wait_list[a]
             oldw == j.wait_list[a]
             age  == q[a]
             late == r[a]
  <2>6. /\ age \in 0 .. ARP_RETX_PERIOD /\ late = Later(age, t, ARP_RETX_PERIOD)
        /\ IsAged(e, old, t, ARP_MAP_TTL) /\ Bounds(e, age)
        /\ IsAged(w, oldw, t, ARP_RETX_PERIOD) /\ Bounds(w, age)
    BY <2>3, <2>4, <2>5
  <2> HIDE DEF j, r, e, old, w, oldw, age, late
  <2>7. /\ ARP_MAP_TTL \in Nat /\ ARP_RETX_PERIOD <= ARP_MAP_TTL
        /\ ARP_RETX_PERIOD \in Nat /\ ARP_RETX_PERIOD <= ARP_RETX_PERIOD
    BY PeriodAssumption
  <2>8. /\ Bounds(old, late) /\ age <= late
        /\ old = Absent /\ e # Absent => late = ARP_RETX_PERIOD
        /\ age = ARP_RETX_PERIOD => late = ARP_RETX_PERIOD
    BY ONLY <2>6, <2>7, t \in Nat, AgedBounds
  <2>9. /\ Bounds(oldw, late)
        /\ oldw = Absent /\ w # Absent => late = ARP_RETX_PERIOD
    BY ONLY <2>6, <2>7, t \in Nat, AgedBounds
  <2>10. late \in 0 .. ARP_RETX_PERIOD  BY <2>5 DEF late
  <2>11. e = Absent /\ w = Absent => age = ARP_RETX_PERIOD  BY <2>3 DEF e, w, age
  <2>12. /\ Bounds(old, late) /\ Bounds(oldw, late)
         /\ old = Absent /\ oldw = Absent => late = ARP_RETX_PERIOD
         /\ late < age => age = ARP_RETX_PERIOD
    BY <2>6, <2>7, <2>8, <2>9, <2>10, <2>11
  <2> QED  BY <2>12 DEF old, oldw, age, late
<1> QED  BY <1>1 DEF Kept, Remembers

AllKept == \A n \in Names : Kept(asked[n], iface'[n], asked'[n])

\* The step of the interface that sends, all others keep what they have.
LEMMA OneKept ==
    ASSUME RequestInv, NEW n \in Names, NEW frames, Noted(n, frames),
           Kept(asked[n], iface'[n], AskedNow(frames, asked[n])),
           \A m \in Names \ {n} : /\ iface'[m].arp_map = iface[m].arp_map
                                  /\ iface'[m].wait_list = iface[m].wait_list
    PROVE  AllKept
<1>1. asked' = [asked EXCEPT ![n] = AskedNow(frames, asked[n])]
  BY DEF Noted, AskedNow
<1>2. \A m \in Names : asked[m] \in Times /\ Remembers(iface[m], asked[m])
  BY DEF RequestInv, TypeInv, Times
<1>3. ASSUME NEW m \in Names, m # n PROVE Kept(asked[m], iface'[m], asked'[m])
  <2>1. asked'[m] = asked[m]  BY <1>1, <1>3 DEF RequestInv, TypeInv
  <2> QED  BY <1>2, <1>3, <2>1, SameKept
<1>4. asked'[n] = AskedNow(frames, asked[n])  BY <1>1 DEF RequestInv, TypeInv
<1> QED  BY <1>3, <1>4 DEF AllKept

LEMMA StepKeeps == RequestInv /\ [Next]_vars => AllKept
<1> SUFFICES ASSUME RequestInv, [Next]_vars PROVE AllKept  OBVIOUS
<1>a. ASSUME NEW n \in Names
      PROVE  /\ iface[n] \in Interfaces /\ asked[n] \in Times
             /\ Remembers(iface[n], asked[n])
  BY DEF RequestInv, TypeInv, Times
<1>b. ASSUME UNCHANGED <<iface, asked>> PROVE AllKept
  BY <1>a, <1>b, SameKept DEF AllKept
<1>1. ASSUME NEW message \in Traffic, NEW hop \in IPAddresses,
             HostSend(message.from, message.datagram, hop)
      PROVE  AllKept
  <2> DEFINE n == message.from
             d == message.datagram
             frames == SendTransmits(iface[n], d, hop)
  <2>1. n \in Names /\ d \in Datagrams  BY TopologyAssumption DEF Names
  <2>2. iface' = [iface EXCEPT ![n] = SendDatagram(@, d, hop)] /\ Noted(n, frames)
    BY <1>1 DEF HostSend
  <2> HIDE DEF n, d
  <2>3. iface'[n] = SendDatagram(iface[n], d, hop)
    BY <2>1, <2>2 DEF RequestInv, TypeInv
  <2>4. Kept(asked[n], iface'[n], AskedNow(frames, asked[n]))
    BY <1>a, <2>1, <2>3, SendKept
  <2>5. \A m \in Names \ {n} : iface'[m] = iface[m]
    BY <2>1, <2>2 DEF RequestInv, TypeInv
  <2> QED  BY <2>1, <2>2, <2>4, <2>5, OneKept
<1>2. ASSUME NEW n \in Names, Deliver(n) PROVE AllKept
  <2> DEFINE f == Head(inbox[n])
             frames == RecvTransmits(iface[n], f)
  <2>1. f \in Frames
    <3>1. inbox[n] \in Seq(Frames) /\ inbox[n] # << >>
      BY <1>2 DEF RequestInv, TypeInv, Deliver
    <3> QED  BY <3>1
  <2>2. iface' = [iface EXCEPT ![n] = RecvFrame(@, f)] /\ Noted(n, frames)
    BY <1>2 DEF Deliver
  <2> HIDE DEF f
  <2>3. iface'[n] = RecvFrame(iface[n], f)  BY <2>2 DEF RequestInv, TypeInv
  <2>4. Kept(asked[n], iface'[n], AskedNow(frames, asked[n]))
    BY <1>a, <2>1, <2>3, RecvKept
  <2>5. \A m \in Names \ {n} : iface'[m] = iface[m]
    BY <2>2 DEF RequestInv, TypeInv
  <2> QED  BY <2>2, <2>4, <2>5, OneKept
<1>3. CASE RouteOne
  <2>1. PICK popped : /\ Popped(popped)
                      /\ \/ Drops(popped)
                         \/ \E from, to, d, hop : Sends(popped, from, to, d, hop)
    BY <1>3, RouteOneEffect DEF RequestInv
  <2>2. ASSUME NEW m \in Names
        PROVE  /\ popped[m] \in Interfaces /\ Remembers(popped[m], asked[m])
               /\ popped[m].arp_map = iface[m].arp_map
               /\ popped[m].wait_list = iface[m].wait_list
    BY <1>a, <2>1 DEF Popped, Remembers
  <2>3. CASE Drops(popped)
    BY <1>a, <2>2, <2>3, SameKept DEF AllKept, Drops
  <2>4. ASSUME NEW from, NEW to, NEW d, NEW hop, Sends(popped, from, to, d, hop)
        PROVE  AllKept
    <3> DEFINE frames == SendTransmits(popped[to], Decremented(d), hop)
    <3>1. /\ to \in Names /\ Decremented(d) \in Datagrams /\ hop \in IPAddresses
          /\ iface' = [popped EXCEPT ![to] = SendDatagram(popped[to], Decremented(d), hop)]
          /\ Noted(to, frames)
      BY <2>4 DEF Sends
    <3>2. iface'[to] = SendDatagram(popped[to], Decremented(d), hop)
      BY <2>1, <3>1 DEF Popped
    <3>3. Kept(asked[to], iface'[to], AskedNow(frames, asked[to]))
      BY <1>a, <2>2, <3>1, <3>2, SendKept
    <3>4. \A m \in Names \ {to} : iface'[m] = popped[m]
      BY <2>1, <3>1 DEF Popped
    <3> HIDE DEF frames
    <3> QED  BY <2>2, <3>1, <3>3, <3>4, OneKept
  <2> QED  BY <2>1, <2>3, <2>4
<1>4. ASSUME NEW t \in Ticks, TimePasses(t) PROVE AllKept
  <2>1. t \in Nat  BY TopologyAssumption
  <2>2. ASSUME NEW n \in Names PROVE Kept(asked[n], iface'[n], asked'[n])
    <3>1. /\ iface'[n] = Tick(iface[n], t)
          /\ asked'[n] = [a \in IPAddresses |-> Later(asked[n][a], t, ARP_RETX_PERIOD)]
      BY <1>4 DEF TimePasses
    <3> QED  BY <1>a, <2>1, <3>1, TickKept
  <2> QED  BY <2>2 DEF AllKept
<1>5. ASSUME NEW n \in Hosts, NEW ethernet \in EthernetAddresses, Restart(n, ethernet)
      PROVE  AllKept
  <2>1. /\ iface' = [iface EXCEPT ![n] = NewInterface(ethernet, IP[n])]
        /\ asked' = [asked EXCEPT ![n] = [a \in IPAddresses |-> ARP_RETX_PERIOD]]
    BY <1>5 DEF Restart
  <2>2. ASSUME NEW m \in Names PROVE Kept(asked[m], iface'[m], asked'[m])
    <3>1. CASE m = n
      <4>1. /\ iface'[m] = NewInterface(ethernet, IP[n])
            /\ asked'[m] = [a \in IPAddresses |-> ARP_RETX_PERIOD]
        BY <2>1, <3>1 DEF RequestInv, TypeInv
      <4> QED  BY <1>a, <4>1, NewKept
    <3>2. CASE m # n
      <4>1. iface'[m] = iface[m] /\ asked'[m] = asked[m]
        BY <2>1, <3>2 DEF RequestInv, TypeInv
      <4> QED  BY <1>a, <4>1, SameKept
    <3> QED  BY <3>1, <3>2
  <2> QED  BY <2>2 DEF AllKept
<1>6. ASSUME NEW entry \in TableRoutes, AddRoute(entry) PROVE AllKept
  BY <1>b, <1>6 DEF AddRoute, network, history
<1>7. CASE RouteStart  BY <1>b, <1>7 DEF RouteStart, network, history
<1>8. CASE RouteNext  BY <1>b, <1>8 DEF RouteNext, network, history
<1>9. ASSUME NEW n \in Names, Lose(n) PROVE AllKept
  BY <1>b, <1>9 DEF Lose, history
<1>10. CASE UNCHANGED vars  BY <1>b, <1>10 DEF vars, network, history
<1> QED
  BY <1>1, <1>2, <1>3, <1>4, <1>5, <1>6, <1>7, <1>8, <1>9, <1>10 DEF Next

LEMMA InitRequestInv == Init => RequestInv
<1> SUFFICES ASSUME Init PROVE RequestInv  OBVIOUS
<1>1. ASSUME NEW n \in Names PROVE Remembers(iface[n], asked[n])
  <2>1. /\ iface[n] = NewInterface(FirstEthernet[n], IP[n])
        /\ asked[n] = [a \in IPAddresses |-> ARP_RETX_PERIOD]
    BY DEF Init
  <2>2. asked[n] \in Times  BY <2>1, PeriodAssumption DEF Times
  <2> QED  BY <2>1, <2>2, NewKept DEF Kept
<1> QED  BY <1>1, InitTypeInv DEF RequestInv

(***************************************************************************)
(* No two requests for one address within ARP_RETX_PERIOD                  *)
(* (network_interface.cc:28, 46), because an entry of either map is never  *)
(* older than the last request: a mapping is learned after it, and         *)
(* ARP_MAP_TTL is not less than ARP_RETX_PERIOD.                           *)
(***************************************************************************)
THEOREM NeverFloods == Spec => NoFlood
<1> DEFINE Spaced == \A n \in Names, a \in IPAddresses :
                         asked'[n][a] < asked[n][a] => asked[n][a] = ARP_RETX_PERIOD
<1>1. RequestInv /\ [Next]_vars => RequestInv'
  BY StepKeeps, NextTypeInv DEF RequestInv, AllKept, Kept
<1>2. RequestInv /\ [Next]_vars => Spaced  BY StepKeeps DEF AllKept, Kept
<1> HIDE DEF Spaced
<1>3. RequestInv /\ [Next]_vars => [Spaced]_vars  BY <1>2
<1>4. Spec => [][Spaced]_vars  BY InitRequestInv, <1>1, <1>3, PTL DEF Spec
<1> QED  BY <1>4 DEF NoFlood, Spaced

-----------------------------------------------------------------------------
\* An ARP message speaks for its sender; a datagram is passed on as it is.
SpeaksFor(f, i) ==
    /\ f.src = i.ethernet
    /\ f.type = "ARP" => /\ f.payload.sender_ip = i.ip
                         /\ f.payload.sender_ethernet = i.ethernet

LEMMA SendSays ==
    ASSUME NEW i \in Interfaces, NEW d \in Datagrams, NEW hop \in IPAddresses,
           NEW k \in DOMAIN SendTransmits(i, d, hop)
    PROVE  LET f == SendTransmits(i, d, hop)[k]
           IN  SpeaksFor(f, i) /\ (f.type = "IPv4" => f.payload = d)
<1>1. SendTransmits(i, d, hop)[k] \in
          {ARPRequest(i, hop), Frame(i.arp_map[hop].ethernet, i.ethernet, "IPv4", d)}
  BY DEF SendTransmits
<1> QED  BY <1>1 DEF SpeaksFor, ARPRequest, Frame

LEMMA RecvSays ==
    ASSUME NEW i \in Interfaces, NEW f \in Frames, NEW k \in DOMAIN RecvTransmits(i, f)
    PROVE  LET g == RecvTransmits(i, f)[k]
           IN  /\ SpeaksFor(g, i)
               /\ g.type = "IPv4" =>
                     \E a \in IPAddresses :
                        /\ i.wait_list[a] # Absent
                        /\ \E j \in DOMAIN i.wait_list[a].dgrams :
                              g.payload = i.wait_list[a].dgrams[j]
<1> DEFINE m == f.payload
           g == RecvTransmits(i, f)[k]
           waiting == i.wait_list[m.sender_ip]
<1>1. f.type = "ARP" /\ IsForUs(i, f)
  <2>1. DOMAIN << >> = {}  OBVIOUS
  <2> QED  BY <2>1 DEF RecvTransmits
<1>2. m.sender_ip \in IPAddresses  BY <1>1, FrameType
<1>3. CASE AsksUs(i, m)
  <2>1. g = ARPReply(i, m)  BY <1>1, <1>3 DEF RecvTransmits
  <2> HIDE DEF g
  <2> QED  BY <2>1 DEF SpeaksFor, ARPReply, Frame, g
<1>4. CASE ~AsksUs(i, m)
  <2>1. /\ waiting # Absent /\ k \in DOMAIN waiting.dgrams
        /\ g = Frame(m.sender_ethernet, i.ethernet, "IPv4", waiting.dgrams[k])
    <3>1. DOMAIN << >> = {}  OBVIOUS
    <3> QED  BY <1>1, <1>4, <3>1 DEF RecvTransmits
  <2>2. g.src = i.ethernet /\ g.type = "IPv4" /\ g.payload = waiting.dgrams[k]
    BY <2>1 DEF Frame
  <2> HIDE DEF g
  <2> QED  BY <1>2, <2>1, <2>2 DEF SpeaksFor, g
<1> QED  BY <1>3, <1>4

LEMMA SeqOf ==
    ASSUME NEW T, NEW s \in Seq(T), NEW S, \A k \in DOMAIN s : s[k] \in S
    PROVE  s \in Seq(S)
OBVIOUS

LEMMA SeqGrows ==
    ASSUME NEW S, NEW T, S \subseteq T, NEW inboxes \in [Names -> Seq(S)]
    PROVE  inboxes \in [Names -> Seq(T)]
<1>1. ASSUME NEW n \in Names PROVE inboxes[n] \in Seq(T)
  <2>1. inboxes[n] \in Seq(S)  OBVIOUS
  <2> QED  BY <2>1, SeqOf
<1> QED  BY <1>1

-----------------------------------------------------------------------------
\* e has been the Ethernet address of a host or a port whose address is a.
Owned(a, e) == \E m \in Names : IP[m] = a /\ e \in had[m]

TrueFrames ==
    {f \in Frames : f.type = "ARP" => Owned(f.payload.sender_ip, f.payload.sender_ethernet)}

\* An entry of the map is not younger than what was heard last.
Agrees(entry, said) ==
    entry # Absent => /\ said # Absent /\ entry.ethernet = said.ethernet
                      /\ said.age <= entry.age

Fresh(i, said) ==
    \A a \in IPAddresses :
        /\ Agrees(i.arp_map[a], said[a])
        /\ i.arp_map[a] # Absent => Owned(a, i.arp_map[a].ethernet)

FreshInv ==
    /\ TypeInv
    /\ inbox \in [Names -> Seq(TrueFrames)]
    /\ \A n \in Names : Fresh(iface[n], heard[n])

LEMMA FreshInvShows == FreshInv => MapIsFresh
BY DEF FreshInv, MapIsFresh, Fresh, Agrees, Owned

\* Ethernet addresses are only added to those that have been.
LEMMA OwnedStays ==
    ASSUME FreshInv, \A m \in Names : had[m] \subseteq had'[m]
    PROVE  /\ TrueFrames \subseteq TrueFrames'
           /\ \A a, e : Owned(a, e) => Owned(a, e)'
BY DEF TrueFrames, Owned

LEMMA SpeaksTrue ==
    ASSUME NEW n \in Names, NEW i, i.ethernet \in had[n], i.ip = IP[n],
           NEW frames \in Seq(Frames), \A k \in DOMAIN frames : SpeaksFor(frames[k], i)
    PROVE  frames \in Seq(TrueFrames)
<1>1. ASSUME NEW k \in DOMAIN frames PROVE frames[k] \in TrueFrames
  <2>1. frames[k] \in Frames /\ SpeaksFor(frames[k], i)  OBVIOUS
  <2> QED  BY <2>1 DEF SpeaksFor, TrueFrames, Owned
<1> QED  BY <1>1, SeqOf

LEMMA InitFreshInv == Init => FreshInv
<1> SUFFICES ASSUME Init PROVE FreshInv  OBVIOUS
<1>1. inbox \in [Names -> Seq(TrueFrames)]  BY DEF Init
<1>2. ASSUME NEW n \in Names, NEW a \in IPAddresses PROVE iface[n].arp_map[a] = Absent
  BY DEF Init, NewInterface
<1> QED  BY <1>1, <1>2, InitTypeInv DEF FreshInv, Fresh, Agrees

\* What is heard is believed, and nothing else changes.
LEMMA RecvFresh ==
    ASSUME NEW i \in Interfaces, NEW f \in TrueFrames,
           NEW said \in [IPAddresses -> Mappings \union {Absent}], Fresh(i, said)
    PROVE  Fresh(RecvFrame(i, f),
                 IF f.type = "ARP" /\ IsForUs(i, f)
                 THEN [said EXCEPT ![f.payload.sender_ip] =
                          [ethernet |-> f.payload.sender_ethernet, age |-> 0]]
                 ELSE said)
<1> DEFINE m == f.payload
           s == m.sender_ip
           j == RecvFrame(i, f)
           news == [ethernet |-> m.sender_ethernet, age |-> 0]
           now == [said EXCEPT ![s] = news]
<1>1. CASE IsForUs(i, f) /\ f.type = "ARP"
  <2>1. /\ s \in IPAddresses /\ m.sender_ethernet \in EthernetAddresses
        /\ Owned(s, m.sender_ethernet)
    BY <1>1, FrameType DEF TrueFrames
  <2> DEFINE old == i.arp_map[s]
             age == IF old = Absent THEN 0 ELSE old.age
             e == [ethernet |-> m.sender_ethernet, age |-> age]
  <2>2. j.arp_map = [i.arp_map EXCEPT ![s] = e]
    <3>1. j.arp_map = Learned(i, m)  BY <1>1 DEF RecvFrame, Interfaces
    <3> QED  BY <2>1, <3>1 DEF Learned, Interfaces
  <2>3. age \in Nat
    <3>1. old = Absent \/ old \in Mappings  BY <2>1 DEF Interfaces
    <3> QED  BY <3>1, PeriodAssumption DEF Mappings
  <2>4. news # Absent
    <3>1. news \in Mappings  BY <2>1, PeriodAssumption DEF Mappings
    <3> QED  BY <3>1, AbsentAssumption
  <2>5. Agrees(e, news) /\ e.ethernet = m.sender_ethernet
    <3> HIDE DEF age
    <3> QED  BY <2>3, <2>4 DEF Agrees
  <2> HIDE DEF old, age, e, news, m, s, j
  <2>6. ASSUME NEW a \in IPAddresses
        PROVE  /\ Agrees(j.arp_map[a], now[a])
               /\ j.arp_map[a] # Absent => Owned(a, j.arp_map[a].ethernet)
    <3>1. CASE a = s
      <4>1. j.arp_map[a] = e /\ now[a] = news  BY <2>1, <2>2, <3>1 DEF Interfaces
      <4> QED  BY <2>1, <2>5, <3>1, <4>1
    <3>2. CASE a # s
      <4>1. j.arp_map[a] = i.arp_map[a] /\ now[a] = said[a]
        BY <2>1, <2>2, <3>2 DEF Interfaces
      <4> QED  BY <4>1 DEF Fresh
    <3> QED  BY <3>1, <3>2
  <2>7. Fresh(j, now)  BY <2>6 DEF Fresh
  <2> QED  BY <1>1, <2>7 DEF j, now, news, m, s
<1>2. CASE ~(IsForUs(i, f) /\ f.type = "ARP")
  <2>1. j.arp_map = i.arp_map  BY <1>2 DEF RecvFrame, Interfaces
  <2> QED  BY <1>2, <2>1 DEF Fresh
<1> QED  BY <1>1, <1>2

\* An entry is forgotten no later than what was heard.
LEMMA TickFresh ==
    ASSUME NEW i \in Interfaces, NEW t \in Nat,
           NEW said \in [IPAddresses -> Mappings \union {Absent}], Fresh(i, said)
    PROVE  Fresh(Tick(i, t), [a \in IPAddresses |-> Aged(said[a], t, ARP_MAP_TTL)])
<1> DEFINE j == Tick(i, t)
           now == [a \in IPAddresses |-> Aged(said[a], t, ARP_MAP_TTL)]
<1>1. ASSUME NEW a \in IPAddresses
      PROVE  /\ Agrees(j.arp_map[a], now[a])
             /\ j.arp_map[a] # Absent => Owned(a, j.arp_map[a].ethernet)
  <2> DEFINE e == i.arp_map[a]
             h == said[a]
  <2>1. e \in Mappings \union {Absent} /\ h \in Mappings \union {Absent}
    BY DEF Interfaces
  <2>2. /\ j.arp_map[a] = Aged(e, t, ARP_MAP_TTL)
        /\ now[a] = Aged(h, t, ARP_MAP_TTL)
    BY DEF Tick, Interfaces
  <2>3. /\ IsAged(e, j.arp_map[a], t, ARP_MAP_TTL)
        /\ IsAged(h, now[a], t, ARP_MAP_TTL)
    BY <2>1, <2>2, AgedEffect
  <2>4. Agrees(e, h) /\ (e # Absent => Owned(a, e.ethernet))  BY DEF Fresh
  <2> HIDE DEF j, now, e, h
  <2>5. ASSUME j.arp_map[a] # Absent
        PROVE  /\ Agrees(j.arp_map[a], now[a])
               /\ Owned(a, j.arp_map[a].ethernet)
    <3>1. /\ e # Absent /\ ~(e.age + t >= ARP_MAP_TTL) /\ e.age \in Nat
          /\ j.arp_map[a].age = e.age + t
      BY <2>3, <2>5 DEF IsAged
    <3>2. h # Absent /\ e.ethernet = h.ethernet /\ h.age <= e.age
      BY <2>4, <3>1 DEF Agrees
    <3>3. h.age \in Nat  BY <2>3, <3>2 DEF IsAged
    <3>4. ~(h.age + t >= ARP_MAP_TTL)  BY <3>1, <3>2, <3>3, PeriodAssumption
    <3>5. now[a] # Absent  BY <2>3, <3>2, <3>4 DEF IsAged
    <3>6. now[a].age = h.age + t  BY <2>3, <3>5 DEF IsAged
    <3>7. e \in Mappings /\ h \in Mappings  BY <2>1, <3>1, <3>2
    <3>8. j.arp_map[a].ethernet = e.ethernet
      <4>1. j.arp_map[a] = [e EXCEPT !.age = e.age + t]  BY <2>3, <2>5 DEF IsAged
      <4> QED  BY <3>7, <4>1 DEF Mappings
    <3>9. now[a].ethernet = h.ethernet
      <4>1. now[a] = [h EXCEPT !.age = h.age + t]  BY <2>3, <3>5 DEF IsAged
      <4> QED  BY <3>7, <4>1 DEF Mappings
    <3>10. now[a].age <= j.arp_map[a].age  BY <3>1, <3>2, <3>3, <3>6
    <3> QED  BY <2>4, <3>1, <3>2, <3>5, <3>8, <3>9, <3>10 DEF Agrees
  <2> QED  BY <2>5 DEF Agrees
<1> QED  BY <1>1 DEF Fresh

LEMMA SentTruly ==
    ASSUME FreshInv, NEW n \in Names, NEW i \in Interfaces,
           i.ethernet = iface[n].ethernet, i.ip = iface[n].ip,
           NEW d \in Datagrams, NEW hop \in IPAddresses
    PROVE  Carried(inbox, n, SendTransmits(i, d, hop)) \in [Names -> Seq(TrueFrames)]
<1>1. i.ethernet \in had[n] /\ i.ip = IP[n]  BY DEF FreshInv, TypeInv
<1>2. SendTransmits(i, d, hop) \in Seq(TrueFrames)
  <2>1. SendTransmits(i, d, hop) \in Seq(Frames)  BY SendType
  <2>2. \A k \in DOMAIN SendTransmits(i, d, hop) : SpeaksFor(SendTransmits(i, d, hop)[k], i)
    BY SendSays
  <2> QED  BY <1>1, <2>1, <2>2, SpeaksTrue
<1> QED  BY <1>2, CarriedType DEF FreshInv

LEMMA NextFreshInv == FreshInv /\ [Next]_vars => FreshInv'
<1> SUFFICES ASSUME FreshInv, [Next]_vars PROVE FreshInv'  OBVIOUS
<1>a. TypeInv /\ TypeInv'  BY NextTypeInv DEF FreshInv
<1>b. ASSUME NEW n \in Names
      PROVE  /\ iface[n] \in Interfaces /\ Fresh(iface[n], heard[n])
             /\ heard[n] \in [IPAddresses -> Mappings \union {Absent}]
             /\ inbox[n] \in Seq(TrueFrames)
  BY DEF FreshInv, TypeInv
<1>c. ASSUME had' = had,
             inbox' \in [Names -> Seq(TrueFrames)],
             \A n \in Names : Fresh(iface'[n], heard'[n])
      PROVE  FreshInv'
  BY <1>a, <1>c DEF FreshInv, TrueFrames, Fresh, Owned
<1>d. ASSUME UNCHANGED <<iface, inbox, heard, had>> PROVE FreshInv'
  BY <1>b, <1>c, <1>d DEF FreshInv
<1>1. ASSUME NEW message \in Traffic, NEW hop \in IPAddresses,
             HostSend(message.from, message.datagram, hop)
      PROVE  FreshInv'
  <2> DEFINE n == message.from
             d == message.datagram
  <2>1. n \in Names /\ d \in Datagrams  BY TopologyAssumption DEF Names
  <2>2. /\ iface' = [iface EXCEPT ![n] = SendDatagram(@, d, hop)]
        /\ inbox' = Carried(inbox, n, SendTransmits(iface[n], d, hop))
        /\ heard' = heard /\ had' = had
    BY <1>1 DEF HostSend
  <2> HIDE DEF n, d
  <2>3. inbox' \in [Names -> Seq(TrueFrames)]  BY <1>b, <2>1, <2>2, SentTruly
  <2>4. ASSUME NEW m \in Names PROVE Fresh(iface'[m], heard'[m])
    <3>1. SendDatagram(iface[n], d, hop).arp_map = iface[n].arp_map
      BY <1>b, <2>1, SendType
    <3>2. iface'[m].arp_map = iface[m].arp_map  BY <2>1, <2>2, <3>1 DEF FreshInv, TypeInv
    <3> QED  BY <1>b, <2>2, <3>2 DEF Fresh
  <2> QED  BY <1>c, <2>2, <2>3, <2>4
<1>2. ASSUME NEW n \in Names, Deliver(n) PROVE FreshInv'
  <2> DEFINE f == Head(inbox[n])
             frames == RecvTransmits(iface[n], f)
             said == IF f.type = "ARP" /\ IsForUs(iface[n], f)
                     THEN [heard[n] EXCEPT ![f.payload.sender_ip] =
                              [ethernet |-> f.payload.sender_ethernet, age |-> 0]]
                     ELSE heard[n]
  <2>1. f \in TrueFrames /\ Tail(inbox[n]) \in Seq(TrueFrames)
    <3>1. inbox[n] \in Seq(TrueFrames) /\ inbox[n] # << >>  BY <1>2, <1>b DEF Deliver
    <3> QED  BY <3>1
  <2>2. f \in Frames  BY <2>1 DEF TrueFrames
  <2>3. /\ iface' = [iface EXCEPT ![n] = RecvFrame(@, f)]
        /\ inbox' = Carried([inbox EXCEPT ![n] = Tail(@)], n, frames)
        /\ heard' = IF f.type = "ARP" /\ IsForUs(iface[n], f)
                    THEN [heard EXCEPT ![n][f.payload.sender_ip] =
                             [ethernet |-> f.payload.sender_ethernet, age |-> 0]]
                    ELSE heard
        /\ had' = had
    BY <1>2 DEF Deliver
  <2>4. inbox' \in [Names -> Seq(TrueFrames)]
    <3>1. frames \in Seq(Frames)  BY <1>b, <2>2, RecvType
    <3>2. \A k \in DOMAIN frames : SpeaksFor(frames[k], iface[n])
      BY <1>b, <2>2, RecvSays
    <3>3. iface[n].ethernet \in had[n] /\ iface[n].ip = IP[n]  BY <1>a DEF TypeInv
    <3> HIDE DEF frames
    <3>4. frames \in Seq(TrueFrames)  BY <3>1, <3>2, <3>3, SpeaksTrue
    <3>5. [inbox EXCEPT ![n] = Tail(@)] \in [Names -> Seq(TrueFrames)]
      BY <2>1 DEF FreshInv
    <3> QED  BY <2>3, <3>4, <3>5, CarriedType
  <2>5. ASSUME NEW m \in Names PROVE Fresh(iface'[m], heard'[m])
    <3>1. CASE m = n
      <4>1. iface'[m] = RecvFrame(iface[n], f)  BY <2>3, <3>1 DEF FreshInv, TypeInv
      <4>2. heard'[m] = said  BY <2>3, <3>1 DEF FreshInv, TypeInv
      <4>3. Fresh(RecvFrame(iface[n], f), said)  BY <1>b, <2>1, RecvFresh
      <4> QED  BY <4>1, <4>2, <4>3
    <3>2. CASE m # n
      <4>1. iface'[m] = iface[m] /\ heard'[m] = heard[m]
        BY <2>3, <3>2 DEF FreshInv, TypeInv
      <4> QED  BY <1>b, <4>1
    <3> QED  BY <3>1, <3>2
  <2> QED  BY <1>c, <2>3, <2>4, <2>5
<1>3. CASE RouteOne
  <2>1. heard' = heard /\ had' = had  BY <1>3, <1>a, RouteOneEffect
  <2>2. PICK popped : /\ Popped(popped)
                      /\ \/ Drops(popped)
                         \/ \E from, to, d, hop : Sends(popped, from, to, d, hop)
    BY <1>3, <1>a, RouteOneEffect
  <2>3. ASSUME NEW m \in Names
        PROVE  /\ popped[m] \in Interfaces /\ Fresh(popped[m], heard[m])
               /\ popped[m].ethernet = iface[m].ethernet /\ popped[m].ip = iface[m].ip
    BY <1>b, <2>2 DEF Popped, Fresh
  <2>4. CASE Drops(popped)
    BY <1>c, <2>1, <2>3, <2>4 DEF Drops, FreshInv
  <2>5. ASSUME NEW from, NEW to, NEW d, NEW hop, Sends(popped, from, to, d, hop)
        PROVE  FreshInv'
    <3> DEFINE sending == SendDatagram(popped[to], Decremented(d), hop)
    <3>1. /\ to \in Names /\ Decremented(d) \in Datagrams /\ hop \in IPAddresses
          /\ iface' = [popped EXCEPT ![to] = sending]
          /\ inbox' = Carried(inbox, to, SendTransmits(popped[to], Decremented(d), hop))
      BY <2>5 DEF Sends
    <3>2. sending.arp_map = popped[to].arp_map  BY <2>3, <3>1, SendType
    <3>3. inbox' \in [Names -> Seq(TrueFrames)]  BY <2>3, <3>1, SentTruly
    <3> HIDE DEF sending
    <3>4. \A m \in Names : iface'[m].arp_map = popped[m].arp_map
      BY <2>2, <3>1, <3>2 DEF Popped
    <3>5. \A m \in Names : Fresh(iface'[m], heard'[m])  BY <2>1, <2>3, <3>4 DEF Fresh
    <3> QED  BY <1>c, <2>1, <3>3, <3>5
  <2> QED  BY <2>2, <2>4, <2>5
<1>4. ASSUME NEW t \in Ticks, TimePasses(t) PROVE FreshInv'
  <2>1. t \in Nat  BY TopologyAssumption
  <2>2. inbox' = inbox /\ had' = had  BY <1>4 DEF TimePasses
  <2>3. ASSUME NEW n \in Names PROVE Fresh(iface'[n], heard'[n])
    <3>1. /\ iface'[n] = Tick(iface[n], t)
          /\ heard'[n] = [a \in IPAddresses |-> Aged(heard[n][a], t, ARP_MAP_TTL)]
      BY <1>4 DEF TimePasses
    <3> QED  BY <1>b, <2>1, <3>1, TickFresh
  <2> QED  BY <1>c, <2>2, <2>3 DEF FreshInv
<1>5. ASSUME NEW n \in Hosts, NEW ethernet \in EthernetAddresses, Restart(n, ethernet)
      PROVE  FreshInv'
  <2>1. /\ iface' = [iface EXCEPT ![n] = NewInterface(ethernet, IP[n])]
        /\ inbox' = [inbox EXCEPT ![n] = << >>]
        /\ had' = [had EXCEPT ![n] = @ \union {ethernet}]
        /\ heard' = [heard EXCEPT ![n] = [a \in IPAddresses |-> Absent]]
    BY <1>5 DEF Restart
  <2>2. \A m \in Names : had[m] \subseteq had'[m]  BY <2>1 DEF FreshInv, TypeInv
  <2>3. /\ TrueFrames \subseteq TrueFrames'
        /\ \A a, e : Owned(a, e) => Owned(a, e)'
    BY <2>2, OwnedStays
  <2>4. inbox' \in [Names -> Seq(TrueFrames)]
    <3> DEFINE S == TrueFrames
    <3>1. inbox \in [Names -> Seq(S)] /\ << >> \in Seq(S)  BY DEF FreshInv
    <3> HIDE DEF S
    <3>2. inbox' \in [Names -> Seq(S)]  BY <2>1, <3>1
    <3> QED  BY <3>2 DEF S
  <2>5. inbox' \in [Names -> Seq(TrueFrames')]  BY <2>3, <2>4, SeqGrows
  <2>6. ASSUME NEW m \in Names PROVE Fresh(iface[m], heard[m])'
    <3>1. CASE m = n
      <4>1. iface'[m].arp_map = [a \in IPAddresses |-> Absent]
        BY <2>1, <3>1 DEF FreshInv, TypeInv, NewInterface
      <4> QED  BY <4>1 DEF Fresh, Agrees
    <3>2. CASE m # n
      <4>1. iface'[m] = iface[m] /\ heard'[m] = heard[m]
        BY <2>1, <3>2 DEF FreshInv, TypeInv
      <4> QED  BY <1>b, <2>3, <4>1 DEF Fresh
    <3> QED  BY <3>1, <3>2
  <2> QED  BY <1>a, <2>5, <2>6 DEF FreshInv
<1>6. ASSUME NEW entry \in TableRoutes, AddRoute(entry) PROVE FreshInv'
  BY <1>d, <1>6 DEF AddRoute, network, history
<1>7. CASE RouteStart  BY <1>d, <1>7 DEF RouteStart, network, history
<1>8. CASE RouteNext  BY <1>d, <1>8 DEF RouteNext, network, history
<1>9. ASSUME NEW n \in Names, Lose(n) PROVE FreshInv'
  <2>1. /\ inbox' = [inbox EXCEPT ![n] = Tail(@)]
        /\ UNCHANGED <<iface, heard, had>>
    BY <1>9 DEF Lose, history
  <2>2. inbox[n] \in Seq(TrueFrames) /\ inbox[n] # << >>  BY <1>9, <1>b DEF Lose
  <2>3. inbox' \in [Names -> Seq(TrueFrames)]
    <3>1. Tail(inbox[n]) \in Seq(TrueFrames)  BY <2>2
    <3> QED  BY <2>1, <3>1 DEF FreshInv
  <2> QED  BY <1>b, <1>c, <2>1, <2>3
<1>10. CASE UNCHANGED vars  BY <1>d, <1>10 DEF vars, network, history
<1> QED
  BY <1>1, <1>2, <1>3, <1>4, <1>5, <1>6, <1>7, <1>8, <1>9, <1>10 DEF Next

(***************************************************************************)
(* A datagram is addressed by what its next hop said last, less than       *)
(* ARP_MAP_TTL ago (network_interface.cc:92, 123-130), although frames are *)
(* lost and late and hosts change their address: every ARP message speaks  *)
(* for its sender, and an entry is never younger than what was heard.      *)
(***************************************************************************)
THEOREM MapStaysFresh == Spec => []MapIsFresh
<1> QED  BY InitFreshInv, NextFreshInv, FreshInvShows, PTL DEF Spec

-----------------------------------------------------------------------------
PortNames == {Ports[k] : k \in DOMAIN Ports}

LEMMA PortsAreNoHosts ==
    /\ PortNames \subseteq Names
    /\ \A n \in Hosts : n \in Names /\ n \notin PortNames
<1>1. \A k \in DOMAIN Ports : Ports[k] \in Names \ Hosts  BY TopologyAssumption
<1> QED  BY <1>1 DEF PortNames, Names

-----------------------------------------------------------------------------
(***************************************************************************)
(* Why what waits for a host of the segment is served: what will release   *)
(* it is on its way, the request of n or the reply of m.                   *)
(***************************************************************************)
InTransit(frames) == {frames[k] : k \in DOMAIN frames}

Answers(f, i, a) ==
    /\ f.type = "ARP" /\ f.dst = i.ethernet
    /\ f.payload.opcode = "reply" /\ f.payload.sender_ip = a

Coming(n, m) ==
    \/ ARPRequest(iface[n], IP[m]) \in InTransit(inbox[m])
    \/ \E f \in InTransit(inbox[n]) : Answers(f, iface[n], IP[m])

Neighbours(n, m) == n # m /\ Segment[n] = Segment[m]

Awaited ==
    \A n, m \in Names :
        Neighbours(n, m) /\ iface[n].wait_list[IP[m]] # Absent => Coming(n, m)

\* What is on its way to m, when S was, once n has transmitted frames.
ReachedBy(m, S, n, frames) ==
    S \union (IF Neighbours(m, n) THEN InTransit(frames) ELSE {})

ServiceInv == TypeInv /\ (faults = 0 => Awaited)

LEMMA ServiceInvShows == ServiceInv => WaitingIsServed
<1> SUFFICES ASSUME ServiceInv, Quiet, faults = 0, NEW n \in Names, NEW m \in Names,
                    Neighbours(n, m), iface[n].wait_list[IP[m]] # Absent
             PROVE  FALSE
  BY DEF WaitingIsServed, Neighbours
<1>1. inbox[n] = << >> /\ inbox[m] = << >>  BY DEF Quiet
<1>2. InTransit(<< >>) = {}  BY DEF InTransit
<1> QED  BY <1>1, <1>2 DEF ServiceInv, Awaited, Coming

LEMMA TransitTail ==
    ASSUME NEW S, NEW s \in Seq(S), s # << >>
    PROVE  InTransit(s) = {Head(s)} \union InTransit(Tail(s))
<1>1. /\ Len(s) \in Nat \ {0} /\ DOMAIN s = 1 .. Len(s) /\ Head(s) = s[1]
      /\ DOMAIN Tail(s) = 1 .. Len(s) - 1
      /\ \A k \in 1 .. Len(s) - 1 : Tail(s)[k] = s[k + 1]
  OBVIOUS
<1>2. ASSUME NEW k \in DOMAIN s PROVE s[k] \in {Head(s)} \union InTransit(Tail(s))
  <2>1. CASE k = 1  BY <1>1, <2>1
  <2>2. CASE k # 1
    <3>1. k - 1 \in 1 .. Len(s) - 1 /\ k = (k - 1) + 1  BY <1>1, <2>2
    <3> QED  BY <1>1, <3>1 DEF InTransit
  <2> QED  BY <2>1, <2>2
<1>3. ASSUME NEW k \in DOMAIN Tail(s) PROVE Tail(s)[k] \in InTransit(s)
  <2>1. k + 1 \in DOMAIN s /\ Tail(s)[k] = s[k + 1]  BY <1>1
  <2> QED  BY <2>1 DEF InTransit
<1>4. Head(s) \in InTransit(s)  BY <1>1 DEF InTransit
<1> QED  BY <1>2, <1>3, <1>4 DEF InTransit

LEMMA TransitCarried ==
    ASSUME NEW inboxes \in [Names -> Seq(Frames)], NEW n \in Names, NEW frames \in Seq(Frames),
           NEW m \in Names
    PROVE  InTransit(Carried(inboxes, n, frames)[m])
               = ReachedBy(m, InTransit(inboxes[m]), n, frames)
<1> DEFINE s == inboxes[m]
<1>1. s \in Seq(Frames)  OBVIOUS
<1> HIDE DEF s
<1>2. InTransit(s \o frames) = InTransit(s) \union InTransit(frames)
  <2>1. /\ Len(s) \in Nat /\ Len(frames) \in Nat
        /\ DOMAIN s = 1 .. Len(s) /\ DOMAIN frames = 1 .. Len(frames)
        /\ DOMAIN (s \o frames) = 1 .. Len(s) + Len(frames)
        /\ \A k \in 1 .. Len(s) + Len(frames) :
              (s \o frames)[k] = IF k <= Len(s) THEN s[k] ELSE frames[k - Len(s)]
    BY <1>1
  <2> DEFINE l == s \o frames
  <2>2. l = s \o frames  OBVIOUS
  <2> HIDE DEF l
  <2>3. ASSUME NEW k \in DOMAIN l PROVE l[k] \in InTransit(s) \union InTransit(frames)
    <3>1. CASE k <= Len(s)
      <4>1. k \in DOMAIN s /\ l[k] = s[k]  BY <2>1, <2>2, <2>3, <3>1
      <4> QED  BY <4>1 DEF InTransit
    <3>2. CASE ~(k <= Len(s))
      <4>1. k - Len(s) \in DOMAIN frames /\ l[k] = frames[k - Len(s)]
        BY <2>1, <2>2, <2>3, <3>2
      <4> QED  BY <4>1 DEF InTransit
    <3> QED  BY <3>1, <3>2
  <2>4. ASSUME NEW k \in DOMAIN s PROVE s[k] \in InTransit(l)
    <3>1. k \in DOMAIN l /\ l[k] = s[k]  BY <2>1, <2>2
    <3> QED  BY <3>1 DEF InTransit
  <2>5. ASSUME NEW k \in DOMAIN frames PROVE frames[k] \in InTransit(l)
    <3>1. k + Len(s) \in DOMAIN l /\ l[k + Len(s)] = frames[k]
      BY <2>1, <2>2
    <3> QED  BY <3>1 DEF InTransit
  <2>6. InTransit(l) = InTransit(s) \union InTransit(frames)
    BY <2>3, <2>4, <2>5 DEF InTransit
  <2> QED  BY <2>2, <2>6
<1>3. Carried(inboxes, n, frames)[m] = IF Neighbours(m, n) THEN s \o frames ELSE s
  BY DEF Carried, Neighbours, s
<1>4. CASE Neighbours(m, n)  BY <1>2, <1>3, <1>4 DEF s, ReachedBy
<1>5. CASE ~Neighbours(m, n)  BY <1>3, <1>5 DEF s, ReachedBy
<1> QED  BY <1>4, <1>5

\* A datagram that starts to wait asks for its next hop.
LEMMA SendServed ==
    ASSUME NEW i \in Interfaces, NEW d \in Datagrams, NEW hop \in IPAddresses,
           NEW a \in IPAddresses, SendDatagram(i, d, hop).wait_list[a] # Absent
    PROVE  \/ i.wait_list[a] # Absent
           \/ ARPRequest(i, a) \in InTransit(SendTransmits(i, d, hop))
<1>1. CASE Asks(i, hop) /\ a = hop
  <2>1. SendTransmits(i, d, hop) = <<ARPRequest(i, a)>>
    BY <1>1 DEF Asks, SendTransmits
  <2>2. InTransit(<<ARPRequest(i, a)>>) = {ARPRequest(i, a)}
    BY DEF InTransit
  <2> QED  BY <2>1, <2>2
<1>2. CASE Asks(i, hop) /\ a # hop
  <2>1. i.wait_list \in [IPAddresses -> Waiting \union {Absent}]  BY DEF Interfaces
  <2>2. SendDatagram(i, d, hop).wait_list
           = [i.wait_list EXCEPT ![hop] = [dgrams |-> <<d>>, age |-> 0]]
    BY <1>2 DEF SendDatagram, Interfaces
  <2> QED  BY <1>2, <2>1, <2>2
<1>3. CASE ~Asks(i, hop)
  BY <1>3 DEF SendDatagram
<1> QED  BY <1>1, <1>2, <1>3

\* A request is answered; an answer releases what waits, and no frame adds to it.
LEMMA RecvServes ==
    ASSUME NEW i \in Interfaces, NEW f \in Frames
    PROVE  /\ \A a \in IPAddresses :
                 RecvFrame(i, f).wait_list[a] # Absent =>
                     i.wait_list[a] # Absent /\ ~Answers(f, i, a)
           /\ \A j \in Interfaces :
                 f = ARPRequest(j, i.ip) =>
                     \E g \in InTransit(RecvTransmits(i, f)) : Answers(g, j, i.ip)
<1>1. ASSUME NEW a \in IPAddresses, RecvFrame(i, f).wait_list[a] # Absent
      PROVE  i.wait_list[a] # Absent /\ ~Answers(f, i, a)
  <2> DEFINE m == f.payload
  <2>1. i.wait_list \in [IPAddresses -> Waiting \union {Absent}]  BY DEF Interfaces
  <2>2. CASE IsForUs(i, f) /\ f.type = "ARP"
    <3>1. RecvFrame(i, f).wait_list = Released(i, m)
      BY <2>2 DEF RecvFrame, Interfaces
    <3>2. Released(i, m)[a] # Absent  BY <1>1, <3>1
    <3>3. CASE AsksUs(i, m)
      <4>1. m.opcode = "request"  BY <3>3 DEF AsksUs
      <4>2. ~Answers(f, i, a)  BY <4>1 DEF Answers
      <4> QED  BY <3>2, <3>3, <4>2 DEF Released
    <3>4. CASE ~AsksUs(i, m)
      <4>1. [i.wait_list EXCEPT ![m.sender_ip] = Absent][a] # Absent
        BY <3>2, <3>4 DEF Released
      <4>2. a # m.sender_ip /\ i.wait_list[a] # Absent  BY <2>1, <4>1
      <4> QED  BY <4>2 DEF Answers
    <3> QED  BY <3>3, <3>4
  <2>3. CASE ~(IsForUs(i, f) /\ f.type = "ARP")
    <3>1. RecvFrame(i, f).wait_list = i.wait_list
      BY <2>3 DEF RecvFrame, Interfaces
    <3>2. ~Answers(f, i, a)  BY <2>3 DEF Answers, IsForUs
    <3> QED  BY <1>1, <3>1, <3>2
  <2> QED  BY <2>2, <2>3
<1>2. ASSUME NEW j \in Interfaces, f = ARPRequest(j, i.ip)
      PROVE  \E g \in InTransit(RecvTransmits(i, f)) : Answers(g, j, i.ip)
  <2>1. /\ f.type = "ARP" /\ f.dst = ETHERNET_BROADCAST
        /\ f.payload = [opcode |-> "request", sender_ethernet |-> j.ethernet,
                        sender_ip |-> j.ip, target_ip |-> i.ip]
    BY <1>2 DEF ARPRequest, Frame
  <2>2. IsForUs(i, f) /\ AsksUs(i, f.payload)  BY <2>1 DEF IsForUs, AsksUs
  <2>3. RecvTransmits(i, f) = <<ARPReply(i, f.payload)>>
    BY <2>1, <2>2 DEF RecvTransmits
  <2>4. ARPReply(i, f.payload) \in InTransit(RecvTransmits(i, f))
    BY <2>3 DEF InTransit
  <2>5. Answers(ARPReply(i, f.payload), j, i.ip)
    BY <2>1 DEF Answers, ARPReply, Frame
  <2> QED  BY <2>4, <2>5
<1> QED  BY <1>1, <1>2

LEMMA InitServiceInv == Init => ServiceInv
<1> SUFFICES ASSUME Init PROVE ServiceInv  OBVIOUS
<1>1. TypeInv  BY InitTypeInv
<1>2. ASSUME NEW n \in Names, NEW a \in IPAddresses
      PROVE  iface[n].wait_list[a] = Absent
  BY DEF Init, NewInterface
<1>3. \A m \in Names : IP[m] \in IPAddresses  BY TopologyAssumption
<1> QED  BY <1>1, <1>2, <1>3 DEF ServiceInv, Awaited

\* What is on its way stays so, when n sends and nothing is taken.
LEMMA SendKeepsAwaited ==
    ASSUME TypeInv, Awaited, NEW n \in Names, NEW before \in [Names -> Interfaces],
           NEW d \in Datagrams, NEW hop \in IPAddresses,
           \A m \in Names : /\ before[m].ethernet = iface[m].ethernet
                            /\ before[m].ip = iface[m].ip
                            /\ before[m].wait_list = iface[m].wait_list,
           iface' = [before EXCEPT ![n] = SendDatagram(before[n], d, hop)],
           inbox' = Carried(inbox, n, SendTransmits(before[n], d, hop))
    PROVE  Awaited'
<1> DEFINE frames == SendTransmits(before[n], d, hop)
           i      == SendDatagram(before[n], d, hop)
<1>1. /\ i.ethernet = iface[n].ethernet /\ i.ip = iface[n].ip
      /\ frames \in Seq(Frames)
  BY SendType
<1>2. \A a \in IPAddresses :
         i.wait_list[a] # Absent =>
             iface[n].wait_list[a] # Absent \/ ARPRequest(before[n], a) \in InTransit(frames)
  BY SendServed
<1>3. \A a : ARPRequest(before[n], a) = ARPRequest(iface[n], a)
  BY DEF ARPRequest
<1>4. iface' = [before EXCEPT ![n] = i] /\ inbox' = Carried(inbox, n, frames)
  OBVIOUS
<1> HIDE DEF frames, i
<1>5. ASSUME NEW m \in Names
      PROVE  InTransit(inbox'[m]) = ReachedBy(m, InTransit(inbox[m]), n, frames)
  <2>1. inbox \in [Names -> Seq(Frames)] /\ frames \in Seq(Frames)
    BY <1>1 DEF TypeInv
  <2>2. InTransit(Carried(inbox, n, frames)[m])
           = ReachedBy(m, InTransit(inbox[m]), n, frames)
    BY <2>1, TransitCarried
  <2> QED  BY <1>4, <2>2
<1>6. ASSUME NEW m \in Names
      PROVE  /\ iface'[m].ethernet = iface[m].ethernet /\ iface'[m].ip = iface[m].ip
             /\ iface'[m].wait_list = IF m = n THEN i.wait_list ELSE iface[m].wait_list
  <2>1. iface'[m] = IF m = n THEN i ELSE before[m]  BY <1>4
  <2> QED  BY <1>1, <2>1
<1> SUFFICES ASSUME NEW p \in Names, NEW m \in Names, Neighbours(p, m),
                    iface'[p].wait_list[IP[m]] # Absent
             PROVE  Coming(p, m)'
  BY DEF Awaited, Neighbours
<1>7. ARPRequest(iface'[p], IP[m]) = ARPRequest(iface[p], IP[m])
  BY <1>6 DEF ARPRequest
<1>8. ASSUME Coming(p, m) PROVE Coming(p, m)'
  BY <1>5, <1>6, <1>7, <1>8 DEF Coming, Answers, ReachedBy
<1>9. CASE iface[p].wait_list[IP[m]] # Absent
  BY <1>8, <1>9 DEF Awaited
<1>10. CASE iface[p].wait_list[IP[m]] = Absent
  <2>1. p = n  BY <1>6, <1>10
  <2>2. IP[m] \in IPAddresses  BY TopologyAssumption
  <2>3. ARPRequest(iface[p], IP[m]) \in InTransit(frames)
    BY <1>2, <1>3, <1>6, <1>10, <2>1, <2>2
  <2> QED  BY <1>5, <1>7, <2>1, <2>3 DEF Coming, Neighbours, ReachedBy
<1> QED  BY <1>9, <1>10

LEMMA DeliverKeepsAwaited ==
    ASSUME TypeInv, Awaited, NEW n \in Names, Deliver(n)
    PROVE  Awaited'
<1> DEFINE f      == Head(inbox[n])
           frames == RecvTransmits(iface[n], f)
           i      == RecvFrame(iface[n], f)
           taken  == [inbox EXCEPT ![n] = Tail(@)]
<1>1. /\ inbox[n] \in Seq(Frames) /\ inbox[n] # << >>
      /\ iface' = [iface EXCEPT ![n] = i] /\ inbox' = Carried(taken, n, frames)
  BY DEF Deliver, TypeInv
<1>2. f \in Frames /\ Tail(inbox[n]) \in Seq(Frames)
  BY <1>1
<1>3. iface[n] \in Interfaces  BY DEF TypeInv
<1>4. /\ i.ethernet = iface[n].ethernet /\ i.ip = iface[n].ip
      /\ frames \in Seq(Frames)
  BY <1>2, <1>3, RecvType
<1>5. /\ \A a \in IPAddresses :
             i.wait_list[a] # Absent =>
                 iface[n].wait_list[a] # Absent /\ ~Answers(f, iface[n], a)
      /\ \A j \in Interfaces :
             f = ARPRequest(j, iface[n].ip) =>
                 \E g \in InTransit(frames) : Answers(g, j, iface[n].ip)
  BY <1>2, <1>3, RecvServes
<1>6. InTransit(inbox[n]) = {f} \union InTransit(Tail(inbox[n]))
  BY <1>1, TransitTail
<1>7. /\ taken \in [Names -> Seq(Frames)]
      /\ \A m \in Names : taken[m] = IF m = n THEN Tail(inbox[n]) ELSE inbox[m]
  BY <1>2 DEF TypeInv
<1> HIDE DEF f, frames, i, taken
<1>8. ASSUME NEW m \in Names
      PROVE  InTransit(inbox'[m]) = ReachedBy(m, InTransit(taken[m]), n, frames)
  <2>1. frames \in Seq(Frames)  BY <1>4
  <2>2. InTransit(Carried(taken, n, frames)[m])
           = ReachedBy(m, InTransit(taken[m]), n, frames)
    BY <1>7, <2>1, TransitCarried
  <2> QED  BY <1>1, <2>2
<1>9. ASSUME NEW m \in Names
      PROVE  /\ iface'[m].ethernet = iface[m].ethernet /\ iface'[m].ip = iface[m].ip
             /\ iface'[m].wait_list = IF m = n THEN i.wait_list ELSE iface[m].wait_list
  <2>1. iface'[m] = IF m = n THEN i ELSE iface[m]  BY <1>1 DEF TypeInv
  <2> QED  BY <1>4, <2>1
<1> SUFFICES ASSUME NEW p \in Names, NEW m \in Names, Neighbours(p, m),
                    iface'[p].wait_list[IP[m]] # Absent
             PROVE  Coming(p, m)'
  BY DEF Awaited, Neighbours
<1>10. ARPRequest(iface'[p], IP[m]) = ARPRequest(iface[p], IP[m])
  BY <1>9 DEF ARPRequest
<1>11. IP[m] \in IPAddresses /\ IP[n] \in IPAddresses /\ iface[n].ip = IP[n]
       /\ iface[p] \in Interfaces
  BY TopologyAssumption DEF TypeInv
<1>12. Coming(p, m)
  <2>1. iface[p].wait_list[IP[m]] # Absent  BY <1>5, <1>9, <1>11
  <2> QED  BY <2>1 DEF Awaited
<1>13. CASE ARPRequest(iface[p], IP[m]) \in InTransit(inbox[m])
  <2>1. CASE ARPRequest(iface[p], IP[m]) \in InTransit(taken[m])
    BY <1>8, <1>10, <2>1 DEF Coming, ReachedBy
  <2>2. CASE ARPRequest(iface[p], IP[m]) \notin InTransit(taken[m])
    <3>1. m = n /\ f = ARPRequest(iface[p], IP[m])
      BY <1>6, <1>7, <1>13, <2>2
    <3>2. PICK g \in InTransit(frames) : Answers(g, iface[p], IP[m])
      BY <1>5, <1>11, <3>1
    <3>3. g \in InTransit(inbox'[p])  BY <1>8, <3>1, <3>2 DEF Neighbours, ReachedBy
    <3>4. Answers(g, iface'[p], IP[m])  BY <1>9, <3>2 DEF Answers
    <3> QED  BY <3>3, <3>4 DEF Coming
  <2> QED  BY <2>1, <2>2
<1>14. ASSUME NEW g \in InTransit(inbox[p]), Answers(g, iface[p], IP[m])
       PROVE  Coming(p, m)'
  <2>1. g \in InTransit(taken[p])
    <3>1. CASE p = n
      <4>1. ~Answers(f, iface[n], IP[m])  BY <1>5, <1>9, <1>11, <3>1
      <4> QED  BY <1>6, <1>7, <1>14, <3>1, <4>1
    <3>2. CASE p # n  BY <1>7, <3>2
    <3> QED  BY <3>1, <3>2
  <2>2. g \in InTransit(inbox'[p])  BY <1>8, <2>1 DEF ReachedBy
  <2>3. Answers(g, iface'[p], IP[m])  BY <1>9, <1>14 DEF Answers
  <2> QED  BY <2>2, <2>3 DEF Coming
<1> QED  BY <1>12, <1>13, <1>14 DEF Coming

LEMMA NextServiceInv == ServiceInv /\ [Next]_vars => ServiceInv'
<1> SUFFICES ASSUME ServiceInv, [Next]_vars, faults' = 0 PROVE Awaited'
  BY NextTypeInv DEF ServiceInv
<1>a. TypeInv  BY DEF ServiceInv
<1>b. faults \in Nat  BY <1>a, TopologyAssumption DEF TypeInv
<1>c. ASSUME faults' = faults PROVE Awaited
  BY <1>c DEF ServiceInv
<1>d. ASSUME UNCHANGED <<iface, inbox, faults>> PROVE Awaited'
  BY <1>c, <1>d DEF Awaited, Coming, Neighbours
<1>1. ASSUME NEW message \in Traffic, NEW hop \in IPAddresses,
             HostSend(message.from, message.datagram, hop)
      PROVE  Awaited'
  <2> DEFINE n == message.from
             d == message.datagram
  <2>1. n \in Names /\ d \in Datagrams  BY TopologyAssumption DEF Names
  <2>2. /\ iface' = [iface EXCEPT ![n] = SendDatagram(iface[n], d, hop)]
        /\ inbox' = Carried(inbox, n, SendTransmits(iface[n], d, hop))
        /\ faults' = faults
    BY <1>1 DEF HostSend
  <2> HIDE DEF n, d
  <2>3. iface \in [Names -> Interfaces]  BY <1>a DEF TypeInv
  <2> QED  BY <1>a, <1>c, <2>1, <2>2, <2>3, SendKeepsAwaited
<1>2. ASSUME NEW n \in Names, Deliver(n) PROVE Awaited'
  <2>1. faults' = faults  BY <1>2 DEF Deliver
  <2> QED  BY <1>2, <1>a, <1>c, <2>1, DeliverKeepsAwaited
<1>3. CASE RouteOne
  <2>1. faults' = faults  BY <1>3, <1>a, RouteOneEffect
  <2>2. PICK popped : /\ Popped(popped)
                      /\ \/ Drops(popped)
                         \/ \E from, to, d, hop : Sends(popped, from, to, d, hop)
    BY <1>3, <1>a, RouteOneEffect
  <2>3. Awaited  BY <1>c, <2>1
  <2>4. CASE Drops(popped)
    <3>1. inbox' = inbox
          /\ \A m \in Names : /\ iface'[m].ethernet = iface[m].ethernet
                              /\ iface'[m].ip = iface[m].ip
                              /\ iface'[m].wait_list = iface[m].wait_list
      BY <2>2, <2>4 DEF Drops, Popped
    <3>2. ASSUME NEW m \in Names, NEW a
          PROVE  ARPRequest(iface'[m], a) = ARPRequest(iface[m], a)
      BY <3>1 DEF ARPRequest
    <3> QED  BY <2>3, <3>1, <3>2 DEF Awaited, Coming, Neighbours, Answers
  <2>5. ASSUME NEW from, NEW to, NEW d, NEW hop, Sends(popped, from, to, d, hop)
        PROVE  Awaited'
    <3> DEFINE e == Decremented(d)
    <3>1. /\ to \in Names /\ e \in Datagrams /\ hop \in IPAddresses
          /\ iface' = [popped EXCEPT ![to] = SendDatagram(popped[to], e, hop)]
          /\ inbox' = Carried(inbox, to, SendTransmits(popped[to], e, hop))
      BY <2>5 DEF Sends
    <3> HIDE DEF e
    <3>2. /\ popped \in [Names -> Interfaces]
          /\ \A m \in Names : /\ popped[m].ethernet = iface[m].ethernet
                              /\ popped[m].ip = iface[m].ip
                              /\ popped[m].wait_list = iface[m].wait_list
      BY <2>2 DEF Popped
    <3> QED  BY <1>a, <2>3, <3>1, <3>2, SendKeepsAwaited
  <2> QED  BY <2>2, <2>4, <2>5
<1>4. ASSUME NEW t \in Ticks, TimePasses(t) PROVE Awaited'
  <2>1. Quiet /\ faults = 0  BY <1>4, <1>b DEF TimePasses
  <2>2. WaitingIsServed  BY ServiceInvShows
  <2>3. ASSUME NEW n \in Names, NEW m \in Names, Neighbours(n, m)
        PROVE  iface'[n].wait_list[IP[m]] = Absent
    <3>1. iface[n].wait_list[IP[m]] = Absent
      BY <2>1, <2>2, <2>3 DEF WaitingIsServed, Neighbours
    <3>2. iface'[n] = Tick(iface[n], t) /\ iface[n] \in Interfaces /\ IP[m] \in IPAddresses
      BY <1>4, <1>a, TopologyAssumption DEF TimePasses, TypeInv
    <3>3. iface'[n].wait_list = [a \in IPAddresses |->
              Aged(iface[n].wait_list[a], t, ARP_RETX_PERIOD)]
      BY <3>2 DEF Tick, Interfaces
    <3> QED  BY <3>1, <3>2, <3>3 DEF Aged
  <2> QED  BY <2>3 DEF Awaited, Neighbours
<1>5. ASSUME NEW n \in Hosts, NEW ethernet \in EthernetAddresses, Restart(n, ethernet)
      PROVE  FALSE
  BY <1>5, <1>b DEF Restart
<1>6. ASSUME NEW n \in Names, Lose(n) PROVE FALSE
  BY <1>6, <1>b DEF Lose
<1>7. ASSUME NEW entry \in TableRoutes, AddRoute(entry) PROVE Awaited'
  BY <1>d, <1>7 DEF AddRoute, network
<1>8. CASE RouteStart  BY <1>d, <1>8 DEF RouteStart, network
<1>9. CASE RouteNext  BY <1>d, <1>9 DEF RouteNext, network
<1>10. CASE UNCHANGED vars  BY <1>d, <1>10 DEF vars, network
<1> QED
  BY <1>1, <1>2, <1>3, <1>4, <1>5, <1>6, <1>7, <1>8, <1>9, <1>10 DEF Next

(***************************************************************************)
(* Where frames are neither lost nor late and no host is replaced, nothing *)
(* is left waiting for a host or a port of the segment once all is quiet:  *)
(* one request is enough, although the two may ask each other at the same  *)
(* time (network_interface.cc:94).                                         *)
(***************************************************************************)
THEOREM WaitingIsAlwaysServed == Spec => []WaitingIsServed
<1> QED  BY InitServiceInv, NextServiceInv, ServiceInvShows, PTL DEF Spec
-----------------------------------------------------------------------------
(***************************************************************************)
(* Where a datagram may be that is still to be transmitted: with a host    *)
(* or a port, waiting for an ARP reply, on its way to a port, or received  *)
(* by a port.  It is in one such place at most, and what is there has not  *)
(* been transmitted by whom it is before.                                  *)
(***************************************************************************)
Has(s, S) == \E k \in DOMAIN s : s[k] \in S

OneOf(s, S) == \A j, k \in DOMAIN s : s[j] \in S /\ s[k] \in S => j = k

FramesOf(x) == {f \in Frames : f.type = "IPv4" /\ f.payload.id = x}

Versions(x) == {d \in Datagrams : d.id = x}

WaitsAt(i, a, x) == i.wait_list[a] # Absent /\ i.wait_list[a].dgrams[1].id = x

\* One datagram waits for a next hop, as a second one is dropped.
OneWaits(i) == \A a \in IPAddresses : i.wait_list[a] # Absent => Len(i.wait_list[a].dgrams) = 1

Kinds == {"waits", "comes", "received"}

At(kind, n, a, x) ==
    \/ kind = "waits" /\ WaitsAt(iface[n], a, x)
    \/ kind = "comes" /\ n \in PortNames /\ a = IP[n] /\ Has(inbox[n], FramesOf(x))
    \/ /\ kind = "received" /\ n \in PortNames /\ a = IP[n]
       /\ Has(iface[n].datagrams_received, Versions(x))

Alone(x) ==
    \A k1, k2 \in Kinds, n1, n2 \in Names, a1, a2 \in IPAddresses :
        At(k1, n1, a1, x) /\ At(k2, n2, a2, x) => k1 = k2 /\ n1 = n2 /\ a1 = a2

OneEach(x) ==
    \A p \in PortNames : /\ OneOf(inbox[p], FramesOf(x))
                         /\ OneOf(iface[p].datagrams_received, Versions(x))

NotYetSent(x) ==
    \A kind \in Kinds, n \in Names, a \in IPAddresses :
        At(kind, n, a, x) =>
            /\ origin[x] # Absent
            /\ \A p \in PortNames : sent[p][x] = 0
            /\ kind = "waits" /\ n \notin PortNames => \A m \in Names : sent[m][x] = 0

Once(x) ==
    /\ Alone(x) /\ OneEach(x) /\ NotYetSent(x)
    /\ origin[x] = Absent => \A n \in Names : sent[n][x] = 0
    /\ \A n \in Names : sent[n][x] <= 1

OnceInv ==
    /\ TypeInv
    /\ \A n \in Names : OneWaits(iface[n])
    /\ \A x \in Ids : Once(x)

LEMMA TailHas ==
    ASSUME NEW T, NEW s \in Seq(T), s # << >>, NEW S
    PROVE  /\ Has(Tail(s), S) => Has(s, S)
           /\ OneOf(s, S) => OneOf(Tail(s), S)
           /\ OneOf(s, S) /\ Head(s) \in S => ~Has(Tail(s), S)
           /\ Head(s) \in S => Has(s, S)
<1>1. /\ Len(s) \in Nat \ {0} /\ DOMAIN s = 1 .. Len(s) /\ Head(s) = s[1]
      /\ DOMAIN Tail(s) = 1 .. Len(s) - 1
      /\ \A k \in 1 .. Len(s) - 1 : Tail(s)[k] = s[k + 1]
  OBVIOUS
<1> DEFINE t == Tail(s)
<1>2. /\ DOMAIN t = 1 .. Len(s) - 1
      /\ \A k \in DOMAIN t : k \in Nat /\ k + 1 \in DOMAIN s /\ k + 1 # 1 /\ t[k] = s[k + 1]
  BY <1>1
<1> HIDE DEF t
<1>3. Has(t, S) => Has(s, S)  BY <1>2 DEF Has
<1>4. ASSUME OneOf(s, S) PROVE OneOf(t, S)
  <2> SUFFICES ASSUME NEW j \in DOMAIN t, NEW k \in DOMAIN t, t[j] \in S, t[k] \in S
               PROVE  j = k
    BY DEF OneOf
  <2>1. j + 1 = k + 1  BY <1>2, <1>4 DEF OneOf
  <2> QED  BY <1>2, <2>1
<1>5. ASSUME OneOf(s, S), Head(s) \in S PROVE ~Has(t, S)
  <2> SUFFICES ASSUME NEW k \in DOMAIN t, t[k] \in S PROVE FALSE
    BY DEF Has
  <2>1. 1 \in DOMAIN s /\ s[1] \in S  BY <1>1, <1>5
  <2>2. k + 1 = 1  BY <1>2, <1>5, <2>1 DEF OneOf
  <2> QED  BY <1>2, <2>2
<1>6. Head(s) \in S => Has(s, S)  BY <1>1 DEF Has
<1> QED  BY <1>3, <1>4, <1>5, <1>6 DEF t

LEMMA JoinHas ==
    ASSUME NEW T, NEW s \in Seq(T), NEW t \in Seq(T), NEW S
    PROVE  /\ Has(s \o t, S) => Has(s, S) \/ Has(t, S)
           /\ OneOf(s, S) /\ OneOf(t, S) /\ ~(Has(s, S) /\ Has(t, S)) => OneOf(s \o t, S)
<1>1. /\ Len(s) \in Nat /\ Len(t) \in Nat
      /\ DOMAIN s = 1 .. Len(s) /\ DOMAIN t = 1 .. Len(t)
      /\ DOMAIN (s \o t) = 1 .. Len(s) + Len(t)
      /\ \A k \in 1 .. Len(s) + Len(t) :
            (s \o t)[k] = IF k <= Len(s) THEN s[k] ELSE t[k - Len(s)]
  OBVIOUS
<1> DEFINE l == s \o t
<1>2. ASSUME NEW k \in DOMAIN l
      PROVE  \/ k \in DOMAIN s /\ l[k] = s[k]
             \/ k - Len(s) \in DOMAIN t /\ l[k] = t[k - Len(s)] /\ k \in Nat
  BY <1>1
<1> HIDE DEF l
<1>3. Has(l, S) => Has(s, S) \/ Has(t, S)  BY <1>2 DEF Has
<1>4. ASSUME OneOf(s, S), OneOf(t, S), ~(Has(s, S) /\ Has(t, S)) PROVE OneOf(l, S)
  <2> SUFFICES ASSUME NEW j \in DOMAIN l, NEW k \in DOMAIN l, l[j] \in S, l[k] \in S
               PROVE  j = k
    BY DEF OneOf
  <2>1. CASE j \in DOMAIN s /\ l[j] = s[j] /\ k \in DOMAIN s /\ l[k] = s[k]
    BY <1>4, <2>1 DEF OneOf
  <2>2. CASE /\ j - Len(s) \in DOMAIN t /\ l[j] = t[j - Len(s)] /\ j \in Nat
             /\ k - Len(s) \in DOMAIN t /\ l[k] = t[k - Len(s)] /\ k \in Nat
    <3>1. j - Len(s) = k - Len(s)  BY <1>4, <2>2 DEF OneOf
    <3> QED  BY <1>1, <2>2, <3>1
  <2>3. CASE /\ j \in DOMAIN s /\ l[j] = s[j]
             /\ k - Len(s) \in DOMAIN t /\ l[k] = t[k - Len(s)]
    BY <1>4, <2>3 DEF Has
  <2>4. CASE /\ k \in DOMAIN s /\ l[k] = s[k]
             /\ j - Len(s) \in DOMAIN t /\ l[j] = t[j - Len(s)]
    BY <1>4, <2>4 DEF Has
  <2> QED  BY <1>2, <2>1, <2>2, <2>3, <2>4
<1> QED  BY <1>3, <1>4 DEF l

LEMMA ShortHas ==
    ASSUME NEW T, NEW s \in Seq(T), Len(s) <= 1, NEW S
    PROVE  OneOf(s, S)
<1>1. \A k \in DOMAIN s : k = 1  OBVIOUS
<1> QED  BY <1>1 DEF OneOf

\* A sequence of frames that is short has no more than one copy of a datagram.
LEMMA CopiesAre ==
    ASSUME NEW frames \in Seq(Frames), Len(frames) <= 1, NEW x
    PROVE  /\ Copies(frames, x) \in 0 .. 1
           /\ ~Has(frames, FramesOf(x)) => Copies(frames, x) = 0
<1> DEFINE K == {k \in DOMAIN frames : frames[k].type = "IPv4" /\ frames[k].payload.id = x}
<1>1. Copies(frames, x) = Cardinality(K)  BY DEF Copies
<1>2. \A k \in DOMAIN frames : k = 1 /\ frames[k] \in Frames  OBVIOUS
<1>3. K = {} \/ K = {1}  BY <1>2
<1>4. Cardinality({}) = 0 /\ Cardinality({1}) = 1  BY FS_EmptySet, FS_Singleton
<1>5. ASSUME ~Has(frames, FramesOf(x)) PROVE K = {}
  <2> SUFFICES ASSUME NEW k \in K PROVE FALSE  OBVIOUS
  <2>1. frames[k] \in FramesOf(x)  BY <1>2 DEF FramesOf
  <2> QED  BY <1>5, <2>1 DEF Has
<1> HIDE DEF K
<1>6. CASE K = {}  BY <1>1, <1>4, <1>6
<1>7. CASE K = {1}
  <2>1. Copies(frames, x) = 1  BY <1>1, <1>4, <1>7
  <2> QED  BY <1>5, <1>7, <2>1
<1> QED  BY <1>3, <1>6, <1>7

-----------------------------------------------------------------------------
LEMMA SendPlaces ==
    ASSUME NEW i \in Interfaces, OneWaits(i), NEW d \in Datagrams, NEW hop \in IPAddresses
    PROVE  LET j == SendDatagram(i, d, hop)
               frames == SendTransmits(i, d, hop)
           IN  /\ OneWaits(j) /\ Len(frames) <= 1
               /\ \A x : Has(frames, FramesOf(x)) => x = d.id
               /\ \A a \in IPAddresses : \A x :
                     WaitsAt(j, a, x) =>
                         \/ WaitsAt(i, a, x)
                         \/ a = hop /\ x = d.id /\ ~Has(frames, FramesOf(x))
<1> DEFINE j == SendDatagram(i, d, hop)
           frames == SendTransmits(i, d, hop)
           new == [dgrams |-> <<d>>, age |-> 0]
<1>1. frames \in {<<Frame(i.arp_map[hop].ethernet, i.ethernet, "IPv4", d)>>,
                  <<ARPRequest(i, hop)>>, << >>}
  BY DEF SendTransmits
<1>2. Len(frames) <= 1
  <2>1. \A f : Len(<<f>>) <= 1  OBVIOUS
  <2>2. Len(<< >>) <= 1  OBVIOUS
  <2> HIDE DEF frames
  <2> QED  BY <1>1, <2>1, <2>2
<1>3. ASSUME NEW x, Has(frames, FramesOf(x)) PROVE x = d.id
  <2>1. PICK k \in DOMAIN frames : frames[k] \in FramesOf(x)  BY <1>3 DEF Has
  <2>2. frames[k] \in {Frame(i.arp_map[hop].ethernet, i.ethernet, "IPv4", d), ARPRequest(i, hop)}
    BY <1>1
  <2> HIDE DEF frames
  <2> QED  BY <2>1, <2>2 DEF FramesOf, Frame, ARPRequest
<1>4. CASE Asks(i, hop)
  <2>1. frames = <<ARPRequest(i, hop)>>  BY <1>4 DEF Asks, SendTransmits
  <2>2. j.wait_list = [i.wait_list EXCEPT ![hop] = new]
    BY <1>4 DEF SendDatagram, Interfaces
  <2>3. i.wait_list \in [IPAddresses -> Waiting \union {Absent}]  BY DEF Interfaces
  <2>4. Len(new.dgrams) = 1 /\ new.dgrams[1] = d  OBVIOUS
  <2>5. \A x : ~Has(frames, FramesOf(x))
    <3>1. \A k \in DOMAIN frames : frames[k].type = "ARP"
      BY <2>1 DEF ARPRequest, Frame
    <3> QED  BY <3>1 DEF Has, FramesOf
  <2> HIDE DEF frames, j, new
  <2>6. \A a \in IPAddresses : j.wait_list[a] = IF a = hop THEN new ELSE i.wait_list[a]
    BY <2>2, <2>3
  <2>7. OneWaits(j)  BY <2>4, <2>6 DEF OneWaits
  <2>8. ASSUME NEW a \in IPAddresses, NEW x, WaitsAt(j, a, x)
        PROVE  WaitsAt(i, a, x) \/ (a = hop /\ x = d.id)
    BY <2>4, <2>6, <2>8 DEF WaitsAt
  <2> QED  BY <1>2, <1>3, <2>5, <2>7, <2>8 DEF frames, j
<1>5. CASE ~Asks(i, hop)
  <2>1. j = i  BY <1>5 DEF SendDatagram
  <2> HIDE DEF frames, j
  <2> QED  BY <1>2, <1>3, <2>1 DEF frames, j
<1> QED  BY <1>4, <1>5

LEMMA RecvPlaces ==
    ASSUME NEW i \in Interfaces, OneWaits(i), NEW f \in Frames
    PROVE  LET j == RecvFrame(i, f)
               frames == RecvTransmits(i, f)
           IN  /\ OneWaits(j) /\ Len(frames) <= 1
               /\ \A a \in IPAddresses : \A x : WaitsAt(j, a, x) => WaitsAt(i, a, x)
               /\ \A x : Has(frames, FramesOf(x)) =>
                     /\ f.type = "ARP"
                     /\ \E a \in IPAddresses : WaitsAt(i, a, x) /\ ~WaitsAt(j, a, x)
               /\ \/ j.datagrams_received = i.datagrams_received
                  \/ /\ f.type = "IPv4" /\ f.payload \in Datagrams
                     /\ j.datagrams_received = i.datagrams_received \o <<f.payload>>
<1> DEFINE j == RecvFrame(i, f)
           frames == RecvTransmits(i, f)
           m == f.payload
<1>1. i.wait_list \in [IPAddresses -> Waiting \union {Absent}]
      /\ i.datagrams_received \in Seq(Datagrams)
  BY DEF Interfaces
<1>2. CASE ~(IsForUs(i, f) /\ f.type = "ARP")
  <2>1. frames = << >>  BY <1>2 DEF RecvTransmits
  <2>2. j.wait_list = i.wait_list  BY <1>2 DEF RecvFrame, Interfaces
  <2>3. \/ j.datagrams_received = i.datagrams_received
        \/ /\ f.type = "IPv4" /\ f.payload \in Datagrams
           /\ j.datagrams_received = i.datagrams_received \o <<f.payload>>
    <3>1. f.type = "IPv4" => f.payload \in Datagrams  BY FrameType
    <3>2. CASE IsForUs(i, f) /\ Intact(f.payload)
      <4>1. j = [i EXCEPT !.datagrams_received = Append(i.datagrams_received, f.payload)]
        BY <1>2, <3>2 DEF RecvFrame
      <4>2. j.datagrams_received = Append(i.datagrams_received, f.payload)
        BY <4>1 DEF Interfaces
      <4>3. f.type = "IPv4"  BY <1>2, <3>2, FrameType
      <4>4. Append(i.datagrams_received, f.payload) = i.datagrams_received \o <<f.payload>>
        BY <1>1, <3>1, <4>3
      <4> HIDE DEF j
      <4> QED  BY <3>1, <4>2, <4>3, <4>4
    <3>3. CASE ~(IsForUs(i, f) /\ Intact(f.payload))
      BY <1>2, <3>3 DEF RecvFrame
    <3> QED  BY <3>2, <3>3
  <2>4. \A x : ~Has(frames, FramesOf(x))  BY <2>1 DEF Has
  <2>5. Len(frames) <= 1  BY <2>1
  <2> HIDE DEF frames, j
  <2> QED  BY <2>2, <2>3, <2>4, <2>5 DEF OneWaits, WaitsAt, frames, j
<1>3. CASE IsForUs(i, f) /\ f.type = "ARP"
  <2>1. j.wait_list = Released(i, m) /\ j.datagrams_received = i.datagrams_received
    BY <1>3 DEF RecvFrame, Interfaces
  <2>2. m.sender_ip \in IPAddresses  BY <1>3, FrameType
  <2>3. CASE AsksUs(i, m)
    <3>1. j.wait_list = i.wait_list  BY <2>1, <2>3 DEF Released
    <3>2. frames = <<ARPReply(i, m)>>  BY <1>3, <2>3 DEF RecvTransmits
    <3>3. \A x : ~Has(frames, FramesOf(x))
      <4>1. \A k \in DOMAIN frames : frames[k].type = "ARP"
        BY <3>2 DEF ARPReply, Frame
      <4> QED  BY <4>1 DEF Has, FramesOf
    <3>4. Len(frames) <= 1  BY <3>2
    <3> HIDE DEF frames, j, m
    <3> QED  BY <2>1, <3>1, <3>3, <3>4 DEF OneWaits, WaitsAt, frames, j
  <2>4. CASE ~AsksUs(i, m)
    <3> DEFINE w == i.wait_list[m.sender_ip]
    <3>1. j.wait_list = [i.wait_list EXCEPT ![m.sender_ip] = Absent]
      BY <2>1, <2>4 DEF Released
    <3>2. frames = IF w = Absent THEN << >>
                   ELSE [n \in DOMAIN w.dgrams |->
                            Frame(m.sender_ethernet, i.ethernet, "IPv4", w.dgrams[n])]
      BY <1>3, <2>4 DEF RecvTransmits
    <3>3. ASSUME w # Absent
          PROVE  /\ Len(w.dgrams) = 1 /\ DOMAIN w.dgrams = {1}
                 /\ frames = [n \in 1 .. 1 |->
                                 Frame(m.sender_ethernet, i.ethernet, "IPv4", w.dgrams[n])]
      <4>1. w \in Waiting  BY <1>1, <2>2, <3>3
      <4>2. w.dgrams \in Seq(Datagrams)  BY <4>1 DEF Waiting
      <4>3. Len(w.dgrams) = 1  BY <2>2, <3>3 DEF OneWaits
      <4>4. DOMAIN w.dgrams = 1 .. 1 /\ 1 .. 1 = {1}
        <5> DEFINE l == w.dgrams
        <5>1. l \in Seq(Datagrams) /\ Len(l) = 1  BY <4>2, <4>3
        <5> HIDE DEF l
        <5>2. DOMAIN l = 1 .. 1 /\ 1 .. 1 = {1}  BY <5>1
        <5> QED  BY <5>2 DEF l
      <4> HIDE DEF w, m, frames
      <4> QED  BY <3>2, <3>3, <4>3, <4>4
    <3>4. Len(frames) <= 1
      <4>1. CASE w = Absent
        <5>1. frames = << >>  BY <3>2, <4>1
        <5> HIDE DEF frames
        <5> QED  BY <5>1
      <4>2. CASE w # Absent
        <5> DEFINE g == [n \in 1 .. 1 |->
                           Frame(m.sender_ethernet, i.ethernet, "IPv4", w.dgrams[n])]
        <5>1. frames = g  BY <3>3, <4>2
        <5>2. Len(g) = 1
          <6> HIDE DEF w, m, frames
          <6> QED  OBVIOUS
        <5> HIDE DEF frames, g
        <5> QED  BY <5>1, <5>2
      <4> QED  BY <4>1, <4>2
    <3>5. ASSUME NEW x, Has(frames, FramesOf(x))
          PROVE  w # Absent /\ w.dgrams[1].id = x
      <4>1. PICK k \in DOMAIN frames : frames[k] \in FramesOf(x)  BY <3>5 DEF Has
      <4>2. w # Absent
        <5> SUFFICES ASSUME w = Absent PROVE FALSE  OBVIOUS
        <5>1. frames = << >>  BY <3>2
        <5>2. DOMAIN << >> = {}  OBVIOUS
        <5> HIDE DEF frames, w
        <5> QED  BY <4>1, <5>1, <5>2
      <4>3. k = 1 /\ frames[k] = Frame(m.sender_ethernet, i.ethernet, "IPv4", w.dgrams[1])
        <5> DEFINE g == [n \in 1 .. 1 |->
                           Frame(m.sender_ethernet, i.ethernet, "IPv4", w.dgrams[n])]
        <5>1. frames = g  BY <3>3, <4>2
        <5>2. DOMAIN g = {1} /\ g[1] = Frame(m.sender_ethernet, i.ethernet, "IPv4", w.dgrams[1])
          <6> HIDE DEF w, m, frames
          <6> QED  OBVIOUS
        <5> HIDE DEF frames, g, w, m
        <5> QED  BY <4>1, <5>1, <5>2
      <4> HIDE DEF frames, w, m
      <4>4. frames[k].payload = w.dgrams[1]  BY <4>3 DEF Frame
      <4> QED  BY <4>1, <4>2, <4>4 DEF FramesOf
    <3> HIDE DEF frames, j, m
    <3>6. \A a \in IPAddresses :
             j.wait_list[a] = IF a = m.sender_ip THEN Absent ELSE i.wait_list[a]
      BY <1>1, <3>1
    <3>7. OneWaits(j)  BY <3>6 DEF OneWaits
    <3>8. \A a \in IPAddresses : \A x : WaitsAt(j, a, x) => WaitsAt(i, a, x)
      BY <3>6 DEF WaitsAt
    <3>9. ASSUME NEW x, Has(frames, FramesOf(x))
          PROVE  \E a \in IPAddresses : WaitsAt(i, a, x) /\ ~WaitsAt(j, a, x)
      BY <2>2, <3>5, <3>6, <3>9 DEF WaitsAt
    <3> QED  BY <1>3, <2>1, <3>4, <3>7, <3>8, <3>9 DEF frames, j
  <2> QED  BY <2>3, <2>4
<1> QED  BY <1>2, <1>3

LEMMA TickPlaces ==
    ASSUME NEW i \in Interfaces, OneWaits(i), NEW t \in Nat
    PROVE  /\ OneWaits(Tick(i, t))
           /\ \A a \in IPAddresses : \A x : WaitsAt(Tick(i, t), a, x) => WaitsAt(i, a, x)
<1> DEFINE j == Tick(i, t)
<1>1. j.wait_list = [a \in IPAddresses |-> Aged(i.wait_list[a], t, ARP_RETX_PERIOD)]
  BY DEF Tick, Interfaces
<1> HIDE DEF j
<1>2. ASSUME NEW a \in IPAddresses, j.wait_list[a] # Absent
      PROVE  /\ i.wait_list[a] # Absent
             /\ j.wait_list[a].dgrams = i.wait_list[a].dgrams
  <2> DEFINE w == i.wait_list[a]
  <2>1. j.wait_list[a] = Aged(w, t, ARP_RETX_PERIOD)  BY <1>1
  <2>2. w \in Waiting \union {Absent}  BY DEF Interfaces
  <2> HIDE DEF w
  <2>3. w # Absent /\ j.wait_list[a] = [w EXCEPT !.age = @ + t]
    BY <1>2, <2>1 DEF Aged
  <2>4. j.wait_list[a].dgrams = w.dgrams  BY <2>2, <2>3 DEF Waiting
  <2> QED  BY <2>3, <2>4 DEF w
<1>3. OneWaits(j)  BY <1>2 DEF OneWaits
<1>4. \A a \in IPAddresses : \A x : WaitsAt(j, a, x) => WaitsAt(i, a, x)
  BY <1>2 DEF WaitsAt
<1> QED  BY <1>3, <1>4 DEF j

-----------------------------------------------------------------------------
\* The router has one port on a segment.
PortsApart == \A p, q \in PortNames : Segment[p] = Segment[q] => p = q

\* Where a datagram may be only becomes less.
LEMMA OnceShrinks ==
    ASSUME NEW x \in Ids, Once(x),
           \A kind \in Kinds, n \in Names, a \in IPAddresses :
               At(kind, n, a, x)' => At(kind, n, a, x),
           OneEach(x)', origin'[x] = origin[x],
           \A n \in Names : sent'[n][x] = sent[n][x]
    PROVE  Once(x)'
<1>1. Alone(x)'  BY DEF Once, Alone
<1>2. NotYetSent(x)'
  <2> SUFFICES ASSUME NEW kind \in Kinds, NEW n \in Names, NEW a \in IPAddresses,
                      At(kind, n, a, x)'
               PROVE  /\ origin'[x] # Absent
                      /\ \A p \in PortNames : sent'[p][x] = 0
                      /\ kind = "waits" /\ n \notin PortNames =>
                             \A m \in Names : sent'[m][x] = 0
    BY DEF NotYetSent, PortNames
  <2>1. At(kind, n, a, x)  OBVIOUS
  <2> QED  BY <2>1, PortsAreNoHosts DEF Once, NotYetSent
<1> QED  BY <1>1, <1>2 DEF Once

\* All that transmits a datagram for an interface leaves it in one place.
LEMMA OnceMoves ==
    ASSUME NEW x \in Ids, OneEach(x)', origin'[x] # Absent,
           \A k1, k2 \in Kinds, n1, n2 \in Names, a1, a2 \in IPAddresses :
               At(k1, n1, a1, x)' /\ At(k2, n2, a2, x)' => k1 = k2 /\ n1 = n2 /\ a1 = a2,
           \A kind \in Kinds, n \in Names, a \in IPAddresses :
               At(kind, n, a, x)' =>
                   /\ \A p \in PortNames : sent'[p][x] = 0
                   /\ kind = "waits" /\ n \notin PortNames => \A m \in Names : sent'[m][x] = 0,
           \A n \in Names : sent'[n][x] <= 1
    PROVE  Once(x)'
<1>1. Alone(x)'  BY DEF Alone
<1>2. NotYetSent(x)'  BY DEF NotYetSent, PortNames
<1> QED  BY <1>1, <1>2 DEF Once

\* What is on its way to m, when n transmits.
LEMMA PassedOn ==
    ASSUME NEW boxes \in [Names -> Seq(Frames)], NEW n \in Names, NEW frames \in Seq(Frames),
           Len(frames) <= 1, NEW m \in Names, NEW S
    PROVE  /\ Has(Carried(boxes, n, frames)[m], S) =>
                  Has(boxes[m], S) \/ (Neighbours(m, n) /\ Has(frames, S))
           /\ OneOf(boxes[m], S) /\ ~(Has(boxes[m], S) /\ Has(frames, S)) =>
                  OneOf(Carried(boxes, n, frames)[m], S)
           /\ m = n => Carried(boxes, n, frames)[m] = boxes[m]
<1> DEFINE s == boxes[m]
           c == Carried(boxes, n, frames)[m]
<1>1. s \in Seq(Frames)  OBVIOUS
<1>2. c = IF Neighbours(m, n) THEN s \o frames ELSE s
  BY DEF Carried, Neighbours
<1> HIDE DEF s, c
<1>3. OneOf(frames, S)  BY ShortHas
<1>4. /\ Has(s \o frames, S) => Has(s, S) \/ Has(frames, S)
      /\ OneOf(s, S) /\ OneOf(frames, S) /\ ~(Has(s, S) /\ Has(frames, S))
            => OneOf(s \o frames, S)
  BY <1>1, JoinHas
<1>5. CASE Neighbours(m, n)
  <2>1. m # n  BY <1>5 DEF Neighbours
  <2> QED  BY <1>2, <1>3, <1>4, <1>5, <2>1 DEF s, c
<1>6. CASE ~Neighbours(m, n)
  BY <1>2, <1>6 DEF s, c
<1> QED  BY <1>5, <1>6

\* A datagram that is among the frames is counted for who transmits them.
LEMMA SentIs ==
    ASSUME TypeInv, NEW n \in Names, NEW frames \in Seq(Frames), Len(frames) <= 1,
           Noted(n, frames), NEW x \in Ids
    PROVE  /\ \A m \in Names : m # n => sent'[m][x] = sent[m][x]
           /\ ~Has(frames, FramesOf(x)) => sent'[n][x] = sent[n][x]
           /\ sent[n][x] = 0 => sent'[n][x] <= 1
<1> DEFINE c == Copies(frames, x)
<1>1. c \in 0 .. 1 /\ (~Has(frames, FramesOf(x)) => c = 0)  BY CopiesAre
<1>2. sent'[n][x] = sent[n][x] + c /\ \A m \in Names : m # n => sent'[m][x] = sent[m][x]
  <2>1. sent' = [sent EXCEPT ![n] = [id \in Ids |-> sent[n][id] + Copies(frames, id)]]
    BY DEF Noted
  <2> QED  BY <2>1 DEF TypeInv
<1>3. sent[n][x] \in Nat  BY DEF TypeInv
<1> HIDE DEF c
<1> QED  BY <1>1, <1>2, <1>3

LEMMA HostSendOnce ==
    ASSUME OnceInv, PortsApart, NEW message \in Traffic, NEW hop \in IPAddresses,
           HostSend(message.from, message.datagram, hop)
    PROVE  /\ \A m \in Names : OneWaits(iface'[m])
           /\ \A x \in Ids : Once(x)'
<1> DEFINE n == message.from
           d == message.datagram
           j == SendDatagram(iface[n], d, hop)
           frames == SendTransmits(iface[n], d, hop)
<1>1. n \in Names /\ n \notin PortNames /\ d \in Datagrams /\ d.id \in Ids
  BY TopologyAssumption, PortsAreNoHosts DEF Datagrams
<1>2. /\ iface' = [iface EXCEPT ![n] = j] /\ inbox' = Carried(inbox, n, frames)
      /\ Noted(n, frames) /\ origin[d.id] = Absent /\ origin' = [origin EXCEPT ![d.id] = d]
  BY DEF HostSend
<1>3. /\ TypeInv /\ OneWaits(iface[n]) /\ iface[n] \in Interfaces
      /\ iface \in [Names -> Interfaces] /\ inbox \in [Names -> Seq(Frames)]
      /\ \A m \in Names : OneWaits(iface[m])
      /\ origin \in [Ids -> Datagrams \union {Absent}]
  BY <1>1 DEF OnceInv, TypeInv
<1>4. /\ OneWaits(j) /\ Len(frames) <= 1
      /\ \A x : Has(frames, FramesOf(x)) => x = d.id
      /\ \A a \in IPAddresses : \A x :
            WaitsAt(j, a, x) => \/ WaitsAt(iface[n], a, x)
                                \/ a = hop /\ x = d.id /\ ~Has(frames, FramesOf(x))
  BY <1>1, <1>3, SendPlaces
<1>5. frames \in Seq(Frames) /\ j.datagrams_received = iface[n].datagrams_received
  BY <1>1, <1>3, SendType
<1>6. d # Absent  BY <1>1, AbsentAssumption
<1> HIDE DEF n, d, j, frames
<1>7. ASSUME NEW m \in Names
      PROVE  /\ iface'[m] = IF m = n THEN j ELSE iface[m]
             /\ iface'[m].datagrams_received = iface[m].datagrams_received
  BY <1>1, <1>2, <1>3, <1>5
<1>8. \A m \in Names : OneWaits(iface'[m])  BY <1>3, <1>4, <1>7
<1>9. ASSUME NEW m \in Names, NEW x
      PROVE  /\ Has(inbox'[m], FramesOf(x)) =>
                    Has(inbox[m], FramesOf(x)) \/ (Neighbours(m, n) /\ Has(frames, FramesOf(x)))
             /\ OneOf(inbox[m], FramesOf(x))
                /\ ~(Has(inbox[m], FramesOf(x)) /\ Has(frames, FramesOf(x)))
                    => OneOf(inbox'[m], FramesOf(x))
  BY <1>1, <1>2, <1>3, <1>4, <1>5, PassedOn
<1>10. ASSUME NEW x \in Ids
       PROVE  /\ \A m \in Names : m # n => sent'[m][x] = sent[m][x]
              /\ ~Has(frames, FramesOf(x)) => sent'[n][x] = sent[n][x]
              /\ sent[n][x] = 0 => sent'[n][x] <= 1
  BY <1>1, <1>2, <1>3, <1>4, <1>5, SentIs
<1>11. ASSUME NEW x \in Ids, x # d.id PROVE Once(x)'
  <2>1. ~Has(frames, FramesOf(x))  BY <1>4, <1>11
  <2>2. Once(x)  BY DEF OnceInv
  <2>3. ASSUME NEW kind \in Kinds, NEW m \in Names, NEW a \in IPAddresses, At(kind, m, a, x)'
        PROVE  At(kind, m, a, x)
    <3>1. CASE kind = "waits"
      <4>1. WaitsAt(iface'[m], a, x)  BY <2>3, <3>1 DEF At, WaitsAt
      <4>2. WaitsAt(iface[m], a, x)
        <5>1. CASE m = n
          <6>1. WaitsAt(j, a, x)  BY <1>7, <4>1, <5>1
          <6> QED  BY <1>4, <1>11, <5>1, <6>1
        <5>2. CASE m # n  BY <1>7, <4>1, <5>2
        <5> QED  BY <5>1, <5>2
      <4> QED  BY <3>1, <4>2 DEF At
    <3>2. CASE kind = "comes"
      <4>1. m \in PortNames /\ a = IP[m] /\ Has(inbox'[m], FramesOf(x))
        BY <2>3, <3>2 DEF At, PortNames, FramesOf
      <4>2. Has(inbox[m], FramesOf(x))  BY <1>9, <2>1, <4>1
      <4> QED  BY <3>2, <4>1, <4>2 DEF At
    <3>3. CASE kind = "received"
      <4>1. /\ m \in PortNames /\ a = IP[m]
            /\ Has(iface'[m].datagrams_received, Versions(x))
        BY <2>3, <3>3 DEF At, PortNames, Versions
      <4>2. Has(iface[m].datagrams_received, Versions(x))  BY <1>7, <4>1
      <4> QED  BY <3>3, <4>1, <4>2 DEF At
    <3> QED  BY <3>1, <3>2, <3>3 DEF Kinds
  <2>4. OneEach(x)'
    BY <1>7, <1>9, <2>1, <2>2, PortsAreNoHosts DEF OneEach, Once, PortNames
  <2>5. origin'[x] = origin[x]  BY <1>2, <1>3, <1>11
  <2>6. \A m \in Names : sent'[m][x] = sent[m][x]  BY <1>10, <2>1
  <2> QED  BY <2>2, <2>3, <2>4, <2>5, <2>6, OnceShrinks
<1>12. Once(d.id)'
  <2> DEFINE x == d.id
  <2>1. x \in Ids /\ Once(x) /\ origin[x] = Absent  BY <1>1, <1>2 DEF OnceInv
  <2> HIDE DEF x
  <2>2. \A kind \in Kinds, m \in Names, a \in IPAddresses : ~At(kind, m, a, x)
    BY <2>1 DEF Once, NotYetSent
  <2>3. \A m \in Names : sent[m][x] = 0  BY <2>1 DEF Once
  <2>4. \A p \in PortNames : /\ ~Has(inbox[p], FramesOf(x)) /\ IP[p] \in IPAddresses
                             /\ p \in Names
                             /\ ~Has(iface[p].datagrams_received, Versions(x))
    BY <2>2, PortsAreNoHosts, TopologyAssumption DEF At, Kinds
  <2>5. \A m \in Names, a \in IPAddresses : ~WaitsAt(iface[m], a, x)
    BY <2>2 DEF At, Kinds
  <2>6. OneEach(x)'
    BY <1>7, <1>9, <2>1, <2>4 DEF OneEach, Once, PortNames
  <2>7. origin'[x] # Absent  BY <1>1, <1>2, <1>3, <1>6 DEF x
  <2>8. ASSUME NEW kind \in Kinds, NEW m \in Names, NEW a \in IPAddresses, At(kind, m, a, x)'
        PROVE  \/ kind = "waits" /\ m = n /\ a = hop /\ ~Has(frames, FramesOf(x))
               \/ /\ kind = "comes" /\ m \in PortNames /\ a = IP[m]
                  /\ Segment[m] = Segment[n] /\ Has(frames, FramesOf(x))
    <3>1. CASE kind = "waits"
      <4>1. WaitsAt(iface'[m], a, x)  BY <2>8, <3>1 DEF At, WaitsAt
      <4>2. m = n /\ WaitsAt(j, a, x)  BY <1>7, <2>5, <4>1
      <4> QED  BY <1>1, <1>4, <2>5, <3>1, <4>2
    <3>2. CASE kind = "comes"
      <4>1. m \in PortNames /\ a = IP[m] /\ Has(inbox'[m], FramesOf(x))
        BY <2>8, <3>2 DEF At, PortNames, FramesOf
      <4>2. Neighbours(m, n) /\ Has(frames, FramesOf(x))  BY <1>9, <2>4, <4>1
      <4> QED  BY <3>2, <4>1, <4>2 DEF Neighbours
    <3>3. CASE kind = "received"
      <4>1. m \in PortNames /\ Has(iface'[m].datagrams_received, Versions(x))
        BY <2>8, <3>3 DEF At, PortNames, Versions
      <4> QED  BY <1>7, <2>4, <4>1
    <3> QED  BY <3>1, <3>2, <3>3 DEF Kinds
  <2>9. \A p \in PortNames : sent'[p][x] = 0
    BY <1>1, <1>10, <2>1, <2>3, <2>4
  <2>10. ~Has(frames, FramesOf(x)) => \A m \in Names : sent'[m][x] = 0
    BY <1>10, <2>1, <2>3
  <2>11. \A m \in Names : sent'[m][x] <= 1
    BY <1>1, <1>10, <2>1, <2>3
  <2>12. ASSUME NEW k1 \in Kinds, NEW k2 \in Kinds, NEW n1 \in Names, NEW n2 \in Names,
                NEW a1 \in IPAddresses, NEW a2 \in IPAddresses,
                At(k1, n1, a1, x)', At(k2, n2, a2, x)'
         PROVE  k1 = k2 /\ n1 = n2 /\ a1 = a2
    BY <2>8, <2>12 DEF PortsApart
  <2>13. ASSUME NEW kind \in Kinds, NEW m \in Names, NEW a \in IPAddresses, At(kind, m, a, x)'
         PROVE  kind = "waits" /\ m \notin PortNames => \A q \in Names : sent'[q][x] = 0
    BY <2>8, <2>10, <2>13
  <2>14. Once(x)'
    BY <2>1, <2>6, <2>7, <2>9, <2>11, <2>12, <2>13, OnceMoves
  <2> QED  BY <2>14 DEF x
<1> QED  BY <1>8, <1>11, <1>12

\* At(...)' by its kinds.
LEMMA AtNow ==
    ASSUME NEW kind \in Kinds, NEW m, NEW a, NEW x, At(kind, m, a, x)'
    PROVE  \/ kind = "waits" /\ WaitsAt(iface'[m], a, x)
           \/ /\ kind = "comes" /\ m \in PortNames /\ a = IP[m]
              /\ Has(inbox'[m], FramesOf(x))
           \/ /\ kind = "received" /\ m \in PortNames /\ a = IP[m]
              /\ Has(iface'[m].datagrams_received, Versions(x))
BY DEF At, PortNames, WaitsAt, FramesOf, Versions

LEMMA DeliverOnce ==
    ASSUME OnceInv, PortsApart, NEW n \in Names, Deliver(n)
    PROVE  /\ \A m \in Names : OneWaits(iface'[m])
           /\ \A x \in Ids : Once(x)'
<1> DEFINE f == Head(inbox[n])
           j == RecvFrame(iface[n], f)
           frames == RecvTransmits(iface[n], f)
           taken == [inbox EXCEPT ![n] = Tail(@)]
<1>1. /\ TypeInv /\ OneWaits(iface[n]) /\ iface[n] \in Interfaces
      /\ iface \in [Names -> Interfaces] /\ inbox \in [Names -> Seq(Frames)]
      /\ \A m \in Names : OneWaits(iface[m])
  BY DEF OnceInv, TypeInv
<1>2. /\ inbox[n] \in Seq(Frames) /\ inbox[n] # << >>
      /\ iface' = [iface EXCEPT ![n] = j] /\ inbox' = Carried(taken, n, frames)
      /\ Noted(n, frames) /\ origin' = origin
  BY <1>1 DEF Deliver
<1>3. f \in Frames /\ Tail(inbox[n]) \in Seq(Frames)  BY <1>2
<1>4. /\ OneWaits(j) /\ Len(frames) <= 1
      /\ \A a \in IPAddresses : \A x : WaitsAt(j, a, x) => WaitsAt(iface[n], a, x)
      /\ \A x : Has(frames, FramesOf(x)) =>
            /\ f.type = "ARP"
            /\ \E a \in IPAddresses : WaitsAt(iface[n], a, x) /\ ~WaitsAt(j, a, x)
      /\ \/ j.datagrams_received = iface[n].datagrams_received
         \/ /\ f.type = "IPv4" /\ f.payload \in Datagrams
            /\ j.datagrams_received = iface[n].datagrams_received \o <<f.payload>>
  BY <1>1, <1>3, RecvPlaces
<1>5. frames \in Seq(Frames)  BY <1>1, <1>3, RecvType
<1>6. /\ taken \in [Names -> Seq(Frames)]
      /\ \A m \in Names : taken[m] = IF m = n THEN Tail(inbox[n]) ELSE inbox[m]
  BY <1>1, <1>3
<1>7. ASSUME NEW x
      PROVE  /\ Has(Tail(inbox[n]), FramesOf(x)) => Has(inbox[n], FramesOf(x))
             /\ OneOf(inbox[n], FramesOf(x)) => OneOf(Tail(inbox[n]), FramesOf(x))
             /\ OneOf(inbox[n], FramesOf(x)) /\ f \in FramesOf(x) =>
                   ~Has(Tail(inbox[n]), FramesOf(x))
             /\ f \in FramesOf(x) => Has(inbox[n], FramesOf(x))
  BY <1>2, TailHas
<1> HIDE DEF f, j, frames, taken
<1>8. ASSUME NEW m \in Names PROVE iface'[m] = IF m = n THEN j ELSE iface[m]
  BY <1>1, <1>2
<1>9. \A m \in Names : OneWaits(iface'[m])  BY <1>1, <1>4, <1>8
<1>10. ASSUME NEW m \in Names, NEW x
       PROVE  /\ Has(inbox'[m], FramesOf(x)) =>
                     \/ Has(inbox[m], FramesOf(x))
                     \/ Neighbours(m, n) /\ Has(frames, FramesOf(x))
              /\ OneOf(inbox[m], FramesOf(x))
                 /\ ~(Has(inbox[m], FramesOf(x)) /\ Has(frames, FramesOf(x)))
                     => OneOf(inbox'[m], FramesOf(x))
              /\ m = n => inbox'[m] = Tail(inbox[n])
  <2> DEFINE S == FramesOf(x)
  <2> HIDE DEF S
  <2>1. /\ Has(Carried(taken, n, frames)[m], S) =>
               Has(taken[m], S) \/ (Neighbours(m, n) /\ Has(frames, S))
        /\ OneOf(taken[m], S) /\ ~(Has(taken[m], S) /\ Has(frames, S)) =>
               OneOf(Carried(taken, n, frames)[m], S)
        /\ m = n => Carried(taken, n, frames)[m] = taken[m]
    <3>1. Len(frames) <= 1 /\ taken \in [Names -> Seq(Frames)]  BY <1>4, <1>6
    <3>2. Has(Carried(taken, n, frames)[m], S) =>
              Has(taken[m], S) \/ (Neighbours(m, n) /\ Has(frames, S))
      BY <1>5, <3>1, PassedOn
    <3>3. OneOf(taken[m], S) /\ ~(Has(taken[m], S) /\ Has(frames, S)) =>
              OneOf(Carried(taken, n, frames)[m], S)
      BY <1>5, <3>1, PassedOn
    <3>4. m = n => Carried(taken, n, frames)[m] = taken[m]
      BY DEF Carried
    <3> QED  BY <3>2, <3>3, <3>4
  <2>2. /\ Has(taken[m], S) => Has(inbox[m], S)
        /\ OneOf(inbox[m], S) => OneOf(taken[m], S)
    BY <1>6, <1>7 DEF S
  <2>3. inbox'[m] = Carried(taken, n, frames)[m]  BY <1>2
  <2>4. m = n => taken[m] = Tail(inbox[n])  BY <1>6
  <2> QED  BY <2>1, <2>2, <2>3, <2>4 DEF S
<1>11. ASSUME NEW x \in Ids
       PROVE  /\ \A m \in Names : m # n => sent'[m][x] = sent[m][x]
              /\ ~Has(frames, FramesOf(x)) => sent'[n][x] = sent[n][x]
              /\ sent[n][x] = 0 => sent'[n][x] <= 1
  BY <1>1, <1>2, <1>4, <1>5, SentIs
<1>12. ASSUME NEW x \in Ids, ~Has(frames, FramesOf(x)) PROVE Once(x)'
  <2>1. Once(x)  BY DEF OnceInv
  <2>2. origin'[x] = origin[x] /\ \A m \in Names : sent'[m][x] = sent[m][x]
    BY <1>2, <1>11, <1>12
  <2>3. \A m \in Names : /\ Has(inbox'[m], FramesOf(x)) => Has(inbox[m], FramesOf(x))
                         /\ OneOf(inbox[m], FramesOf(x)) => OneOf(inbox'[m], FramesOf(x))
    BY <1>10, <1>12
  <2>4. ASSUME NEW m \in Names, NEW a \in IPAddresses, WaitsAt(iface'[m], a, x)
        PROVE  At("waits", m, a, x)
    <3>1. CASE m = n
      <4>1. WaitsAt(j, a, x)  BY <1>8, <2>4, <3>1
      <4> QED  BY <1>4, <3>1, <4>1 DEF At
    <3>2. CASE m # n  BY <1>8, <2>4, <3>2 DEF At
    <3> QED  BY <3>1, <3>2
  <2>5. CASE /\ n \in PortNames /\ f \in FramesOf(x)
             /\ j.datagrams_received = iface[n].datagrams_received \o <<f.payload>>
    <3>1. At("comes", n, IP[n], x) /\ IP[n] \in IPAddresses
      BY <1>7, <2>5, TopologyAssumption DEF At
    <3>2. \A kind \in Kinds, m \in Names, a \in IPAddresses :
             At(kind, m, a, x) => kind = "comes" /\ m = n /\ a = IP[n]
      BY <2>1, <3>1 DEF Once, Alone, Kinds
    <3>3. /\ origin[x] # Absent /\ \A p \in PortNames : sent[p][x] = 0
      BY <2>1, <3>1 DEF Once, NotYetSent, Kinds
    <3>4. ASSUME NEW kind \in Kinds, NEW m \in Names, NEW a \in IPAddresses, At(kind, m, a, x)'
          PROVE  kind = "received" /\ m = n /\ a = IP[n]
      <4>1. CASE kind = "waits" /\ WaitsAt(iface'[m], a, x)
        BY <2>4, <3>2, <4>1 DEF Kinds
      <4>2. CASE kind = "comes" /\ m \in PortNames /\ a = IP[m] /\ Has(inbox'[m], FramesOf(x))
        <5>1. At("comes", m, a, x)  BY <2>3, <4>2 DEF At
        <5>2. m = n  BY <3>2, <5>1 DEF Kinds
        <5>3. OneOf(inbox[n], FramesOf(x))  BY <2>1, <2>5 DEF Once, OneEach
        <5>4. inbox'[n] = Tail(inbox[n])  BY <1>10
        <5> QED  BY <1>7, <2>5, <4>2, <5>2, <5>3, <5>4
      <4>3. CASE /\ kind = "received" /\ m \in PortNames /\ a = IP[m]
                 /\ Has(iface'[m].datagrams_received, Versions(x))
        <5>1. CASE m = n  BY <4>3, <5>1
        <5>2. CASE m # n
          <6>1. At("received", m, a, x)  BY <1>8, <4>3, <5>2 DEF At
          <6> QED  BY <3>2, <6>1 DEF Kinds
        <5> QED  BY <5>1, <5>2
      <4> QED  BY <3>4, <4>1, <4>2, <4>3, AtNow
    <3>5. OneEach(x)'
      <4> SUFFICES ASSUME NEW p \in PortNames
                   PROVE  /\ OneOf(inbox'[p], FramesOf(x))
                          /\ OneOf(iface'[p].datagrams_received, Versions(x))
        BY DEF OneEach, PortNames, FramesOf, Versions
      <4>1. p \in Names /\ IP[p] \in IPAddresses  BY PortsAreNoHosts, TopologyAssumption
      <4>2. OneOf(inbox[p], FramesOf(x)) /\ OneOf(iface[p].datagrams_received, Versions(x))
        BY <2>1 DEF Once, OneEach
      <4>3. ~At("received", p, IP[p], x)  BY <3>2, <4>1 DEF Kinds
      <4>4. ~Has(iface[p].datagrams_received, Versions(x))  BY <4>3 DEF At
      <4>5. OneOf(iface[n].datagrams_received \o <<f.payload>>, Versions(x)) \/ p # n
        <5> SUFFICES ASSUME p = n
                     PROVE  OneOf(iface[n].datagrams_received \o <<f.payload>>, Versions(x))
          OBVIOUS
        <5> DEFINE s == iface[n].datagrams_received
                   t == <<f.payload>>
                   S == Versions(x)
        <5>1. s \in Seq(Datagrams)  BY <1>1 DEF Interfaces
        <5>2. t \in Seq(Datagrams) /\ Len(t) <= 1
          <6>1. f.type = "IPv4"  BY <2>5 DEF FramesOf
          <6>2. f.payload \in Datagrams  BY <1>3, <6>1, FrameType
          <6> QED  BY <6>2
        <5>3. OneOf(s, S) /\ ~Has(s, S)  BY <4>2, <4>4
        <5> HIDE DEF s, t, S
        <5>4. OneOf(t, S)  BY <5>2, ShortHas
        <5>5. OneOf(s \o t, S)  BY <5>1, <5>2, <5>3, <5>4, JoinHas
        <5> QED  BY <5>5 DEF s, t, S
      <4> QED  BY <1>8, <2>3, <2>5, <4>1, <4>2, <4>5
    <3>6. \A p \in PortNames : sent'[p][x] = 0
      BY <2>2, <3>3, PortsAreNoHosts
    <3>7. \A m \in Names : sent'[m][x] <= 1  BY <2>1, <2>2 DEF Once
    <3>8. origin'[x] # Absent  BY <2>2, <3>3
    <3>9. ASSUME NEW k1 \in Kinds, NEW k2 \in Kinds, NEW n1 \in Names, NEW n2 \in Names,
                 NEW a1 \in IPAddresses, NEW a2 \in IPAddresses,
                 At(k1, n1, a1, x)', At(k2, n2, a2, x)'
          PROVE  k1 = k2 /\ n1 = n2 /\ a1 = a2
      BY <3>4, <3>9
    <3>10. ASSUME NEW kind \in Kinds, NEW m \in Names, NEW a \in IPAddresses, At(kind, m, a, x)'
           PROVE  kind = "waits" /\ m \notin PortNames => \A q \in Names : sent'[q][x] = 0
      BY <3>4, <3>10
    <3> QED  BY <3>5, <3>6, <3>7, <3>8, <3>9, <3>10, OnceMoves
  <2>6. CASE ~(/\ n \in PortNames /\ f \in FramesOf(x)
               /\ j.datagrams_received = iface[n].datagrams_received \o <<f.payload>>)
    <3>1. ASSUME NEW m \in PortNames
          PROVE  /\ Has(iface'[m].datagrams_received, Versions(x)) =>
                       Has(iface[m].datagrams_received, Versions(x))
                 /\ OneOf(iface[m].datagrams_received, Versions(x)) =>
                       OneOf(iface'[m].datagrams_received, Versions(x))
      <4>1. m \in Names  BY PortsAreNoHosts
      <4>2. CASE m # n  BY <1>8, <4>1, <4>2
      <4>3. CASE m = n /\ j.datagrams_received = iface[n].datagrams_received
        BY <1>8, <4>1, <4>3
      <4>4. CASE /\ m = n /\ f.type = "IPv4" /\ f.payload \in Datagrams
                 /\ j.datagrams_received = iface[n].datagrams_received \o <<f.payload>>
        <5> DEFINE s == iface[n].datagrams_received
                   t == <<f.payload>>
                   S == Versions(x)
        <5>1. s \in Seq(Datagrams)  BY <1>1 DEF Interfaces
        <5>2. t \in Seq(Datagrams) /\ Len(t) <= 1  BY <4>4
        <5>3. ~Has(t, S)
          <6>1. f \notin FramesOf(x)  BY <2>6, <4>4
          <6>2. f.payload.id # x  BY <1>3, <4>4, <6>1 DEF FramesOf
          <6> QED  BY <6>2 DEF Has, Versions
        <5>4. iface'[m].datagrams_received = s \o t  BY <1>8, <4>1, <4>4
        <5>5. s = iface[m].datagrams_received  BY <4>4
        <5> HIDE DEF s, t, S
        <5>6. OneOf(t, S)  BY <5>2, ShortHas
        <5>7. /\ Has(s \o t, S) => Has(s, S)
              /\ OneOf(s, S) => OneOf(s \o t, S)
          BY <5>1, <5>2, <5>3, <5>6, JoinHas
        <5> QED  BY <5>4, <5>5, <5>7 DEF S
      <4> QED  BY <1>4, <4>2, <4>3, <4>4
    <3>2. ASSUME NEW kind \in Kinds, NEW m \in Names, NEW a \in IPAddresses, At(kind, m, a, x)'
          PROVE  At(kind, m, a, x)
      <4>1. CASE kind = "waits" /\ WaitsAt(iface'[m], a, x)
        BY <2>4, <4>1
      <4>2. CASE kind = "comes" /\ m \in PortNames /\ a = IP[m] /\ Has(inbox'[m], FramesOf(x))
        BY <2>3, <4>2 DEF At
      <4>3. CASE /\ kind = "received" /\ m \in PortNames /\ a = IP[m]
                 /\ Has(iface'[m].datagrams_received, Versions(x))
        BY <3>1, <4>3 DEF At
      <4> QED  BY <3>2, <4>1, <4>2, <4>3, AtNow
    <3>3. OneEach(x)'
      <4>1. ASSUME NEW p \in PortNames
            PROVE  /\ OneOf(inbox'[p], FramesOf(x))
                   /\ OneOf(iface'[p].datagrams_received, Versions(x))
        BY <2>1, <2>3, <3>1, PortsAreNoHosts DEF Once, OneEach
      <4> QED  BY <4>1 DEF OneEach, PortNames, FramesOf, Versions
    <3> QED  BY <2>1, <2>2, <3>2, <3>3, OnceShrinks
  <2> QED  BY <2>5, <2>6
<1>13. ASSUME NEW x \in Ids, Has(frames, FramesOf(x)) PROVE Once(x)'
  <2>1. Once(x)  BY DEF OnceInv
  <2>2. PICK b \in IPAddresses : WaitsAt(iface[n], b, x) /\ ~WaitsAt(j, b, x)
    BY <1>4, <1>13
  <2>3. At("waits", n, b, x)  BY <2>2 DEF At
  <2>4. \A kind \in Kinds, m \in Names, a \in IPAddresses :
           At(kind, m, a, x) => kind = "waits" /\ m = n /\ a = b
    BY <2>1, <2>3 DEF Once, Alone, Kinds
  <2>5. /\ origin[x] # Absent /\ \A p \in PortNames : sent[p][x] = 0
        /\ n \notin PortNames => \A m \in Names : sent[m][x] = 0
    BY <2>1, <2>3 DEF Once, NotYetSent, Kinds
  <2>6. j.datagrams_received = iface[n].datagrams_received
    BY <1>4, <1>13
  <2>7. ASSUME NEW p \in PortNames
        PROVE  /\ p \in Names /\ IP[p] \in IPAddresses
               /\ iface'[p].datagrams_received = iface[p].datagrams_received
               /\ ~Has(inbox[p], FramesOf(x))
               /\ ~Has(iface[p].datagrams_received, Versions(x))
    <3>1. p \in Names /\ IP[p] \in IPAddresses  BY PortsAreNoHosts, TopologyAssumption
    <3>2. iface'[p].datagrams_received = iface[p].datagrams_received
      BY <1>8, <2>6, <3>1
    <3>3. ~At("comes", p, IP[p], x) /\ ~At("received", p, IP[p], x)
      BY <2>4, <3>1 DEF Kinds
    <3> QED  BY <3>1, <3>2, <3>3 DEF At
  <2>8. ASSUME NEW kind \in Kinds, NEW m \in Names, NEW a \in IPAddresses, At(kind, m, a, x)'
        PROVE  kind = "comes" /\ m \in PortNames /\ a = IP[m] /\ Neighbours(m, n)
    <3>1. CASE kind = "waits" /\ WaitsAt(iface'[m], a, x)
      <4>1. CASE m = n
        <5>1. WaitsAt(j, a, x)  BY <1>8, <3>1, <4>1
        <5>2. At("waits", n, a, x)  BY <1>4, <5>1 DEF At
        <5>3. a = b  BY <2>4, <5>2 DEF Kinds
        <5> QED  BY <2>2, <5>1, <5>3
      <4>2. CASE m # n
        <5>1. At("waits", m, a, x)  BY <1>8, <3>1, <4>2 DEF At
        <5> QED  BY <2>4, <4>2, <5>1 DEF Kinds
      <4> QED  BY <4>1, <4>2
    <3>2. CASE kind = "comes" /\ m \in PortNames /\ a = IP[m] /\ Has(inbox'[m], FramesOf(x))
      BY <1>10, <2>7, <3>2
    <3>3. CASE /\ kind = "received" /\ m \in PortNames /\ a = IP[m]
               /\ Has(iface'[m].datagrams_received, Versions(x))
      BY <2>7, <3>3
    <3> QED  BY <2>8, <3>1, <3>2, <3>3, AtNow
  <2>9. OneEach(x)'
    <3>1. ASSUME NEW p \in PortNames
          PROVE  /\ OneOf(inbox'[p], FramesOf(x))
                 /\ OneOf(iface'[p].datagrams_received, Versions(x))
      <4>1. OneOf(inbox[p], FramesOf(x)) /\ OneOf(iface[p].datagrams_received, Versions(x))
        BY <2>1 DEF Once, OneEach
      <4> QED  BY <1>10, <2>7, <4>1
    <3> QED  BY <3>1 DEF OneEach, PortNames, FramesOf, Versions
  <2>10. ASSUME NEW kind \in Kinds, NEW m \in Names, NEW a \in IPAddresses, At(kind, m, a, x)'
         PROVE  /\ \A p \in PortNames : sent'[p][x] = 0
                /\ kind = "waits" /\ m \notin PortNames => \A q \in Names : sent'[q][x] = 0
    <3>1. kind = "comes" /\ m \in PortNames /\ Neighbours(m, n)  BY <2>8, <2>10
    <3>2. n \notin PortNames  BY <3>1 DEF PortsApart, Neighbours
    <3> QED  BY <1>11, <2>5, <3>1, <3>2, PortsAreNoHosts
  <2>11. \A m \in Names : sent'[m][x] <= 1
    <3>1. sent[n][x] = 0  BY <2>5
    <3>2. \A m \in Names : sent[m][x] <= 1  BY <2>1 DEF Once
    <3> QED  BY <1>11, <3>1, <3>2
  <2>12. ASSUME NEW k1 \in Kinds, NEW k2 \in Kinds, NEW n1 \in Names, NEW n2 \in Names,
                NEW a1 \in IPAddresses, NEW a2 \in IPAddresses,
                At(k1, n1, a1, x)', At(k2, n2, a2, x)'
         PROVE  k1 = k2 /\ n1 = n2 /\ a1 = a2
    <3>1. /\ k1 = "comes" /\ n1 \in PortNames /\ a1 = IP[n1] /\ Neighbours(n1, n)
          /\ k2 = "comes" /\ n2 \in PortNames /\ a2 = IP[n2] /\ Neighbours(n2, n)
      BY <2>8, <2>12
    <3> QED  BY <3>1 DEF PortsApart, Neighbours
  <2>13. origin'[x] # Absent  BY <1>2, <2>5
  <2> QED  BY <2>9, <2>10, <2>11, <2>12, <2>13, OnceMoves
<1> QED  BY <1>9, <1>12, <1>13

LEMMA RouteOneOnce ==
    ASSUME OnceInv, PortsApart, RouteOne
    PROVE  /\ \A m \in Names : OneWaits(iface'[m])
           /\ \A x \in Ids : Once(x)'
<1> DEFINE from == Ports[routing]
           received == iface[from].datagrams_received
           d    == Head(received)
           rest == Tail(received)
           best == BestMatch(router_map, d.dst, zero_shift)
           to   == Ports[router_map[best].interface_idx]
           hop  == NextHop(router_map[best], d)
           popped == [iface EXCEPT ![from].datagrams_received = rest]
           e == Decremented(d)
           j == SendDatagram(popped[to], e, hop)
           frames == SendTransmits(popped[to], e, hop)
<1>1. /\ TypeInv /\ iface \in [Names -> Interfaces] /\ inbox \in [Names -> Seq(Frames)]
      /\ \A m \in Names : OneWaits(iface[m])
  BY DEF OnceInv, TypeInv
<1>2. /\ from \in Names /\ d \in Datagrams /\ rest \in Seq(Datagrams)
      /\ best # 0 => /\ to \in Names /\ hop \in IPAddresses
                     /\ to \in {Ports[k] : k \in DOMAIN Ports}
  BY <1>1, RouteTypes DEF RouteOne
<1>3. from \in PortNames /\ (best # 0 => to \in PortNames)
  <2>1. routing \in DOMAIN Ports
    <3>1. routing \in 0 .. Len(Ports) /\ routing # 0
      BY <1>1 DEF RouteOne, TypeInv
    <3>2. DOMAIN Ports = 1 .. Len(Ports) /\ Len(Ports) \in Nat  BY TopologyAssumption
    <3> QED  BY <3>1, <3>2
  <2> QED  BY <1>2, <2>1 DEF PortNames
<1>4. received \in Seq(Datagrams) /\ received # << >>
  BY <1>1, <1>2 DEF RouteOne, Interfaces
<1>5. /\ IF Expires(d) \/ best = 0
         THEN iface' = popped /\ UNCHANGED <<inbox, sent, asked>>
         ELSE /\ iface' = [popped EXCEPT ![to] = j]
              /\ inbox' = Carried(inbox, to, frames)
              /\ Noted(to, frames)
      /\ origin' = origin
  BY DEF RouteOne
<1>6. ASSUME NEW S
      PROVE  /\ Has(rest, S) => Has(received, S)
             /\ OneOf(received, S) => OneOf(rest, S)
             /\ OneOf(received, S) /\ d \in S => ~Has(rest, S)
             /\ d \in S => Has(received, S)
  BY <1>4, TailHas
<1>7. received = iface[from].datagrams_received  OBVIOUS
<1> HIDE DEF from, received, d, rest, best, to, hop, e
<1>8. ASSUME NEW m \in Names
      PROVE  /\ popped[m] \in Interfaces /\ popped[m].wait_list = iface[m].wait_list
             /\ popped[m].datagrams_received
                    = IF m = from THEN rest ELSE iface[m].datagrams_received
  <2> DEFINE i == iface[m]
  <2>1. i \in Interfaces  BY <1>1
  <2>2. popped[m] = IF m = from THEN [i EXCEPT !.datagrams_received = rest] ELSE i
    BY <1>1
  <2> HIDE DEF i, popped
  <2>3. [i EXCEPT !.datagrams_received = rest] \in Interfaces
    BY <1>2, <2>1 DEF Interfaces
  <2> QED  BY <2>1, <2>2, <2>3 DEF i, Interfaces
<1>9. popped \in [Names -> Interfaces]  BY <1>1, <1>8
<1> HIDE DEF popped, j, frames
<1>10. ASSUME NEW m \in Names
       PROVE  /\ OneWaits(popped[m])
              /\ \A a, x : WaitsAt(popped[m], a, x) => WaitsAt(iface[m], a, x)
  BY <1>1, <1>8 DEF OneWaits, WaitsAt
<1>11. ASSUME NEW m \in Names, NEW S
       PROVE  /\ Has(popped[m].datagrams_received, S) => Has(iface[m].datagrams_received, S)
              /\ OneOf(iface[m].datagrams_received, S)
                     => OneOf(popped[m].datagrams_received, S)
  BY <1>6, <1>7, <1>8
<1>12. CASE Expires(d) \/ best = 0
  <2>1. iface' = popped /\ inbox' = inbox /\ sent' = sent /\ origin' = origin
    BY <1>5, <1>12
  <2>2. \A m \in Names : OneWaits(iface'[m])  BY <1>10, <2>1
  <2>3. ASSUME NEW x \in Ids PROVE Once(x)'
    <3>1. Once(x)  BY DEF OnceInv
    <3>2. ASSUME NEW kind \in Kinds, NEW m \in Names, NEW a \in IPAddresses, At(kind, m, a, x)'
          PROVE  At(kind, m, a, x)
      BY <1>10, <1>11, <2>1, <3>2, AtNow DEF At
    <3>3. OneEach(x)'
      <4>1. ASSUME NEW p \in PortNames
            PROVE  /\ OneOf(inbox'[p], FramesOf(x))
                   /\ OneOf(iface'[p].datagrams_received, Versions(x))
        BY <1>11, <2>1, <3>1, PortsAreNoHosts DEF Once, OneEach
      <4> QED  BY <4>1 DEF OneEach, PortNames, FramesOf, Versions
    <3> QED  BY <2>1, <3>1, <3>2, <3>3, OnceShrinks
  <2> QED  BY <2>2, <2>3
<1>13. CASE ~(Expires(d) \/ best = 0)
  <2>1. /\ to \in Names /\ to \in PortNames /\ hop \in IPAddresses /\ ~Expires(d)
        /\ iface' = [popped EXCEPT ![to] = j]
        /\ inbox' = Carried(inbox, to, frames) /\ Noted(to, frames)
    BY <1>2, <1>3, <1>5, <1>13
  <2>2. e \in Datagrams /\ e.id = d.id  BY <1>2, <2>1, DecrementedType DEF e
  <2>3. popped[to] \in Interfaces /\ OneWaits(popped[to])  BY <1>8, <1>10, <2>1
  <2>4. /\ OneWaits(j) /\ Len(frames) <= 1
        /\ \A x : Has(frames, FramesOf(x)) => x = d.id
        /\ \A a \in IPAddresses : \A x :
              WaitsAt(j, a, x) => \/ WaitsAt(popped[to], a, x)
                                  \/ a = hop /\ x = d.id /\ ~Has(frames, FramesOf(x))
    <3>1. /\ OneWaits(j) /\ Len(frames) <= 1
          /\ \A x : Has(frames, FramesOf(x)) => x = e.id
          /\ \A a \in IPAddresses : \A x :
                WaitsAt(j, a, x) => \/ WaitsAt(popped[to], a, x)
                                    \/ a = hop /\ x = e.id /\ ~Has(frames, FramesOf(x))
      BY <2>1, <2>2, <2>3, SendPlaces DEF j, frames
    <3> QED  BY <2>2, <3>1
  <2>5. /\ frames \in Seq(Frames)
        /\ j.datagrams_received = popped[to].datagrams_received
    BY <2>1, <2>2, <2>3, SendType DEF j, frames
  <2>6. ASSUME NEW m \in Names
        PROVE  /\ iface'[m] = IF m = to THEN j ELSE popped[m]
               /\ iface'[m].datagrams_received = popped[m].datagrams_received
    BY <1>9, <2>1, <2>5
  <2>7. \A m \in Names : OneWaits(iface'[m])  BY <1>10, <2>4, <2>6
  <2>8. ASSUME NEW m \in Names, NEW a \in IPAddresses, NEW x, WaitsAt(iface'[m], a, x)
        PROVE  \/ WaitsAt(iface[m], a, x)
               \/ m = to /\ a = hop /\ x = d.id /\ ~Has(frames, FramesOf(x))
    <3>1. CASE m = to
      <4>1. WaitsAt(j, a, x)  BY <2>6, <2>8, <3>1
      <4> QED  BY <1>10, <2>1, <2>4, <3>1, <4>1
    <3>2. CASE m # to
      <4>1. WaitsAt(popped[m], a, x)  BY <2>6, <2>8, <3>2
      <4> QED  BY <1>10, <4>1
    <3> QED  BY <3>1, <3>2
  <2>9. ASSUME NEW m \in Names, NEW x
        PROVE  /\ Has(inbox'[m], FramesOf(x)) =>
                     \/ Has(inbox[m], FramesOf(x))
                     \/ Neighbours(m, to) /\ Has(frames, FramesOf(x))
               /\ OneOf(inbox[m], FramesOf(x))
                  /\ ~(Has(inbox[m], FramesOf(x)) /\ Has(frames, FramesOf(x)))
                      => OneOf(inbox'[m], FramesOf(x))
    <3>1. Len(frames) <= 1 /\ frames \in Seq(Frames)  BY <2>4, <2>5
    <3>2. inbox' = Carried(inbox, to, frames) /\ to \in Names  BY <2>1
    <3> QED  BY <1>1, <3>1, <3>2, PassedOn
  <2>10. ASSUME NEW x \in Ids
         PROVE  /\ \A m \in Names : m # to => sent'[m][x] = sent[m][x]
                /\ ~Has(frames, FramesOf(x)) => sent'[to][x] = sent[to][x]
                /\ sent[to][x] = 0 => sent'[to][x] <= 1
    <3>1. Len(frames) <= 1 /\ frames \in Seq(Frames)  BY <2>4, <2>5
    <3> QED  BY <1>1, <2>1, <3>1, SentIs
  <2>11. ASSUME NEW x \in Ids, x # d.id PROVE Once(x)'
    <3>1. ~Has(frames, FramesOf(x)) /\ Once(x)  BY <2>4, <2>11 DEF OnceInv
    <3>2. ASSUME NEW kind \in Kinds, NEW m \in Names, NEW a \in IPAddresses, At(kind, m, a, x)'
          PROVE  At(kind, m, a, x)
      <4>1. CASE kind = "waits" /\ WaitsAt(iface'[m], a, x)
        BY <2>8, <2>11, <4>1 DEF At
      <4>2. CASE kind = "comes" /\ m \in PortNames /\ a = IP[m] /\ Has(inbox'[m], FramesOf(x))
        BY <2>9, <3>1, <4>2 DEF At
      <4>3. CASE /\ kind = "received" /\ m \in PortNames /\ a = IP[m]
                 /\ Has(iface'[m].datagrams_received, Versions(x))
        <5>1. Has(popped[m].datagrams_received, Versions(x))  BY <2>6, <4>3
        <5>2. Has(iface[m].datagrams_received, Versions(x))  BY <1>11, <5>1
        <5> QED  BY <4>3, <5>2 DEF At
      <4> QED  BY <3>2, <4>1, <4>2, <4>3, AtNow
    <3>3. OneEach(x)'
      <4>1. ASSUME NEW p \in PortNames
            PROVE  /\ OneOf(inbox'[p], FramesOf(x))
                   /\ OneOf(iface'[p].datagrams_received, Versions(x))
        BY <1>11, <2>6, <2>9, <3>1, PortsAreNoHosts DEF Once, OneEach
      <4> QED  BY <4>1 DEF OneEach, PortNames, FramesOf, Versions
    <3>4. origin'[x] = origin[x]  BY <1>5
    <3>5. \A m \in Names : sent'[m][x] = sent[m][x]  BY <2>10, <3>1
    <3> QED  BY <3>1, <3>2, <3>3, <3>4, <3>5, OnceShrinks
  <2>12. ASSUME NEW x \in Ids, x = d.id PROVE Once(x)'
    <3>1. Once(x)  BY DEF OnceInv
    <3>2. d \in Versions(x)  BY <1>2, <2>12 DEF Versions
    <3>3. At("received", from, IP[from], x) /\ IP[from] \in IPAddresses
      BY <1>2, <1>3, <1>6, <1>7, <3>2, TopologyAssumption DEF At
    <3>4. \A kind \in Kinds, m \in Names, a \in IPAddresses :
             At(kind, m, a, x) => kind = "received" /\ m = from
      BY <1>2, <3>1, <3>3 DEF Once, Alone, Kinds
    <3>5. origin[x] # Absent /\ \A p \in PortNames : sent[p][x] = 0
      BY <1>2, <3>1, <3>3 DEF Once, NotYetSent, Kinds
    <3>6. ASSUME NEW p \in PortNames
          PROVE  /\ p \in Names /\ IP[p] \in IPAddresses
                 /\ ~Has(inbox[p], FramesOf(x))
                 /\ ~Has(popped[p].datagrams_received, Versions(x))
      <4>1. p \in Names /\ IP[p] \in IPAddresses  BY PortsAreNoHosts, TopologyAssumption
      <4>2. ~Has(inbox[p], FramesOf(x))  BY <3>4, <4>1 DEF At, Kinds
      <4>3. ~Has(popped[p].datagrams_received, Versions(x))
        <5>1. CASE p = from
          <6>1. OneOf(received, Versions(x))
            BY <1>3, <1>7, <3>1 DEF Once, OneEach
          <6> QED  BY <1>6, <1>8, <3>2, <4>1, <5>1, <6>1
        <5>2. CASE p # from
          <6>1. ~At("received", p, IP[p], x)  BY <3>4, <4>1, <5>2 DEF Kinds
          <6> QED  BY <1>11, <4>1, <6>1 DEF At
        <5> QED  BY <5>1, <5>2
      <4> QED  BY <4>1, <4>2, <4>3
    <3>7. ASSUME NEW kind \in Kinds, NEW m \in Names, NEW a \in IPAddresses, At(kind, m, a, x)'
          PROVE  kind = "waits" /\ m = to /\ a = hop /\ ~Has(frames, FramesOf(x))
      <4>1. CASE kind = "waits" /\ WaitsAt(iface'[m], a, x)
        <5>1. ~WaitsAt(iface[m], a, x)  BY <3>4 DEF At, Kinds
        <5> QED  BY <2>8, <4>1, <5>1
      <4>2. CASE kind = "comes" /\ m \in PortNames /\ a = IP[m] /\ Has(inbox'[m], FramesOf(x))
        <5>1. Neighbours(m, to)  BY <2>9, <3>6, <4>2
        <5> QED  BY <2>1, <4>2, <5>1 DEF PortsApart, Neighbours
      <4>3. CASE /\ kind = "received" /\ m \in PortNames /\ a = IP[m]
                 /\ Has(iface'[m].datagrams_received, Versions(x))
        BY <2>6, <3>6, <4>3
      <4> QED  BY <3>7, <4>1, <4>2, <4>3, AtNow
    <3>8. OneEach(x)'
      <4>1. ASSUME NEW p \in PortNames
            PROVE  /\ OneOf(inbox'[p], FramesOf(x))
                   /\ OneOf(iface'[p].datagrams_received, Versions(x))
        BY <1>11, <2>6, <2>9, <3>1, <3>6 DEF Once, OneEach
      <4> QED  BY <4>1 DEF OneEach, PortNames, FramesOf, Versions
    <3>9. origin'[x] # Absent  BY <1>5, <3>5
    <3>10. \A m \in Names : sent'[m][x] <= 1
      <4>1. \A m \in Names : sent[m][x] <= 1  BY <3>1 DEF Once
      <4> QED  BY <2>1, <2>10, <3>5, <4>1
    <3>11. ASSUME NEW kind \in Kinds, NEW m \in Names, NEW a \in IPAddresses, At(kind, m, a, x)'
           PROVE  /\ \A p \in PortNames : sent'[p][x] = 0
                  /\ kind = "waits" /\ m \notin PortNames => \A q \in Names : sent'[q][x] = 0
      <4>1. m = to /\ ~Has(frames, FramesOf(x))  BY <3>7, <3>11
      <4> QED  BY <2>1, <2>10, <3>5, <4>1, PortsAreNoHosts
    <3>12. ASSUME NEW k1 \in Kinds, NEW k2 \in Kinds, NEW n1 \in Names, NEW n2 \in Names,
                  NEW a1 \in IPAddresses, NEW a2 \in IPAddresses,
                  At(k1, n1, a1, x)', At(k2, n2, a2, x)'
           PROVE  k1 = k2 /\ n1 = n2 /\ a1 = a2
      BY <3>7, <3>12
    <3> QED  BY <3>8, <3>9, <3>10, <3>11, <3>12, OnceMoves
  <2> QED  BY <2>7, <2>11, <2>12
<1> QED  BY <1>12, <1>13

\* A step that transmits nothing and takes nothing out.
LEMMA LessOnce ==
    ASSUME OnceInv, origin' = origin, sent' = sent,
           \A m \in Names : \A a \in IPAddresses : \A x :
               WaitsAt(iface'[m], a, x) => WaitsAt(iface[m], a, x),
           \A p \in PortNames : iface'[p].datagrams_received = iface[p].datagrams_received,
           \A p \in PortNames : \A x :
               /\ Has(inbox'[p], FramesOf(x)) => Has(inbox[p], FramesOf(x))
               /\ OneOf(inbox[p], FramesOf(x)) => OneOf(inbox'[p], FramesOf(x))
    PROVE  \A x \in Ids : Once(x)'
<1> SUFFICES ASSUME NEW x \in Ids PROVE Once(x)'  OBVIOUS
<1>1. Once(x)  BY DEF OnceInv
<1>2. ASSUME NEW kind \in Kinds, NEW m \in Names, NEW a \in IPAddresses, At(kind, m, a, x)'
      PROVE  At(kind, m, a, x)
  BY <1>2, AtNow DEF At
<1>3. OneEach(x)'
  <2>1. ASSUME NEW p \in PortNames
        PROVE  /\ OneOf(inbox'[p], FramesOf(x))
               /\ OneOf(iface'[p].datagrams_received, Versions(x))
    BY <1>1 DEF Once, OneEach
  <2> QED  BY <2>1 DEF OneEach, PortNames, FramesOf, Versions
<1>4. origin'[x] = origin[x] /\ \A n \in Names : sent'[n][x] = sent[n][x]  OBVIOUS
<1> QED  BY <1>1, <1>2, <1>3, <1>4, OnceShrinks

LEMMA InitOnceInv == Init => OnceInv
<1> SUFFICES ASSUME Init PROVE OnceInv  OBVIOUS
<1>1. ASSUME NEW n \in Names
      PROVE  /\ iface[n].wait_list = [a \in IPAddresses |-> Absent]
             /\ iface[n].datagrams_received = << >> /\ inbox[n] = << >>
             /\ \A x \in Ids : sent[n][x] = 0
  BY DEF Init, NewInterface
<1>2. ASSUME NEW x \in Ids PROVE Once(x)
  <2>1. \A p \in PortNames : p \in Names  BY PortsAreNoHosts
  <2>2. \A S : ~Has(<< >>, S) /\ OneOf(<< >>, S)  BY DEF Has, OneOf
  <2>3. \A kind \in Kinds, n \in Names, a \in IPAddresses : ~At(kind, n, a, x)
    BY <1>1, <2>2 DEF At, WaitsAt
  <2>4. Alone(x) /\ NotYetSent(x)  BY <2>3 DEF Alone, NotYetSent
  <2>5. OneEach(x)  BY <1>1, <2>1, <2>2 DEF OneEach
  <2> QED  BY <1>1, <2>4, <2>5 DEF Once
<1>3. \A n \in Names : OneWaits(iface[n])  BY <1>1 DEF OneWaits
<1> QED  BY <1>2, <1>3, InitTypeInv DEF OnceInv

LEMMA NextOnceInv ==
    ASSUME PortsApart
    PROVE  OnceInv /\ [Next]_vars => OnceInv'
<1> SUFFICES ASSUME OnceInv, [Next]_vars PROVE OnceInv'  OBVIOUS
<1>1. /\ TypeInv /\ \A m \in Names : OneWaits(iface[m]) /\ iface[m] \in Interfaces
      /\ \A p \in PortNames : p \in Names
  BY PortsAreNoHosts DEF OnceInv, TypeInv
<1>2. ASSUME NEW message \in Traffic, NEW hop \in IPAddresses,
             HostSend(message.from, message.datagram, hop)
      PROVE  (\A m \in Names : OneWaits(iface'[m])) /\ \A x \in Ids : Once(x)'
  BY <1>2, HostSendOnce
<1>3. ASSUME NEW n \in Names, Deliver(n)
      PROVE  (\A m \in Names : OneWaits(iface'[m])) /\ \A x \in Ids : Once(x)'
  BY <1>3, DeliverOnce
<1>4. RouteOne => (\A m \in Names : OneWaits(iface'[m])) /\ \A x \in Ids : Once(x)'
  BY RouteOneOnce
<1>5. ASSUME NEW t \in Ticks, TimePasses(t)
      PROVE  (\A m \in Names : OneWaits(iface'[m])) /\ \A x \in Ids : Once(x)'
  <2>1. t \in Nat  BY TopologyAssumption
  <2>2. /\ inbox' = inbox /\ origin' = origin /\ sent' = sent
        /\ \A m \in Names : iface'[m] = Tick(iface[m], t)
    BY <1>5 DEF TimePasses
  <2>3. ASSUME NEW m \in Names
        PROVE  /\ OneWaits(iface'[m])
               /\ \A a \in IPAddresses : \A x :
                     WaitsAt(iface'[m], a, x) => WaitsAt(iface[m], a, x)
               /\ iface'[m].datagrams_received = iface[m].datagrams_received
    <3> DEFINE i == iface[m]
    <3>1. i \in Interfaces /\ OneWaits(i) /\ iface'[m] = Tick(i, t)  BY <1>1, <2>2
    <3> HIDE DEF i
    <3>2. /\ OneWaits(Tick(i, t))
          /\ \A a \in IPAddresses : \A x : WaitsAt(Tick(i, t), a, x) => WaitsAt(i, a, x)
      BY <2>1, <3>1, TickPlaces
    <3>3. Tick(i, t).datagrams_received = i.datagrams_received  BY <2>1, <3>1, TickType
    <3> QED  BY <3>1, <3>2, <3>3 DEF i
  <2> QED  BY <1>1, <2>2, <2>3, LessOnce
<1>6. ASSUME NEW n \in Names, Lose(n)
      PROVE  (\A m \in Names : OneWaits(iface'[m])) /\ \A x \in Ids : Once(x)'
  <2>1. /\ iface' = iface /\ origin' = origin /\ sent' = sent
        /\ inbox[n] # << >> /\ inbox' = [inbox EXCEPT ![n] = Tail(inbox[n])]
    BY <1>6 DEF Lose, history
  <2>2. inbox \in [Names -> Seq(Frames)]  BY <1>1 DEF TypeInv
  <2>3. ASSUME NEW m \in Names, NEW x
        PROVE  /\ Has(inbox'[m], FramesOf(x)) => Has(inbox[m], FramesOf(x))
               /\ OneOf(inbox[m], FramesOf(x)) => OneOf(inbox'[m], FramesOf(x))
    <3>1. CASE m = n
      <4>1. inbox[n] \in Seq(Frames) /\ inbox'[n] = Tail(inbox[n])  BY <2>1, <2>2
      <4> QED  BY <2>1, <3>1, <4>1, TailHas
    <3>2. CASE m # n
      <4>1. inbox'[m] = inbox[m]  BY <2>1, <2>2, <3>2
      <4> QED  BY <4>1
    <3> QED  BY <3>1, <3>2
  <2> QED  BY <1>1, <2>1, <2>3, LessOnce
<1>7. ASSUME NEW n \in Hosts, NEW ethernet \in EthernetAddresses, Restart(n, ethernet)
      PROVE  (\A m \in Names : OneWaits(iface'[m])) /\ \A x \in Ids : Once(x)'
  <2>1. /\ origin' = origin /\ sent' = sent
        /\ iface' = [iface EXCEPT ![n] = NewInterface(ethernet, IP[n])]
        /\ inbox' = [inbox EXCEPT ![n] = << >>]
    BY <1>7 DEF Restart
  <2>2. n \in Names /\ n \notin PortNames  BY PortsAreNoHosts
  <2>3. ASSUME NEW m \in Names
        PROVE  /\ OneWaits(iface'[m])
               /\ \A a \in IPAddresses : \A x :
                     WaitsAt(iface'[m], a, x) => WaitsAt(iface[m], a, x)
    <3>1. iface'[m] = IF m = n THEN NewInterface(ethernet, IP[n]) ELSE iface[m]
      BY <1>1, <2>1 DEF TypeInv
    <3>2. NewInterface(ethernet, IP[n]).wait_list = [a \in IPAddresses |-> Absent]
      BY DEF NewInterface
    <3>3. CASE m = n
      <4>1. \A a \in IPAddresses : iface'[m].wait_list[a] = Absent  BY <3>1, <3>2, <3>3
      <4> QED  BY <4>1 DEF OneWaits, WaitsAt
    <3>4. CASE m # n
      <4>1. iface'[m] = iface[m]  BY <3>1, <3>4
      <4> QED  BY <1>1, <4>1
    <3> QED  BY <3>3, <3>4
  <2>4. \A p \in PortNames : iface'[p] = iface[p] /\ inbox'[p] = inbox[p]
    BY <1>1, <2>1, <2>2 DEF TypeInv
  <2> QED  BY <2>1, <2>3, <2>4, LessOnce
<1>8. ASSUME UNCHANGED <<iface, inbox, origin, sent>>
      PROVE  (\A m \in Names : OneWaits(iface'[m])) /\ \A x \in Ids : Once(x)'
  BY <1>1, <1>8, LessOnce
<1>9. ASSUME NEW entry \in TableRoutes, AddRoute(entry)
      PROVE  UNCHANGED <<iface, inbox, origin, sent>>
  BY <1>9 DEF AddRoute, network, history
<1>10. RouteStart \/ RouteNext \/ UNCHANGED vars => UNCHANGED <<iface, inbox, origin, sent>>
  BY DEF RouteStart, RouteNext, vars, network, history
<1>11. (\A m \in Names : OneWaits(iface'[m])) /\ \A x \in Ids : Once(x)'
  BY <1>2, <1>3, <1>4, <1>5, <1>6, <1>7, <1>8, <1>9, <1>10 DEF Next
<1>12. TypeInv'  BY <1>1, NextTypeInv
<1> QED  BY <1>11, <1>12 DEF OnceInv, Names, OneWaits

(***************************************************************************)
(* No host and no port transmits a datagram twice, however often frames    *)
(* are lost or late, requests repeated and hosts restarted: what is        *)
(* released from the list of those that wait is taken out of it            *)
(* (recv_frame(), network_interface.cc:106-113), and what route() forwards *)
(* is taken from the port (router.cc:33).  A router with two ports on one  *)
(* segment may send a datagram round for as long as its time to live       *)
(* lasts, so this is about routers that have one.                          *)
(***************************************************************************)
THEOREM NothingSentTwice ==
    ASSUME PortsApart
    PROVE  Spec => []SentAtMostOnce
<1>1. OnceInv => SentAtMostOnce  BY DEF OnceInv, Once, SentAtMostOnce
<1> QED  BY <1>1, InitOnceInv, NextOnceInv, PTL DEF Spec
=============================================================================
