---------------------------- MODULE ProgramProofs ---------------------------
(***************************************************************************)
(* Why tcp_ipv4 ends well only when all is carried: what the two event     *)
(* loops, their stream copies and the sockets between them know of each    *)
(* other, for every capacity and every amount of input.                    *)
(***************************************************************************)
EXTENDS Program, FiniteSetTheorems, FunctionTheorems, SequenceTheorems, TLAPS

StreamStates == [pushed : Nat, popped : Nat, closed : BOOLEAN, error : BOOLEAN]

CopyStates ==
    [rules : SUBSET (1 .. 4), outbound : StreamStates, inbound : StreamStates,
     outbound_shutdown : BOOLEAN, inbound_shutdown : BOOLEAN,
     input : FileDescriptors, socket : FileDescriptors, output : FileDescriptors]

TCPStates ==
    [rules : SUBSET (1 .. 3), outbound : StreamStates, inbound : StreamStates,
     outbound_shutdown : BOOLEAN, inbound_shutdown : BOOLEAN, data : FileDescriptors,
     fin_sent : BOOLEAN, acked : Nat, window : Nat, linger : BOOLEAN, lingered : BOOLEAN]

Segments == [kind : {"data", "fin", "ack", "rst"}, first : Nat, acked : Nat, window : Nat]

Remotes == [sent : 0 .. RemoteBytes, fin : BOOLEAN, acked : Nat, window : Nat, reset : BOOLEAN]

OwnerPlaces ==
    {At(pc) : pc \in {"poll", "close", "join", "abort"}} \union {Serving(r) : r \in 1 .. 4}

ThreadPlaces == {At(pc) : pc \in {"poll", "done"}} \union {Serving(r) : r \in 1 .. 3}

TypeInv ==
    /\ copy \in CopyStates /\ tcp \in TCPStates /\ pair \in Pairs
    /\ owner \in OwnerPlaces /\ thread \in ThreadPlaces
    /\ tun \in Seq(Segments) /\ Len(tun) <= MaxSegments
    /\ remote \in Remotes
    /\ stdin \in [arrived : Nat, total : 0 .. StdinBytes,
                  end : {"open", "eof", "hangup", "failed"}]
    /\ stdout \in {"ready", "full", "gone"}
    /\ fate \in {"running", "succeeded", "failed", "killed", "thrown"}

DataIn(s) == Cardinality({k \in DOMAIN s : s[k].kind = "data"})

\* What was taken from one stream is in the next one or on its way there.
Counted ==
    /\ stdin.total = stdin.arrived + copy.outbound.pushed
    /\ copy.outbound.popped = pair.queued["thread"] + tcp.outbound.pushed
    /\ remote.sent = DataIn(tun) + tcp.inbound.pushed
    /\ tcp.inbound.popped = pair.queued["owner"] + copy.inbound.pushed
    /\ Buffered(copy.outbound) \in 0 .. BufferSize
    /\ Buffered(copy.inbound) \in 0 .. BufferSize
    /\ tcp.inbound.popped <= tcp.inbound.pushed
    /\ remote.sent - tcp.inbound.popped <= RecvCapacity

\* Of what was read from the owner, what push() has sent: the FIN after all of it,
\* and nothing is acknowledged before.
SentInv ==
    /\ Buffered(tcp.outbound) \in 0 .. SendCapacity
    /\ tcp.fin_sent => IsFinished(tcp.outbound)
    /\ tcp.acked <= SentNumbers(tcp) /\ remote.acked <= SentNumbers(tcp)
    /\ \A k \in DOMAIN tun : tun[k].acked <= SentNumbers(tcp)

\* What the copy has given up, and why.
CopyInv ==
    /\ copy.outbound.error <=> copy.inbound.error
    /\ copy.inbound.error =>
          stdout = "gone" /\ 4 \notin copy.rules /\ ~copy.output.closed
    /\ copy.input.eof => copy.outbound.closed
    /\ ~copy.socket.closed
    /\ copy.socket.eof => copy.inbound.closed
    /\ copy.output.closed => IsFinished(copy.inbound)
    /\ ~({1, 2} \subseteq copy.rules) => copy.outbound.closed
    /\ ~({3, 4} \subseteq copy.rules) => copy.inbound.closed
    /\ 4 \notin copy.rules => IsFinished(copy.inbound) \/ copy.inbound.error

\* What the TCP thread has heard and given up.
TCPInv ==
    /\ tcp.outbound.error \/ tcp.inbound.error => remote.reset
    /\ 1 \in tcp.rules /\ ~tcp.data.closed
    /\ tcp.outbound.closed => tcp.outbound_shutdown
    /\ tcp.data.eof => tcp.outbound.closed
    /\ tcp.inbound.closed => remote.fin

\* Neither data nor a FIN comes after a FIN, and a RST is one that the remote peer has sent.
TunInv ==
    /\ \A k \in DOMAIN tun :
          /\ tun[k].kind = "rst" => remote.reset
          /\ tun[k].kind = "fin" => remote.fin /\ ~tcp.inbound.closed
          /\ tun[k].kind = "data" => ~tcp.inbound.closed
    /\ \A j, k \in DOMAIN tun : tun[j].kind = "fin" /\ tun[k].kind \in {"data", "fin"} => k <= j

\* What poll() saw is still enough when the callback runs.
OwnerReady ==
    /\ owner = Serving(1) => ~copy.outbound.closed /\ Buffered(copy.outbound) < BufferSize
    /\ owner = Serving(2) => Buffered(copy.outbound) > 0 \/ copy.outbound.closed
    /\ owner = Serving(3) =>
          /\ ~copy.inbound.closed /\ Buffered(copy.inbound) < BufferSize
          /\ pair.queued["owner"] > 0 \/ "owner" \in pair.no_receive
    /\ owner = Serving(4) =>
          /\ 4 \in copy.rules
          /\ Buffered(copy.inbound) > 0 \/ copy.inbound.closed

ThreadReady ==
    /\ fate = "running" /\ thread = Serving(1) => tun # << >>
    /\ thread = Serving(2) =>
          /\ ~tcp.outbound.closed /\ Buffered(tcp.outbound) < SendCapacity
          /\ pair.queued["thread"] > 0 \/ "thread" \in pair.no_receive
    /\ thread = Serving(3) =>
          Buffered(tcp.inbound) > 0 \/ tcp.inbound.closed \/ tcp.inbound.error

Sound == ~remote.reset /\ ~copy.inbound.error

\* The thread has not ended for its owner's sake.
OwnAccord == thread.pc # "done" \/ ~Aborted

\* Whoever is told of an end can rely on it.
EndsInv ==
    Sound =>
        /\ copy.outbound.closed => stdin.end \in {"eof", "hangup"} /\ stdin.arrived = 0
        /\ 2 \notin copy.rules => IsFinished(copy.outbound)
        /\ OwnAccord /\ ("owner" \in pair.no_send \/ "thread" \in pair.no_receive) =>
              IsFinished(copy.outbound)
        /\ tcp.outbound.closed => IsFinished(copy.outbound) /\ pair.queued["thread"] = 0
        /\ OwnAccord /\ ("thread" \in pair.no_send \/ "owner" \in pair.no_receive) =>
              IsFinished(tcp.inbound)
        /\ copy.inbound.closed => IsFinished(tcp.inbound) /\ pair.queued["owner"] = 0
        /\ 3 \notin tcp.rules => IsFinished(tcp.inbound)
        /\ owner.pc \in {"close", "join"} =>
              IsFinished(copy.outbound) /\ IsFinished(copy.inbound)
        /\ OwnAccord /\ thread.pc = "done" => SenderFinished(tcp) /\ IsFinished(tcp.inbound)

FateInv ==
    /\ Aborted => stdin.end = "failed"
    /\ fate = "succeeded" => owner.pc = "join" /\ thread.pc = "done"
    /\ fate = "failed" => Aborted
    /\ fate = "killed" => ~Undisturbed
    /\ fate = "thrown" => remote.fin /\ copy.inbound.popped < remote.sent

IInv == /\ TypeInv /\ Counted /\ SentInv /\ CopyInv /\ TCPInv /\ TunInv
        /\ OwnerReady /\ ThreadReady /\ EndsInv /\ FateInv

-----------------------------------------------------------------------------
(***************************************************************************)
(* What a call makes of a stream, a copy and the state of a TCP thread.    *)
(***************************************************************************)
LEMMA StreamTypes ==
    ASSUME NEW s \in StreamStates, NEW n \in Nat
    PROVE  /\ PushBytes(s, n) \in StreamStates /\ PopBytes(s, n) \in StreamStates
           /\ CloseStream(s) \in StreamStates /\ SetError(s) \in StreamStates
           /\ NewStream \in StreamStates
<1>1. PushBytes(s, n) \in StreamStates  BY DEF StreamStates, PushBytes
<1>2. PopBytes(s, n) \in StreamStates  BY DEF StreamStates, PopBytes
<1>3. CloseStream(s) \in StreamStates /\ SetError(s) \in StreamStates
  BY DEF StreamStates, CloseStream, SetError
<1>4. NewStream \in StreamStates  BY DEF StreamStates, NewStream
<1> QED  BY <1>1, <1>2, <1>3, <1>4

\* A descriptor that is closed has reached its end.
LEMMA DescriptorTypes ==
    ASSUME NEW fd \in FileDescriptors
    PROVE  /\ fd \in [eof : BOOLEAN, closed : BOOLEAN] /\ (fd.closed => fd.eof)
           /\ ReachEOF(fd) \in FileDescriptors /\ CloseFD(fd) \in FileDescriptors
           /\ ReachEOF(fd).eof /\ ReachEOF(fd).closed = fd.closed
           /\ CloseFD(fd).eof /\ CloseFD(fd).closed
           /\ NewFD \in FileDescriptors
BY DEF FileDescriptors, ReachEOF, CloseFD, NewFD

LEMMA PlacesDiffer ==
    /\ \A r \in 1 .. 4 : Serving(r).pc = "serve" /\ Serving(r).rule = r
    /\ \A pc : At(pc).pc = pc /\ At(pc).rule = 0
    /\ Serving(0) = At("poll")
BY DEF Serving, At

\* Which rule is served, and which are erased before it.
LEMMA ServedIs ==
    ASSUME NEW R \in SUBSET (1 .. 4), NEW outcome, DOMAIN outcome = R
    PROVE  /\ Served(outcome) \in R \union {0}
           /\ Served(outcome) # 0 => outcome[Served(outcome)] = "ready"
           /\ \A which : /\ Defunct(outcome, which) \subseteq R
                         /\ \A r \in Defunct(outcome, which) :
                               /\ outcome[r] = which
                               /\ Served(outcome) = 0 \/ r < Served(outcome)
<1> DEFINE ready == {r \in DOMAIN outcome : outcome[r] = "ready"}
<1>1. ready \subseteq R /\ R \subseteq 1 .. 4 /\ \A r \in ready : outcome[r] = "ready"
  OBVIOUS
<1> HIDE DEF ready
<1>2. ASSUME ready # {} PROVE Min(ready) \in ready
  <2>1. \E x \in ready : \A y \in ready : x <= y
    <3>1. CASE 1 \in ready  BY <1>1, <3>1
    <3>2. CASE 1 \notin ready /\ 2 \in ready  BY <1>1, <3>2
    <3>3. CASE 1 \notin ready /\ 2 \notin ready /\ 3 \in ready  BY <1>1, <3>3
    <3>4. CASE ready \subseteq {4}
      <4>1. ready = {4}  BY <1>2, <3>4
      <4> QED  BY <4>1
    <3> QED  BY <1>1, <3>1, <3>2, <3>3, <3>4
  <2> QED  BY <2>1 DEF Min
<1>3. Served(outcome) = IF ready = {} THEN 0 ELSE Min(ready)  BY DEF Served, ready
<1>4. \A which : \A r \in Defunct(outcome, which) :
         /\ r \in R /\ outcome[r] = which
         /\ Served(outcome) = 0 \/ r < Served(outcome)
  BY DEF Defunct
<1> QED  BY <1>1, <1>2, <1>3, <1>4

\* All but the rules is as it was.
OnlyRules(c, d) ==
    /\ d.outbound = c.outbound /\ d.inbound = c.inbound
    /\ d.outbound_shutdown = c.outbound_shutdown /\ d.inbound_shutdown = c.inbound_shutdown
    /\ d.input = c.input /\ d.socket = c.socket /\ d.output = c.output

\* A stream that is closed, or fails, if a condition holds.
Changed(s, t, closes, fails) ==
    /\ t.pushed = s.pushed /\ t.popped = s.popped
    /\ t.closed <=> s.closed \/ closes
    /\ t.error <=> s.error \/ fails

Cancelled(c, R, d) ==
    /\ d \in CopyStates /\ d.rules = c.rules \ R
    /\ Changed(c.outbound, d.outbound, R \intersect {1, 2} # {}, FALSE)
    /\ Changed(c.inbound, d.inbound, R \intersect {3, 4} # {}, FALSE)
    /\ d.outbound_shutdown = c.outbound_shutdown
    /\ d.inbound_shutdown = c.inbound_shutdown
    /\ d.input = c.input /\ d.socket = c.socket /\ d.output = c.output

\* CopyCancel() erases the rules and closes the streams they belong to.
LEMMA CancelIs ==
    ASSUME NEW c \in CopyStates, NEW R
    PROVE  Cancelled(c, R, CopyCancel(c, R))
<1> DEFINE a == c.outbound.closed \/ R \intersect {1, 2} # {}
           b == c.inbound.closed \/ R \intersect {3, 4} # {}
           o == [c.outbound EXCEPT !.closed = a]
           i == [c.inbound EXCEPT !.closed = b]
           d == CopyCancel(c, R)
<1>1. a \in BOOLEAN /\ b \in BOOLEAN  OBVIOUS
<1>3. d = [c EXCEPT !.rules = c.rules \ R, !.outbound = o, !.inbound = i]
  BY DEF CopyCancel, CopyStates
<1>4. (a <=> c.outbound.closed \/ R \intersect {1, 2} # {})
      /\ (b <=> c.inbound.closed \/ R \intersect {3, 4} # {})
  OBVIOUS
<1> HIDE DEF a, b, d
<1>5. /\ o \in StreamStates /\ i \in StreamStates
      /\ o.pushed = c.outbound.pushed /\ o.popped = c.outbound.popped
      /\ o.error = c.outbound.error /\ o.closed = a
      /\ i.pushed = c.inbound.pushed /\ i.popped = c.inbound.popped
      /\ i.error = c.inbound.error /\ i.closed = b
  BY <1>1 DEF CopyStates, StreamStates
<1> HIDE DEF o, i
<1>6. /\ d \in CopyStates /\ d.rules = c.rules \ R /\ d.outbound = o /\ d.inbound = i
      /\ d.outbound_shutdown = c.outbound_shutdown
      /\ d.inbound_shutdown = c.inbound_shutdown
      /\ d.input = c.input /\ d.socket = c.socket /\ d.output = c.output
  BY <1>3, <1>5 DEF CopyStates
<1>7. /\ Changed(c.outbound, o, R \intersect {1, 2} # {}, FALSE)
      /\ Changed(c.inbound, i, R \intersect {3, 4} # {}, FALSE)
  BY <1>4, <1>5 DEF Changed
<1> QED  BY <1>6, <1>7 DEF d, Cancelled

\* The sweep over descriptors that can do no more changes nothing but the rules.
LEMMA SweptKeeps ==
    ASSUME TypeInv, CopyInv
    PROVE  LET c == CopySwept(copy)
           IN  /\ c \in CopyStates /\ OnlyRules(copy, c) /\ c.rules \subseteq copy.rules
               /\ 2 \in copy.rules => 2 \in c.rules
               /\ 1 \in copy.rules /\ 1 \notin c.rules => copy.outbound.closed
               /\ 3 \in copy.rules /\ 3 \notin c.rules => copy.inbound.closed
               /\ 4 \in copy.rules /\ 4 \notin c.rules => IsFinished(copy.inbound)
               /\ 4 \in c.rules => ~copy.output.closed
<1> DEFINE R == Ended(copy.rules, CopyDirection, CopyFD(copy))
           c == CopySwept(copy)
<1>1. /\ copy \in CopyStates /\ copy.input \in FileDescriptors
      /\ copy.socket \in FileDescriptors /\ copy.output \in FileDescriptors
  BY DEF TypeInv, CopyStates
<1>2. /\ R \subseteq copy.rules
      /\ 1 \in R => copy.outbound.closed
      /\ 2 \notin R
      /\ 3 \in R => copy.inbound.closed
      /\ 4 \in R <=> 4 \in copy.rules /\ copy.output.closed
  <2>1. copy.input.closed => copy.input.eof  BY <1>1, DescriptorTypes
  <2>2. R \subseteq copy.rules  BY DEF Ended
  <2>3. 1 \in R => copy.outbound.closed  BY <2>1 DEF Ended, CopyFD, CopyDirection, CopyInv
  <2>4. 2 \notin R  BY DEF Ended, CopyFD, CopyDirection, CopyInv
  <2>5. 3 \in R => copy.inbound.closed  BY DEF Ended, CopyFD, CopyDirection, CopyInv
  <2>6. 4 \in R <=> 4 \in copy.rules /\ copy.output.closed
    BY DEF Ended, CopyFD, CopyDirection
  <2> QED  BY <2>2, <2>3, <2>4, <2>5, <2>6
<1>3. c = CopyCancel(copy, R)  BY DEF CopySwept
<1> HIDE DEF R, c
<1>4. 4 \in R => IsFinished(copy.inbound)  BY <1>2 DEF CopyInv
<1>5. /\ c \in CopyStates /\ c.rules = copy.rules \ R
      /\ Changed(copy.outbound, c.outbound, R \intersect {1, 2} # {}, FALSE)
      /\ Changed(copy.inbound, c.inbound, R \intersect {3, 4} # {}, FALSE)
      /\ c.outbound_shutdown = copy.outbound_shutdown
      /\ c.inbound_shutdown = copy.inbound_shutdown
      /\ c.input = copy.input /\ c.socket = copy.socket /\ c.output = copy.output
  <2>1. Cancelled(copy, R, c)  BY <1>1, <1>3, CancelIs
  <2> QED  BY <2>1 DEF Cancelled
<1>6. c.outbound = copy.outbound
  <2>1. /\ c.outbound \in StreamStates /\ copy.outbound \in StreamStates
        /\ R \intersect {1, 2} # {} => copy.outbound.closed
    BY <1>1, <1>2, <1>5 DEF CopyStates
  <2> QED  BY <1>5, <2>1 DEF Changed, StreamStates
<1>7. c.inbound = copy.inbound
  <2>1. /\ c.inbound \in StreamStates /\ copy.inbound \in StreamStates
        /\ R \intersect {3, 4} # {} => copy.inbound.closed
    BY <1>1, <1>2, <1>4, <1>5 DEF CopyStates, IsFinished
  <2> QED  BY <1>5, <2>1 DEF Changed, StreamStates
<1>8. OnlyRules(copy, c)  BY <1>5, <1>6, <1>7 DEF OnlyRules
<1> QED  BY <1>2, <1>4, <1>5, <1>8 DEF c

\* The walk over the results fails both streams if a rule fails, and erases
\* what is failed or hung up.
LEMMA WalkedIs ==
    ASSUME NEW c \in CopyStates, NEW outcome, DOMAIN outcome = c.rules
    PROVE  LET d == CopyWalked(c, outcome)
               F == Defunct(outcome, "failed")
               H == Defunct(outcome, "hungup")
           IN  /\ d \in CopyStates /\ d.rules = c.rules \ (F \union H)
               /\ Changed(c.outbound, d.outbound, (F \union H) \intersect {1, 2} # {}, F # {})
               /\ Changed(c.inbound, d.inbound, (F \union H) \intersect {3, 4} # {}, F # {})
               /\ d.outbound_shutdown = c.outbound_shutdown
               /\ d.inbound_shutdown = c.inbound_shutdown
               /\ d.input = c.input /\ d.socket = c.socket /\ d.output = c.output
<1> DEFINE F == Defunct(outcome, "failed")
           H == Defunct(outcome, "hungup")
           e == CopyError(c, F)
           d == CopyWalked(c, outcome)
<1>1. d = CopyCancel(e, F \union H)  BY DEF CopyWalked
<1>2. e = IF F = {} THEN c ELSE [c EXCEPT !.outbound = SetError(c.outbound),
                                          !.inbound = SetError(c.inbound)]
  BY DEF CopyError, CopyStates
<1> HIDE DEF F, H, e, d
<1>3. c.outbound \in StreamStates /\ c.inbound \in StreamStates  BY DEF CopyStates
<1>4. /\ SetError(c.outbound) \in StreamStates /\ SetError(c.inbound) \in StreamStates
      /\ Changed(c.outbound, SetError(c.outbound), FALSE, TRUE)
      /\ Changed(c.inbound, SetError(c.inbound), FALSE, TRUE)
  BY <1>3 DEF Changed, SetError, StreamStates
<1>5. /\ e \in CopyStates /\ e.rules = c.rules
      /\ Changed(c.outbound, e.outbound, FALSE, F # {})
      /\ Changed(c.inbound, e.inbound, FALSE, F # {})
      /\ e.outbound_shutdown = c.outbound_shutdown
      /\ e.inbound_shutdown = c.inbound_shutdown
      /\ e.input = c.input /\ e.socket = c.socket /\ e.output = c.output
  <2>1. CASE F = {}
    BY <1>2, <2>1 DEF Changed
  <2>2. CASE F # {}
    <3>1. e = [c EXCEPT !.outbound = SetError(c.outbound), !.inbound = SetError(c.inbound)]
      BY <1>2, <2>2
    <3>2. /\ e \in CopyStates /\ e.rules = c.rules
          /\ e.outbound = SetError(c.outbound) /\ e.inbound = SetError(c.inbound)
          /\ e.outbound_shutdown = c.outbound_shutdown
          /\ e.inbound_shutdown = c.inbound_shutdown
          /\ e.input = c.input /\ e.socket = c.socket /\ e.output = c.output
      BY <1>4, <3>1 DEF CopyStates
    <3> QED  BY <1>4, <2>2, <3>2 DEF Changed
  <2> QED  BY <2>1, <2>2
<1>6. /\ d \in CopyStates /\ d.rules = e.rules \ (F \union H)
      /\ Changed(e.outbound, d.outbound, (F \union H) \intersect {1, 2} # {}, FALSE)
      /\ Changed(e.inbound, d.inbound, (F \union H) \intersect {3, 4} # {}, FALSE)
      /\ d.outbound_shutdown = e.outbound_shutdown
      /\ d.inbound_shutdown = e.inbound_shutdown
      /\ d.input = e.input /\ d.socket = e.socket /\ d.output = e.output
  <2>1. Cancelled(e, F \union H, d)  BY <1>1, <1>5, CancelIs
  <2> QED  BY <2>1 DEF Cancelled
<1>7. /\ Changed(c.outbound, d.outbound, (F \union H) \intersect {1, 2} # {}, F # {})
      /\ Changed(c.inbound, d.inbound, (F \union H) \intersect {3, 4} # {}, F # {})
  BY <1>5, <1>6 DEF Changed
<1> QED  BY <1>5, <1>6, <1>7 DEF d, F, H

-----------------------------------------------------------------------------
\* What the interests of the four rules come to.
Interested(c, interested) ==
    /\ interested \subseteq c.rules
    /\ 1 \in interested <=>
          /\ 1 \in c.rules /\ ~c.outbound.error /\ ~c.inbound.error
          /\ Buffered(c.outbound) < BufferSize /\ ~c.outbound.closed
    /\ 2 \in interested <=>
          /\ 2 \in c.rules
          /\ \/ Buffered(c.outbound) > 0
             \/ IsFinished(c.outbound) /\ ~c.outbound_shutdown
    /\ 3 \in interested <=>
          /\ 3 \in c.rules /\ ~c.outbound.error /\ ~c.inbound.error
          /\ Buffered(c.inbound) < BufferSize /\ ~c.inbound.closed
    /\ 4 \in interested <=>
          /\ 4 \in c.rules
          /\ \/ Buffered(c.inbound) > 0
             \/ IsFinished(c.inbound) /\ ~c.inbound_shutdown

\* CopyInterest() rule by rule.
LEMMA CopyInterestIs ==
    ASSUME NEW c \in CopyStates
    PROVE  Interested(c, CopyInterest(c))
<1>1. CopyInterest(c) \subseteq c.rules  BY DEF CopyInterest
<1>2. 1 \in CopyInterest(c) <=>
         /\ 1 \in c.rules /\ ~c.outbound.error /\ ~c.inbound.error
         /\ Buffered(c.outbound) < BufferSize /\ ~c.outbound.closed
  BY DEF CopyInterest
<1>3. 2 \in CopyInterest(c) <=>
         /\ 2 \in c.rules
         /\ \/ Buffered(c.outbound) > 0
            \/ IsFinished(c.outbound) /\ ~c.outbound_shutdown
  BY DEF CopyInterest
<1>4. 3 \in CopyInterest(c) <=>
         /\ 3 \in c.rules /\ ~c.outbound.error /\ ~c.inbound.error
         /\ Buffered(c.inbound) < BufferSize /\ ~c.inbound.closed
  BY DEF CopyInterest
<1>5. 4 \in CopyInterest(c) <=>
         /\ 4 \in c.rules
         /\ \/ Buffered(c.inbound) > 0
            \/ IsFinished(c.inbound) /\ ~c.inbound_shutdown
  BY DEF CopyInterest
<1> QED  BY <1>1, <1>2, <1>3, <1>4, <1>5 DEF Interested

\* Why a rule of the owner is erased, and which one is served.
CopySeen(R, interested, outcome) ==
    LET F == Defunct(outcome, "failed")
        H == Defunct(outcome, "hungup")
        s == Served(outcome)
    IN  /\ DOMAIN outcome = R /\ F \subseteq {4} /\ H \subseteq {1, 2}
        /\ F \subseteq R /\ H \subseteq R
        /\ 4 \in F => stdout = "gone" /\ s = 0
        /\ 1 \in H => stdin.end = "hangup" /\ stdin.arrived = 0
        /\ 2 \in H => "owner" \in pair.no_send
        /\ s \in R \union {0} /\ (s # 0 => s \in interested)
        /\ s = 1 => F \union H = {}
        /\ s = 3 => pair.queued["owner"] > 0 \/ "owner" \in pair.no_receive

LEMMA CopySees ==
    ASSUME NEW R \in SUBSET (1 .. 4), NEW interested,
           NEW outcome, outcome = Outcomes(R, CopyDirection, interested, CopyEvents),
           TypeInv
    PROVE  CopySeen(R, interested, outcome)
<1> DEFINE s == Served(outcome)
<1>1. /\ DOMAIN outcome = R
      /\ \A r \in R : outcome[r] = Outcome(CopyDirection[r], r \in interested, CopyEvents[r])
  BY DEF Outcomes
<1>2. /\ s \in R \union {0} /\ (s # 0 => outcome[s] = "ready")
      /\ \A which : /\ Defunct(outcome, which) \subseteq R
                    /\ \A r \in Defunct(outcome, which) :
                          /\ outcome[r] = which
                          /\ s = 0 \/ r < s
  BY <1>1, ServedIs
<1>3. /\ CopyEvents[1] = StdinEvents /\ CopyEvents[2] = Events(pair, "owner")
      /\ CopyEvents[3] = Events(pair, "owner") /\ CopyEvents[4] = StdoutEvents
      /\ CopyDirection[1] = "IN" /\ CopyDirection[2] = "OUT"
      /\ CopyDirection[3] = "IN" /\ CopyDirection[4] = "OUT"
  BY DEF CopyEvents, CopyDirection
<1>4. ASSUME NEW r \in R
      PROVE  /\ outcome[r] = "failed" <=> "ERR" \in CopyEvents[r]
             /\ outcome[r] = "hungup" =>
                   /\ "HUP" \in CopyEvents[r]
                   /\ CopyDirection[r] = "IN" => "IN" \notin CopyEvents[r]
             /\ outcome[r] = "ready" => r \in interested /\ CopyDirection[r] \in CopyEvents[r]
  <2> DEFINE b == r \in interested
             e == CopyEvents[r]
             dir == CopyDirection[r]
  <2>1. outcome[r] = Outcome(dir, b, e)  BY <1>1
  <2>2. b <=> r \in interested  OBVIOUS
  <2>3. dir \in {"IN", "OUT"}  BY <1>3
  <2> HIDE DEF b, e, dir
  <2>4. /\ outcome[r] = "failed" <=> "ERR" \in e
        /\ outcome[r] = "hungup" => "HUP" \in e /\ (dir = "IN" => "IN" \notin e)
        /\ outcome[r] = "ready" => b /\ dir \in e
    BY <2>1, <2>3 DEF Outcome
  <2> QED  BY <2>2, <2>4 DEF e, dir
<1>5. /\ "ERR" \notin StdinEvents /\ "ERR" \notin Events(pair, "owner")
      /\ "ERR" \in StdoutEvents => stdout = "gone"
      /\ "HUP" \notin StdoutEvents
  BY DEF StdinEvents, Events, StdoutEvents, TypeInv
<1>6. "HUP" \in StdinEvents /\ "IN" \notin StdinEvents =>
         stdin.end = "hangup" /\ stdin.arrived = 0
  BY DEF StdinEvents, TypeInv
<1>7. /\ "HUP" \in Events(pair, "owner") =>
            "owner" \in pair.no_send /\ "IN" \in Events(pair, "owner")
      /\ "IN" \in Events(pair, "owner") =>
            pair.queued["owner"] > 0 \/ "owner" \in pair.no_receive
  BY DEF Events
<1> HIDE DEF s
<1>8. ASSUME NEW r \in Defunct(outcome, "failed") PROVE r = 4 /\ stdout = "gone" /\ s = 0
  <2>1. r \in R /\ r \in 1 .. 4 /\ "ERR" \in CopyEvents[r] /\ (s = 0 \/ r < s)
    BY <1>2, <1>4
  <2>2. r = 4 /\ stdout = "gone"  BY <1>3, <1>5, <2>1
  <2> QED  BY <1>2, <2>1, <2>2
<1>9. ASSUME NEW r \in Defunct(outcome, "hungup")
      PROVE  \/ r = 1 /\ stdin.end = "hangup" /\ stdin.arrived = 0
             \/ r = 2 /\ "owner" \in pair.no_send
  <2>1. /\ r \in R /\ r \in 1 .. 4 /\ "HUP" \in CopyEvents[r]
        /\ CopyDirection[r] = "IN" => "IN" \notin CopyEvents[r]
    BY <1>2, <1>4
  <2> QED  BY <1>3, <1>5, <1>6, <1>7, <2>1
<1>10. s # 0 => s \in interested /\ CopyDirection[s] \in CopyEvents[s]
  BY <1>2, <1>4
<1>11. s = 1 => Defunct(outcome, "failed") \union Defunct(outcome, "hungup") = {}
  <2> SUFFICES ASSUME s = 1, NEW which, NEW r \in Defunct(outcome, which) PROVE FALSE
    OBVIOUS
  <2>1. r \in R /\ (s = 0 \/ r < s)  BY <1>2
  <2> QED  BY <2>1
<1>12. s = 3 => pair.queued["owner"] > 0 \/ "owner" \in pair.no_receive
  BY <1>3, <1>7, <1>10
<1> QED  BY <1>1, <1>2, <1>8, <1>9, <1>10, <1>11, <1>12 DEF s, CopySeen

\* What the sweep and the walk make of the copy.
GaveUp(d) ==
    /\ d \in CopyStates /\ d.rules \subseteq copy.rules
    /\ d.outbound.pushed = copy.outbound.pushed /\ d.outbound.popped = copy.outbound.popped
    /\ d.inbound.pushed = copy.inbound.pushed /\ d.inbound.popped = copy.inbound.popped
    /\ d.input = copy.input /\ d.socket = copy.socket /\ d.output = copy.output
    /\ copy.outbound.closed => d.outbound.closed
    /\ d.outbound.closed => \/ copy.outbound.closed
                            \/ stdin.end = "hangup" /\ stdin.arrived = 0
                            \/ "owner" \in pair.no_send
    /\ copy.inbound.closed => d.inbound.closed
    /\ d.inbound.closed => copy.inbound.closed \/ d.inbound.error
    /\ d.outbound.error <=> d.inbound.error
    /\ copy.inbound.error => d.inbound.error
    /\ d.inbound.error => \/ copy.inbound.error
                          \/ stdout = "gone" /\ 4 \notin d.rules /\ ~copy.output.closed
    /\ 1 \in copy.rules \ d.rules => d.outbound.closed
    /\ 2 \in copy.rules \ d.rules => d.outbound.closed /\ "owner" \in pair.no_send
    /\ 3 \in copy.rules \ d.rules => d.inbound.closed
    /\ 4 \in copy.rules \ d.rules =>
          d.inbound.closed /\ (IsFinished(copy.inbound) \/ d.inbound.error)

\* A step of anyone else leaves what is sent and acknowledged alone.
LEMMA SentKeeps ==
    ASSUME SentInv, tcp'.outbound = tcp.outbound, tcp'.fin_sent = tcp.fin_sent,
           tcp'.acked = tcp.acked, UNCHANGED <<remote, tun>>
    PROVE  SentInv'
BY DEF SentInv, SentNumbers

\* An iteration that only gives up rules for these reasons keeps the invariant.
LEMMA GaveUpKeeps ==
    ASSUME IInv, owner.pc = "poll", GaveUp(copy'), UNCHANGED <<tcp, thread, pair, fate, world>>,
           owner' \in OwnerPlaces, owner'.pc # "abort", OwnerReady', fate = "running",
           Sound' /\ owner'.pc \in {"close", "join"} =>
               IsFinished(copy'.outbound) /\ IsFinished(copy'.inbound)
    PROVE  IInv'
<1> USE DEF world
<1>1. TypeInv'  BY DEF IInv, TypeInv, GaveUp
<1>2. Counted' /\ SentInv'
  <2>1. SentInv'  BY SentKeeps DEF IInv
  <2> QED  BY <2>1 DEF IInv, Counted, GaveUp, Buffered
<1>3. TCPInv' /\ TunInv'  BY DEF IInv, TCPInv, TunInv
<1>4. ThreadReady'  BY DEF IInv, ThreadReady
<1>5. CopyInv'
  <2>1. /\ copy'.outbound.error <=> copy'.inbound.error
        /\ copy'.inbound.error =>
              stdout' = "gone" /\ 4 \notin copy'.rules /\ ~copy'.output.closed
        /\ copy'.input.eof => copy'.outbound.closed
        /\ ~copy'.socket.closed
        /\ copy'.socket.eof => copy'.inbound.closed
        /\ ~({1, 2} \subseteq copy'.rules) => copy'.outbound.closed
        /\ ~({3, 4} \subseteq copy'.rules) => copy'.inbound.closed
    BY DEF IInv, CopyInv, GaveUp
  <2>2. IsFinished(copy.inbound) => IsFinished(copy'.inbound)
    BY DEF IsFinished, Buffered, GaveUp
  <2>3. copy'.output.closed => IsFinished(copy'.inbound)
    BY <2>2 DEF IInv, CopyInv, GaveUp
  <2>4. 4 \notin copy'.rules => IsFinished(copy'.inbound) \/ copy'.inbound.error
    BY <2>2 DEF IInv, CopyInv, GaveUp
  <2> QED  BY <2>1, <2>3, <2>4 DEF CopyInv
<1>6. EndsInv'
  <2> SUFFICES ASSUME Sound' PROVE EndsInv'  BY DEF EndsInv
  <2>1. Sound  BY DEF Sound, GaveUp
  <2>2. OwnAccord  BY DEF OwnAccord, Aborted
  <2>3. "owner" \in pair.no_send => IsFinished(copy.outbound)
    BY <2>1, <2>2 DEF IInv, EndsInv
  <2>4. /\ IsFinished(copy.outbound) => IsFinished(copy'.outbound)
        /\ IsFinished(copy.inbound) => IsFinished(copy'.inbound)
    BY DEF IsFinished, Buffered, GaveUp
  <2>5. ~copy'.inbound.error  BY DEF Sound
  <2>6. copy'.outbound.closed => stdin'.end \in {"eof", "hangup"} /\ stdin'.arrived = 0
    BY <2>1, <2>3 DEF IInv, EndsInv, GaveUp, IsFinished
  <2>7. 2 \notin copy'.rules => IsFinished(copy'.outbound)
    BY <2>1, <2>3, <2>4 DEF IInv, EndsInv, GaveUp
  <2>8. /\ OwnAccord' /\ ("owner" \in pair'.no_send \/ "thread" \in pair'.no_receive) =>
              IsFinished(copy'.outbound)
        /\ tcp'.outbound.closed => IsFinished(copy'.outbound) /\ pair'.queued["thread"] = 0
        /\ OwnAccord' /\ ("thread" \in pair'.no_send \/ "owner" \in pair'.no_receive) =>
              IsFinished(tcp'.inbound)
        /\ 3 \notin tcp'.rules => IsFinished(tcp'.inbound)
        /\ OwnAccord' /\ thread'.pc = "done" => SenderFinished(tcp') /\ IsFinished(tcp'.inbound)
    BY <2>1, <2>2, <2>4 DEF IInv, EndsInv
  <2>9. copy'.inbound.closed => IsFinished(tcp'.inbound) /\ pair'.queued["owner"] = 0
    BY <2>1, <2>5 DEF IInv, EndsInv, GaveUp
  <2> QED  BY <2>6, <2>7, <2>8, <2>9 DEF EndsInv
<1>7. FateInv'
  BY DEF IInv, FateInv, Aborted, Undisturbed
<1> QED  BY <1>1, <1>2, <1>3, <1>4, <1>5, <1>6, <1>7 DEF IInv

\* The places of the owner and of the thread tell their rules apart.
LEMMA PlaceIs ==
    /\ \A pc \in {"poll", "close", "join", "abort"} :
          /\ At(pc) \in OwnerPlaces /\ At(pc).pc = pc
          /\ \A r \in 1 .. 4 : At(pc) # Serving(r)
    /\ \A r \in 1 .. 4 :
          /\ Serving(r) \in OwnerPlaces /\ Serving(r).pc = "serve" /\ Serving(r).rule = r
          /\ \A q \in 1 .. 4 : Serving(q) = Serving(r) => q = r
    /\ \A pc \in {"poll", "done"} :
          At(pc) \in ThreadPlaces /\ At(pc).pc = pc /\ \A r \in 1 .. 4 : At(pc) # Serving(r)
    /\ \A r \in 1 .. 3 : Serving(r) \in ThreadPlaces
    /\ Serving(0) = At("poll")
<1>1. \A r \in 1 .. 4 : Serving(r) = [pc |-> "serve", rule |-> r]  BY DEF Serving
<1>2. \A pc : At(pc) = [pc |-> pc, rule |-> 0]  BY DEF At
<1>3. Serving(0) = At("poll")  BY DEF Serving
<1>4. \A r \in 1 .. 4 : Serving(r).pc = "serve" /\ Serving(r).rule = r  BY <1>1
<1>5. \A pc : At(pc).pc = pc /\ At(pc).rule = 0  BY <1>2
<1>6. /\ \A pc \in {"poll", "close", "join", "abort"} : At(pc) \in OwnerPlaces
      /\ \A r \in 1 .. 4 : Serving(r) \in OwnerPlaces
      /\ \A pc \in {"poll", "done"} : At(pc) \in ThreadPlaces
      /\ \A r \in 1 .. 3 : Serving(r) \in ThreadPlaces
  BY DEF OwnerPlaces, ThreadPlaces
<1>7. \A pc \in {"poll", "close", "join", "abort", "done"} : \A r \in 1 .. 4 : At(pc) # Serving(r)
  BY <1>4, <1>5
<1>8. \A r, q \in 1 .. 4 : Serving(q) = Serving(r) => q = r
  BY <1>4
<1> QED  BY <1>3, <1>4, <1>5, <1>6, <1>7, <1>8

\* The owner's poll().
LEMMA OwnerPollsKeeps ==
    ASSUME IInv, OwnerPolls
    PROVE  IInv'
<1> DEFINE c == CopySwept(copy)
           interested == CopyInterest(c)
           outcome == Outcomes(c.rules, CopyDirection, interested, CopyEvents)
           d == CopyWalked(c, outcome)
           s == Served(outcome)
           F == Defunct(outcome, "failed")
           H == Defunct(outcome, "hungup")
<1>1. /\ TypeInv /\ CopyInv /\ copy \in CopyStates  BY DEF IInv, TypeInv
<1>2. /\ c \in CopyStates /\ OnlyRules(copy, c) /\ c.rules \subseteq copy.rules
      /\ 2 \in copy.rules => 2 \in c.rules
      /\ 1 \in copy.rules /\ 1 \notin c.rules => copy.outbound.closed
      /\ 3 \in copy.rules /\ 3 \notin c.rules => copy.inbound.closed
      /\ 4 \in copy.rules /\ 4 \notin c.rules => IsFinished(copy.inbound)
      /\ 4 \in c.rules => ~copy.output.closed
  BY <1>1, SweptKeeps
<1>3. /\ owner.pc = "poll" /\ fate = "running" /\ UNCHANGED <<thread, tcp, pair, fate, world>>
      /\ \/ interested = {} /\ copy' = c /\ owner' = At("close")
         \/ copy' = d /\ owner' = Serving(s)
  BY DEF OwnerPolls
<1>4. c.rules \in SUBSET (1 .. 4)  BY <1>2 DEF CopyStates
<1>5. /\ DOMAIN outcome = c.rules /\ F \subseteq {4} /\ H \subseteq {1, 2}
      /\ F \subseteq c.rules /\ H \subseteq c.rules
      /\ 4 \in F => stdout = "gone" /\ s = 0
      /\ 1 \in H => stdin.end = "hangup" /\ stdin.arrived = 0
      /\ 2 \in H => "owner" \in pair.no_send
      /\ s \in c.rules \union {0} /\ (s # 0 => s \in interested)
      /\ s = 1 => F \union H = {}
      /\ s = 3 => pair.queued["owner"] > 0 \/ "owner" \in pair.no_receive
  <2>1. CopySeen(c.rules, interested, outcome)
    <3> DEFINE R == c.rules
    <3>1. R \in SUBSET (1 .. 4) /\ outcome = Outcomes(R, CopyDirection, interested, CopyEvents)
      BY <1>4
    <3> HIDE DEF R, outcome, interested
    <3>2. CopySeen(R, interested, outcome)  BY <1>1, <3>1, CopySees
    <3> QED  BY <3>2 DEF R
  <2> QED  BY <2>1 DEF CopySeen
<1>6. /\ d \in CopyStates /\ d.rules = c.rules \ (F \union H)
      /\ Changed(c.outbound, d.outbound, (F \union H) \intersect {1, 2} # {}, F # {})
      /\ Changed(c.inbound, d.inbound, (F \union H) \intersect {3, 4} # {}, F # {})
      /\ d.outbound_shutdown = c.outbound_shutdown
      /\ d.inbound_shutdown = c.inbound_shutdown
      /\ d.input = c.input /\ d.socket = c.socket /\ d.output = c.output
  BY <1>2, <1>5, WalkedIs
<1>7. Interested(c, interested)  BY <1>2, CopyInterestIs
<1> HIDE DEF c, interested, outcome, d, s, F, H
<1>8. CASE interested = {} /\ copy' = c /\ owner' = At("close")
  <2>1. GaveUp(c)
    BY <1>1, <1>2 DEF GaveUp, OnlyRules, CopyInv, IsFinished
  <2>2. owner' \in OwnerPlaces /\ owner'.pc = "close" /\ \A r \in 1 .. 4 : owner' # Serving(r)
    BY <1>8, PlaceIs
  <2>3. OwnerReady'  BY <2>2 DEF OwnerReady
  <2>4. ASSUME Sound' PROVE IsFinished(c.outbound) /\ IsFinished(c.inbound)
    <3>1. /\ Sound /\ ~c.outbound.error /\ ~c.inbound.error
      BY <1>1, <1>2, <1>3, <1>8, <2>4 DEF Sound, OnlyRules, CopyInv, world
    <3>2. /\ c.outbound = copy.outbound /\ c.inbound = copy.inbound  BY <1>2 DEF OnlyRules
    <3>3. /\ Buffered(c.outbound) \in 0 .. BufferSize /\ Buffered(c.inbound) \in 0 .. BufferSize
          /\ BufferSize \in Nat \ {0}
      BY <3>2, BufferAssumption DEF IInv, Counted
    <3>4. IsFinished(c.outbound)
      <4>1. CASE 2 \notin copy.rules  BY <3>1, <3>2, <4>1 DEF IInv, EndsInv
      <4>2. CASE 2 \in copy.rules
        <5>1. Buffered(c.outbound) = 0
          BY <1>2, <1>7, <1>8, <3>3, <4>2 DEF Interested
        <5>2. c.outbound.closed
          <6>1. 1 \notin c.rules \/ c.outbound.closed
            BY <1>2, <1>7, <1>8, <3>1, <3>3, <5>1 DEF Interested
          <6> QED  BY <1>1, <1>2, <3>2, <6>1 DEF CopyInv
        <5> QED  BY <5>1, <5>2 DEF IsFinished
      <4> QED  BY <4>1, <4>2
    <3>5. IsFinished(c.inbound)
      <4>1. CASE 4 \notin c.rules  BY <1>1, <1>2, <3>1, <3>2, <4>1 DEF CopyInv
      <4>2. CASE 4 \in c.rules
        <5>1. Buffered(c.inbound) = 0
          BY <1>2, <1>7, <1>8, <3>3, <4>2 DEF Interested
        <5>2. c.inbound.closed
          <6>1. 3 \notin c.rules \/ c.inbound.closed
            BY <1>2, <1>7, <1>8, <3>1, <3>3, <5>1 DEF Interested
          <6> QED  BY <1>1, <1>2, <3>2, <6>1 DEF CopyInv
        <5> QED  BY <5>1, <5>2 DEF IsFinished
      <4> QED  BY <4>1, <4>2
    <3> QED  BY <3>4, <3>5
  <2> QED  BY <1>3, <1>8, <2>1, <2>2, <2>3, <2>4, GaveUpKeeps
<1>9. CASE copy' = d /\ owner' = Serving(s)
  <2>1. /\ d.outbound.closed <=> c.outbound.closed \/ 1 \in H \/ 2 \in H
        /\ d.inbound.closed <=> c.inbound.closed \/ 4 \in F
        /\ d.outbound.error <=> c.outbound.error \/ 4 \in F
        /\ d.inbound.error <=> c.inbound.error \/ 4 \in F
        /\ d.outbound.pushed = c.outbound.pushed /\ d.outbound.popped = c.outbound.popped
        /\ d.inbound.pushed = c.inbound.pushed /\ d.inbound.popped = c.inbound.popped
    <3>1. /\ F # {} <=> 4 \in F
          /\ (F \union H) \intersect {1, 2} # {} <=> 1 \in H \/ 2 \in H
          /\ (F \union H) \intersect {3, 4} # {} <=> 4 \in F
      <4>1. F \subseteq {4} /\ H \subseteq {1, 2}  BY <1>5
      <4>2. F # {} <=> 4 \in F  BY <4>1
      <4>3. (F \union H) \intersect {1, 2} # {} <=> 1 \in H \/ 2 \in H  BY <4>1
      <4>4. (F \union H) \intersect {3, 4} # {} <=> 4 \in F  BY <4>1
      <4> QED  BY <4>2, <4>3, <4>4
    <3> QED  BY <1>6, <3>1 DEF Changed
  <2>2. GaveUp(d)
    BY <1>1, <1>2, <1>5, <1>6, <2>1 DEF GaveUp, OnlyRules, CopyInv, IsFinished
  <2>3. s \in 0 .. 4  BY <1>4, <1>5
  <2>4. owner' \in OwnerPlaces /\ owner'.pc \in {"poll", "serve"}
    BY <1>9, <2>3, PlaceIs
  <2>5. \A r \in 1 .. 4 : owner' = Serving(r) => s = r
    <3>1. CASE s = 0  BY <1>9, <3>1, PlaceIs
    <3>2. CASE s \in 1 .. 4  BY <1>9, <3>2, PlaceIs
    <3> QED  BY <2>3, <3>1, <3>2
  <2>6. /\ Buffered(d.outbound) = Buffered(c.outbound)
        /\ Buffered(d.inbound) = Buffered(c.inbound)
    BY <2>1 DEF Buffered
  <2>7. OwnerReady'
    <3>1. s = 1 => ~d.outbound.closed /\ Buffered(d.outbound) < BufferSize
      BY <1>2, <1>5, <1>7, <2>1, <2>6 DEF Interested
    <3>2. s = 2 => Buffered(d.outbound) > 0 \/ d.outbound.closed
      BY <1>2, <1>5, <1>7, <2>1, <2>6 DEF Interested, IsFinished
    <3>3. s = 3 => /\ ~d.inbound.closed /\ Buffered(d.inbound) < BufferSize
                   /\ pair.queued["owner"] > 0 \/ "owner" \in pair.no_receive
      BY <1>2, <1>5, <1>7, <2>1, <2>6 DEF Interested
    <3>4. s = 4 => 4 \in d.rules /\ (Buffered(d.inbound) > 0 \/ d.inbound.closed)
      BY <1>2, <1>5, <1>6, <1>7, <2>1, <2>6 DEF Interested, IsFinished
    <3> QED  BY <1>3, <1>9, <2>5, <3>1, <3>2, <3>3, <3>4 DEF OwnerReady
  <2> QED  BY <1>3, <1>9, <2>2, <2>4, <2>7, GaveUpKeeps
<1> QED  BY <1>3, <1>8, <1>9

-----------------------------------------------------------------------------
\* What the callbacks make of a copy, of the TCP thread's state and of the pair.
LEMMA StreamIs ==
    ASSUME NEW s \in StreamStates, NEW n \in Nat
    PROVE  /\ ~s.closed => /\ PushBytes(s, n).pushed = s.pushed + n
                           /\ PushBytes(s, n).popped = s.popped
                           /\ ~PushBytes(s, n).closed /\ (PushBytes(s, n).error <=> s.error)
           /\ PopBytes(s, n).pushed = s.pushed /\ PopBytes(s, n).popped = s.popped + n
           /\ PopBytes(s, n).closed <=> s.closed
           /\ PopBytes(s, n).error <=> s.error
           /\ CloseStream(s).pushed = s.pushed /\ CloseStream(s).popped = s.popped
           /\ CloseStream(s).closed /\ (CloseStream(s).error <=> s.error)
           /\ SetError(s).pushed = s.pushed /\ SetError(s).popped = s.popped
           /\ (SetError(s).closed <=> s.closed) /\ SetError(s).error
<1>1. ~s.closed => /\ PushBytes(s, n).pushed = s.pushed + n
                   /\ PushBytes(s, n).popped = s.popped
                   /\ ~PushBytes(s, n).closed /\ (PushBytes(s, n).error <=> s.error)
  BY DEF StreamStates, PushBytes
<1>2. /\ PopBytes(s, n).pushed = s.pushed /\ PopBytes(s, n).popped = s.popped + n
      /\ PopBytes(s, n).closed <=> s.closed
      /\ PopBytes(s, n).error <=> s.error
  BY DEF StreamStates, PopBytes
<1>3. /\ CloseStream(s).pushed = s.pushed /\ CloseStream(s).popped = s.popped
      /\ CloseStream(s).closed /\ (CloseStream(s).error <=> s.error)
  BY DEF StreamStates, CloseStream
<1>4. /\ SetError(s).pushed = s.pushed /\ SetError(s).popped = s.popped
      /\ (SetError(s).closed <=> s.closed) /\ SetError(s).error
  BY DEF StreamStates, SetError
<1> QED  BY <1>1, <1>2, <1>3, <1>4

\* Streams and flags that one direction of the copy leaves alone.
SameInbound(c, d) ==
    /\ d \in CopyStates /\ d.rules = c.rules
    /\ d.inbound = c.inbound /\ d.inbound_shutdown = c.inbound_shutdown
    /\ d.output = c.output

SameOutbound(c, d) ==
    /\ d \in CopyStates /\ d.rules = c.rules
    /\ d.outbound = c.outbound /\ d.outbound_shutdown = c.outbound_shutdown
    /\ d.input = c.input

\* Rule 1 of the copy leaves the inbound direction alone.
LEMMA InputIs ==
    ASSUME NEW c \in CopyStates, NEW n \in Nat
    PROVE  LET d == CopyInput(c, n)
           IN  /\ SameInbound(c, d) /\ d.socket = c.socket
               /\ n = 0 => d.outbound = CloseStream(c.outbound) /\ d.input = ReachEOF(c.input)
               /\ n # 0 => d.outbound = PushBytes(c.outbound, n) /\ d.input = c.input
<1>1. c.outbound \in StreamStates /\ c.input \in FileDescriptors  BY DEF CopyStates
<1>2. /\ CloseStream(c.outbound) \in StreamStates /\ PushBytes(c.outbound, n) \in StreamStates
      /\ ReachEOF(c.input) \in FileDescriptors
  BY <1>1, StreamTypes, DescriptorTypes
<1>3. CASE n = 0
  <2>1. CopyInput(c, n) = [c EXCEPT !.input = ReachEOF(c.input),
                                    !.outbound = CloseStream(c.outbound)]
    BY <1>3 DEF CopyInput
  <2> QED  BY <1>2, <1>3, <2>1 DEF CopyStates, SameInbound
<1>4. CASE n # 0
  <2>1. CopyInput(c, n) = [c EXCEPT !.outbound = PushBytes(c.outbound, n)]
    BY <1>4 DEF CopyInput
  <2> QED  BY <1>2, <1>4, <2>1 DEF CopyStates, SameInbound
<1> QED  BY <1>3, <1>4

\* Rule 3 leaves the outbound direction alone.
LEMMA ReceivedIs ==
    ASSUME NEW c \in CopyStates, NEW n \in Nat
    PROVE  LET d == CopyReceived(c, n)
           IN  /\ SameOutbound(c, d) /\ d.output = c.output
               /\ d.inbound_shutdown = c.inbound_shutdown
               /\ n = 0 => d.inbound = CloseStream(c.inbound) /\ d.socket = ReachEOF(c.socket)
               /\ n # 0 => d.inbound = PushBytes(c.inbound, n) /\ d.socket = c.socket
<1>1. c.inbound \in StreamStates /\ c.socket \in FileDescriptors  BY DEF CopyStates
<1>2. /\ CloseStream(c.inbound) \in StreamStates /\ PushBytes(c.inbound, n) \in StreamStates
      /\ ReachEOF(c.socket) \in FileDescriptors
  BY <1>1, StreamTypes, DescriptorTypes
<1>3. CASE n = 0
  <2>1. CopyReceived(c, n) = [c EXCEPT !.socket = ReachEOF(c.socket),
                                       !.inbound = CloseStream(c.inbound)]
    BY <1>3 DEF CopyReceived
  <2> QED  BY <1>2, <1>3, <2>1 DEF CopyStates, SameOutbound
<1>4. CASE n # 0
  <2>1. CopyReceived(c, n) = [c EXCEPT !.inbound = PushBytes(c.inbound, n)]
    BY <1>4 DEF CopyReceived
  <2> QED  BY <1>2, <1>4, <2>1 DEF CopyStates, SameOutbound
<1> QED  BY <1>3, <1>4

\* Rule 2 takes bytes from the outbound stream.
LEMMA ForwardedIs ==
    ASSUME NEW c \in CopyStates, NEW n \in Nat
    PROVE  LET d == CopyForwarded(c, n)
           IN  /\ SameInbound(c, d) /\ d.socket = c.socket /\ d.input = c.input
               /\ d.outbound = PopBytes(c.outbound, n)
<1> DEFINE out == PopBytes(c.outbound, n)
           b == c.outbound_shutdown \/ IsFinished(out)
<1>1. c.outbound \in StreamStates  BY DEF CopyStates
<1>2. out \in StreamStates  BY <1>1, StreamTypes
<1>3. CopyForwarded(c, n) = [c EXCEPT !.outbound = out, !.outbound_shutdown = b]
  BY DEF CopyForwarded
<1>4. b \in BOOLEAN  OBVIOUS
<1> HIDE DEF b, out
<1>5. CopyForwarded(c, n).outbound = out  BY <1>3 DEF CopyStates
<1>6. /\ SameInbound(c, CopyForwarded(c, n)) /\ CopyForwarded(c, n).socket = c.socket
      /\ CopyForwarded(c, n).input = c.input
  BY <1>2, <1>3, <1>4 DEF CopyStates, SameInbound
<1> QED  BY <1>5, <1>6 DEF out

\* Rule 4 takes bytes from the inbound stream, and closes standard output at its end.
LEMMA OutputIs ==
    ASSUME NEW c \in CopyStates, NEW n \in Nat
    PROVE  LET d == CopyOutput(c, n)
           IN  /\ SameOutbound(c, d) /\ d.socket = c.socket
               /\ d.inbound = PopBytes(c.inbound, n)
               /\ IsFinished(d.inbound) => d.output.closed
               /\ d.output.closed => c.output.closed \/ IsFinished(d.inbound)
<1> DEFINE in == PopBytes(c.inbound, n)
           b == c.inbound_shutdown \/ IsFinished(in)
           out == IF IsFinished(in) THEN CloseFD(c.output) ELSE c.output
<1>1. c.inbound \in StreamStates /\ c.output \in FileDescriptors  BY DEF CopyStates
<1>2. in \in StreamStates  BY <1>1, StreamTypes
<1>3. CopyOutput(c, n) = [c EXCEPT !.inbound = in, !.inbound_shutdown = b, !.output = out]
  BY DEF CopyOutput
<1>4. b \in BOOLEAN  OBVIOUS
<1>5. out \in FileDescriptors /\ (IsFinished(in) => out.closed)
      /\ (out.closed => c.output.closed \/ IsFinished(in))
  BY <1>1, DescriptorTypes
<1> HIDE DEF b, in, out
<1>6. CopyOutput(c, n).inbound = in /\ CopyOutput(c, n).output = out
  BY <1>3 DEF CopyStates
<1>7. SameOutbound(c, CopyOutput(c, n)) /\ CopyOutput(c, n).socket = c.socket
  BY <1>2, <1>3, <1>4, <1>5 DEF CopyStates, SameOutbound
<1> QED  BY <1>5, <1>6, <1>7 DEF in

\* Shutting a direction, or both, leaves the queued bytes alone.
LEMMA PairIs ==
    ASSUME NEW p \in Pairs, NEW e \in Ends
    PROVE  /\ ShutWrite(p, e) \in Pairs /\ ShutWrite(p, e).queued = p.queued
           /\ ShutWrite(p, e).no_send = p.no_send \union {e}
           /\ ShutWrite(p, e).no_receive = p.no_receive \union {Far(e)}
           /\ ShutBoth(p) \in Pairs /\ ShutBoth(p).queued = p.queued
           /\ ShutBoth(p).no_send = Ends /\ ShutBoth(p).no_receive = Ends
           /\ NewPair \in Pairs
<1>1. Far(e) \in Ends  BY DEF Far, Ends
<1>2. 0 \in 0 .. SocketRoom  BY RoomAssumption
<1> HIDE DEF Far, Ends
<1>3. /\ ShutWrite(p, e) \in Pairs /\ ShutWrite(p, e).queued = p.queued
      /\ ShutWrite(p, e).no_send = p.no_send \union {e}
      /\ ShutWrite(p, e).no_receive = p.no_receive \union {Far(e)}
  BY <1>1 DEF ShutWrite, Pairs
<1>4. /\ ShutBoth(p) \in Pairs /\ ShutBoth(p).queued = p.queued
      /\ ShutBoth(p).no_send = Ends /\ ShutBoth(p).no_receive = Ends
  BY DEF ShutBoth, Pairs
<1>5. NewPair \in Pairs  BY <1>2 DEF NewPair, Pairs
<1> QED  BY <1>3, <1>4, <1>5

\* Writing and reading move bytes of one direction.
LEMMA QueueIs ==
    ASSUME NEW p \in Pairs, NEW e \in Ends, NEW n \in Nat
    PROVE  /\ n <= Room(p, e) =>
                 /\ Wrote(p, e, n) \in Pairs
                 /\ Wrote(p, e, n).no_send = p.no_send
                 /\ Wrote(p, e, n).no_receive = p.no_receive
                 /\ Wrote(p, e, n).queued[Far(e)] = p.queued[Far(e)] + n
                 /\ Wrote(p, e, n).queued[e] = p.queued[e]
           /\ n <= p.queued[e] =>
                 /\ Got(p, e, n) \in Pairs
                 /\ Got(p, e, n).no_send = p.no_send
                 /\ Got(p, e, n).no_receive = p.no_receive
                 /\ Got(p, e, n).queued[e] = p.queued[e] - n
                 /\ Got(p, e, n).queued[Far(e)] = p.queued[Far(e)]
<1>1. Far(e) \in Ends /\ Far(e) # e  BY DEF Far, Ends
<1>2. /\ p.queued \in [Ends -> 0 .. SocketRoom] /\ SocketRoom \in Nat
      /\ p.queued[e] \in 0 .. SocketRoom /\ p.queued[Far(e)] \in 0 .. SocketRoom
  BY <1>1, RoomAssumption DEF Pairs
<1> HIDE DEF Ends, Far
<1>3. ASSUME n <= Room(p, e)
      PROVE  /\ Wrote(p, e, n) \in Pairs
             /\ Wrote(p, e, n).no_send = p.no_send
             /\ Wrote(p, e, n).no_receive = p.no_receive
             /\ Wrote(p, e, n).queued[Far(e)] = p.queued[Far(e)] + n
             /\ Wrote(p, e, n).queued[e] = p.queued[e]
  <2> DEFINE q == [p.queued EXCEPT ![Far(e)] = p.queued[Far(e)] + n]
  <2>1. p.queued[Far(e)] + n \in 0 .. SocketRoom  BY <1>2, <1>3 DEF Room
  <2>2. /\ q \in [Ends -> 0 .. SocketRoom] /\ q[Far(e)] = p.queued[Far(e)] + n
        /\ q[e] = p.queued[e]
    BY <1>1, <1>2, <2>1
  <2>3. Wrote(p, e, n) = [p EXCEPT !.queued = q]  BY DEF Wrote, Pairs
  <2> HIDE DEF q
  <2>4. /\ Wrote(p, e, n) \in Pairs /\ Wrote(p, e, n).queued = q
        /\ Wrote(p, e, n).no_send = p.no_send /\ Wrote(p, e, n).no_receive = p.no_receive
    BY <2>2, <2>3 DEF Pairs
  <2> QED  BY <2>2, <2>4
<1>4. ASSUME n <= p.queued[e]
      PROVE  /\ Got(p, e, n) \in Pairs
             /\ Got(p, e, n).no_send = p.no_send
             /\ Got(p, e, n).no_receive = p.no_receive
             /\ Got(p, e, n).queued[e] = p.queued[e] - n
             /\ Got(p, e, n).queued[Far(e)] = p.queued[Far(e)]
  <2> DEFINE q == [p.queued EXCEPT ![e] = p.queued[e] - n]
  <2>1. p.queued[e] - n \in 0 .. SocketRoom  BY <1>2, <1>4
  <2>2. /\ q \in [Ends -> 0 .. SocketRoom] /\ q[e] = p.queued[e] - n
        /\ q[Far(e)] = p.queued[Far(e)]
    BY <1>1, <1>2, <2>1
  <2>3. Got(p, e, n) = [p EXCEPT !.queued = q]  BY DEF Got, Pairs
  <2> HIDE DEF q
  <2>4. /\ Got(p, e, n) \in Pairs /\ Got(p, e, n).queued = q
        /\ Got(p, e, n).no_send = p.no_send /\ Got(p, e, n).no_receive = p.no_receive
    BY <2>2, <2>3 DEF Pairs
  <2> QED  BY <2>2, <2>4
<1> QED  BY <1>3, <1>4

-----------------------------------------------------------------------------
\* The callbacks of the owner.
LEMMA Capacities ==
    /\ BufferSize \in Nat \ {0} /\ SocketRoom \in Nat \ {0}
    /\ SendCapacity \in Nat \ {0} /\ RecvCapacity \in Nat \ {0}
    /\ StdinBytes \in Nat /\ RemoteBytes \in Nat /\ MaxSegments \in Nat
    /\ Windows \subseteq Nat
BY BufferAssumption, CapacityAssumption, RoomAssumption, BoundsAssumption

\* The types of what the callbacks look at.
LEMMA FieldTypes ==
    ASSUME TypeInv
    PROVE  /\ copy.outbound \in StreamStates /\ copy.inbound \in StreamStates
           /\ tcp.outbound \in StreamStates /\ tcp.inbound \in StreamStates
           /\ copy.outbound.pushed \in Nat /\ copy.outbound.popped \in Nat
           /\ copy.inbound.pushed \in Nat /\ copy.inbound.popped \in Nat
           /\ tcp.outbound.pushed \in Nat /\ tcp.outbound.popped \in Nat
           /\ tcp.inbound.pushed \in Nat /\ tcp.inbound.popped \in Nat
           /\ pair.queued["owner"] \in 0 .. SocketRoom
           /\ pair.queued["thread"] \in 0 .. SocketRoom
           /\ copy.input \in FileDescriptors /\ copy.socket \in FileDescriptors
           /\ copy.output \in FileDescriptors /\ tcp.data \in FileDescriptors
           /\ tcp.acked \in Nat /\ tcp.fin_sent \in BOOLEAN /\ tcp.window \in Nat
           /\ SentNumbers(tcp) \in Nat
BY DEF TypeInv, CopyStates, TCPStates, StreamStates, Pairs, Ends, SentNumbers

\* Once its callback has returned the owner is at poll().
LEMMA OwnerIsBack ==
    ASSUME owner' = At("poll")
    PROVE  /\ OwnerReady' /\ owner' \in OwnerPlaces /\ owner'.pc = "poll" /\ ~Aborted'
<1>1. owner' \in OwnerPlaces /\ owner'.pc = "poll" /\ \A r \in 1 .. 4 : owner' # Serving(r)
  BY PlaceIs
<1> QED  BY <1>1 DEF OwnerReady, Aborted

\* While a callback of the owner runs it has not given up.
LEMMA OwnerServing ==
    ASSUME NEW r \in 1 .. 4, OwnerServes(r), FateInv
    PROVE  /\ fate = "running" /\ owner = Serving(r) /\ owner.rule = r
           /\ ~Aborted /\ OwnAccord /\ owner.pc = "serve"
<1>1. fate = "running" /\ owner = Serving(r)  BY DEF OwnerServes
<1>2. owner.pc = "serve" /\ owner.rule = r  BY <1>1, PlaceIs
<1> QED  BY <1>1, <1>2 DEF Aborted, OwnAccord

\* Rule 1: read() throws.
LEMMA ReadStdinAborts ==
    ASSUME IInv, OwnerServes(1), stdin.end = "failed", owner' = At("abort"),
           UNCHANGED <<copy, thread, tcp, fate, pair, world>>
    PROVE  IInv'
<1> USE DEF world
<1>1. /\ fate = "running" /\ owner.pc = "serve" /\ ~Aborted /\ OwnAccord
  BY OwnerServing DEF IInv
<1>2. owner' \in OwnerPlaces /\ owner'.pc = "abort" /\ \A r \in 1 .. 4 : owner' # Serving(r)
  BY PlaceIs
<1>3. TypeInv'  BY <1>2 DEF IInv, TypeInv
<1>4. Counted' /\ SentInv' /\ CopyInv' /\ TCPInv' /\ TunInv'
  BY SentKeeps DEF IInv, Counted, CopyInv, TCPInv, TunInv
<1>5. OwnerReady'  BY <1>2 DEF OwnerReady
<1>6. ThreadReady'  BY DEF IInv, ThreadReady
<1>7. EndsInv'
  <2>1. (Sound' => Sound) /\ (OwnAccord' => OwnAccord)  BY <1>1 DEF Sound
  <2> QED  BY <1>1, <1>2, <2>1 DEF IInv, EndsInv
<1>8. FateInv'  BY <1>1 DEF IInv, FateInv, Undisturbed
<1> QED  BY <1>3, <1>4, <1>5, <1>6, <1>7, <1>8 DEF IInv

\* Rule 1: bytes, or the end of the file, are read.
LEMMA ReadStdinReads ==
    ASSUME IInv, OwnerServes(1), NEW n \in Nat,
           n <= stdin.arrived, n <= BufferSize - Buffered(copy.outbound),
           n = 0 => stdin.arrived = 0 /\ stdin.end = "eof",
           stdin' = [stdin EXCEPT !.arrived = @ - n],
           copy' = CopyInput(copy, n), owner' = At("poll"),
           UNCHANGED <<fate, thread, tcp, pair, tun, remote, stdout>>
    PROVE  IInv'
<1>1. /\ fate = "running" /\ owner.pc = "serve" /\ ~Aborted /\ OwnAccord
      /\ owner = Serving(1)
  BY OwnerServing DEF IInv
<1>2. /\ OwnerReady' /\ owner' \in OwnerPlaces /\ owner'.pc = "poll" /\ ~Aborted'
  BY OwnerIsBack
<1>3. TypeInv /\ copy \in CopyStates  BY DEF IInv, TypeInv
<1>4. /\ SameInbound(copy, copy') /\ copy'.socket = copy.socket
      /\ n = 0 => copy'.outbound = CloseStream(copy.outbound) /\ copy'.input = ReachEOF(copy.input)
      /\ n # 0 => copy'.outbound = PushBytes(copy.outbound, n) /\ copy'.input = copy.input
  BY <1>3, InputIs
<1>5. ~copy.outbound.closed  BY <1>1 DEF IInv, OwnerReady
<1>6. /\ copy'.outbound.pushed = copy.outbound.pushed + n
      /\ copy'.outbound.popped = copy.outbound.popped
      /\ copy'.outbound.closed <=> n = 0
      /\ copy'.outbound.error <=> copy.outbound.error
  <2>1. copy.outbound \in StreamStates /\ copy.outbound.pushed \in Nat  BY <1>3, FieldTypes
  <2>2. CASE n = 0  BY <1>4, <1>5, <2>1, <2>2, StreamIs
  <2>3. CASE n # 0  BY <1>4, <1>5, <2>1, <2>3, StreamIs
  <2> QED  BY <2>2, <2>3
<1>7. /\ copy'.rules = copy.rules /\ copy'.inbound = copy.inbound /\ copy'.output = copy.output
      /\ copy' \in CopyStates
  BY <1>4 DEF SameInbound
<1>8. /\ stdin'.arrived = stdin.arrived - n /\ stdin'.total = stdin.total
      /\ stdin'.end = stdin.end /\ stdin.arrived \in Nat
      /\ stdin' \in [arrived : Nat, total : 0 .. StdinBytes,
                     end : {"open", "eof", "hangup", "failed"}]
  BY <1>3 DEF TypeInv
<1>9. TypeInv'  BY <1>2, <1>3, <1>7, <1>8 DEF TypeInv
<1>10. Counted'
  <2>1. Counted  BY DEF IInv
  <2>2. stdin'.total = stdin'.arrived + copy'.outbound.pushed
    BY <1>3, <1>6, <1>8, <2>1, FieldTypes DEF Counted
  <2>3. Buffered(copy'.outbound) \in 0 .. BufferSize
    BY <1>3, <1>6, <2>1, FieldTypes, Capacities DEF Counted, Buffered
  <2> QED  BY <1>6, <1>7, <2>1, <2>2, <2>3 DEF Counted
<1>11. CopyInv'
  <2>1. CopyInv  BY DEF IInv
  <2>2. copy'.input.eof => copy'.outbound.closed
    BY <1>4, <1>5, <1>6, <2>1 DEF CopyInv
  <2> QED  BY <1>4, <1>5, <1>6, <1>7, <2>1, <2>2 DEF CopyInv
<1>12. SentInv' /\ TCPInv' /\ TunInv'  BY SentKeeps DEF IInv, TCPInv, TunInv
<1>13. ThreadReady'  BY DEF IInv, ThreadReady
<1>14. EndsInv'
  <2> SUFFICES ASSUME Sound' PROVE EndsInv'  BY DEF EndsInv
  <2>1. Sound /\ OwnAccord  BY <1>1, <1>7 DEF Sound
  <2>2. ~IsFinished(copy.outbound)  BY <1>5 DEF IsFinished
  <2>3. copy'.outbound.closed => stdin'.end \in {"eof", "hangup"} /\ stdin'.arrived = 0
    BY <1>6, <1>8
  <2>4. /\ 2 \in copy'.rules
        /\ "owner" \notin pair'.no_send /\ "thread" \notin pair'.no_receive
        /\ ~tcp'.outbound.closed
    BY <1>7, <2>1, <2>2 DEF IInv, EndsInv
  <2>5. /\ ("thread" \in pair'.no_send \/ "owner" \in pair'.no_receive) => IsFinished(tcp'.inbound)
        /\ copy'.inbound.closed => IsFinished(tcp'.inbound) /\ pair'.queued["owner"] = 0
        /\ 3 \notin tcp'.rules => IsFinished(tcp'.inbound)
        /\ thread'.pc = "done" => SenderFinished(tcp') /\ IsFinished(tcp'.inbound)
    BY <1>7, <2>1 DEF IInv, EndsInv
  <2> QED  BY <1>2, <2>3, <2>4, <2>5 DEF EndsInv
<1>15. FateInv'  BY <1>1, <1>2 DEF FateInv
<1> QED  BY <1>2, <1>9, <1>10, <1>11, <1>12, <1>13, <1>14, <1>15 DEF IInv

LEMMA LesserIs ==
    ASSUME NEW m \in Int, NEW n \in Int
    PROVE  Lesser(m, n) \in {m, n} /\ Lesser(m, n) <= m /\ Lesser(m, n) <= n
BY DEF Lesser

\* Rule 1, all cases.
LEMMA ReadStdinKeeps ==
    ASSUME IInv, ReadStdin
    PROVE  IInv'
<1>1. OwnerServes(1) /\ UNCHANGED <<pair, tun, remote, stdout>>  BY DEF ReadStdin
<1>2. CASE /\ stdin.end = "failed" /\ owner' = At("abort")
           /\ UNCHANGED <<copy, thread, tcp, fate, stdin>>
  BY <1>1, <1>2, ReadStdinAborts DEF world
<1> DEFINE n == Lesser(stdin.arrived, BufferSize - Buffered(copy.outbound))
<1>3. CASE /\ stdin.arrived > 0 \/ stdin.end = "eof"
           /\ stdin' = [stdin EXCEPT !.arrived = @ - n]
           /\ OwnerServed(CopyInput(copy, n), TRUE)
  <2>1. /\ stdin.arrived \in Nat /\ BufferSize - Buffered(copy.outbound) \in Nat \ {0}
    <3>1. owner = Serving(1) /\ Buffered(copy.outbound) \in 0 .. BufferSize /\ BufferSize \in Nat
      BY <1>1, Capacities DEF OwnerServes, IInv, Counted
    <3> QED  BY <3>1 DEF IInv, OwnerReady, TypeInv
  <2>2. /\ n \in Nat /\ n <= stdin.arrived /\ n <= BufferSize - Buffered(copy.outbound)
        /\ n = 0 => stdin.arrived = 0 /\ stdin.end = "eof"
    BY <1>3, <2>1, LesserIs
  <2> HIDE DEF n
  <2>3. /\ copy' = CopyInput(copy, n) /\ owner' = At("poll")
        /\ UNCHANGED <<fate, thread, tcp>>
    BY <1>3 DEF OwnerServed, BusyWait
  <2> QED  BY <1>1, <1>3, <2>2, <2>3, ReadStdinReads
<1> QED  BY <1>2, <1>3 DEF ReadStdin

\* A write to a socket or pipe that is shut kills the process.
LEMMA KillKeeps ==
    ASSUME IInv, Kill("killed"), UNCHANGED world, fate = "running", ~Undisturbed
    PROVE  IInv'
<1> USE DEF world, Kill
<1>1. TypeInv'  BY DEF IInv, TypeInv
<1>2. Counted' /\ SentInv' /\ CopyInv' /\ TCPInv' /\ TunInv'
  BY SentKeeps DEF IInv, Counted, CopyInv, TCPInv, TunInv
<1>3. OwnerReady' /\ ThreadReady'  BY DEF IInv, OwnerReady, ThreadReady
<1>4. EndsInv'  BY DEF IInv, EndsInv, Sound, OwnAccord, Aborted
<1>5. FateInv'  BY DEF IInv, FateInv, Aborted, Undisturbed
<1> QED  BY <1>1, <1>2, <1>3, <1>4, <1>5 DEF IInv

\* Rule 2: bytes are written to the socket, and it is shut after the last one.
LEMMA WriteSocketWrites ==
    ASSUME IInv, OwnerServes(2), NEW n \in Nat,
           n <= Buffered(copy.outbound), n <= Room(pair, "owner"),
           copy' = CopyForwarded(copy, n), owner' = At("poll"),
           pair' = IF IsFinished(copy'.outbound) THEN ShutWrite(Wrote(pair, "owner", n), "owner")
                   ELSE Wrote(pair, "owner", n),
           UNCHANGED <<fate, thread, tcp, world>>
    PROVE  IInv'
<1> USE DEF world
<1>1. /\ fate = "running" /\ owner.pc = "serve" /\ ~Aborted /\ OwnAccord
      /\ owner = Serving(2)
  BY OwnerServing DEF IInv
<1>2. /\ OwnerReady' /\ owner' \in OwnerPlaces /\ owner'.pc = "poll" /\ ~Aborted'
  BY OwnerIsBack
<1>3. TypeInv /\ copy \in CopyStates /\ pair \in Pairs  BY DEF IInv, TypeInv
<1>4. /\ SameInbound(copy, copy') /\ copy'.socket = copy.socket /\ copy'.input = copy.input
      /\ copy'.outbound = PopBytes(copy.outbound, n)
  BY <1>3, ForwardedIs
<1>5. /\ copy'.outbound.pushed = copy.outbound.pushed
      /\ copy'.outbound.popped = copy.outbound.popped + n
      /\ copy'.outbound.closed <=> copy.outbound.closed
      /\ copy'.outbound.error <=> copy.outbound.error
  <2>1. copy.outbound \in StreamStates  BY <1>3, FieldTypes
  <2> QED  BY <1>4, <2>1, StreamIs
<1>6. /\ copy'.rules = copy.rules /\ copy'.inbound = copy.inbound /\ copy'.output = copy.output
      /\ copy' \in CopyStates
  BY <1>4 DEF SameInbound
<1>7. /\ pair' \in Pairs
      /\ pair'.queued["thread"] = pair.queued["thread"] + n
      /\ pair'.queued["owner"] = pair.queued["owner"]
      /\ pair'.no_send \subseteq pair.no_send \union {"owner"}
      /\ pair'.no_receive \subseteq pair.no_receive \union {"thread"}
      /\ pair.no_receive \subseteq pair'.no_receive
      /\ IsFinished(copy'.outbound) \/ (/\ pair'.no_send = pair.no_send
                                        /\ pair'.no_receive = pair.no_receive)
  <2> DEFINE p == Wrote(pair, "owner", n)
  <2>0. "owner" \in Ends /\ Far("owner") = "thread"  BY DEF Ends, Far
  <2>1. /\ p \in Pairs /\ p.no_send = pair.no_send /\ p.no_receive = pair.no_receive
        /\ p.queued["thread"] = pair.queued["thread"] + n
        /\ p.queued["owner"] = pair.queued["owner"]
    BY <1>3, <2>0, QueueIs
  <2> HIDE DEF p
  <2>2. /\ ShutWrite(p, "owner") \in Pairs /\ ShutWrite(p, "owner").queued = p.queued
        /\ ShutWrite(p, "owner").no_send = p.no_send \union {"owner"}
        /\ ShutWrite(p, "owner").no_receive = p.no_receive \union {"thread"}
    BY <2>0, <2>1, PairIs
  <2>3. pair' = IF IsFinished(copy'.outbound) THEN ShutWrite(p, "owner") ELSE p
    BY DEF p
  <2> QED  BY <2>1, <2>2, <2>3
<1>8. TypeInv'  BY <1>2, <1>3, <1>6, <1>7 DEF TypeInv
<1>9. /\ Buffered(copy'.outbound) = Buffered(copy.outbound) - n
      /\ Buffered(copy'.outbound) \in 0 .. BufferSize
      /\ IsFinished(copy.outbound) => IsFinished(copy'.outbound) /\ n = 0
  BY <1>3, <1>5, FieldTypes, Capacities DEF IInv, Counted, Buffered, IsFinished
<1>10. Counted'
  <2>1. Counted  BY DEF IInv
  <2>2. copy'.outbound.popped = pair'.queued["thread"] + tcp'.outbound.pushed
    BY <1>3, <1>5, <1>7, <2>1, FieldTypes DEF Counted
  <2> QED  BY <1>5, <1>6, <1>7, <1>9, <2>1, <2>2 DEF Counted
<1>11. CopyInv'
  BY <1>4, <1>5, <1>6 DEF IInv, CopyInv
<1>12. SentInv' /\ TCPInv' /\ TunInv'  BY SentKeeps DEF IInv, TCPInv, TunInv
<1>13. ThreadReady'
  <2>1. ThreadReady /\ pair.queued["thread"] \in Nat  BY <1>3, FieldTypes DEF IInv
  <2> QED  BY <1>7, <2>1 DEF ThreadReady
<1>14. EndsInv'
  <2> SUFFICES ASSUME Sound' PROVE EndsInv'  BY DEF EndsInv
  <2>1. Sound /\ OwnAccord  BY <1>1, <1>6 DEF Sound
  <2>2. copy'.outbound.closed => stdin'.end \in {"eof", "hangup"} /\ stdin'.arrived = 0
    BY <1>5, <2>1 DEF IInv, EndsInv
  <2>3. 2 \notin copy'.rules => IsFinished(copy'.outbound)
    BY <1>6, <1>9, <2>1 DEF IInv, EndsInv
  <2>4. ("owner" \in pair'.no_send \/ "thread" \in pair'.no_receive) => IsFinished(copy'.outbound)
    BY <1>7, <1>9, <2>1 DEF IInv, EndsInv
  <2>5. tcp'.outbound.closed => IsFinished(copy'.outbound) /\ pair'.queued["thread"] = 0
    BY <1>7, <1>9, <2>1 DEF IInv, EndsInv
  <2>6. ("thread" \in pair'.no_send \/ "owner" \in pair'.no_receive) => IsFinished(tcp'.inbound)
    BY <1>7, <2>1 DEF IInv, EndsInv
  <2>7. /\ copy'.inbound.closed => IsFinished(tcp'.inbound) /\ pair'.queued["owner"] = 0
        /\ 3 \notin tcp'.rules => IsFinished(tcp'.inbound)
        /\ thread'.pc = "done" => SenderFinished(tcp') /\ IsFinished(tcp'.inbound)
    BY <1>6, <1>7, <2>1 DEF IInv, EndsInv
  <2> QED  BY <1>2, <2>2, <2>3, <2>4, <2>5, <2>6, <2>7 DEF EndsInv
<1>15. FateInv'  BY <1>1, <1>2 DEF FateInv
<1> QED  BY <1>2, <1>8, <1>10, <1>11, <1>12, <1>13, <1>14, <1>15 DEF IInv

\* Rule 2: the socket is never shut before the last byte, so nothing kills the
\* process unless the run was disturbed.
LEMMA WriteSocketKeeps ==
    ASSUME IInv, WriteSocket
    PROVE  IInv'
<1>1. OwnerServes(2) /\ UNCHANGED world  BY DEF WriteSocket
<1>2. /\ fate = "running" /\ owner.pc = "serve" /\ ~Aborted /\ OwnAccord
      /\ owner = Serving(2) /\ owner.rule = 2
  BY <1>1, OwnerServing DEF IInv
<1>3. TypeInv /\ copy \in CopyStates /\ pair \in Pairs  BY DEF IInv, TypeInv
<1>4. Buffered(copy.outbound) \in Nat /\ Room(pair, "owner") \in Int
  <2>1. pair.queued["thread"] \in 0 .. SocketRoom  BY <1>3, FieldTypes
  <2> QED  BY <2>1, Capacities DEF IInv, Counted, Room, Far
<1>5. CASE Buffered(copy.outbound) > 0 /\ ~Writable(pair, "owner") /\ Kill("killed")
  <2>1. ~Undisturbed
    <3> SUFFICES ASSUME Undisturbed PROVE FALSE  OBVIOUS
    <3>1. Sound  BY DEF Undisturbed, Sound, IInv, CopyInv
    <3>2. IsFinished(copy.outbound)
      BY <1>2, <1>5, <3>1 DEF IInv, EndsInv, Writable
    <3> QED  BY <1>5, <3>2 DEF IsFinished
  <2> QED  BY <1>1, <1>2, <1>5, <2>1, KillKeeps
<1>6. ASSUME NEW n \in 0 .. Lesser(Buffered(copy.outbound), Room(pair, "owner")),
             Buffered(copy.outbound) > 0 => n > 0,
             pair' = IF IsFinished(CopyForwarded(copy, n).outbound)
                     THEN ShutWrite(Wrote(pair, "owner", n), "owner")
                     ELSE Wrote(pair, "owner", n),
             OwnerServed(CopyForwarded(copy, n),
                         n > 0 \/ IsFinished(CopyForwarded(copy, n).outbound))
      PROVE  IInv'
  <2>1. n \in Nat /\ n <= Buffered(copy.outbound) /\ n <= Room(pair, "owner")
    <3> DEFINE l == Lesser(Buffered(copy.outbound), Room(pair, "owner"))
    <3>1. l \in Int /\ l <= Buffered(copy.outbound) /\ l <= Room(pair, "owner")
      BY <1>4, LesserIs
    <3> HIDE DEF l
    <3>2. n \in 0 .. l  BY DEF l
    <3> QED  BY <1>4, <3>1, <3>2
  <2>2. /\ copy' = CopyForwarded(copy, n) /\ owner' = At("poll")
        /\ UNCHANGED <<thread, tcp>>
    BY <1>6 DEF OwnerServed
  <2>3. n > 0 \/ IsFinished(CopyForwarded(copy, n).outbound)
    <3> SUFFICES ASSUME n = 0 PROVE IsFinished(CopyForwarded(copy, n).outbound)
      BY <2>1
    <3>1. Buffered(copy.outbound) = 0  BY <1>4, <1>6
    <3>2. copy.outbound.closed  BY <1>2, <3>1 DEF IInv, OwnerReady
    <3>3. /\ CopyForwarded(copy, n).outbound = PopBytes(copy.outbound, n)
          /\ copy.outbound \in StreamStates
          /\ copy.outbound.pushed \in Nat /\ copy.outbound.popped \in Nat
      BY <1>3, <2>1, FieldTypes, ForwardedIs
    <3> QED  BY <2>1, <3>1, <3>2, <3>3, StreamIs DEF IsFinished, Buffered
  <2>4. fate' = fate  BY <1>6, <2>3 DEF OwnerServed, BusyWait
  <2>5. pair' = IF IsFinished(copy'.outbound) THEN ShutWrite(Wrote(pair, "owner", n), "owner")
                ELSE Wrote(pair, "owner", n)
    BY <1>6, <2>2
  <2> QED  BY <1>1, <2>1, <2>2, <2>4, <2>5, WriteSocketWrites
<1> QED  BY <1>5, <1>6 DEF WriteSocket

\* Rule 3.
LEMMA ReadSocketKeeps ==
    ASSUME IInv, ReadSocket
    PROVE  IInv'
<1> USE DEF world
<1> DEFINE n == Lesser(pair.queued["owner"], BufferSize - Buffered(copy.inbound))
<1>1. OwnerServes(3) /\ UNCHANGED world  BY DEF ReadSocket
<1>2. /\ fate = "running" /\ owner.pc = "serve" /\ ~Aborted /\ OwnAccord
      /\ owner = Serving(3)
  BY <1>1, OwnerServing DEF IInv
<1>3. TypeInv /\ copy \in CopyStates /\ pair \in Pairs  BY DEF IInv, TypeInv
<1>4. /\ pair.queued["owner"] \in Nat /\ BufferSize - Buffered(copy.inbound) \in Nat \ {0}
      /\ ~copy.inbound.closed
      /\ pair.queued["owner"] > 0 \/ "owner" \in pair.no_receive
  <2>1. Buffered(copy.inbound) \in 0 .. BufferSize /\ BufferSize \in Nat
    BY Capacities DEF IInv, Counted
  <2>2. /\ ~copy.inbound.closed /\ Buffered(copy.inbound) < BufferSize
        /\ pair.queued["owner"] > 0 \/ "owner" \in pair.no_receive
    BY <1>2 DEF IInv, OwnerReady
  <2>3. pair.queued["owner"] \in Nat  BY <1>3, FieldTypes
  <2> QED  BY <2>1, <2>2, <2>3
<1>5. /\ n \in Nat /\ n <= pair.queued["owner"] /\ n <= BufferSize - Buffered(copy.inbound)
      /\ n = 0 => pair.queued["owner"] = 0
  BY <1>4, LesserIs
<1>6. /\ pair' = Got(pair, "owner", n) /\ copy' = CopyReceived(copy, n) /\ owner' = At("poll")
      /\ UNCHANGED <<fate, thread, tcp>>
  BY DEF ReadSocket, OwnerServed, BusyWait
<1> HIDE DEF n
<1>7. /\ OwnerReady' /\ owner' \in OwnerPlaces /\ owner'.pc = "poll" /\ ~Aborted'
  BY <1>6, OwnerIsBack
<1>8. /\ SameOutbound(copy, copy') /\ copy'.output = copy.output
      /\ n = 0 => copy'.inbound = CloseStream(copy.inbound) /\ copy'.socket = ReachEOF(copy.socket)
      /\ n # 0 => copy'.inbound = PushBytes(copy.inbound, n) /\ copy'.socket = copy.socket
  BY <1>3, <1>5, <1>6, ReceivedIs
<1>9. /\ copy'.inbound.pushed = copy.inbound.pushed + n
      /\ copy'.inbound.popped = copy.inbound.popped
      /\ copy'.inbound.closed <=> n = 0
      /\ copy'.inbound.error <=> copy.inbound.error
  <2>1. copy.inbound \in StreamStates /\ copy.inbound.pushed \in Nat  BY <1>3, FieldTypes
  <2>2. CASE n = 0  BY <1>4, <1>8, <2>1, <2>2, StreamIs
  <2>3. CASE n # 0  BY <1>4, <1>5, <1>8, <2>1, <2>3, StreamIs
  <2> QED  BY <2>2, <2>3
<1>10. /\ copy'.rules = copy.rules /\ copy'.outbound = copy.outbound /\ copy'.input = copy.input
       /\ copy' \in CopyStates
  BY <1>8 DEF SameOutbound
<1>11. /\ pair' \in Pairs /\ pair'.queued["owner"] = pair.queued["owner"] - n
       /\ pair'.queued["thread"] = pair.queued["thread"]
       /\ pair'.no_send = pair.no_send /\ pair'.no_receive = pair.no_receive
  <2>1. "owner" \in Ends /\ Far("owner") = "thread"  BY DEF Ends, Far
  <2> QED  BY <1>3, <1>5, <1>6, <2>1, QueueIs
<1>12. TypeInv'  BY <1>1, <1>3, <1>6, <1>7, <1>10, <1>11 DEF TypeInv
<1>13. Counted'
  <2>1. Counted  BY DEF IInv
  <2>2. tcp'.inbound.popped = pair'.queued["owner"] + copy'.inbound.pushed
    BY <1>3, <1>5, <1>6, <1>9, <1>11, <2>1, FieldTypes DEF Counted
  <2>3. Buffered(copy'.inbound) \in 0 .. BufferSize
    BY <1>3, <1>5, <1>9, <2>1, FieldTypes, Capacities DEF Counted, Buffered
  <2> QED  BY <1>1, <1>6, <1>9, <1>10, <1>11, <2>1, <2>2, <2>3 DEF Counted
<1>14. CopyInv'
  <2>1. CopyInv /\ ~IsFinished(copy.inbound)  BY <1>4 DEF IInv, IsFinished
  <2>2. /\ ~copy'.socket.closed /\ (copy'.socket.eof => copy'.inbound.closed)
    <3>1. copy.socket \in FileDescriptors  BY <1>3, FieldTypes
    <3>2. ReachEOF(copy.socket).closed = copy.socket.closed  BY <3>1, DescriptorTypes
    <3> QED  BY <1>4, <1>8, <1>9, <2>1, <3>2 DEF CopyInv
  <2> QED  BY <1>1, <1>4, <1>8, <1>9, <1>10, <2>1, <2>2 DEF CopyInv
<1>15. SentInv' /\ TCPInv' /\ TunInv'  BY <1>1, <1>6, SentKeeps DEF IInv, TCPInv, TunInv
<1>16. ThreadReady'  BY <1>1, <1>6, <1>11 DEF IInv, ThreadReady
<1>17. EndsInv'
  <2> SUFFICES ASSUME Sound' PROVE EndsInv'  BY DEF EndsInv
  <2>1. Sound /\ OwnAccord  BY <1>1, <1>2, <1>9 DEF Sound
  <2>2. /\ copy'.outbound.closed => stdin'.end \in {"eof", "hangup"} /\ stdin'.arrived = 0
        /\ 2 \notin copy'.rules => IsFinished(copy'.outbound)
        /\ ("owner" \in pair'.no_send \/ "thread" \in pair'.no_receive) => IsFinished(copy'.outbound)
        /\ tcp'.outbound.closed => IsFinished(copy'.outbound) /\ pair'.queued["thread"] = 0
    BY <1>1, <1>6, <1>10, <1>11, <2>1 DEF IInv, EndsInv
  <2>3. /\ ("thread" \in pair'.no_send \/ "owner" \in pair'.no_receive) => IsFinished(tcp'.inbound)
        /\ 3 \notin tcp'.rules => IsFinished(tcp'.inbound)
        /\ thread'.pc = "done" => SenderFinished(tcp') /\ IsFinished(tcp'.inbound)
    BY <1>6, <1>11, <2>1 DEF IInv, EndsInv
  <2>4. copy'.inbound.closed => IsFinished(tcp'.inbound) /\ pair'.queued["owner"] = 0
    BY <1>4, <1>5, <1>9, <1>11, <2>3
  <2> QED  BY <1>7, <2>2, <2>3, <2>4 DEF EndsInv
<1>18. FateInv'  BY <1>2, <1>6, <1>7 DEF FateInv
<1> QED  BY <1>7, <1>12, <1>13, <1>14, <1>15, <1>16, <1>17, <1>18 DEF IInv

\* Rule 4: bytes are written, and standard output is closed after the last one.
LEMMA WriteStdoutWrites ==
    ASSUME IInv, OwnerServes(4), NEW n \in Nat, n <= Buffered(copy.inbound),
           stdout # "gone" \/ n = 0,
           stdout' = IF n > 0 THEN "full" ELSE stdout,
           copy' = CopyOutput(copy, n), owner' = At("poll"),
           UNCHANGED <<fate, thread, tcp, pair, tun, remote, stdin>>
    PROVE  IInv'
<1>1. /\ fate = "running" /\ owner.pc = "serve" /\ ~Aborted /\ OwnAccord
      /\ owner = Serving(4)
  BY OwnerServing DEF IInv
<1>2. /\ OwnerReady' /\ owner' \in OwnerPlaces /\ owner'.pc = "poll" /\ ~Aborted'
  BY OwnerIsBack
<1>3. TypeInv /\ copy \in CopyStates  BY DEF IInv, TypeInv
<1>4. /\ SameOutbound(copy, copy') /\ copy'.socket = copy.socket
      /\ copy'.inbound = PopBytes(copy.inbound, n)
      /\ copy'.output.closed => copy.output.closed \/ IsFinished(copy'.inbound)
  BY <1>3, OutputIs
<1>5. /\ copy'.inbound.pushed = copy.inbound.pushed
      /\ copy'.inbound.popped = copy.inbound.popped + n
      /\ copy'.inbound.closed <=> copy.inbound.closed
      /\ copy'.inbound.error <=> copy.inbound.error
  <2>1. copy.inbound \in StreamStates  BY <1>3, FieldTypes
  <2> QED  BY <1>4, <2>1, StreamIs
<1>6. /\ copy'.rules = copy.rules /\ copy'.outbound = copy.outbound /\ copy'.input = copy.input
      /\ copy' \in CopyStates
  BY <1>4 DEF SameOutbound
<1>7. 4 \in copy.rules /\ ~copy.inbound.error
  <2>1. 4 \in copy.rules  BY <1>1 DEF IInv, OwnerReady
  <2> QED  BY <2>1 DEF IInv, CopyInv
<1>8. TypeInv'  BY <1>2, <1>3, <1>6 DEF TypeInv
<1>9. /\ Buffered(copy'.inbound) \in 0 .. BufferSize
      /\ IsFinished(copy.inbound) => IsFinished(copy'.inbound)
  BY <1>3, <1>5, FieldTypes, Capacities DEF IInv, Counted, Buffered, IsFinished
<1>10. Counted'
  <2>1. Counted  BY DEF IInv
  <2> QED  BY <1>5, <1>6, <1>9, <2>1 DEF Counted
<1>11. CopyInv'
  BY <1>4, <1>5, <1>6, <1>7, <1>9 DEF IInv, CopyInv
<1>12. SentInv' /\ TCPInv' /\ TunInv'  BY SentKeeps DEF IInv, TCPInv, TunInv
<1>13. ThreadReady'  BY DEF IInv, ThreadReady
<1>14. EndsInv'
  <2>1. (Sound' => Sound) /\ OwnAccord  BY <1>1, <1>5 DEF Sound
  <2> QED  BY <1>2, <1>5, <1>6, <2>1 DEF IInv, EndsInv
<1>15. FateInv'  BY <1>1, <1>2 DEF FateInv
<1> QED  BY <1>2, <1>8, <1>10, <1>11, <1>12, <1>13, <1>14, <1>15 DEF IInv

\* Rule 4, all cases.
LEMMA WriteStdoutKeeps ==
    ASSUME IInv, WriteStdout
    PROVE  IInv'
<1>1. OwnerServes(4) /\ UNCHANGED <<tun, remote, stdin>>  BY DEF WriteStdout
<1>2. /\ fate = "running" /\ owner.pc = "serve" /\ owner = Serving(4)
  BY <1>1, OwnerServing DEF IInv
<1>3. TypeInv /\ copy \in CopyStates  BY DEF IInv, TypeInv
<1>4. Buffered(copy.inbound) \in Nat  BY Capacities DEF IInv, Counted
<1>5. CASE Buffered(copy.inbound) > 0 /\ stdout = "gone" /\ Kill("killed") /\ UNCHANGED stdout
  BY <1>1, <1>2, <1>5, KillKeeps DEF Undisturbed, world
<1>6. ASSUME NEW n \in 0 .. Buffered(copy.inbound),
             Buffered(copy.inbound) > 0 => stdout # "gone",
             Buffered(copy.inbound) > 0 => n > 0,
             stdout' = IF n > 0 THEN "full" ELSE stdout,
             OwnerServed(CopyOutput(copy, n), n > 0 \/ IsFinished(CopyOutput(copy, n).inbound)),
             UNCHANGED pair
      PROVE  IInv'
  <2>1. n \in Nat /\ n <= Buffered(copy.inbound)  BY <1>4, <1>6
  <2>2. /\ copy' = CopyOutput(copy, n) /\ owner' = At("poll")
        /\ UNCHANGED <<thread, tcp>>
    BY <1>6 DEF OwnerServed
  <2>3. n > 0 \/ IsFinished(CopyOutput(copy, n).inbound)
    <3> SUFFICES ASSUME n = 0 PROVE IsFinished(CopyOutput(copy, n).inbound)
      BY <2>1
    <3>1. Buffered(copy.inbound) = 0  BY <1>4, <1>6
    <3>2. copy.inbound.closed  BY <1>2, <3>1 DEF IInv, OwnerReady
    <3>3. /\ CopyOutput(copy, n).inbound = PopBytes(copy.inbound, n)
          /\ copy.inbound \in StreamStates
          /\ copy.inbound.pushed \in Nat /\ copy.inbound.popped \in Nat
      BY <1>3, <2>1, FieldTypes, OutputIs
    <3> QED  BY <2>1, <3>1, <3>2, <3>3, StreamIs DEF IsFinished, Buffered
  <2>4. fate' = fate  BY <1>6, <2>3 DEF OwnerServed, BusyWait
  <2>5. stdout # "gone" \/ n = 0  BY <1>4, <1>6, <2>1
  <2> QED  BY <1>1, <1>6, <2>1, <2>2, <2>4, <2>5, WriteStdoutWrites
<1> QED  BY <1>5, <1>6 DEF WriteStdout

\* wait_until_closed() shuts a socket over which all was carried.
LEMMA OwnerClosesKeeps ==
    ASSUME IInv, OwnerCloses
    PROVE  IInv'
<1> USE DEF world
<1>1. /\ fate = "running" /\ owner.pc = "close" /\ owner' = At("join")
      /\ pair' = ShutBoth(pair) /\ UNCHANGED <<copy, thread, tcp, fate, world>>
  BY DEF OwnerCloses
<1>2. owner' \in OwnerPlaces /\ owner'.pc = "join" /\ \A r \in 1 .. 4 : owner' # Serving(r)
  BY <1>1, PlaceIs
<1>3. TypeInv /\ pair \in Pairs  BY DEF IInv, TypeInv
<1>4. /\ pair' \in Pairs /\ pair'.queued = pair.queued
      /\ "thread" \in pair'.no_receive
  <2>1. "owner" \in Ends /\ "thread" \in Ends  BY DEF Ends
  <2> QED  BY <1>1, <1>3, <2>1, PairIs
<1>5. TypeInv'  BY <1>1, <1>2, <1>3, <1>4 DEF TypeInv
<1>6. Counted'  BY <1>1, <1>4 DEF IInv, Counted
<1>7. SentInv' /\ CopyInv' /\ TCPInv' /\ TunInv'
  BY <1>1, SentKeeps DEF IInv, CopyInv, TCPInv, TunInv
<1>8. OwnerReady'  BY <1>2 DEF OwnerReady
<1>9. ThreadReady'  BY <1>1, <1>4 DEF IInv, ThreadReady
<1>10. EndsInv'
  <2> SUFFICES ASSUME Sound' PROVE EndsInv'  BY DEF EndsInv
  <2>1. Sound  BY <1>1 DEF Sound
  <2>2. OwnAccord  BY <1>1 DEF OwnAccord, Aborted
  <2>3. IsFinished(copy'.outbound) /\ IsFinished(copy'.inbound)
    BY <1>1, <2>1 DEF IInv, EndsInv
  <2>4. IsFinished(tcp'.inbound) /\ pair'.queued["owner"] = 0
    BY <1>1, <1>4, <2>1, <2>3 DEF IInv, EndsInv, IsFinished
  <2>5. /\ copy'.outbound.closed => stdin'.end \in {"eof", "hangup"} /\ stdin'.arrived = 0
        /\ tcp'.outbound.closed => pair'.queued["thread"] = 0
        /\ thread'.pc = "done" => SenderFinished(tcp')
    BY <1>1, <1>4, <2>1, <2>2 DEF IInv, EndsInv
  <2> QED  BY <2>3, <2>4, <2>5 DEF EndsInv
<1>11. FateInv'  BY <1>1, <1>2 DEF FateInv, Aborted
<1> QED  BY <1>5, <1>6, <1>7, <1>8, <1>9, <1>10, <1>11 DEF IInv

\* The join is what decides the fate.
LEMMA OwnerJoinsKeeps ==
    ASSUME IInv, OwnerJoins
    PROVE  IInv'
<1> USE DEF world
<1>1. /\ fate = "running" /\ thread.pc = "done"
      /\ \/ owner.pc = "join" /\ fate' = "succeeded"
         \/ owner.pc = "abort" /\ fate' = "failed"
      /\ UNCHANGED <<owner, copy, thread, tcp, pair, world>>
  BY DEF OwnerJoins
<1>2. TypeInv'  BY <1>1 DEF IInv, TypeInv
<1>3. Counted' /\ SentInv' /\ CopyInv' /\ TCPInv' /\ TunInv'
  BY <1>1, SentKeeps DEF IInv, Counted, CopyInv, TCPInv, TunInv
<1>4. OwnerReady' /\ ThreadReady'  BY <1>1 DEF IInv, OwnerReady, ThreadReady
<1>5. EndsInv'  BY <1>1 DEF IInv, EndsInv, Sound, OwnAccord, Aborted
<1>6. FateInv'  BY <1>1 DEF IInv, FateInv, Aborted
<1> QED  BY <1>2, <1>3, <1>4, <1>5, <1>6 DEF IInv

-----------------------------------------------------------------------------
\* poll() of the TCP thread.
OnlyTCPRules(t, u) ==
    /\ u \in TCPStates
    /\ u.outbound = t.outbound /\ u.inbound = t.inbound
    /\ u.outbound_shutdown = t.outbound_shutdown /\ u.inbound_shutdown = t.inbound_shutdown
    /\ u.data = t.data /\ u.fin_sent = t.fin_sent
    /\ u.acked = t.acked /\ u.window = t.window
    /\ u.linger = t.linger /\ u.lingered = t.lingered

\* Erasing rule 2 changes no stream, as the outbound stream is closed by then.
LEMMA TCPCancelIs ==
    ASSUME NEW t \in TCPStates, NEW R, 2 \in R => t.outbound.closed /\ t.outbound_shutdown
    PROVE  /\ OnlyTCPRules(t, TCPCancel(t, R))
           /\ TCPCancel(t, R).rules = t.rules \ R
<1> DEFINE a == t.outbound.closed \/ 2 \in R
           b == t.outbound_shutdown \/ 2 \in R
           o == [t.outbound EXCEPT !.closed = a]
           u == TCPCancel(t, R)
<1>1. a \in BOOLEAN /\ b \in BOOLEAN  OBVIOUS
<1>2. (a <=> t.outbound.closed) /\ (b <=> t.outbound_shutdown)  OBVIOUS
<1>3. u = [t EXCEPT !.rules = t.rules \ R, !.outbound = o, !.outbound_shutdown = b]
  BY DEF TCPCancel, TCPStates
<1> HIDE DEF a, b, u
<1>4. /\ t.outbound \in StreamStates /\ t.outbound.closed \in BOOLEAN
      /\ t.outbound_shutdown \in BOOLEAN
  BY DEF TCPStates, StreamStates
<1>5. a = t.outbound.closed /\ b = t.outbound_shutdown  BY <1>1, <1>2, <1>4
<1>6. o = t.outbound  BY <1>4, <1>5 DEF StreamStates
<1> HIDE DEF o
<1>7. u.rules = t.rules \ R  BY <1>3 DEF TCPStates
<1>8. OnlyTCPRules(t, u)  BY <1>3, <1>5, <1>6 DEF TCPStates, OnlyTCPRules
<1> QED  BY <1>7, <1>8 DEF u

\* The sweep can only erase rule 2.
LEMMA TCPSweptIs ==
    ASSUME TypeInv, TCPInv
    PROVE  LET t == TCPSwept(tcp)
           IN  /\ OnlyTCPRules(tcp, t) /\ t.rules \subseteq tcp.rules
               /\ 1 \in t.rules /\ (3 \in tcp.rules => 3 \in t.rules)
<1> DEFINE R == Ended(tcp.rules, TCPDirection, TCPFD(tcp))
           t == TCPSwept(tcp)
<1>1. tcp \in TCPStates  BY DEF TypeInv
<1>2. ~NewFD.eof /\ ~NewFD.closed  BY DEF NewFD
<1>3. R \subseteq tcp.rules  BY DEF Ended
<1>4. 1 \notin R  BY <1>2 DEF Ended, TCPDirection, TCPFD
<1>5. 2 \in R => tcp.data.eof  BY DEF Ended, TCPDirection, TCPFD, TCPInv
<1>6. 3 \notin R  BY DEF Ended, TCPDirection, TCPFD, TCPInv
<1>7. 2 \in R => tcp.outbound.closed /\ tcp.outbound_shutdown  BY <1>5 DEF TCPInv
<1>8. t = TCPCancel(tcp, R)  BY DEF TCPSwept
<1> HIDE DEF R, t
<1>9. OnlyTCPRules(tcp, t) /\ t.rules = tcp.rules \ R
  BY <1>1, <1>7, <1>8, TCPCancelIs
<1>10. 1 \in t.rules  BY <1>4, <1>9 DEF TCPInv
<1> QED  BY <1>3, <1>6, <1>9, <1>10 DEF t

TCPInterested(t, interested) ==
    /\ interested \subseteq t.rules
    /\ 1 \in interested <=> 1 \in t.rules /\ IsActive(t)
    /\ 2 \in interested <=> /\ 2 \in t.rules /\ IsActive(t) /\ ~t.outbound_shutdown
                            /\ Buffered(t.outbound) < SendCapacity
    /\ 3 \in interested <=>
          /\ 3 \in t.rules
          /\ \/ Buffered(t.inbound) > 0
             \/ (IsFinished(t.inbound) \/ t.inbound.error) /\ ~t.inbound_shutdown

\* TCPInterest() rule by rule.
LEMMA TCPInterestIs ==
    ASSUME NEW t \in TCPStates
    PROVE  TCPInterested(t, TCPInterest(t))
<1>1. TCPInterest(t) \subseteq t.rules  BY DEF TCPInterest
<1>2. 1 \in TCPInterest(t) <=> 1 \in t.rules /\ IsActive(t)  BY DEF TCPInterest
<1>3. 2 \in TCPInterest(t) <=> /\ 2 \in t.rules /\ IsActive(t) /\ ~t.outbound_shutdown
                               /\ Buffered(t.outbound) < SendCapacity
  BY DEF TCPInterest
<1>4. 3 \in TCPInterest(t) <=>
         /\ 3 \in t.rules
         /\ \/ Buffered(t.inbound) > 0
            \/ (IsFinished(t.inbound) \/ t.inbound.error) /\ ~t.inbound_shutdown
  BY DEF TCPInterest
<1> QED  BY <1>1, <1>2, <1>3, <1>4 DEF TCPInterested

\* Why a rule of the thread is erased, and which one is served.
TCPSeen(R, interested, outcome) ==
    LET H == Defunct(outcome, "hungup")
        s == Served(outcome)
    IN  /\ H \subseteq {3}
        /\ 3 \in H => "thread" \in pair.no_send
        /\ s \in R \union {0} /\ (s # 0 => s \in interested)
        /\ s = 1 => tun # << >>
        /\ s = 2 => pair.queued["thread"] > 0 \/ "thread" \in pair.no_receive

\* Only rule 3 can be hung up, and a rule is served for something to do.
LEMMA TCPSees ==
    ASSUME NEW R \in SUBSET (1 .. 3), NEW interested,
           NEW outcome, outcome = Outcomes(R, TCPDirection, interested, TCPEvents)
    PROVE  TCPSeen(R, interested, outcome)
<1> DEFINE s == Served(outcome)
<1>1. /\ DOMAIN outcome = R
      /\ \A r \in R : outcome[r] = Outcome(TCPDirection[r], r \in interested, TCPEvents[r])
  BY DEF Outcomes
<1>2. /\ s \in R \union {0} /\ (s # 0 => outcome[s] = "ready")
      /\ \A which : /\ Defunct(outcome, which) \subseteq R
                    /\ \A r \in Defunct(outcome, which) : outcome[r] = which
  <2>1. R \in SUBSET (1 .. 4)  OBVIOUS
  <2> QED  BY <1>1, <2>1, ServedIs
<1>3. /\ TCPEvents[1] = TunEvents /\ TCPEvents[2] = Events(pair, "thread")
      /\ TCPEvents[3] = Events(pair, "thread")
      /\ TCPDirection[1] = "IN" /\ TCPDirection[2] = "IN" /\ TCPDirection[3] = "OUT"
  BY DEF TCPEvents, TCPDirection
<1>4. ASSUME NEW r \in R
      PROVE  /\ outcome[r] = "hungup" =>
                   /\ "HUP" \in TCPEvents[r]
                   /\ TCPDirection[r] = "IN" => "IN" \notin TCPEvents[r]
             /\ outcome[r] = "ready" => r \in interested /\ TCPDirection[r] \in TCPEvents[r]
  <2> DEFINE b == r \in interested
             e == TCPEvents[r]
             dir == TCPDirection[r]
  <2>1. outcome[r] = Outcome(dir, b, e)  BY <1>1
  <2>2. b <=> r \in interested  OBVIOUS
  <2>3. dir \in {"IN", "OUT"}  BY <1>3
  <2> HIDE DEF b, e, dir
  <2>4. /\ outcome[r] = "hungup" => "HUP" \in e /\ (dir = "IN" => "IN" \notin e)
        /\ outcome[r] = "ready" => b /\ dir \in e
    BY <2>1, <2>3 DEF Outcome
  <2> QED  BY <2>2, <2>4 DEF e, dir
<1>5. /\ "HUP" \notin TunEvents
      /\ "IN" \in TunEvents => tun # << >>
  BY DEF TunEvents
<1>6. /\ "HUP" \in Events(pair, "thread") =>
            "thread" \in pair.no_send /\ "IN" \in Events(pair, "thread")
      /\ "IN" \in Events(pair, "thread") =>
            pair.queued["thread"] > 0 \/ "thread" \in pair.no_receive
  BY DEF Events
<1> HIDE DEF s
<1>7. ASSUME NEW r \in Defunct(outcome, "hungup")
      PROVE  r = 3 /\ "thread" \in pair.no_send
  <2>1. /\ r \in R /\ r \in 1 .. 3 /\ "HUP" \in TCPEvents[r]
        /\ TCPDirection[r] = "IN" => "IN" \notin TCPEvents[r]
    BY <1>2, <1>4
  <2> QED  BY <1>3, <1>5, <1>6, <2>1
<1>8. s # 0 => s \in interested /\ TCPDirection[s] \in TCPEvents[s]
  BY <1>2, <1>4
<1>9. s = 1 => tun # << >>  BY <1>3, <1>5, <1>8
<1>10. s = 2 => pair.queued["thread"] > 0 \/ "thread" \in pair.no_receive
  BY <1>3, <1>6, <1>8
<1> QED  BY <1>2, <1>7, <1>8, <1>9, <1>10 DEF s, TCPSeen

\* An iteration that goes on.
LEMMA ThreadPollsOn ==
    ASSUME IInv, fate = "running", thread.pc = "poll",
           OnlyTCPRules(tcp, tcp'), tcp'.rules \subseteq tcp.rules, 1 \in tcp'.rules,
           3 \in tcp.rules \ tcp'.rules => "thread" \in pair.no_send,
           thread' \in ThreadPlaces, thread'.pc # "done", ThreadReady',
           UNCHANGED <<owner, copy, pair, fate, world>>
    PROVE  IInv'
<1> USE DEF world
<1>1. TypeInv'  BY DEF IInv, TypeInv, OnlyTCPRules
<1>2. Counted' /\ SentInv'  BY SentKeeps DEF IInv, Counted, OnlyTCPRules
<1>3. CopyInv' /\ OwnerReady'  BY DEF IInv, CopyInv, OwnerReady
<1>4. TCPInv'  BY DEF IInv, TCPInv, OnlyTCPRules
<1>5. TunInv'  BY DEF IInv, TunInv, OnlyTCPRules
<1>6. EndsInv'
  <2> SUFFICES ASSUME Sound' PROVE EndsInv'  BY DEF EndsInv
  <2>1. Sound /\ OwnAccord  BY DEF Sound, OwnAccord
  <2>2. tcp'.outbound = tcp.outbound /\ tcp'.inbound = tcp.inbound  BY DEF OnlyTCPRules
  <2>3. 3 \notin tcp'.rules => IsFinished(tcp'.inbound)
    BY <2>1, <2>2 DEF IInv, EndsInv
  <2> QED  BY <2>1, <2>2, <2>3 DEF IInv, EndsInv
<1>7. FateInv'  BY DEF IInv, FateInv, Aborted
<1> QED  BY <1>1, <1>2, <1>3, <1>4, <1>5, <1>6, <1>7 DEF IInv

\* The thread ends, of its own accord or for its owner's sake.
LEMMA ThreadEndsKeeps ==
    ASSUME IInv, fate = "running", thread.pc # "done", ThreadEnds(pair),
           OnlyTCPRules(tcp, tcp'), tcp'.rules \subseteq tcp.rules, 1 \in tcp'.rules,
           3 \in tcp.rules => 3 \in tcp'.rules,
           Sound /\ ~Aborted => SenderFinished(tcp) /\ IsFinished(tcp.inbound),
           UNCHANGED <<owner, copy, fate, world>>
    PROVE  IInv'
<1> USE DEF world
<1>1. thread' = At("done") /\ pair' = ShutBoth(pair)  BY DEF ThreadEnds
<1>2. thread' \in ThreadPlaces /\ thread'.pc = "done" /\ \A r \in 1 .. 4 : thread' # Serving(r)
  BY <1>1, PlaceIs
<1>3. TypeInv /\ pair \in Pairs  BY DEF IInv, TypeInv
<1>4. /\ pair' \in Pairs /\ pair'.queued = pair.queued /\ "owner" \in pair'.no_receive
  <2>1. "owner" \in Ends /\ "thread" \in Ends  BY DEF Ends
  <2> QED  BY <1>1, <1>3, <2>1, PairIs
<1>5. TypeInv'  BY <1>2, <1>3, <1>4 DEF TypeInv, OnlyTCPRules
<1>6. Counted' /\ SentInv'  BY <1>4, SentKeeps DEF IInv, Counted, OnlyTCPRules
<1>7. CopyInv'  BY DEF IInv, CopyInv
<1>8. TCPInv'  BY DEF IInv, TCPInv, OnlyTCPRules
<1>9. TunInv'  BY DEF IInv, TunInv, OnlyTCPRules
<1>10. OwnerReady'  BY <1>4 DEF IInv, OwnerReady
<1>11. ThreadReady'  BY <1>2 DEF ThreadReady
<1>12. EndsInv'
  <2> SUFFICES ASSUME Sound' PROVE EndsInv'  BY DEF EndsInv
  <2>1. Sound /\ OwnAccord  BY DEF Sound, OwnAccord
  <2>2. /\ tcp'.outbound = tcp.outbound /\ tcp'.inbound = tcp.inbound
        /\ tcp'.acked = tcp.acked /\ tcp'.fin_sent = tcp.fin_sent
    BY DEF OnlyTCPRules
  <2>3. OwnAccord' => SenderFinished(tcp') /\ IsFinished(tcp'.inbound) /\ IsFinished(copy'.outbound)
    <3>1. SUFFICES ASSUME OwnAccord'
                   PROVE SenderFinished(tcp') /\ IsFinished(tcp'.inbound) /\ IsFinished(copy'.outbound)
      OBVIOUS
    <3>2. ~Aborted  BY <1>2, <3>1 DEF OwnAccord, Aborted
    <3>3. SenderFinished(tcp) /\ IsFinished(tcp.inbound)  BY <2>1, <3>2
    <3>4. IsFinished(copy.outbound)  BY <2>1, <3>3 DEF IInv, EndsInv, SenderFinished, IsFinished
    <3> QED  BY <2>2, <3>3, <3>4 DEF SenderFinished, InFlight, SentNumbers
  <2>4. /\ copy'.outbound.closed => stdin'.end \in {"eof", "hangup"} /\ stdin'.arrived = 0
        /\ 2 \notin copy'.rules => IsFinished(copy'.outbound)
        /\ tcp'.outbound.closed => IsFinished(copy'.outbound) /\ pair'.queued["thread"] = 0
        /\ copy'.inbound.closed => IsFinished(tcp'.inbound) /\ pair'.queued["owner"] = 0
        /\ 3 \notin tcp'.rules => IsFinished(tcp'.inbound)
        /\ owner'.pc \in {"close", "join"} =>
              IsFinished(copy'.outbound) /\ IsFinished(copy'.inbound)
    BY <1>4, <2>1, <2>2 DEF IInv, EndsInv
  <2> QED  BY <2>3, <2>4 DEF EndsInv
<1>13. FateInv'  BY <1>2 DEF IInv, FateInv, Aborted
<1> QED  BY <1>5, <1>6, <1>7, <1>8, <1>9, <1>10, <1>11, <1>12, <1>13 DEF IInv

\* The thread's poll(): it ends by itself only when all was acknowledged and passed on.
LEMMA ThreadPollsKeeps ==
    ASSUME IInv, ThreadPolls
    PROVE  IInv'
<1> DEFINE t == TCPSwept(tcp)
           interested == TCPInterest(t)
           outcome == Outcomes(t.rules, TCPDirection, interested, TCPEvents)
           H == Defunct(outcome, "hungup")
           s == Served(outcome)
<1>1. TypeInv /\ TCPInv /\ tcp \in TCPStates  BY DEF IInv, TypeInv
<1>2. /\ OnlyTCPRules(tcp, t) /\ t.rules \subseteq tcp.rules
      /\ 1 \in t.rules /\ (3 \in tcp.rules => 3 \in t.rules)
  BY <1>1, TCPSweptIs
<1>3. /\ fate = "running" /\ thread.pc = "poll" /\ UNCHANGED <<owner, copy, fate, world>>
      /\ \/ /\ interested = {} \/ Aborted
            /\ tcp' = t /\ ThreadEnds(pair)
         \/ tcp' = TCPCancel(t, H) /\ thread' = Serving(s) /\ UNCHANGED pair
  BY DEF ThreadPolls
<1>4. t \in TCPStates /\ t.rules \in SUBSET (1 .. 3)  BY <1>2 DEF OnlyTCPRules, TCPStates
<1>5. TCPInterested(t, interested)  BY <1>4, TCPInterestIs
<1>6. TCPSeen(t.rules, interested, outcome)
  <2> DEFINE R == t.rules
  <2>1. R \in SUBSET (1 .. 3) /\ outcome = Outcomes(R, TCPDirection, interested, TCPEvents)
    BY <1>4
  <2> HIDE DEF R, outcome, interested
  <2>2. TCPSeen(R, interested, outcome)  BY <2>1, TCPSees
  <2> QED  BY <2>2 DEF R
<1>7. /\ H \subseteq {3}
      /\ 3 \in H => "thread" \in pair.no_send
      /\ s \in t.rules \union {0} /\ (s # 0 => s \in interested)
      /\ s = 1 => tun # << >>
      /\ s = 2 => pair.queued["thread"] > 0 \/ "thread" \in pair.no_receive
  BY <1>6 DEF TCPSeen
<1> HIDE DEF t, interested, outcome, H, s
<1>8. CASE (interested = {} \/ Aborted) /\ tcp' = t /\ ThreadEnds(pair)
  <2>1. ASSUME Sound, ~Aborted PROVE SenderFinished(tcp) /\ IsFinished(tcp.inbound)
    <3>1. interested = {}  BY <1>8, <2>1
    <3>2. /\ t.outbound = tcp.outbound /\ t.inbound = tcp.inbound /\ t.acked = tcp.acked
          /\ t.fin_sent = tcp.fin_sent /\ t.inbound_shutdown = tcp.inbound_shutdown
      BY <1>2 DEF OnlyTCPRules
    <3>3. ~t.outbound.error /\ ~t.inbound.error
      BY <1>1, <2>1, <3>2 DEF TCPInv, Sound
    <3>4. ~IsActive(t)  BY <1>2, <1>5, <3>1 DEF TCPInterested
    <3>5. SenderFinished(t) /\ t.inbound.closed  BY <3>3, <3>4 DEF IsActive
    <3>6. IsFinished(tcp.inbound)
      <4>1. CASE 3 \notin tcp.rules  BY <2>1, <4>1 DEF IInv, EndsInv
      <4>2. CASE 3 \in tcp.rules
        <5>1. ~(Buffered(t.inbound) > 0)  BY <1>2, <1>5, <3>1, <4>2 DEF TCPInterested
        <5>2. /\ tcp.inbound.pushed \in Nat /\ tcp.inbound.popped \in Nat
              /\ tcp.inbound.popped <= tcp.inbound.pushed
          BY <1>1, FieldTypes DEF IInv, Counted
        <5> QED  BY <3>2, <3>5, <5>1, <5>2 DEF IsFinished, Buffered
      <4> QED  BY <4>1, <4>2
    <3> QED  BY <3>2, <3>5, <3>6 DEF SenderFinished, InFlight, SentNumbers
  <2> QED  BY <1>2, <1>3, <1>8, <2>1, ThreadEndsKeeps
<1>9. CASE tcp' = TCPCancel(t, H) /\ thread' = Serving(s) /\ UNCHANGED pair
  <2>1. OnlyTCPRules(t, tcp') /\ tcp'.rules = t.rules \ H
    BY <1>4, <1>7, <1>9, TCPCancelIs
  <2>2. OnlyTCPRules(tcp, tcp')  BY <1>2, <2>1 DEF OnlyTCPRules
  <2>3. /\ tcp'.rules \subseteq tcp.rules /\ 1 \in tcp'.rules
        /\ 3 \in tcp.rules \ tcp'.rules => "thread" \in pair.no_send
    BY <1>2, <1>7, <2>1
  <2>4. s \in 0 .. 3  BY <1>4, <1>7
  <2>5. thread' \in ThreadPlaces /\ thread'.pc # "done"
    <3>1. CASE s = 0  BY <1>9, <3>1, PlaceIs
    <3>2. CASE s \in 1 .. 3
      <4>1. Serving(s) \in ThreadPlaces /\ s \in 1 .. 4  BY <3>2, PlaceIs
      <4>2. Serving(s).pc = "serve"  BY <4>1, PlaceIs
      <4> QED  BY <1>9, <4>1, <4>2
    <3> QED  BY <2>4, <3>1, <3>2
  <2>6. \A r \in 1 .. 3 : thread' = Serving(r) => s = r
    <3>1. CASE s = 0  BY <1>9, <3>1, PlaceIs
    <3>2. CASE s \in 1 .. 3
      <4>1. s \in 1 .. 4 /\ \A r \in 1 .. 3 : r \in 1 .. 4  BY <3>2
      <4>2. \A r \in 1 .. 4 : Serving(s) = Serving(r) => s = r  BY <4>1, PlaceIs
      <4> QED  BY <1>9, <4>1, <4>2
    <3> QED  BY <2>4, <3>1, <3>2
  <2>7. ThreadReady'
    <3>1. tcp'.inbound = t.inbound /\ tcp'.outbound = t.outbound  BY <2>1 DEF OnlyTCPRules
    <3>2. s = 2 => ~tcp.outbound.closed /\ Buffered(tcp.outbound) < SendCapacity
      <4>1. t.outbound_shutdown = tcp.outbound_shutdown /\ t.outbound = tcp.outbound
        BY <1>2 DEF OnlyTCPRules
      <4> QED  BY <1>1, <1>5, <1>7, <4>1 DEF TCPInterested, TCPInv
    <3>3. t.outbound = tcp.outbound  BY <1>2 DEF OnlyTCPRules
    <3>4. s = 3 => Buffered(t.inbound) > 0 \/ t.inbound.closed \/ t.inbound.error
      BY <1>5, <1>7 DEF TCPInterested, IsFinished
    <3>5. UNCHANGED <<tun, pair>>  BY <1>3, <1>9 DEF world
    <3> QED  BY <1>7, <2>6, <3>1, <3>2, <3>3, <3>4, <3>5 DEF ThreadReady
  <2> QED  BY <1>3, <1>9, <2>2, <2>3, <2>5, <2>7, ThreadPollsOn
<1> QED  BY <1>3, <1>8, <1>9

-----------------------------------------------------------------------------
\* The callbacks of the TCP thread, and what waits to be received.
LEMMA DataInIs ==
    ASSUME NEW s \in Seq(Segments)
    PROVE  /\ DataIn(s) \in Nat
           /\ \A m \in Segments :
                 DataIn(Append(s, m)) = DataIn(s) + (IF m.kind = "data" THEN 1 ELSE 0)
           /\ s # << >> =>
                 DataIn(s) = DataIn(Tail(s)) + (IF Head(s).kind = "data" THEN 1 ELSE 0)
           /\ (\A k \in DOMAIN s : s[k].kind # "data") => DataIn(s) = 0
<1> DEFINE D(q) == {k \in DOMAIN q : q[k].kind = "data"}
<1>1. \A q \in Seq(Segments) : IsFiniteSet(D(q)) /\ Cardinality(D(q)) \in Nat
  <2> SUFFICES ASSUME NEW q \in Seq(Segments)
               PROVE IsFiniteSet(D(q)) /\ Cardinality(D(q)) \in Nat
    OBVIOUS
  <2>1. D(q) \subseteq 1 .. Len(q) /\ Len(q) \in Nat  OBVIOUS
  <2>2. IsFiniteSet(1 .. Len(q))  BY <2>1, FS_Interval
  <2> QED  BY <2>1, <2>2, FS_Subset, FS_CardinalityType
<1>2. ASSUME NEW m \in Segments
      PROVE  DataIn(Append(s, m)) = DataIn(s) + (IF m.kind = "data" THEN 1 ELSE 0)
  <2>1. CASE m.kind = "data"
    <3>1. D(Append(s, m)) = D(s) \union {Len(s) + 1} /\ Len(s) + 1 \notin D(s)
      BY <2>1
    <3>2. Cardinality(D(s) \union {Len(s) + 1}) = Cardinality(D(s)) + 1
      BY <1>1, <3>1, FS_AddElement
    <3> QED  BY <2>1, <3>1, <3>2 DEF DataIn
  <2>2. CASE m.kind # "data"
    <3>1. D(Append(s, m)) = D(s)  BY <2>2
    <3>2. DataIn(Append(s, m)) = DataIn(s) /\ DataIn(s) \in Nat  BY <1>1, <3>1 DEF DataIn
    <3> QED  BY <2>2, <3>2
  <2> QED  BY <2>1, <2>2
<1>3. ASSUME s # << >>
      PROVE  DataIn(s) = DataIn(Tail(s)) + (IF Head(s).kind = "data" THEN 1 ELSE 0)
  <2> DEFINE T == Tail(s)
             E == {k \in DOMAIN s : k > 1 /\ s[k].kind = "data"}
             f == [k \in D(T) |-> k + 1]
  <2>1. /\ Len(s) \in Nat \ {0} /\ DOMAIN s = 1 .. Len(s)
        /\ T \in Seq(Segments) /\ DOMAIN T = 1 .. Len(s) - 1
        /\ \A k \in 1 .. Len(s) - 1 : T[k] = s[k + 1]
    BY <1>3, HeadTailProperties
  <2>2. \A k \in D(T) : k + 1 \in E  BY <2>1
  <2>3. \A k \in E : k - 1 \in D(T) /\ (k - 1) + 1 = k  BY <2>1
  <2>4. f \in Bijection(D(T), E)
    <3>1. f \in [D(T) -> E]  BY <2>2
    <3>2. \A j, k \in D(T) : f[j] = f[k] => j = k  BY <2>1
    <3>3. \A k \in E : \E j \in D(T) : f[j] = k  BY <2>3
    <3> QED  BY <3>1, <3>2, <3>3, Fun_IsBij
  <2>5. IsFiniteSet(D(T)) /\ Cardinality(D(T)) \in Nat  BY <1>1, <2>1
  <2>6. ExistsBijection(D(T), E)  BY <2>4 DEF ExistsBijection
  <2>7. IsFiniteSet(E) /\ Cardinality(E) = Cardinality(D(T))
    BY <2>5, <2>6, FS_Bijection
  <2>8. CASE Head(s).kind = "data"
    <3>1. D(s) = E \union {1} /\ 1 \notin E  BY <2>1, <2>8
    <3>2. Cardinality(E \union {1}) = Cardinality(E) + 1  BY <2>7, <3>1, FS_AddElement
    <3> QED  BY <2>7, <2>8, <3>1, <3>2 DEF DataIn
  <2>9. CASE Head(s).kind # "data"
    <3>1. D(s) = E  BY <2>1, <2>9
    <3>2. DataIn(s) = Cardinality(D(s)) /\ DataIn(T) = Cardinality(D(T))  BY DEF DataIn
    <3>3. DataIn(s) = DataIn(T) /\ DataIn(T) \in Nat  BY <2>5, <2>7, <3>1, <3>2
    <3> QED  BY <2>9, <3>3
  <2> QED  BY <2>8, <2>9
<1>4. ASSUME \A k \in DOMAIN s : s[k].kind # "data" PROVE DataIn(s) = 0
  <2>1. D(s) = {}  BY <1>4
  <2> QED  BY <2>1, FS_EmptySet DEF DataIn
<1> QED  BY <1>1, <1>2, <1>3, <1>4 DEF DataIn

\* While a callback of the thread runs it has not ended.
LEMMA ThreadServing ==
    ASSUME NEW r \in 1 .. 3, ThreadServes(r)
    PROVE  /\ fate = "running" /\ thread = Serving(r) /\ thread.rule = r
           /\ OwnAccord /\ thread.pc = "serve"
<1>1. fate = "running" /\ thread = Serving(r)  BY DEF ThreadServes
<1>2. thread.pc = "serve" /\ thread.rule = r  BY <1>1, PlaceIs
<1> QED  BY <1>1, <1>2 DEF OwnAccord

\* Once its callback has returned the thread is at poll(), or ends for its owner.
LEMMA ThreadIsBack ==
    ASSUME NEW t, NEW p \in Pairs, NEW counted, ThreadServed(t, p, counted), counted
    PROVE  /\ ThreadReady' /\ thread' \in ThreadPlaces
           /\ tcp' = t /\ UNCHANGED <<owner, copy, fate>>
           /\ pair' \in Pairs /\ pair'.queued = p.queued
           /\ p.no_receive \subseteq pair'.no_receive
           /\ OwnAccord' => thread'.pc = "poll" /\ pair' = p
<1>1. /\ tcp' = t /\ UNCHANGED <<owner, copy, fate>>
      /\ \/ Aborted /\ thread' = At("done") /\ pair' = ShutBoth(p)
         \/ ~Aborted /\ thread' = At("poll") /\ pair' = p
  BY DEF ThreadServed, ThreadEnds, BusyWait
<1>2. /\ thread' \in ThreadPlaces /\ \A r \in 1 .. 4 : thread' # Serving(r)
      /\ thread'.pc \in {"poll", "done"} /\ (thread'.pc = "done" => Aborted)
      /\ thread'.pc = "poll" => pair' = p
  BY <1>1, PlaceIs
<1>3. /\ pair' \in Pairs /\ pair'.queued = p.queued /\ p.no_receive \subseteq pair'.no_receive
  <2>1. "owner" \in Ends  BY DEF Ends
  <2>2. p.no_receive \subseteq Ends  BY DEF Pairs
  <2> QED  BY <1>1, <2>1, <2>2, PairIs
<1>4. OwnAccord' => thread'.pc = "poll" /\ pair' = p
  BY <1>1, <1>2 DEF OwnAccord, Aborted
<1> QED  BY <1>1, <1>2, <1>3, <1>4 DEF ThreadReady

\* TCPReceived() by kind of segment.
LEMMA SegmentReceivedIs ==
    ASSUME NEW s \in TCPStates, NEW m \in Segments
    PROVE  LET u == TCPReceived(s, m)
           IN  /\ u \in TCPStates /\ u.rules = s.rules /\ u.data = s.data
               /\ u.outbound_shutdown = s.outbound_shutdown /\ u.fin_sent = s.fin_sent
               /\ u.acked \in {s.acked, m.acked}
               /\ u.outbound = IF m.kind = "rst" THEN SetError(s.outbound) ELSE s.outbound
               /\ m.kind = "data" => u.inbound = PushBytes(s.inbound, 1)
               /\ m.kind = "fin" => u.inbound = CloseStream(s.inbound)
               /\ m.kind = "rst" => u.inbound = SetError(s.inbound)
               /\ m.kind = "ack" => u.inbound = s.inbound
<1> DEFINE b == s.linger /\ ~(s.inbound.closed /\ ~IsFinished(s.outbound))
           a == IF m.acked > s.acked THEN m.acked ELSE s.acked
           t == [s EXCEPT !.linger = b, !.acked = a, !.window = m.window]
<1>1. b \in BOOLEAN /\ a \in Nat /\ a \in {s.acked, m.acked} /\ m.window \in Nat
  BY DEF TCPStates, Segments
<1>2. t = [s EXCEPT !.linger = @ /\ ~(s.inbound.closed /\ ~IsFinished(s.outbound)),
                    !.acked = IF m.acked > @ THEN m.acked ELSE @,
                    !.window = m.window]
  BY DEF TCPStates
<1>3. /\ m.kind = "data" => TCPReceived(s, m) = [t EXCEPT !.inbound = PushBytes(@, 1)]
      /\ m.kind = "fin" => TCPReceived(s, m) = [t EXCEPT !.inbound = CloseStream(@)]
      /\ m.kind = "ack" => TCPReceived(s, m) = t
      /\ m.kind = "rst" => TCPReceived(s, m) = [s EXCEPT !.linger = t.linger,
                                                        !.inbound = SetError(@),
                                                        !.outbound = SetError(@)]
  <2> HIDE DEF t
  <2> QED  BY <1>2 DEF TCPReceived
<1> HIDE DEF b, a
<1>4. /\ t \in TCPStates /\ t.rules = s.rules /\ t.data = s.data
      /\ t.outbound_shutdown = s.outbound_shutdown /\ t.fin_sent = s.fin_sent
      /\ t.outbound = s.outbound /\ t.inbound = s.inbound
      /\ t.linger = b /\ t.acked = a
  BY <1>1 DEF TCPStates
<1> HIDE DEF t
<1>5. /\ s.outbound \in StreamStates /\ s.inbound \in StreamStates  BY DEF TCPStates
<1>6. /\ PushBytes(s.inbound, 1) \in StreamStates /\ CloseStream(s.inbound) \in StreamStates
      /\ SetError(s.inbound) \in StreamStates /\ SetError(s.outbound) \in StreamStates
  BY <1>5, StreamTypes
<1>7. CASE m.kind = "data"
  <2>1. TCPReceived(s, m) = [t EXCEPT !.inbound = PushBytes(s.inbound, 1)]
    BY <1>3, <1>4, <1>7 DEF TCPStates
  <2> QED  BY <1>1, <1>4, <1>6, <1>7, <2>1 DEF TCPStates
<1>8. CASE m.kind = "fin"
  <2>1. TCPReceived(s, m) = [t EXCEPT !.inbound = CloseStream(s.inbound)]
    BY <1>3, <1>4, <1>8 DEF TCPStates
  <2> QED  BY <1>1, <1>4, <1>6, <1>8, <2>1 DEF TCPStates
<1>9. CASE m.kind = "rst"
  <2>1. TCPReceived(s, m) = [s EXCEPT !.linger = b, !.inbound = SetError(s.inbound),
                                      !.outbound = SetError(s.outbound)]
    BY <1>3, <1>4, <1>9 DEF TCPStates
  <2> QED  BY <1>1, <1>6, <1>9, <2>1 DEF TCPStates
<1>10. CASE m.kind = "ack"
  BY <1>1, <1>3, <1>4, <1>10
<1> QED  BY <1>7, <1>8, <1>9, <1>10 DEF Segments

\* Rule 1 of the thread: a segment that it takes.
LEMMA SegmentTakenKeeps ==
    ASSUME IInv, ThreadServes(1), tun' = Tail(tun),
           ThreadServed(TCPReceived(tcp, Head(tun)), pair, TRUE),
           UNCHANGED <<remote, stdin, stdout>>
    PROVE  IInv'
<1> DEFINE m == Head(tun)
<1>1. /\ ThreadServes(1) /\ tun' = Tail(tun)
      /\ ThreadServed(TCPReceived(tcp, m), pair, TRUE)
      /\ UNCHANGED <<remote, stdin, stdout>>
  OBVIOUS
<1>2. /\ fate = "running" /\ thread = Serving(1) /\ OwnAccord /\ thread.pc = "serve"
  BY <1>1, ThreadServing
<1>3. TypeInv /\ tcp \in TCPStates /\ pair \in Pairs /\ tun \in Seq(Segments)
  BY DEF IInv, TypeInv
<1>4. /\ ThreadReady' /\ thread' \in ThreadPlaces
      /\ tcp' = TCPReceived(tcp, m) /\ UNCHANGED <<owner, copy, fate>>
      /\ pair' \in Pairs /\ pair'.queued = pair.queued
      /\ pair.no_receive \subseteq pair'.no_receive
      /\ OwnAccord' => thread'.pc = "poll" /\ pair' = pair
  <2> DEFINE t == TCPReceived(tcp, m)
  <2>1. ThreadServed(t, pair, TRUE) /\ tcp' = t  BY <1>1 DEF ThreadServed
  <2> HIDE DEF t
  <2>2. /\ ThreadReady' /\ thread' \in ThreadPlaces
        /\ UNCHANGED <<owner, copy, fate>>
        /\ pair' \in Pairs /\ pair'.queued = pair.queued
        /\ pair.no_receive \subseteq pair'.no_receive
        /\ OwnAccord' => thread'.pc = "poll" /\ pair' = pair
    BY <1>3, <2>1, ThreadIsBack
  <2> QED  BY <2>1, <2>2 DEF t
<1>5. /\ tun # << >> /\ Len(tun) \in Nat \ {0} /\ m \in Segments /\ m = tun[1]
      /\ tun' \in Seq(Segments) /\ Len(tun') = Len(tun) - 1
      /\ DOMAIN tun = 1 .. Len(tun) /\ DOMAIN tun' = 1 .. Len(tun) - 1
      /\ \A k \in 1 .. Len(tun) - 1 : tun'[k] = tun[k + 1]
  <2>1. tun # << >>  BY <1>2 DEF IInv, ThreadReady
  <2> QED  BY <1>1, <1>3, <2>1, HeadTailProperties
<1>6. /\ DataIn(tun') \in Nat
      /\ DataIn(tun) = DataIn(tun') + (IF m.kind = "data" THEN 1 ELSE 0)
  BY <1>1, <1>3, <1>5, DataInIs
<1>7. /\ m.kind = "rst" => remote.reset
      /\ m.kind = "fin" => /\ remote.fin /\ ~tcp.inbound.closed
                           /\ \A k \in 1 .. Len(tun) - 1 : tun'[k].kind \notin {"data", "fin"}
      /\ m.kind = "data" => ~tcp.inbound.closed
  <2>1. 1 \in DOMAIN tun  BY <1>5
  <2>2. TunInv  BY DEF IInv
  <2>3. ASSUME m.kind = "fin", NEW k \in 1 .. Len(tun) - 1
        PROVE  tun'[k].kind \notin {"data", "fin"}
    <3>1. k + 1 \in DOMAIN tun /\ ~(k + 1 <= 1) /\ tun'[k] = tun[k + 1]  BY <1>5
    <3> QED  BY <1>5, <2>1, <2>2, <2>3, <3>1 DEF TunInv
  <2>4. /\ m.kind = "rst" => remote.reset
        /\ m.kind = "fin" => remote.fin /\ ~tcp.inbound.closed
        /\ m.kind = "data" => ~tcp.inbound.closed
    BY <1>5, <2>1, <2>2 DEF TunInv
  <2> QED  BY <2>3, <2>4
<1>8. /\ tcp' \in TCPStates /\ tcp'.rules = tcp.rules /\ tcp'.data = tcp.data
      /\ tcp'.outbound_shutdown = tcp.outbound_shutdown /\ tcp'.fin_sent = tcp.fin_sent
      /\ tcp'.acked \in {tcp.acked, m.acked}
      /\ tcp'.outbound = IF m.kind = "rst" THEN SetError(tcp.outbound) ELSE tcp.outbound
      /\ m.kind = "data" => tcp'.inbound = PushBytes(tcp.inbound, 1)
      /\ m.kind = "fin" => tcp'.inbound = CloseStream(tcp.inbound)
      /\ m.kind = "rst" => tcp'.inbound = SetError(tcp.inbound)
      /\ m.kind = "ack" => tcp'.inbound = tcp.inbound
  BY <1>3, <1>4, <1>5, SegmentReceivedIs
<1> HIDE DEF m
<1>9. m.kind \in {"data", "fin", "ack", "rst"}  BY <1>5 DEF Segments
<1>10. /\ tcp'.outbound.pushed = tcp.outbound.pushed /\ tcp'.outbound.popped = tcp.outbound.popped
       /\ tcp'.outbound.closed <=> tcp.outbound.closed
       /\ tcp'.outbound.error => tcp.outbound.error \/ m.kind = "rst"
  <2>1. tcp.outbound \in StreamStates  BY <1>3, FieldTypes
  <2>2. CASE m.kind = "rst"
    <3>1. tcp'.outbound = SetError(tcp.outbound)  BY <1>8, <2>2
    <3> QED  BY <2>1, <2>2, <3>1, StreamIs
  <2>3. CASE m.kind # "rst"
    <3>1. tcp'.outbound = tcp.outbound  BY <1>8, <2>3
    <3> QED  BY <3>1
  <2> QED  BY <2>2, <2>3
<1>11. /\ tcp'.inbound.pushed = tcp.inbound.pushed + (IF m.kind = "data" THEN 1 ELSE 0)
       /\ tcp'.inbound.popped = tcp.inbound.popped
       /\ tcp'.inbound.closed <=> tcp.inbound.closed \/ m.kind = "fin"
       /\ tcp'.inbound.error => tcp.inbound.error \/ m.kind = "rst"
  <2>1. tcp.inbound \in StreamStates /\ tcp.inbound.pushed \in Nat  BY <1>3, FieldTypes
  <2>2. CASE m.kind = "data"  BY <1>7, <1>8, <2>1, <2>2, StreamIs
  <2>3. CASE m.kind = "fin"  BY <1>8, <2>1, <2>3, StreamIs
  <2>4. CASE m.kind = "rst"  BY <1>8, <2>1, <2>4, StreamIs
  <2>5. CASE m.kind = "ack"  BY <1>8, <2>1, <2>5
  <2> QED  BY <1>9, <2>2, <2>3, <2>4, <2>5
<1>12. TypeInv'
  <2>1. Len(tun') <= MaxSegments  BY <1>3, <1>5, Capacities DEF TypeInv
  <2> QED  BY <1>1, <1>3, <1>4, <1>5, <1>8, <2>1 DEF TypeInv
<1>13. Counted'
  <2>1. Counted  BY DEF IInv
  <2>2. remote'.sent = DataIn(tun') + tcp'.inbound.pushed
    <3> DEFINE n == IF m.kind = "data" THEN 1 ELSE 0
               d == DataIn(tun')
    <3>1. remote'.sent = DataIn(tun) + tcp.inbound.pushed  BY <1>1, <2>1 DEF Counted
    <3>2. /\ DataIn(tun) = d + n /\ d \in Nat /\ n \in Nat /\ tcp.inbound.pushed \in Nat
          /\ tcp'.inbound.pushed = tcp.inbound.pushed + n
      BY <1>3, <1>6, <1>11, FieldTypes
    <3> HIDE DEF n, d
    <3>3. remote'.sent = d + tcp'.inbound.pushed  BY <3>1, <3>2
    <3> QED  BY <3>3 DEF d
  <2>3. tcp'.inbound.popped <= tcp'.inbound.pushed
    BY <1>3, <1>11, <2>1, FieldTypes DEF Counted
  <2> QED  BY <1>1, <1>4, <1>10, <1>11, <2>1, <2>2, <2>3 DEF Counted
<1>14. CopyInv'  BY <1>1, <1>4 DEF IInv, CopyInv
<1>15. TCPInv'  BY <1>1, <1>7, <1>8, <1>10, <1>11 DEF IInv, TCPInv
<1>16. TunInv'
  <2>1. TunInv  BY DEF IInv
  <2>2. ASSUME NEW k \in DOMAIN tun'
        PROVE  /\ tun'[k].kind = "rst" => remote'.reset
               /\ tun'[k].kind = "fin" => remote'.fin /\ ~tcp'.inbound.closed
               /\ tun'[k].kind = "data" => ~tcp'.inbound.closed
    <3>1. k \in 1 .. Len(tun) - 1 /\ k + 1 \in DOMAIN tun /\ tun'[k] = tun[k + 1]  BY <1>5
    <3> QED  BY <1>1, <1>7, <1>11, <2>1, <3>1 DEF TunInv
  <2>3. ASSUME NEW j \in DOMAIN tun', NEW k \in DOMAIN tun', tun'[j].kind = "fin",
               tun'[k].kind \in {"data", "fin"}
        PROVE  k <= j
    <3>1. /\ j \in Int /\ k \in Int /\ j + 1 \in DOMAIN tun /\ k + 1 \in DOMAIN tun
          /\ tun'[j] = tun[j + 1] /\ tun'[k] = tun[k + 1]
      BY <1>5
    <3>2. k + 1 <= j + 1  BY <2>1, <2>3, <3>1 DEF TunInv
    <3> QED  BY <3>1, <3>2
  <2> QED  BY <2>2, <2>3 DEF TunInv
<1>17. OwnerReady'  BY <1>4 DEF IInv, OwnerReady
<1>18. EndsInv'
  <2> SUFFICES ASSUME Sound' PROVE EndsInv'  BY DEF EndsInv
  <2>1. Sound  BY <1>1, <1>4 DEF Sound
  <2>2. m.kind # "rst"  BY <1>7, <2>1 DEF Sound
  <2>3. IsFinished(tcp.inbound) => IsFinished(tcp'.inbound)
    BY <1>3, <1>7, <1>11, FieldTypes DEF IsFinished, Buffered
  <2>4. OwnAccord' => pair' = pair /\ thread'.pc # "done"  BY <1>4
  <2> QED  BY <1>1, <1>2, <1>4, <1>8, <1>10, <2>1, <2>3, <2>4 DEF IInv, EndsInv
<1>19. FateInv'  BY <1>1, <1>2, <1>4 DEF IInv, FateInv, Aborted
<1>20. SentInv'
  <2>1. SentInv  BY DEF IInv
  <2>2. /\ SentNumbers(tcp') = SentNumbers(tcp)
        /\ Buffered(tcp'.outbound) = Buffered(tcp.outbound)
        /\ IsFinished(tcp.outbound) => IsFinished(tcp'.outbound)
    BY <1>8, <1>10 DEF SentNumbers, Buffered, IsFinished
  <2>3. m.acked <= SentNumbers(tcp)
    <3>1. 1 \in DOMAIN tun  BY <1>5
    <3> QED  BY <1>5, <2>1, <3>1 DEF SentInv
  <2>4. ASSUME NEW k \in DOMAIN tun' PROVE tun'[k].acked <= SentNumbers(tcp)
    <3>1. k + 1 \in DOMAIN tun /\ tun'[k] = tun[k + 1]  BY <1>5
    <3> QED  BY <2>1, <3>1 DEF SentInv
  <2>5. tcp'.acked <= SentNumbers(tcp)  BY <1>8, <2>1, <2>3 DEF SentInv
  <2> QED  BY <1>1, <1>8, <2>1, <2>2, <2>4, <2>5 DEF SentInv
<1> QED  BY <1>4, <1>12, <1>13, <1>14, <1>15, <1>16, <1>17, <1>18, <1>19, <1>20 DEF IInv

\* Rule 1 of the thread: a segment on which receive() throws.  The inbound stream
\* is closed and the owner has not got all of it.
LEMMA SegmentThrowsKeeps ==
    ASSUME IInv, ThreadServes(1), tun' = Tail(tun), ReceiveThrows(tcp, Head(tun)),
           Kill("thrown"), UNCHANGED <<remote, stdin, stdout>>
    PROVE  IInv'
<1> USE DEF Kill
<1>1. /\ fate = "running" /\ thread = Serving(1) /\ OwnAccord /\ thread.pc = "serve"
  BY ThreadServing
<1>2. TypeInv /\ tun \in Seq(Segments)  BY DEF IInv, TypeInv
<1>3. /\ tun # << >> /\ Len(tun) \in Nat \ {0}
      /\ tun' \in Seq(Segments) /\ Len(tun') = Len(tun) - 1
      /\ DOMAIN tun = 1 .. Len(tun) /\ DOMAIN tun' = 1 .. Len(tun) - 1
      /\ \A k \in 1 .. Len(tun) - 1 : tun'[k] = tun[k + 1]
      /\ Head(tun).kind = "ack"
  <2>1. tun # << >>  BY <1>1 DEF IInv, ThreadReady
  <2>2. Head(tun).kind = "ack"  BY DEF ReceiveThrows
  <2> QED  BY <1>2, <2>1, <2>2, HeadTailProperties
<1>4. \A k \in DOMAIN tun' : k + 1 \in DOMAIN tun /\ tun'[k] = tun[k + 1]  BY <1>3
<1>5. TypeInv'
  <2>1. Len(tun') <= MaxSegments  BY <1>2, <1>3, Capacities DEF TypeInv
  <2> QED  BY <1>2, <1>3, <2>1 DEF TypeInv
<1>6. Counted'
  <2>1. DataIn(tun) = DataIn(tun')
    <3>1. DataIn(tun') \in Nat  BY <1>3, DataInIs
    <3>2. DataIn(tun) = DataIn(Tail(tun)) + 0  BY <1>2, <1>3, DataInIs
    <3> QED  BY <3>1, <3>2
  <2> QED  BY <2>1 DEF IInv, Counted
<1>7. SentInv'  BY <1>4 DEF IInv, SentInv
<1>8. CopyInv' /\ TCPInv'  BY DEF IInv, CopyInv, TCPInv
<1>9. TunInv'
  <2>1. TunInv  BY DEF IInv
  <2>2. ASSUME NEW j \in DOMAIN tun', NEW k \in DOMAIN tun', tun'[j].kind = "fin",
               tun'[k].kind \in {"data", "fin"}
        PROVE  k <= j
    <3>1. j \in Int /\ k \in Int  BY <1>3
    <3>2. k + 1 <= j + 1  BY <1>4, <2>1, <2>2 DEF TunInv
    <3> QED  BY <3>1, <3>2
  <2> QED  BY <1>4, <2>1, <2>2 DEF TunInv
<1>10. OwnerReady'  BY DEF IInv, OwnerReady
<1>11. ThreadReady'  BY DEF IInv, ThreadReady
<1>12. EndsInv'  BY DEF IInv, EndsInv, Sound, OwnAccord, Aborted
<1>13. FateInv'
  <2>1. tcp.inbound.closed /\ ~IsFinished(tcp.inbound)  BY DEF ReceiveThrows
  <2>2. remote.fin  BY <2>1 DEF IInv, TCPInv
  <2>3. copy.inbound.popped < remote.sent
    <3>1. /\ tcp.inbound.pushed \in Nat /\ tcp.inbound.popped \in Nat
          /\ copy.inbound.pushed \in Nat /\ copy.inbound.popped \in Nat
          /\ pair.queued["owner"] \in Nat /\ DataIn(tun) \in Nat
      BY <1>2, FieldTypes, DataInIs
    <3>2. /\ remote.sent = DataIn(tun) + tcp.inbound.pushed
          /\ tcp.inbound.popped <= tcp.inbound.pushed
          /\ tcp.inbound.popped = pair.queued["owner"] + copy.inbound.pushed
          /\ copy.inbound.pushed - copy.inbound.popped \in 0 .. BufferSize
      BY DEF IInv, Counted, Buffered
    <3>3. tcp.inbound.popped < tcp.inbound.pushed
      <4>1. tcp.inbound.pushed # tcp.inbound.popped
        BY <2>1, <3>1 DEF IsFinished, Buffered
      <4> QED  BY <3>1, <3>2, <4>1
    <3>4. copy.inbound.popped \in Nat  BY <1>2, FieldTypes
    <3>5. copy.inbound.popped <= copy.inbound.pushed  BY <3>1, <3>2, <3>4, Capacities
    <3>6. tcp.inbound.pushed <= remote.sent  BY <3>1, <3>2
    <3>7. copy.inbound.pushed <= tcp.inbound.popped  BY <3>1, <3>2
    <3>8. remote.sent \in Nat  BY <3>1, <3>2
    <3> QED  BY ONLY <3>1, <3>3, <3>4, <3>5, <3>6, <3>7, <3>8
  <2> QED  BY <2>2, <2>3 DEF IInv, FateInv, Aborted
<1> QED  BY <1>5, <1>6, <1>7, <1>8, <1>9, <1>10, <1>11, <1>12, <1>13 DEF IInv

\* Rule 1 of the thread, both cases.
LEMMA ReceiveSegmentKeeps ==
    ASSUME IInv, ReceiveSegment
    PROVE  IInv'
<1>1. CASE ReceiveThrows(tcp, Head(tun))
  BY <1>1, SegmentThrowsKeeps DEF ReceiveSegment
<1>2. CASE ~ReceiveThrows(tcp, Head(tun))
  BY <1>2, SegmentTakenKeeps DEF ReceiveSegment
<1> QED  BY <1>1, <1>2

\* push() takes bytes out of the outbound stream and sends the FIN after the last one.
Pushed(t, u) ==
    /\ u \in TCPStates /\ u.rules = t.rules /\ u.inbound = t.inbound
    /\ u.acked = t.acked /\ u.data = t.data
    /\ u.outbound_shutdown = t.outbound_shutdown
    /\ u.outbound.pushed = t.outbound.pushed
    /\ u.outbound.closed <=> t.outbound.closed
    /\ u.outbound.error <=> t.outbound.error
    /\ Buffered(u.outbound) \in 0 .. Buffered(t.outbound)
    /\ SentNumbers(t) <= SentNumbers(u)
    /\ u.fin_sent => IsFinished(u.outbound)

LEMMA PushIs ==
    ASSUME NEW t \in TCPStates, Buffered(t.outbound) \in Nat,
           t.fin_sent => IsFinished(t.outbound)
    PROVE  Pushed(t, TCPPush(t))
<1> DEFINE b == Buffered(t.outbound)
           a == Allowance(t)
           n == Lesser(b, a)
           o == PopBytes(t.outbound, n)
           f == t.fin_sent \/ (t.outbound.closed /\ n < a)
           u == TCPPush(t)
<1>1. /\ t.outbound \in StreamStates /\ t.fin_sent \in BOOLEAN
      /\ t.outbound.pushed \in Nat /\ t.outbound.popped \in Nat
      /\ t.window \in Nat /\ t.acked \in Nat
  BY DEF TCPStates, StreamStates
<1>2. SentNumbers(t) \in Nat  BY <1>1 DEF SentNumbers
<1>3. a \in Nat
  <2>1. InFlight(t) \in Int  BY <1>1, <1>2 DEF InFlight
  <2> QED  BY <1>1, <2>1 DEF Allowance
<1>4. n \in Nat /\ n <= b /\ (n < a => n = b) /\ b \in Nat
  BY <1>3 DEF Lesser
<1>5. u = [t EXCEPT !.outbound = o, !.fin_sent = f]
  BY DEF TCPPush
<1>6. f \in BOOLEAN /\ (t.fin_sent => f) /\ (f => t.outbound.closed /\ n = b)
  <2>1. t.fin_sent => t.outbound.closed /\ b = 0  BY DEF IsFinished
  <2>2. n < a => n = b  BY <1>4
  <2>3. b = 0 => n = b  BY <1>4
  <2>4. f \in BOOLEAN /\ (t.fin_sent => f)  BY <1>1
  <2> HIDE DEF n, a, b
  <2> QED  BY <2>1, <2>2, <2>3, <2>4
<1>7. b = t.outbound.pushed - t.outbound.popped  BY DEF Buffered
<1>8. o = PopBytes(t.outbound, n)  OBVIOUS
<1> HIDE DEF b, a, n, o, f, u
<1>9. /\ o \in StreamStates
      /\ o.pushed = t.outbound.pushed /\ o.popped = t.outbound.popped + n
      /\ o.closed <=> t.outbound.closed
      /\ o.error <=> t.outbound.error
  <2>1. /\ PopBytes(t.outbound, n) \in StreamStates
        /\ PopBytes(t.outbound, n).pushed = t.outbound.pushed
        /\ PopBytes(t.outbound, n).popped = t.outbound.popped + n
        /\ PopBytes(t.outbound, n).closed <=> t.outbound.closed
        /\ PopBytes(t.outbound, n).error <=> t.outbound.error
    <3>1. t.outbound \in StreamStates /\ n \in Nat  BY <1>1, <1>4
    <3> QED  BY ONLY <3>1, StreamIs, StreamTypes
  <2> QED  BY <1>8, <2>1
<1>10. /\ u \in TCPStates /\ u.outbound = o /\ u.fin_sent = f
       /\ u.rules = t.rules /\ u.inbound = t.inbound
       /\ u.acked = t.acked /\ u.data = t.data
       /\ u.outbound_shutdown = t.outbound_shutdown
  BY <1>5, <1>6, <1>9 DEF TCPStates
<1>11. Buffered(u.outbound) = b - n /\ b - n \in 0 .. b
  BY <1>1, <1>4, <1>7, <1>9, <1>10 DEF Buffered
<1>12. SentNumbers(t) <= SentNumbers(u)
  BY <1>1, <1>4, <1>6, <1>9, <1>10 DEF SentNumbers
<1>13. u.fin_sent => IsFinished(u.outbound)
  BY <1>4, <1>6, <1>9, <1>10, <1>11 DEF IsFinished
<1>14. Buffered(u.outbound) \in 0 .. Buffered(t.outbound)  BY <1>11 DEF b
<1> QED  BY <1>9, <1>10, <1>12, <1>13, <1>14 DEF Pushed, u

\* TCPOutbound() leaves the inbound direction alone, and pushes.
LEMMA OutboundIs ==
    ASSUME NEW t \in TCPStates, NEW n \in Nat, Buffered(t.outbound) \in Nat,
           ~t.outbound.closed, ~t.fin_sent
    PROVE  LET u == TCPOutbound(t, n)
           IN  /\ u \in TCPStates /\ u.rules = t.rules /\ u.inbound = t.inbound
               /\ u.acked = t.acked
               /\ u.outbound.pushed = t.outbound.pushed + n
               /\ u.outbound.closed <=> n = 0
               /\ u.outbound.error <=> t.outbound.error
               /\ Buffered(u.outbound) \in 0 .. Buffered(t.outbound) + n
               /\ SentNumbers(t) <= SentNumbers(u)
               /\ u.fin_sent => IsFinished(u.outbound)
               /\ n = 0 => u.data = ReachEOF(t.data) /\ u.outbound_shutdown
               /\ n # 0 => u.data = t.data /\ u.outbound_shutdown = t.outbound_shutdown
<1> DEFINE c == IF n = 0
                THEN [t EXCEPT !.data = ReachEOF(t.data), !.outbound = CloseStream(t.outbound),
                               !.outbound_shutdown = TRUE]
                ELSE [t EXCEPT !.outbound = PushBytes(t.outbound, n)]
           u == TCPOutbound(t, n)
<1>1. /\ t.outbound \in StreamStates /\ t.data \in FileDescriptors
      /\ t.outbound.pushed \in Nat /\ t.outbound.popped \in Nat
  BY DEF TCPStates, StreamStates
<1>2. /\ CloseStream(t.outbound) \in StreamStates /\ PushBytes(t.outbound, n) \in StreamStates
      /\ ReachEOF(t.data) \in FileDescriptors
  BY <1>1, StreamTypes, DescriptorTypes
<1>3. u = TCPPush(c)  BY DEF TCPOutbound
<1>4. /\ c \in TCPStates /\ c.rules = t.rules /\ c.inbound = t.inbound
      /\ c.acked = t.acked /\ c.fin_sent = t.fin_sent
      /\ n = 0 => /\ c.outbound = CloseStream(t.outbound) /\ c.data = ReachEOF(t.data)
                  /\ c.outbound_shutdown
      /\ n # 0 => /\ c.outbound = PushBytes(t.outbound, n) /\ c.data = t.data
                  /\ c.outbound_shutdown = t.outbound_shutdown
  <2>1. CASE n = 0
    <3>1. c = [t EXCEPT !.data = ReachEOF(t.data), !.outbound = CloseStream(t.outbound),
                        !.outbound_shutdown = TRUE]
      BY <2>1
    <3> HIDE DEF c
    <3> QED  BY <1>2, <2>1, <3>1 DEF TCPStates
  <2>2. CASE n # 0
    <3>1. c = [t EXCEPT !.outbound = PushBytes(t.outbound, n)]  BY <2>2
    <3> HIDE DEF c
    <3> QED  BY <1>2, <2>2, <3>1 DEF TCPStates
  <2> QED  BY <2>1, <2>2
<1> HIDE DEF c, u
<1>5. /\ c.outbound.pushed = t.outbound.pushed + n /\ c.outbound.popped = t.outbound.popped
      /\ c.outbound.closed <=> n = 0
      /\ c.outbound.error <=> t.outbound.error
  <2>1. CASE n = 0  BY <1>1, <1>4, <2>1, StreamIs
  <2>2. CASE n # 0  BY <1>1, <1>4, <2>2, StreamIs
  <2> QED  BY <2>1, <2>2
<1>6. Buffered(c.outbound) = Buffered(t.outbound) + n  BY <1>1, <1>5 DEF Buffered
<1>7. SentNumbers(c) = SentNumbers(t)  BY <1>4, <1>5 DEF SentNumbers
<1>8. Pushed(c, u)  BY <1>3, <1>4, <1>6, PushIs
<1> QED  BY <1>4, <1>5, <1>6, <1>7, <1>8 DEF Pushed, u

\* TCPInbound() leaves the outbound direction alone.
LEMMA InboundIs ==
    ASSUME NEW t \in TCPStates, NEW n \in Nat
    PROVE  LET u == TCPInbound(t, n)
           IN  /\ u \in TCPStates /\ u.rules = t.rules /\ u.outbound = t.outbound
               /\ u.data = t.data /\ u.outbound_shutdown = t.outbound_shutdown
               /\ u.acked = t.acked /\ u.fin_sent = t.fin_sent
               /\ u.inbound = PopBytes(t.inbound, n)
<1> DEFINE in == PopBytes(t.inbound, n)
           b == t.inbound_shutdown \/ InboundEnds(in)
<1>1. t.inbound \in StreamStates  BY DEF TCPStates
<1>2. in \in StreamStates  BY <1>1, StreamTypes
<1>3. TCPInbound(t, n) = [t EXCEPT !.inbound = in, !.inbound_shutdown = b]
  BY DEF TCPInbound
<1>4. b \in BOOLEAN  BY DEF InboundEnds
<1> HIDE DEF b, in
<1>5. TCPInbound(t, n) \in TCPStates  BY <1>2, <1>3, <1>4 DEF TCPStates
<1>6. /\ TCPInbound(t, n).rules = t.rules /\ TCPInbound(t, n).outbound = t.outbound
      /\ TCPInbound(t, n).data = t.data
      /\ TCPInbound(t, n).outbound_shutdown = t.outbound_shutdown
      /\ TCPInbound(t, n).acked = t.acked /\ TCPInbound(t, n).fin_sent = t.fin_sent
      /\ TCPInbound(t, n).inbound = in
  BY <1>3 DEF TCPStates
<1> QED  BY <1>5, <1>6 DEF in

\* Rule 2 of the thread: an end is read after all bytes that were written.
LEMMA ReadFromOwnerKeeps ==
    ASSUME IInv, ReadFromOwner
    PROVE  IInv'
<1> USE DEF world
<1> DEFINE n == Lesser(pair.queued["thread"], SendCapacity - Buffered(tcp.outbound))
           p == Got(pair, "thread", n)
           t == TCPOutbound(tcp, n)
<1>1. /\ ThreadServes(2) /\ ThreadServed(t, p, TRUE) /\ UNCHANGED <<tun, remote, stdin, stdout>>
  BY DEF ReadFromOwner
<1>2. /\ fate = "running" /\ thread = Serving(2) /\ OwnAccord /\ thread.pc = "serve"
  BY <1>1, ThreadServing
<1>3. TypeInv /\ SentInv /\ tcp \in TCPStates /\ pair \in Pairs
  BY DEF IInv, TypeInv
<1>4. /\ ~tcp.outbound.closed /\ ~tcp.fin_sent
      /\ n \in Nat /\ n <= pair.queued["thread"]
      /\ n <= SendCapacity - Buffered(tcp.outbound)
      /\ Buffered(tcp.outbound) \in Nat /\ pair.queued["thread"] \in Nat
      /\ n > 0 \/ (pair.queued["thread"] = 0 /\ "thread" \in pair.no_receive)
  <2>1. /\ ~tcp.outbound.closed /\ Buffered(tcp.outbound) < SendCapacity
        /\ pair.queued["thread"] > 0 \/ "thread" \in pair.no_receive
    BY <1>2 DEF IInv, ThreadReady
  <2>2. ~tcp.fin_sent  BY <1>3, <2>1 DEF SentInv, IsFinished
  <2>3. /\ pair.queued["thread"] \in Nat /\ Buffered(tcp.outbound) \in Nat
        /\ SendCapacity - Buffered(tcp.outbound) \in Nat \ {0}
    <3>1. Buffered(tcp.outbound) \in 0 .. SendCapacity /\ SendCapacity \in Nat
      BY <1>3, Capacities DEF SentInv
    <3> QED  BY <1>3, <2>1, <3>1, FieldTypes
  <2>4. /\ n \in {pair.queued["thread"], SendCapacity - Buffered(tcp.outbound)}
        /\ n <= pair.queued["thread"] /\ n <= SendCapacity - Buffered(tcp.outbound)
    BY <2>3, LesserIs
  <2> HIDE DEF n
  <2> QED  BY <2>1, <2>2, <2>3, <2>4
<1>5. p = Got(pair, "thread", n) /\ t = TCPOutbound(tcp, n)  OBVIOUS
<1> HIDE DEF n, p, t
<1>6. /\ p \in Pairs /\ p.no_send = pair.no_send /\ p.no_receive = pair.no_receive
      /\ p.queued["thread"] = pair.queued["thread"] - n
      /\ p.queued["owner"] = pair.queued["owner"]
  <2>1. "thread" \in Ends /\ Far("thread") = "owner"  BY DEF Ends, Far
  <2> QED  BY <1>3, <1>4, <1>5, <2>1, QueueIs
<1>7. /\ ThreadReady' /\ thread' \in ThreadPlaces
      /\ tcp' = t /\ UNCHANGED <<owner, copy, fate>>
      /\ pair' \in Pairs /\ pair'.queued = p.queued
      /\ p.no_receive \subseteq pair'.no_receive
      /\ OwnAccord' => thread'.pc = "poll" /\ pair' = p
  BY <1>1, <1>6, ThreadIsBack
<1>8. /\ tcp' \in TCPStates /\ tcp'.rules = tcp.rules /\ tcp'.inbound = tcp.inbound
      /\ tcp'.acked = tcp.acked
      /\ tcp'.outbound.pushed = tcp.outbound.pushed + n
      /\ tcp'.outbound.closed <=> n = 0
      /\ tcp'.outbound.error <=> tcp.outbound.error
      /\ Buffered(tcp'.outbound) \in 0 .. Buffered(tcp.outbound) + n
      /\ SentNumbers(tcp) <= SentNumbers(tcp')
      /\ tcp'.fin_sent => IsFinished(tcp'.outbound)
      /\ n = 0 => tcp'.data = ReachEOF(tcp.data) /\ tcp'.outbound_shutdown
      /\ n # 0 => tcp'.data = tcp.data /\ tcp'.outbound_shutdown = tcp.outbound_shutdown
  BY <1>3, <1>4, <1>5, <1>7, OutboundIs
<1>9. SentInv'
  <2>1. Buffered(tcp'.outbound) \in 0 .. SendCapacity  BY <1>4, <1>8, Capacities
  <2>2. /\ tcp.acked \in Nat /\ SentNumbers(tcp) \in Nat /\ SentNumbers(tcp') \in Int
        /\ remote.acked \in Nat
    <3>1. tcp'.outbound.popped \in Nat /\ tcp'.fin_sent \in BOOLEAN
      BY <1>8 DEF TCPStates, StreamStates
    <3>2. SentNumbers(tcp') \in Int  BY <3>1 DEF SentNumbers
    <3>3. remote.acked \in Nat  BY <1>3 DEF TypeInv, Remotes
    <3> QED  BY <1>3, <3>2, <3>3, FieldTypes
  <2>3. tcp'.acked <= SentNumbers(tcp') /\ remote'.acked <= SentNumbers(tcp')
    BY <1>1, <1>3, <1>8, <2>2 DEF SentInv
  <2>4. ASSUME NEW k \in DOMAIN tun' PROVE tun'[k].acked <= SentNumbers(tcp')
    <3>1. tun[k] \in Segments /\ tun'[k] = tun[k] /\ k \in DOMAIN tun
      BY <1>1, <1>3 DEF TypeInv
    <3>2. tun[k].acked \in Nat /\ tun[k].acked <= SentNumbers(tcp)
      BY <1>3, <3>1 DEF Segments, SentInv
    <3> QED  BY <1>8, <2>2, <3>1, <3>2
  <2> QED  BY <1>8, <2>1, <2>3, <2>4 DEF SentInv
<1>10. TypeInv'  BY <1>1, <1>3, <1>7, <1>8 DEF TypeInv
<1>11. Counted'
  <2>1. Counted  BY DEF IInv
  <2>2. copy'.outbound.popped = pair'.queued["thread"] + tcp'.outbound.pushed
    BY <1>3, <1>4, <1>6, <1>7, <1>8, <2>1, FieldTypes DEF Counted
  <2> QED  BY <1>1, <1>6, <1>7, <1>8, <2>1, <2>2 DEF Counted
<1>12. CopyInv' /\ OwnerReady'
  <2>1. pair'.queued["owner"] = pair.queued["owner"] /\ pair.no_receive \subseteq pair'.no_receive
    BY <1>6, <1>7
  <2>2. CopyInv'  BY <1>1, <1>7 DEF IInv, CopyInv
  <2>3. OwnerReady'  BY <1>7, <2>1 DEF IInv, OwnerReady
  <2> QED  BY <2>2, <2>3
<1>13. TCPInv'
  <2>1. TCPInv /\ tcp.data \in FileDescriptors  BY <1>3, FieldTypes DEF IInv
  <2>2. /\ ~tcp'.data.closed /\ (tcp'.data.eof => tcp'.outbound.closed)
        /\ tcp'.outbound.closed => tcp'.outbound_shutdown
    <3>1. CASE n = 0
      <4>1. ReachEOF(tcp.data).closed = tcp.data.closed  BY <2>1, DescriptorTypes
      <4> QED  BY <1>8, <2>1, <3>1, <4>1 DEF TCPInv
    <3>2. CASE n # 0  BY <1>4, <1>8, <2>1, <3>2 DEF TCPInv
    <3> QED  BY <3>1, <3>2
  <2> QED  BY <1>1, <1>8, <2>1, <2>2 DEF TCPInv
<1>14. TunInv'  BY <1>1, <1>8 DEF IInv, TunInv
<1>15. EndsInv'
  <2> SUFFICES ASSUME Sound' PROVE EndsInv'  BY DEF EndsInv
  <2>1. Sound  BY <1>1, <1>7 DEF Sound
  <2>2. tcp'.outbound.closed => IsFinished(copy'.outbound) /\ pair'.queued["thread"] = 0
    <3> SUFFICES ASSUME n = 0
                 PROVE IsFinished(copy'.outbound) /\ pair'.queued["thread"] = 0
      BY <1>8
    <3>1. pair.queued["thread"] = 0 /\ "thread" \in pair.no_receive  BY <1>4
    <3>2. IsFinished(copy.outbound)  BY <1>2, <2>1, <3>1 DEF IInv, EndsInv
    <3> QED  BY <1>6, <1>7, <3>1, <3>2
  <2>3. /\ OwnAccord' /\ ("owner" \in pair'.no_send \/ "thread" \in pair'.no_receive) =>
              IsFinished(copy'.outbound)
        /\ OwnAccord' /\ ("thread" \in pair'.no_send \/ "owner" \in pair'.no_receive) =>
              IsFinished(tcp'.inbound)
        /\ OwnAccord' => thread'.pc # "done"
    BY <1>2, <1>6, <1>7, <1>8, <2>1 DEF IInv, EndsInv
  <2>4. /\ copy'.outbound.closed => stdin'.end \in {"eof", "hangup"} /\ stdin'.arrived = 0
        /\ 2 \notin copy'.rules => IsFinished(copy'.outbound)
        /\ copy'.inbound.closed => IsFinished(tcp'.inbound) /\ pair'.queued["owner"] = 0
        /\ 3 \notin tcp'.rules => IsFinished(tcp'.inbound)
        /\ owner'.pc \in {"close", "join"} =>
              IsFinished(copy'.outbound) /\ IsFinished(copy'.inbound)
    BY <1>1, <1>6, <1>7, <1>8, <2>1 DEF IInv, EndsInv
  <2> QED  BY <2>2, <2>3, <2>4 DEF EndsInv
<1>16. FateInv'  BY <1>1, <1>2, <1>7 DEF IInv, FateInv, Aborted
<1> QED  BY <1>7, <1>9, <1>10, <1>11, <1>12, <1>13, <1>14, <1>15, <1>16 DEF IInv

\* Rule 3 of the thread: bytes are passed on, and the socket is shut after the last one.
LEMMA WriteToOwnerWrites ==
    ASSUME IInv, ThreadServes(3), NEW n \in Nat, NEW p, NEW t, NEW counted, counted,
           n <= Buffered(tcp.inbound), n <= Room(pair, "thread"),
           t = TCPInbound(tcp, n),
           p = IF InboundEnds(t.inbound) THEN ShutWrite(Wrote(pair, "thread", n), "thread")
               ELSE Wrote(pair, "thread", n),
           ThreadServed(t, p, counted), UNCHANGED world
    PROVE  IInv'
<1> USE DEF world
<1>1. /\ fate = "running" /\ thread = Serving(3) /\ OwnAccord /\ thread.pc = "serve"
  BY ThreadServing
<1>2. TypeInv /\ tcp \in TCPStates /\ pair \in Pairs  BY DEF IInv, TypeInv
<1>3. /\ t \in TCPStates /\ t.rules = tcp.rules /\ t.outbound = tcp.outbound
      /\ t.data = tcp.data /\ t.outbound_shutdown = tcp.outbound_shutdown
      /\ t.acked = tcp.acked /\ t.fin_sent = tcp.fin_sent
      /\ t.inbound = PopBytes(tcp.inbound, n)
  BY <1>2, InboundIs
<1>4. /\ t.inbound.pushed = tcp.inbound.pushed
      /\ t.inbound.popped = tcp.inbound.popped + n
      /\ t.inbound.closed <=> tcp.inbound.closed
      /\ t.inbound.error <=> tcp.inbound.error
  <2>1. tcp.inbound \in StreamStates  BY <1>2, FieldTypes
  <2> QED  BY <1>3, <2>1, StreamIs
<1>5. /\ p \in Pairs
      /\ p.queued["owner"] = pair.queued["owner"] + n
      /\ p.queued["thread"] = pair.queued["thread"]
      /\ p.no_send \subseteq pair.no_send \union {"thread"}
      /\ p.no_receive \subseteq pair.no_receive \union {"owner"}
      /\ pair.no_receive \subseteq p.no_receive
      /\ InboundEnds(t.inbound) \/ (/\ p.no_send = pair.no_send
                                    /\ p.no_receive = pair.no_receive)
  <2> DEFINE w == Wrote(pair, "thread", n)
  <2>0. "thread" \in Ends /\ Far("thread") = "owner"  BY DEF Ends, Far
  <2>1. /\ w \in Pairs /\ w.no_send = pair.no_send /\ w.no_receive = pair.no_receive
        /\ w.queued["owner"] = pair.queued["owner"] + n
        /\ w.queued["thread"] = pair.queued["thread"]
    BY <1>2, <2>0, QueueIs
  <2> HIDE DEF w
  <2>2. /\ ShutWrite(w, "thread") \in Pairs /\ ShutWrite(w, "thread").queued = w.queued
        /\ ShutWrite(w, "thread").no_send = w.no_send \union {"thread"}
        /\ ShutWrite(w, "thread").no_receive = w.no_receive \union {"owner"}
    BY <2>0, <2>1, PairIs
  <2>3. p = IF InboundEnds(t.inbound) THEN ShutWrite(w, "thread") ELSE w
    BY DEF w
  <2> QED  BY <2>1, <2>2, <2>3
<1>6. /\ ThreadReady' /\ thread' \in ThreadPlaces
      /\ tcp' = t /\ UNCHANGED <<owner, copy, fate>>
      /\ pair' \in Pairs /\ pair'.queued = p.queued
      /\ p.no_receive \subseteq pair'.no_receive
      /\ OwnAccord' => thread'.pc = "poll" /\ pair' = p
  BY <1>5, ThreadIsBack
<1>7. TypeInv'  BY <1>2, <1>3, <1>6 DEF TypeInv
<1>8. /\ IsFinished(tcp.inbound) => IsFinished(t.inbound) /\ n = 0
      /\ t.inbound.popped <= t.inbound.pushed
      /\ t.inbound.popped \in Nat /\ tcp.inbound.popped \in Nat
  <2>1. /\ tcp.inbound.pushed \in Nat /\ tcp.inbound.popped \in Nat
        /\ n <= tcp.inbound.pushed - tcp.inbound.popped
    BY <1>2, FieldTypes DEF Buffered
  <2>2. tcp.inbound.closed /\ tcp.inbound.pushed - tcp.inbound.popped = 0
           => t.inbound.closed /\ t.inbound.pushed - t.inbound.popped = 0 /\ n = 0
    BY <1>4, <2>1
  <2> QED  BY <1>4, <2>1, <2>2 DEF Buffered, IsFinished
<1>9. Counted'
  <2>1. Counted  BY DEF IInv
  <2>2. tcp'.inbound.popped = pair'.queued["owner"] + copy'.inbound.pushed
    BY <1>2, <1>4, <1>5, <1>6, <2>1, FieldTypes DEF Counted
  <2>3. remote'.sent - tcp'.inbound.popped <= RecvCapacity
    <3>1. remote.sent \in Int /\ RecvCapacity \in Nat  BY <1>2, Capacities DEF TypeInv, Remotes
    <3> QED  BY <1>4, <1>6, <1>8, <2>1, <3>1 DEF Counted
  <2> QED  BY <1>3, <1>4, <1>5, <1>6, <1>8, <2>1, <2>2, <2>3 DEF Counted
<1>10. CopyInv' /\ SentInv'  BY <1>3, <1>6, SentKeeps DEF IInv, CopyInv
<1>11. TCPInv'  BY <1>3, <1>4, <1>6 DEF IInv, TCPInv
<1>12. TunInv'  BY <1>4, <1>6 DEF IInv, TunInv
<1>13. OwnerReady'
  <2>1. pair.queued["owner"] > 0 => pair'.queued["owner"] > 0
    BY <1>2, <1>5, <1>6, FieldTypes
  <2>2. pair.no_receive \subseteq pair'.no_receive  BY <1>5, <1>6
  <2> QED  BY <1>6, <2>1, <2>2 DEF IInv, OwnerReady
<1>14. EndsInv'
  <2> SUFFICES ASSUME Sound' PROVE EndsInv'  BY DEF EndsInv
  <2>1. Sound  BY <1>6 DEF Sound
  <2>2. ~t.inbound.error  BY <1>4, <2>1 DEF IInv, TCPInv, Sound
  <2>3. /\ OwnAccord' /\ ("owner" \in pair'.no_send \/ "thread" \in pair'.no_receive) =>
              IsFinished(copy'.outbound)
        /\ OwnAccord' => thread'.pc # "done"
    BY <1>1, <1>5, <1>6, <2>1 DEF IInv, EndsInv
  <2>4. OwnAccord' /\ ("thread" \in pair'.no_send \/ "owner" \in pair'.no_receive) =>
              IsFinished(tcp'.inbound)
    BY <1>1, <1>5, <1>6, <1>8, <2>1, <2>2 DEF IInv, EndsInv, InboundEnds
  <2>5. /\ copy'.outbound.closed => stdin'.end \in {"eof", "hangup"} /\ stdin'.arrived = 0
        /\ 2 \notin copy'.rules => IsFinished(copy'.outbound)
        /\ tcp'.outbound.closed => IsFinished(copy'.outbound) /\ pair'.queued["thread"] = 0
        /\ owner'.pc \in {"close", "join"} =>
              IsFinished(copy'.outbound) /\ IsFinished(copy'.inbound)
    BY <1>3, <1>5, <1>6, <2>1 DEF IInv, EndsInv
  <2>6. copy'.inbound.closed => IsFinished(tcp'.inbound) /\ pair'.queued["owner"] = 0
    BY <1>5, <1>6, <1>8, <2>1 DEF IInv, EndsInv
  <2>7. 3 \notin tcp'.rules => IsFinished(tcp'.inbound)
    BY <1>3, <1>6, <1>8, <2>1 DEF IInv, EndsInv
  <2> QED  BY <2>3, <2>4, <2>5, <2>6, <2>7 DEF EndsInv
<1>15. FateInv'  BY <1>1, <1>6 DEF IInv, FateInv, Aborted
<1> QED  BY <1>6, <1>7, <1>9, <1>10, <1>11, <1>12, <1>13, <1>14, <1>15 DEF IInv

\* Rule 3 of the thread, all cases.
LEMMA WriteToOwnerKeeps ==
    ASSUME IInv, WriteToOwner
    PROVE  IInv'
<1>1. ThreadServes(3) /\ UNCHANGED world  BY DEF WriteToOwner
<1>2. /\ fate = "running" /\ thread = Serving(3) /\ OwnAccord /\ thread.pc = "serve"
  BY <1>1, ThreadServing
<1>3. TypeInv /\ tcp \in TCPStates /\ pair \in Pairs  BY DEF IInv, TypeInv
<1>4. Buffered(tcp.inbound) \in Nat /\ Room(pair, "thread") \in Int
  <2>1. pair.queued["owner"] \in 0 .. SocketRoom  BY <1>3, FieldTypes
  <2>2. /\ tcp.inbound.pushed \in Nat /\ tcp.inbound.popped \in Nat
        /\ tcp.inbound.popped <= tcp.inbound.pushed
    BY <1>3, FieldTypes DEF IInv, Counted
  <2> QED  BY <2>1, <2>2, Capacities DEF Buffered, Room, Far
<1>5. CASE Buffered(tcp.inbound) > 0 /\ ~Writable(pair, "thread") /\ Kill("killed")
  <2>1. ~Undisturbed
    <3> SUFFICES ASSUME Undisturbed PROVE FALSE  OBVIOUS
    <3>1. Sound  BY DEF Undisturbed, Sound, IInv, CopyInv
    <3>2. IsFinished(tcp.inbound)
      BY <1>2, <1>5, <3>1 DEF IInv, EndsInv, Writable
    <3> QED  BY <1>5, <3>2 DEF IsFinished
  <2> QED  BY <1>1, <1>2, <1>5, <2>1, KillKeeps
<1>6. ASSUME NEW n \in 0 .. Lesser(Buffered(tcp.inbound), Room(pair, "thread")),
             Buffered(tcp.inbound) > 0 => n > 0,
             ThreadServed(TCPInbound(tcp, n),
                          IF InboundEnds(TCPInbound(tcp, n).inbound)
                          THEN ShutWrite(Wrote(pair, "thread", n), "thread")
                          ELSE Wrote(pair, "thread", n),
                          n > 0 \/ InboundEnds(TCPInbound(tcp, n).inbound))
      PROVE  IInv'
  <2> DEFINE t == TCPInbound(tcp, n)
             p == IF InboundEnds(t.inbound) THEN ShutWrite(Wrote(pair, "thread", n), "thread")
                  ELSE Wrote(pair, "thread", n)
             counted == n > 0 \/ InboundEnds(t.inbound)
  <2>1. n \in Nat /\ n <= Buffered(tcp.inbound) /\ n <= Room(pair, "thread")
    <3> DEFINE l == Lesser(Buffered(tcp.inbound), Room(pair, "thread"))
    <3>1. l \in Int /\ l <= Buffered(tcp.inbound) /\ l <= Room(pair, "thread")
      BY <1>4, LesserIs
    <3> HIDE DEF l
    <3>2. n \in 0 .. l  BY DEF l
    <3> QED  BY <1>4, <3>1, <3>2
  <2>2. counted
    <3> SUFFICES ASSUME n = 0 PROVE InboundEnds(t.inbound)
      BY <2>1
    <3>1. Buffered(tcp.inbound) = 0  BY <1>4, <1>6
    <3>2. tcp.inbound.closed \/ tcp.inbound.error  BY <1>2, <3>1 DEF IInv, ThreadReady
    <3>3. /\ t.inbound = PopBytes(tcp.inbound, n)
          /\ tcp.inbound \in StreamStates
          /\ tcp.inbound.pushed \in Nat /\ tcp.inbound.popped \in Nat
      BY <1>3, <2>1, FieldTypes, InboundIs
    <3>4. /\ t.inbound.pushed = tcp.inbound.pushed
          /\ t.inbound.popped = tcp.inbound.popped + n
          /\ t.inbound.closed <=> tcp.inbound.closed
          /\ t.inbound.error <=> tcp.inbound.error
      BY <2>1, <3>3, StreamIs
    <3> HIDE DEF t
    <3> QED  BY <3>1, <3>2, <3>3, <3>4 DEF InboundEnds, IsFinished, Buffered
  <2>3. ThreadServed(t, p, counted)  BY <1>6
  <2>4. /\ t = TCPInbound(tcp, n)
        /\ p = IF InboundEnds(t.inbound) THEN ShutWrite(Wrote(pair, "thread", n), "thread")
               ELSE Wrote(pair, "thread", n)
    OBVIOUS
  <2> HIDE DEF t, p, counted
  <2> QED  BY <1>1, <2>1, <2>2, <2>3, <2>4, WriteToOwnerWrites
<1> QED  BY <1>5, <1>6 DEF WriteToOwner

-----------------------------------------------------------------------------
\* The remote peer, and who writes standard input and reads standard output.
LEMMA LingerPassesKeeps ==
    ASSUME IInv, LingerPasses
    PROVE  IInv'
<1> USE DEF world
<1>1. /\ fate = "running" /\ thread.pc = "poll"
      /\ tcp' = [tcp EXCEPT !.lingered = TRUE]
      /\ UNCHANGED <<owner, copy, thread, pair, fate, world>>
  BY DEF LingerPasses
<1>2. tcp \in TCPStates  BY DEF IInv, TypeInv
<1>3. tcp' \in TCPStates  BY <1>1, <1>2 DEF TCPStates
<1>4. /\ tcp'.rules = tcp.rules /\ tcp'.outbound = tcp.outbound /\ tcp'.inbound = tcp.inbound
      /\ tcp'.outbound_shutdown = tcp.outbound_shutdown
      /\ tcp'.data = tcp.data /\ tcp'.acked = tcp.acked /\ tcp'.fin_sent = tcp.fin_sent
  BY <1>1, <1>2 DEF TCPStates
<1>5. TypeInv'  BY <1>1, <1>3 DEF IInv, TypeInv
<1>6. Counted' /\ SentInv'  BY <1>1, <1>4, SentKeeps DEF IInv, Counted
<1>7. CopyInv' /\ OwnerReady'  BY <1>1 DEF IInv, CopyInv, OwnerReady
<1>8. TCPInv'  BY <1>1, <1>4 DEF IInv, TCPInv
<1>9. TunInv'  BY <1>1, <1>4 DEF IInv, TunInv
<1>10. ThreadReady'  BY <1>1, <1>4 DEF IInv, ThreadReady
<1>11. EndsInv'
  BY <1>1, <1>4 DEF IInv, EndsInv, Sound, OwnAccord, Aborted,
         SenderFinished, InFlight, SentNumbers
<1>12. FateInv'  BY <1>1 DEF IInv, FateInv, Aborted
<1> QED  BY <1>5, <1>6, <1>7, <1>8, <1>9, <1>10, <1>11, <1>12 DEF IInv

\* The remote peer sends a segment that stands to the others as it should.
LEMMA SendsKeeps ==
    ASSUME IInv, NEW m \in Segments, m.acked <= SentNumbers(tcp),
           Len(tun) < MaxSegments, tun' = Append(tun, m), fate = "running",
           remote' \in Remotes, remote'.acked <= SentNumbers(tcp),
           remote'.sent = remote.sent + (IF m.kind = "data" THEN 1 ELSE 0),
           m.kind = "data" => remote.sent - tcp.inbound.popped < RecvCapacity,
           m.kind \in {"data", "fin"} => ~remote.fin,
           remote.fin => remote'.fin, remote.reset => remote'.reset,
           m.kind = "fin" => remote'.fin, m.kind = "rst" => remote'.reset,
           UNCHANGED <<local, stdin, stdout>>
    PROVE  IInv'
<1> USE DEF local
<1>1. Len(tun) < MaxSegments /\ tun' = Append(tun, m)  OBVIOUS
<1>2. TypeInv /\ tun \in Seq(Segments)  BY DEF IInv, TypeInv
<1>3. /\ tun' \in Seq(Segments) /\ Len(tun') = Len(tun) + 1 /\ Len(tun) \in Nat
      /\ DOMAIN tun = 1 .. Len(tun) /\ DOMAIN tun' = 1 .. Len(tun) + 1
      /\ \A k \in 1 .. Len(tun) : tun'[k] = tun[k]
      /\ tun'[Len(tun) + 1] = m
  BY <1>1, <1>2
<1>4. TypeInv'
  <2>1. Len(tun') <= MaxSegments  BY <1>1, <1>3, Capacities
  <2> QED  BY <1>2, <1>3, <2>1 DEF TypeInv
<1>5. Counted'
  <2> DEFINE n == IF m.kind = "data" THEN 1 ELSE 0
             d == DataIn(tun)
             e == DataIn(tun')
  <2>1. d \in Nat /\ e = d + n  BY <1>1, <1>2, DataInIs
  <2>2. /\ remote'.sent = remote.sent + n /\ remote.sent = d + tcp.inbound.pushed
        /\ n \in Nat /\ tcp.inbound.pushed \in Nat /\ tcp.inbound.popped \in Nat
        /\ remote.sent \in Nat /\ RecvCapacity \in Nat
        /\ remote.sent - tcp.inbound.popped <= RecvCapacity
    <3>1. Counted  BY DEF IInv
    <3>2. remote \in Remotes  BY <1>2 DEF TypeInv
    <3>3. remote.sent \in Nat /\ RecvCapacity \in Nat  BY <3>2, Capacities DEF Remotes
    <3>4. tcp.inbound.pushed \in Nat /\ tcp.inbound.popped \in Nat  BY <1>2, FieldTypes
    <3>5. /\ remote.sent = d + tcp.inbound.pushed
          /\ remote.sent - tcp.inbound.popped <= RecvCapacity
      BY <3>1 DEF Counted
    <3>6. remote'.sent = remote.sent + n /\ n \in Nat  OBVIOUS
    <3> QED  BY <3>3, <3>4, <3>5, <3>6
  <2>3. n = 0 \/ (n = 1 /\ remote.sent - tcp.inbound.popped < RecvCapacity)
    OBVIOUS
  <2> HIDE DEF n, d, e
  <2>4. remote'.sent = e + tcp.inbound.pushed  BY <2>1, <2>2
  <2>5. remote'.sent - tcp.inbound.popped <= RecvCapacity  BY <2>2, <2>3
  <2>6. remote'.sent = DataIn(tun') + tcp'.inbound.pushed  BY <2>4 DEF e
  <2> QED  BY <2>5, <2>6 DEF IInv, Counted
<1>6. CopyInv'  BY DEF IInv, CopyInv
<1>7. TCPInv'  BY DEF IInv, TCPInv
<1>8. TunInv'
  <2>1. TunInv /\ (tcp.inbound.closed => remote.fin)  BY DEF IInv, TCPInv
  <2>2. ASSUME NEW k \in DOMAIN tun'
        PROVE  /\ tun'[k].kind = "rst" => remote'.reset
               /\ tun'[k].kind = "fin" => remote'.fin /\ ~tcp'.inbound.closed
               /\ tun'[k].kind = "data" => ~tcp'.inbound.closed
    <3>1. CASE k \in 1 .. Len(tun)  BY <1>3, <2>1, <3>1 DEF TunInv
    <3>2. CASE k = Len(tun) + 1  BY <1>3, <2>1, <3>2
    <3> QED  BY <1>3, <3>1, <3>2
  <2>3. ASSUME NEW j \in DOMAIN tun', NEW k \in DOMAIN tun', tun'[j].kind = "fin",
               tun'[k].kind \in {"data", "fin"}
        PROVE  k <= j
    <3>1. CASE j = Len(tun) + 1  BY <1>3, <3>1
    <3>2. CASE j \in 1 .. Len(tun)
      <4>1. tun[j].kind = "fin" /\ j \in DOMAIN tun  BY <1>3, <2>3, <3>2
      <4>2. remote.fin  BY <2>1, <4>1 DEF TunInv
      <4>3. m.kind \notin {"data", "fin"}  BY <4>2
      <4>4. k \in DOMAIN tun /\ tun[k].kind \in {"data", "fin"}  BY <1>3, <2>3, <4>3
      <4> QED  BY <2>1, <4>1, <4>4 DEF TunInv
    <3> QED  BY <1>3, <3>1, <3>2
  <2> QED  BY <2>2, <2>3 DEF TunInv
<1>9. OwnerReady'  BY DEF IInv, OwnerReady
<1>10. ThreadReady'
  <2>1. tun' # << >>  BY <1>3
  <2> QED  BY <2>1 DEF IInv, ThreadReady
<1>11. EndsInv'
  <2>1. (Sound' => Sound) /\ (OwnAccord' => OwnAccord)  BY DEF Sound, OwnAccord, Aborted
  <2> QED  BY <2>1 DEF IInv, EndsInv
<1>12. FateInv'  BY DEF IInv, FateInv, Aborted
<1>13. SentInv'
  <2>1. SentInv  BY DEF IInv
  <2>2. ASSUME NEW k \in DOMAIN tun' PROVE tun'[k].acked <= SentNumbers(tcp)
    <3>1. CASE k \in 1 .. Len(tun)  BY <1>3, <2>1, <3>1 DEF SentInv
    <3>2. CASE k = Len(tun) + 1  BY <1>3, <3>2
    <3> QED  BY <1>3, <3>1, <3>2
  <2> QED  BY <2>1, <2>2 DEF SentInv
<1> QED  BY <1>4, <1>5, <1>6, <1>7, <1>8, <1>9, <1>10, <1>11, <1>12, <1>13 DEF IInv

\* What Sends() makes.
LEMMA SegmentIs ==
    ASSUME TypeInv, NEW kind \in {"data", "fin", "ack", "rst"}, NEW acked \in Nat,
           NEW window \in Nat, Sends(kind, acked, window)
    PROVE  \E m \in Segments :
              m.kind = kind /\ m.acked = acked
              /\ Len(tun) < MaxSegments /\ tun' = Append(tun, m)
<1> DEFINE first == remote.sent + (IF remote.fin THEN 1 ELSE 0)
           m == Segment(kind, first, acked, window)
<1>1. first \in Nat  BY Capacities DEF TypeInv, Remotes
<1>2. Len(tun) < MaxSegments /\ tun' = Append(tun, m)  BY DEF Sends
<1> HIDE DEF first
<1>3. m \in Segments /\ m.kind = kind /\ m.acked = acked
  BY <1>1 DEF Segment, Segments
<1> HIDE DEF m
<1> QED  BY <1>2, <1>3

\* The remote peer sends a byte, its FIN or an acknowledgment.
LEMMA RemoteSendsKeeps ==
    ASSUME IInv, RemoteSends
    PROVE  IInv'
<1>1. fate = "running" /\ UNCHANGED <<local, stdin, stdout>>
  BY DEF RemoteSends
<1>2. /\ TypeInv /\ remote \in Remotes /\ remote.acked \in Nat /\ remote.window \in Nat
      /\ remote.acked <= SentNumbers(tcp) /\ SentNumbers(tcp) \in Nat
  BY FieldTypes DEF IInv, TypeInv, SentInv, Remotes
<1>3. CASE /\ ~remote.fin /\ remote.sent - tcp.inbound.popped < RecvCapacity
           /\ remote.sent < RemoteBytes
           /\ Sends("data", remote.acked, remote.window)
           /\ remote' = [remote EXCEPT !.sent = @ + 1]
  <2>1. PICK m \in Segments : /\ m.kind = "data" /\ m.acked = remote.acked
                              /\ Len(tun) < MaxSegments /\ tun' = Append(tun, m)
    BY <1>2, <1>3, SegmentIs
  <2>2. /\ remote' \in Remotes /\ remote'.sent = remote.sent + 1
        /\ remote'.fin = remote.fin /\ remote'.reset = remote.reset
        /\ remote'.acked = remote.acked
    <3>1. remote.sent + 1 \in 0 .. RemoteBytes  BY <1>2, <1>3, Capacities DEF Remotes
    <3>2. remote' = [remote EXCEPT !.sent = remote.sent + 1]  BY <1>2, <1>3 DEF Remotes
    <3> QED  BY ONLY <1>2, <3>1, <3>2 DEF Remotes
  <2> QED  BY <1>1, <1>2, <1>3, <2>1, <2>2, SendsKeeps
<1>4. CASE /\ ~remote.fin /\ Sends("fin", remote.acked, remote.window)
           /\ remote' = [remote EXCEPT !.fin = TRUE]
  <2>1. PICK m \in Segments : /\ m.kind = "fin" /\ m.acked = remote.acked
                              /\ Len(tun) < MaxSegments /\ tun' = Append(tun, m)
    BY <1>2, <1>4, SegmentIs
  <2>2. /\ remote' \in Remotes /\ remote'.sent = remote.sent + 0
        /\ remote'.fin /\ remote'.reset = remote.reset
        /\ remote'.acked = remote.acked
    <3>1. remote' = [remote EXCEPT !.fin = TRUE]  BY <1>4
    <3>2. remote' \in Remotes /\ remote'.sent = remote.sent /\ remote.sent \in 0 .. RemoteBytes
      BY ONLY <1>2, <3>1 DEF Remotes
    <3>3. remote'.fin /\ remote'.reset = remote.reset /\ remote'.acked = remote.acked
      BY ONLY <1>2, <3>1 DEF Remotes
    <3> QED  BY <3>2, <3>3, Capacities
  <2> QED  BY <1>1, <1>2, <1>4, <2>1, <2>2, SendsKeeps
<1>5. ASSUME NEW acked \in remote.acked .. SentNumbers(tcp), NEW window \in Windows,
             Sends("ack", acked, window),
             remote' = [remote EXCEPT !.acked = acked, !.window = window]
      PROVE  IInv'
  <2>1. acked \in Nat /\ acked <= SentNumbers(tcp) /\ window \in Nat
    BY <1>2, Capacities
  <2>2. PICK m \in Segments : /\ m.kind = "ack" /\ m.acked = acked
                              /\ Len(tun) < MaxSegments /\ tun' = Append(tun, m)
    BY <1>2, <1>5, <2>1, SegmentIs
  <2>3. /\ remote' \in Remotes /\ remote'.sent = remote.sent + 0
        /\ remote'.fin = remote.fin /\ remote'.reset = remote.reset
        /\ remote'.acked = acked
    <3>1. remote' = [remote EXCEPT !.acked = acked, !.window = window]  BY <1>5
    <3>2. remote' \in Remotes /\ remote'.sent = remote.sent /\ remote.sent \in 0 .. RemoteBytes
      BY ONLY <1>2, <2>1, <3>1 DEF Remotes
    <3>3. /\ remote'.fin = remote.fin /\ remote'.reset = remote.reset
          /\ remote'.acked = acked
      BY ONLY <1>2, <3>1 DEF Remotes
    <3> QED  BY <3>2, <3>3, Capacities
  <2> QED  BY <1>1, <2>1, <2>2, <2>3, SendsKeeps
<1> QED  BY <1>3, <1>4, <1>5 DEF RemoteSends

\* The remote peer sends a RST.
LEMMA RemoteResetsKeeps ==
    ASSUME IInv, RemoteResets
    PROVE  IInv'
<1>1. /\ fate = "running" /\ UNCHANGED <<local, stdin, stdout>>
      /\ Sends("rst", remote.acked, remote.window)
      /\ remote' = [remote EXCEPT !.reset = TRUE]
  BY DEF RemoteResets
<1>2. /\ TypeInv /\ remote \in Remotes /\ remote.acked \in Nat /\ remote.window \in Nat
      /\ remote.acked <= SentNumbers(tcp)
  BY DEF IInv, TypeInv, SentInv, Remotes
<1>3. PICK m \in Segments : /\ m.kind = "rst" /\ m.acked = remote.acked
                            /\ Len(tun) < MaxSegments /\ tun' = Append(tun, m)
  BY <1>1, <1>2, SegmentIs
<1>4. /\ remote' \in Remotes /\ remote'.sent = remote.sent + 0
      /\ remote'.fin = remote.fin /\ remote'.reset /\ remote'.acked = remote.acked
  <2>1. /\ remote' \in Remotes /\ remote'.sent = remote.sent /\ remote.sent \in 0 .. RemoteBytes
    BY ONLY <1>1, <1>2 DEF Remotes
  <2>2. remote'.fin = remote.fin /\ remote'.reset /\ remote'.acked = remote.acked
    BY ONLY <1>1, <1>2 DEF Remotes
  <2> QED  BY <2>1, <2>2, Capacities
<1> QED  BY <1>1, <1>2, <1>3, <1>4, SendsKeeps

\* Standard input changes while it is open.
LEMMA StdinKeeps ==
    ASSUME IInv, fate = "running", stdin.end = "open",
           stdin' \in [arrived : Nat, total : 0 .. StdinBytes,
                       end : {"open", "eof", "hangup", "failed"}],
           stdin'.total - stdin'.arrived = stdin.total - stdin.arrived,
           UNCHANGED <<local, tun, remote, stdout>>
    PROVE  IInv'
<1> USE DEF local
<1>1. TypeInv'  BY DEF IInv, TypeInv
<1>2. Counted'
  <2>1. stdin'.total = stdin'.arrived + copy'.outbound.pushed
    <3>1. /\ stdin.total = stdin.arrived + copy.outbound.pushed
          /\ stdin.total \in Int /\ stdin.arrived \in Int /\ copy.outbound.pushed \in Int
          /\ stdin'.total \in Int /\ stdin'.arrived \in Int
      <4>1. TypeInv /\ Counted  BY DEF IInv
      <4>2. copy.outbound.pushed \in Int  BY <4>1, FieldTypes
      <4>3. stdin \in [arrived : Nat, total : 0 .. StdinBytes,
                       end : {"open", "eof", "hangup", "failed"}]
        BY <4>1 DEF TypeInv
      <4>4. /\ stdin.total \in Int /\ stdin.arrived \in Int
            /\ stdin'.total \in Int /\ stdin'.arrived \in Int
        BY <4>3
      <4>5. stdin.total = stdin.arrived + copy.outbound.pushed  BY <4>1 DEF Counted
      <4> QED  BY <4>2, <4>4, <4>5
    <3> QED  BY <3>1
  <2> QED  BY <2>1 DEF IInv, Counted
<1>3. SentInv' /\ CopyInv' /\ TCPInv' /\ TunInv' /\ OwnerReady' /\ ThreadReady'
  BY SentKeeps DEF IInv, CopyInv, TCPInv, TunInv, OwnerReady, ThreadReady
<1>4. EndsInv'
  <2> SUFFICES ASSUME Sound' PROVE EndsInv'  BY DEF EndsInv
  <2>1. Sound  BY DEF Sound
  <2>2. ~copy.outbound.closed  BY <2>1 DEF IInv, EndsInv
  <2> QED  BY <2>1, <2>2 DEF IInv, EndsInv, OwnAccord, Aborted
<1>5. FateInv'  BY DEF IInv, FateInv, Aborted, Undisturbed
<1> QED  BY <1>1, <1>2, <1>3, <1>4, <1>5 DEF IInv

LEMMA StdinArrivesKeeps ==
    ASSUME IInv, StdinArrives
    PROVE  IInv'
<1>1. stdin \in [arrived : Nat, total : 0 .. StdinBytes,
                 end : {"open", "eof", "hangup", "failed"}]
  BY DEF IInv, TypeInv
<1>2. /\ stdin' \in [arrived : Nat, total : 0 .. StdinBytes,
                     end : {"open", "eof", "hangup", "failed"}]
      /\ stdin'.total = stdin.total + 1 /\ stdin'.arrived = stdin.arrived + 1
      /\ stdin.total \in Int /\ stdin.arrived \in Int
  <2>1. /\ stdin.total < StdinBytes
        /\ stdin' = [stdin EXCEPT !.arrived = stdin.arrived + 1, !.total = stdin.total + 1]
    BY <1>1 DEF StdinArrives
  <2>2. /\ stdin.total \in 0 .. StdinBytes /\ stdin.arrived \in Nat /\ StdinBytes \in Nat
    BY <1>1, Capacities
  <2>3. stdin.total + 1 \in 0 .. StdinBytes /\ stdin.arrived + 1 \in Nat
    BY <2>1, <2>2
  <2>4. stdin' \in [arrived : Nat, total : 0 .. StdinBytes,
                    end : {"open", "eof", "hangup", "failed"}]
    BY ONLY <1>1, <2>1, <2>3
  <2>5. stdin'.total = stdin.total + 1 /\ stdin'.arrived = stdin.arrived + 1
    BY ONLY <1>1, <2>1
  <2> QED  BY <2>2, <2>4, <2>5
<1> QED  BY <1>2, StdinKeeps DEF StdinArrives

LEMMA StdinEndsKeeps ==
    ASSUME IInv, StdinEnds
    PROVE  IInv'
<1>1. stdin \in [arrived : Nat, total : 0 .. StdinBytes,
                 end : {"open", "eof", "hangup", "failed"}]
  BY DEF IInv, TypeInv
<1>2. /\ stdin' \in [arrived : Nat, total : 0 .. StdinBytes,
                     end : {"open", "eof", "hangup", "failed"}]
      /\ stdin'.total = stdin.total /\ stdin'.arrived = stdin.arrived
  BY <1>1 DEF StdinEnds
<1> QED  BY <1>2, StdinKeeps DEF StdinEnds

\* Who reads standard output reads, or leaves.
LEMMA StdoutKeeps ==
    ASSUME IInv, StdoutDrains \/ StdoutLeaves
    PROVE  IInv'
<1>1. /\ fate = "running" /\ stdout' \in {"ready", "gone"}
      /\ stdout = "gone" => stdout' = "gone"
      /\ UNCHANGED <<owner, copy, thread, tcp, pair, fate, tun, remote, stdin>>
  BY DEF StdoutDrains, StdoutLeaves, local
<1>2. TypeInv'  BY <1>1 DEF IInv, TypeInv
<1>3. Counted' /\ SentInv' /\ TCPInv' /\ TunInv' /\ OwnerReady' /\ ThreadReady'
  BY <1>1, SentKeeps DEF IInv, Counted, TCPInv, TunInv, OwnerReady, ThreadReady
<1>4. CopyInv'  BY <1>1 DEF IInv, CopyInv
<1>5. EndsInv'
  <2>1. (Sound' => Sound) /\ (OwnAccord' => OwnAccord)  BY <1>1 DEF Sound, OwnAccord, Aborted
  <2> QED  BY <1>1, <2>1 DEF IInv, EndsInv
<1>6. FateInv'  BY <1>1 DEF IInv, FateInv, Aborted
<1> QED  BY <1>2, <1>3, <1>4, <1>5, <1>6 DEF IInv

-----------------------------------------------------------------------------
\* The first state and every step.
LEMMA InitKeeps ==
    ASSUME Init
    PROVE  IInv
<1>0. PICK refused \in BOOLEAN, window \in Windows :
         /\ tcp = IF refused THEN TCPReceived(NewTCP(window), Segment("rst", 0, 0, window))
                  ELSE NewTCP(window)
         /\ remote = [sent |-> 0, fin |-> FALSE, acked |-> 0, window |-> window,
                      reset |-> refused]
  BY DEF Init
<1>1. /\ owner = At("poll") /\ thread = At("poll")
      /\ copy = NewCopy /\ pair = NewPair
      /\ remote \in Remotes /\ remote.sent = 0 /\ remote.acked = 0
      /\ (remote.reset <=> refused) /\ window \in Nat
      /\ tun = << >>
      /\ stdin = [arrived |-> 0, total |-> 0, end |-> "open"]
      /\ stdout = "ready" /\ fate = "running"
  BY <1>0, Capacities DEF Init, Remotes
<1>2. /\ owner \in OwnerPlaces /\ thread \in ThreadPlaces
      /\ owner.pc = "poll" /\ thread.pc = "poll"
      /\ \A r \in 1 .. 4 : owner # Serving(r) /\ thread # Serving(r)
  BY <1>1, PlaceIs
<1>3. /\ NewStream \in StreamStates /\ NewFD \in FileDescriptors
      /\ NewStream.pushed = 0 /\ NewStream.popped = 0
      /\ ~NewStream.closed /\ ~NewStream.error
      /\ ~NewFD.eof /\ ~NewFD.closed
  BY DEF NewStream, StreamStates, NewFD, FileDescriptors
<1> HIDE DEF NewStream, NewFD
<1>4. /\ copy \in CopyStates /\ copy.rules = 1 .. 4
      /\ copy.outbound = NewStream /\ copy.inbound = NewStream
      /\ copy.input = NewFD /\ copy.socket = NewFD /\ copy.output = NewFD
  BY <1>1, <1>3 DEF NewCopy, CopyStates
<1> DEFINE new == NewTCP(window)
<1>5. /\ new \in TCPStates /\ new.rules = 1 .. 3
      /\ new.outbound = NewStream /\ new.inbound = NewStream /\ new.data = NewFD
      /\ new.fin_sent = FALSE /\ new.acked = 0
  BY <1>1, <1>3 DEF NewTCP, TCPStates
<1> HIDE DEF new, NewCopy
<1>6. /\ tcp \in TCPStates /\ tcp.rules = 1 .. 3 /\ tcp.data = NewFD
      /\ tcp.outbound.pushed = 0 /\ tcp.outbound.popped = 0 /\ ~tcp.outbound.closed
      /\ tcp.inbound.pushed = 0 /\ tcp.inbound.popped = 0 /\ ~tcp.inbound.closed
      /\ tcp.outbound.error \/ tcp.inbound.error => remote.reset
      /\ tcp.fin_sent = FALSE /\ tcp.acked = 0
  <2>1. CASE ~refused
    <3>1. tcp = new  BY <1>0, <2>1 DEF new
    <3> QED  BY <1>3, <1>5, <3>1
  <2>2. CASE refused
    <3> DEFINE m == Segment("rst", 0, 0, window)
    <3>1. m \in Segments /\ m.kind = "rst" /\ m.acked = 0
      BY <1>1 DEF Segment, Segments
    <3>2. tcp = TCPReceived(new, m)  BY <1>0, <2>2 DEF new
    <3> HIDE DEF m
    <3>3. /\ tcp \in TCPStates /\ tcp.rules = new.rules /\ tcp.data = new.data
          /\ tcp.outbound = SetError(NewStream) /\ tcp.inbound = SetError(NewStream)
          /\ tcp.fin_sent = new.fin_sent /\ tcp.acked \in {new.acked, m.acked}
      BY <1>5, <3>1, <3>2, SegmentReceivedIs
    <3>4. tcp.fin_sent = FALSE /\ tcp.acked = 0  BY <1>5, <3>1, <3>3
    <3> QED  BY <1>1, <1>3, <1>5, <2>2, <3>3, <3>4, StreamIs
  <2> QED  BY <2>1, <2>2
<1>7. /\ pair \in Pairs /\ pair.queued["owner"] = 0 /\ pair.queued["thread"] = 0
      /\ pair.no_send = {} /\ pair.no_receive = {}
  BY <1>1, RoomAssumption DEF NewPair, Pairs, Ends
<1>8. DataIn(tun) = 0 /\ tun \in Seq(Segments) /\ DOMAIN tun = {} /\ Len(tun) = 0
  <2>1. tun \in Seq(Segments) /\ DOMAIN tun = {} /\ Len(tun) = 0  BY <1>1
  <2> QED  BY <2>1, DataInIs
<1>9. TypeInv
  BY <1>1, <1>2, <1>4, <1>6, <1>7, <1>8, Capacities DEF TypeInv
<1>10. Counted
  <2>1. /\ stdin.total = 0 /\ stdin.arrived = 0 /\ remote.sent = 0
        /\ copy.outbound.pushed = 0 /\ copy.outbound.popped = 0
        /\ copy.inbound.pushed = 0 /\ copy.inbound.popped = 0
    BY <1>1, <1>3, <1>4
  <2>2. Buffered(copy.outbound) = 0 /\ Buffered(copy.inbound) = 0  BY <2>1 DEF Buffered
  <2> QED  BY <1>6, <1>7, <1>8, <2>1, <2>2, Capacities DEF Counted
<1>11. CopyInv  BY <1>3, <1>4 DEF CopyInv
<1>12. TCPInv  BY <1>3, <1>6 DEF TCPInv
<1>13. TunInv  BY <1>8 DEF TunInv
<1>14. OwnerReady /\ ThreadReady  BY <1>2 DEF OwnerReady, ThreadReady
<1>15. EndsInv  BY <1>2, <1>3, <1>4, <1>6, <1>7 DEF EndsInv
<1>16. FateInv  BY <1>1, <1>2 DEF FateInv, Aborted
<1>17. SentInv
  <2>1. SentNumbers(tcp) = 0 /\ Buffered(tcp.outbound) = 0
    BY <1>6 DEF SentNumbers, Buffered
  <2> QED  BY <1>1, <1>6, <1>8, <2>1, Capacities DEF SentInv
<1> QED  BY <1>9, <1>10, <1>11, <1>12, <1>13, <1>14, <1>15, <1>16, <1>17 DEF IInv

\* Every step.
LEMMA NextKeeps ==
    ASSUME IInv, [Next]_vars
    PROVE  IInv'
<1>1. CASE OwnerStep
  BY <1>1, OwnerPollsKeeps, ReadStdinKeeps, WriteSocketKeeps, ReadSocketKeeps,
     WriteStdoutKeeps, OwnerClosesKeeps, OwnerJoinsKeeps
  DEF OwnerStep
<1>2. CASE ThreadStep
  BY <1>2, ThreadPollsKeeps, ReceiveSegmentKeeps, ReadFromOwnerKeeps, WriteToOwnerKeeps,
     LingerPassesKeeps
  DEF ThreadStep
<1>3. CASE RemoteSends \/ RemoteResets \/ StdinArrives \/ StdinEnds
  BY <1>3, RemoteSendsKeeps, RemoteResetsKeeps, StdinArrivesKeeps, StdinEndsKeeps
<1>4. CASE StdoutDrains \/ StdoutLeaves  BY <1>4, StdoutKeeps
<1>5. CASE UNCHANGED vars
  <2> USE <1>5 DEF vars, local, world
  <2>1. TypeInv' /\ Counted' /\ SentInv' /\ CopyInv' /\ TCPInv' /\ TunInv'
    BY SentKeeps DEF IInv, TypeInv, Counted, CopyInv, TCPInv, TunInv
  <2>2. OwnerReady' /\ ThreadReady'  BY DEF IInv, OwnerReady, ThreadReady
  <2>3. EndsInv'  BY DEF IInv, EndsInv, Sound, OwnAccord, Aborted
  <2>4. FateInv'  BY DEF IInv, FateInv, Aborted, Undisturbed
  <2> QED  BY <2>1, <2>2, <2>3, <2>4 DEF IInv
<1> QED  BY <1>1, <1>2, <1>3, <1>4, <1>5 DEF Next

\* The invariant holds in every state.
LEMMA Invariance == Spec => []IInv
<1>1. Init => IInv  BY InitKeeps
<1>2. IInv /\ [Next]_vars => IInv'  BY NextKeeps
<1> QED  BY <1>1, <1>2, PTL DEF Spec

\* What the thread and its owner carried, when both have finished.
LEMMA AllCarried ==
    ASSUME IInv
    PROVE  /\ IsFinished(copy.outbound) /\ tcp.outbound.closed /\ pair.queued["thread"] = 0
              /\ stdin.arrived = 0
                 => tcp.outbound.pushed = stdin.total
           /\ IsFinished(copy.inbound) /\ IsFinished(tcp.inbound) /\ pair.queued["owner"] = 0
                 => copy.inbound.popped = remote.sent
<1>1. TypeInv /\ Counted  BY DEF IInv
<1>2. /\ copy.outbound.pushed \in Nat /\ copy.outbound.popped \in Nat
      /\ copy.inbound.pushed \in Nat /\ copy.inbound.popped \in Nat
      /\ tcp.outbound.pushed \in Nat
      /\ tcp.inbound.pushed \in Nat /\ tcp.inbound.popped \in Nat
      /\ stdin.arrived \in Nat /\ stdin.total \in Int
  BY <1>1, FieldTypes, Capacities DEF TypeInv
<1>3. IsFinished(copy.outbound) /\ pair.queued["thread"] = 0 /\ stdin.arrived = 0
         => tcp.outbound.pushed = stdin.total
  BY <1>1, <1>2 DEF Counted, IsFinished, Buffered
<1>4. tcp.inbound.closed => DataIn(tun) = 0
  <2>1. tcp.inbound.closed => \A k \in DOMAIN tun : tun[k].kind # "data"
    BY DEF IInv, TunInv
  <2>2. tun \in Seq(Segments)  BY <1>1 DEF TypeInv
  <2> QED  BY <2>1, <2>2, DataInIs
<1>5. IsFinished(copy.inbound) /\ IsFinished(tcp.inbound) /\ pair.queued["owner"] = 0
         => copy.inbound.popped = remote.sent
  <2> SUFFICES ASSUME IsFinished(copy.inbound), IsFinished(tcp.inbound), pair.queued["owner"] = 0
               PROVE copy.inbound.popped = remote.sent
    OBVIOUS
  <2>1. /\ copy.inbound.pushed = copy.inbound.popped /\ tcp.inbound.pushed = tcp.inbound.popped
        /\ tcp.inbound.closed
    BY <1>2 DEF IsFinished, Buffered
  <2>2. /\ remote.sent = DataIn(tun) + tcp.inbound.pushed /\ DataIn(tun) = 0
        /\ tcp.inbound.popped = pair.queued["owner"] + copy.inbound.pushed
    BY <1>1, <1>4, <2>1 DEF Counted
  <2> QED  BY <1>2, <2>1, <2>2
<1> QED  BY <1>3, <1>5

\* What the two threads keep is of its type and within its capacity, whatever
\* the bounds, the input and the interleaving.
THEOREM TypeCorrect == Spec => []TypeOK
<1>1. IInv => TypeOK
  <2> SUFFICES ASSUME IInv PROVE TypeOK  OBVIOUS
  <2>1. TypeInv /\ Counted /\ SentInv  BY DEF IInv
  <2>2. /\ copy \in CopyStates /\ tcp \in TCPStates  BY <2>1 DEF TypeInv
  <2>3. /\ copy.outbound \in StreamStates /\ copy.inbound \in StreamStates
        /\ tcp.outbound \in StreamStates /\ tcp.inbound \in StreamStates
        /\ copy.outbound.pushed \in Nat /\ copy.outbound.popped \in Nat
        /\ copy.inbound.pushed \in Nat /\ copy.inbound.popped \in Nat
        /\ tcp.outbound.pushed \in Nat /\ tcp.outbound.popped \in Nat
        /\ tcp.inbound.pushed \in Nat /\ tcp.inbound.popped \in Nat
        /\ pair.queued["owner"] \in Nat /\ pair.queued["thread"] \in Nat
    BY <2>1, FieldTypes
  <2>4. /\ stdin.total \in 0 .. StdinBytes /\ stdin.arrived \in Nat
        /\ remote.sent \in 0 .. RemoteBytes /\ DataIn(tun) \in Nat
        /\ StdinBytes \in Nat /\ RemoteBytes \in Nat
    BY <2>1, DataInIs, Capacities DEF TypeInv, Remotes
  <2>5. /\ stdin.total = stdin.arrived + copy.outbound.pushed
        /\ copy.outbound.popped = pair.queued["thread"] + tcp.outbound.pushed
        /\ remote.sent = DataIn(tun) + tcp.inbound.pushed
        /\ tcp.inbound.popped = pair.queued["owner"] + copy.inbound.pushed
        /\ tcp.inbound.popped <= tcp.inbound.pushed
        /\ remote.sent - tcp.inbound.popped <= RecvCapacity
        /\ Buffered(copy.outbound) \in 0 .. BufferSize
        /\ Buffered(copy.inbound) \in 0 .. BufferSize
    <3>1. Counted  BY <2>1
    <3> QED  BY ONLY <3>1 DEF Counted
  <2>6. /\ copy.outbound.popped <= copy.outbound.pushed
        /\ copy.inbound.popped <= copy.inbound.pushed
        /\ tcp.outbound.popped <= tcp.outbound.pushed
    BY <2>1, <2>3, <2>5, Capacities DEF Buffered, SentInv
  <2>7. /\ copy.outbound.pushed \in 0 .. StdinBytes /\ copy.outbound.popped \in 0 .. StdinBytes
        /\ tcp.outbound.pushed \in 0 .. StdinBytes /\ tcp.outbound.popped \in 0 .. StdinBytes
        /\ copy.inbound.pushed \in 0 .. RemoteBytes /\ copy.inbound.popped \in 0 .. RemoteBytes
        /\ tcp.inbound.pushed \in 0 .. RemoteBytes /\ tcp.inbound.popped \in 0 .. RemoteBytes
    <3>1. /\ copy.outbound.pushed <= StdinBytes /\ tcp.outbound.pushed <= copy.outbound.popped
      BY <2>3, <2>4, <2>5
    <3>2. /\ tcp.inbound.pushed <= RemoteBytes /\ copy.inbound.pushed <= tcp.inbound.popped
      BY <2>3, <2>4, <2>5
    <3>3. tcp.inbound.popped <= tcp.inbound.pushed  BY <2>5
    <3> QED  BY <2>3, <2>4, <2>5, <2>6, <3>1, <3>2, <3>3
  <2>8. /\ copy.outbound \in Streams(StdinBytes) /\ copy.inbound \in Streams(RemoteBytes)
        /\ tcp.outbound \in Streams(StdinBytes) /\ tcp.inbound \in Streams(RemoteBytes)
    BY <2>3, <2>7 DEF Streams, StreamStates
  <2>9. Buffered(tcp.inbound) \in 0 .. RecvCapacity
    <3>1. tcp.inbound.pushed <= remote.sent  BY <2>3, <2>4, <2>5
    <3>2. remote.sent \in Int /\ RecvCapacity \in Nat  BY <2>4, Capacities
    <3>3. tcp.inbound.pushed - tcp.inbound.popped \in 0 .. RecvCapacity
      BY <2>3, <2>5, <3>1, <3>2
    <3> QED  BY <3>3 DEF Buffered
  <2>10. /\ copy.rules \subseteq 1 .. 4 /\ tcp.rules \subseteq 1 .. 3
         /\ {copy.input, copy.socket, copy.output, tcp.data} \subseteq FileDescriptors
    BY <2>2 DEF CopyStates, TCPStates
  <2>11. /\ owner.pc \in {"poll", "serve", "close", "join", "abort"}
         /\ thread.pc \in {"poll", "serve", "done"}
    <3>1. owner \in OwnerPlaces /\ thread \in ThreadPlaces  BY <2>1 DEF TypeInv
    <3>2. /\ \A pc : At(pc).pc = pc
          /\ \A r \in 1 .. 4 : Serving(r).pc = "serve"
          /\ \A r \in 1 .. 3 : r \in 1 .. 4
      BY PlacesDiffer
    <3>3. owner.pc \in {"poll", "serve", "close", "join", "abort"}
      BY <3>1, <3>2 DEF OwnerPlaces
    <3>4. thread.pc \in {"poll", "serve", "done"}
      BY <3>1, <3>2 DEF ThreadPlaces
    <3> QED  BY <3>3, <3>4
  <2>12. InFlight(tcp) \in 0 .. StdinBytes + 1
    <3>1. /\ tcp.acked \in Nat /\ tcp.acked <= SentNumbers(tcp) /\ SentNumbers(tcp) \in Nat
          /\ tcp.fin_sent \in BOOLEAN
      BY <2>1, FieldTypes DEF SentInv
    <3>2. SentNumbers(tcp) <= StdinBytes + 1  BY <2>4, <2>7, <3>1 DEF SentNumbers
    <3> QED  BY <2>4, <3>1, <3>2 DEF InFlight
  <2>13. Buffered(tcp.outbound) \in 0 .. SendCapacity  BY <2>1 DEF SentInv
  <2> QED  BY <2>1, <2>5, <2>8, <2>9, <2>10, <2>11, <2>12, <2>13 DEF TypeOK, TypeInv
<1> QED  BY <1>1, Invariance, PTL

\* The program ends well only when everything was carried in both directions, and
\* all that was sent, with or without the FIN, is acknowledged: neither event loop
\* returns early, and no hangup drops a rule that has bytes to carry
\* (eventloop.cc:156, 196, tcp_minnow_socket_impl.hh:34, tcp_ipv4.cc:171).
THEOREM SuccessMeansAllCarried == Spec => []SuccessIsComplete
<1>1. IInv => SuccessIsComplete
  <2> SUFFICES ASSUME IInv, fate = "succeeded", Undisturbed
               PROVE  /\ stdin.end \in {"eof", "hangup"} /\ tcp.outbound.closed
                      /\ tcp.acked = stdin.total + IF tcp.fin_sent THEN 1 ELSE 0
                      /\ remote.fin /\ copy.inbound.popped = remote.sent
    BY DEF SuccessIsComplete
  <2>1. Sound  BY DEF IInv, CopyInv, Sound, Undisturbed
  <2>2. owner.pc = "join" /\ thread.pc = "done" /\ OwnAccord
    BY DEF IInv, FateInv, OwnAccord, Aborted
  <2>3. /\ IsFinished(copy.outbound) /\ IsFinished(copy.inbound)
        /\ SenderFinished(tcp) /\ IsFinished(tcp.inbound)
    BY <2>1, <2>2 DEF IInv, EndsInv
  <2>4. /\ stdin.end \in {"eof", "hangup"} /\ stdin.arrived = 0
        /\ pair.queued["thread"] = 0 /\ pair.queued["owner"] = 0
        /\ tcp.outbound.closed
    BY <2>1, <2>3 DEF IInv, EndsInv, IsFinished, SenderFinished
  <2>5. remote.fin  BY <2>3 DEF IInv, TCPInv, IsFinished
  <2>6. tcp.outbound.pushed = stdin.total  BY <2>3, <2>4, AllCarried
  <2>7. tcp.acked = tcp.outbound.pushed + IF tcp.fin_sent THEN 1 ELSE 0
    <3>1. /\ TypeInv /\ tcp.outbound.pushed \in Nat /\ tcp.outbound.popped \in Nat
          /\ SentNumbers(tcp) \in Nat /\ tcp.acked \in Nat
      BY FieldTypes DEF IInv
    <3>2. tcp.acked = SentNumbers(tcp) /\ tcp.outbound.popped = tcp.outbound.pushed
      BY <2>3, <3>1 DEF SenderFinished, InFlight, IsFinished, Buffered
    <3> QED  BY <3>2 DEF SentNumbers
  <2> QED  BY <2>3, <2>4, <2>5, <2>6, <2>7, AllCarried
<1> QED  BY <1>1, Invariance, PTL

\* Without a reset or the loss of a reader nothing is written to a socket or
\* pipe that is shut; the exit is a failure only when standard input failed; and
\* the exception of the receiver comes only after a FIN, when the owner has not
\* taken all that was sent before it.
THEOREM DeathsHaveCauses == Spec => []DeathHasCause
<1>1. IInv => DeathHasCause  BY DEF IInv, FateInv, DeathHasCause
<1> QED  BY <1>1, Invariance, PTL

\* Either end is believed when it is seen: the FIN goes out after all of
\* standard input, and standard output is closed after all that was sent
\* (bidirectional_stream_copy.cc:62-66, 112-114, tcp_minnow_socket_impl.hh:113-124).
THEOREM EndsCanBeBelieved == Spec => []EndsAreTrue
<1>1. IInv => EndsAreTrue
  <2> SUFFICES ASSUME IInv PROVE EndsAreTrue  OBVIOUS
  <2>1. ASSUME tcp.outbound.closed, Undisturbed
        PROVE  stdin.end \in {"eof", "hangup"} /\ tcp.outbound.pushed = stdin.total
    <3>1. Sound  BY <2>1 DEF IInv, CopyInv, Sound, Undisturbed
    <3>2. /\ IsFinished(copy.outbound) /\ pair.queued["thread"] = 0
          /\ stdin.end \in {"eof", "hangup"} /\ stdin.arrived = 0
      BY <2>1, <3>1 DEF IInv, EndsInv, IsFinished
    <3> QED  BY <2>1, <3>2, AllCarried
  <2>2. ASSUME copy.output.closed, ~remote.reset
        PROVE  remote.fin /\ copy.inbound.popped = remote.sent
    <3>1. IsFinished(copy.inbound) /\ Sound  BY <2>2 DEF IInv, CopyInv, Sound
    <3>2. IsFinished(tcp.inbound) /\ pair.queued["owner"] = 0
      BY <3>1 DEF IInv, EndsInv, IsFinished
    <3>3. remote.fin  BY <3>2 DEF IInv, TCPInv, IsFinished
    <3> QED  BY <3>1, <3>2, <3>3, AllCarried
  <2>3. ASSUME tcp.fin_sent
        PROVE  tcp.outbound.closed /\ tcp.outbound.popped = tcp.outbound.pushed
    <3>1. IsFinished(tcp.outbound)  BY <2>3 DEF IInv, SentInv
    <3>2. tcp.outbound.pushed \in Nat /\ tcp.outbound.popped \in Nat  BY FieldTypes DEF IInv
    <3> QED  BY <3>1, <3>2 DEF IsFinished, Buffered
  <2> QED  BY <2>1, <2>2, <2>3 DEF EndsAreTrue
<1> QED  BY <1>1, Invariance, PTL

\* What poll() saw is still enough when the callback runs, so that no callback
\* leaves its descriptor alone and stays interested (eventloop.cc:211-215).
THEOREM NeverBusyWaits == Spec => []NoBusyWait
<1>1. IInv => NoBusyWait  BY DEF IInv, TypeInv, NoBusyWait
<1> QED  BY <1>1, Invariance, PTL
=============================================================================
