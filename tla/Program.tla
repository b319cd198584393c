------------------------------ MODULE Program -------------------------------
(***************************************************************************)
(* main() of apps/tcp_ipv4.cc once it is connected: the owner copies       *)
(* between standard input and output and a TCPMinnowSocket, waits for its  *)
(* TCP thread and returns.  An iteration of either event loop is two       *)
(* steps, what poll() sees and the callback of the rule it serves, so that  *)
(* the other thread and the world can come in between.                     *)
(***************************************************************************)
EXTENDS MinnowSocket, SocketPair, Sequences

CONSTANTS StdinBytes,   \* bound on what standard input has
          RemoteBytes,  \* bound on what the remote peer sends
          Windows,      \* the windows it may announce, in any order
          MaxSegments   \* bound on the segments that wait to be received

ASSUME BoundsAssumption == {StdinBytes, RemoteBytes, MaxSegments} \union Windows \subseteq Nat

VARIABLES owner,   \* where it is, and the rule whose callback comes next
          copy,    \* its stream copy
          thread,  \* likewise
          tcp,
          pair,    \* the sockets between them
          tun,     \* the segments that wait to be received
          remote,  \* the remote peer: what it has sent, acknowledged and announced
          stdin,   \* bytes that arrived and are not read, and how it stands
          stdout,  \* "ready", "full" or "gone"
          fate     \* "running", "succeeded", "failed", "killed", "thrown" or "busy"

local == <<owner, copy, thread, tcp, pair, fate>>
world == <<tun, remote, stdin, stdout>>
vars  == <<local, world>>

At(pc)     == [pc |-> pc, rule |-> 0]
Serving(r) == IF r = 0 THEN At("poll") ELSE [pc |-> "serve", rule |-> r]

\* A refused connect() is not noticed, tcp_minnow_socket_impl.hh:245-252.
Init ==
    /\ owner = At("poll") /\ thread = At("poll")
    /\ copy = NewCopy /\ pair = NewPair
    /\ \E refused \in BOOLEAN, window \in Windows :
          /\ tcp = IF refused THEN TCPReceived(NewTCP(window), Segment("rst", 0, 0, window))
                   ELSE NewTCP(window)
          /\ remote = [sent |-> 0, fin |-> FALSE, acked |-> 0, window |-> window,
                       reset |-> refused]
    /\ tun = << >>
    /\ stdin = [arrived |-> 0, total |-> 0, end |-> "open"]
    /\ stdout = "ready"
    /\ fate = "running"

-----------------------------------------------------------------------------
\* The kernel: the end of a pipe is a hangup, that of a file is something to read.
StdinEvents ==
    {ev \in {"IN", "HUP"} :
        \/ ev = "IN" /\ (stdin.arrived > 0 \/ stdin.end \in {"eof", "failed"})
        \/ ev = "HUP" /\ stdin.end = "hangup"}

StdoutEvents == CASE stdout = "ready" -> {"OUT"}
                  [] stdout = "full"  -> {}
                  [] stdout = "gone"  -> {"OUT", "ERR"}

CopyEvents == <<StdinEvents, Events(pair, "owner"), Events(pair, "owner"), StdoutEvents>>

TunEvents == IF tun = << >> THEN {} ELSE {"IN"}

TCPEvents == <<TunEvents, Events(pair, "thread"), Events(pair, "thread")>>

-----------------------------------------------------------------------------
\* The owner: the sweep, poll() without a timeout, and the walk over its results.
OwnerPolls ==
    /\ fate = "running" /\ owner.pc = "poll"
    /\ \E c \in {CopySwept(copy)} : \E interested \in {CopyInterest(c)} :
          \/ /\ interested = {}
             /\ copy' = c /\ owner' = At("close")
          \/ /\ interested # {}
             /\ Returns(c.rules, CopyDirection, interested, CopyEvents)
             /\ \E outcome \in {Outcomes(c.rules, CopyDirection, interested, CopyEvents)} :
                   copy' = CopyWalked(c, outcome) /\ owner' = Serving(Served(outcome))
    /\ UNCHANGED <<thread, tcp, pair, fate, world>>

\* After its callback the served rule has become c.
OwnerServed(c, counted) ==
    /\ copy' = c
    /\ owner' = At("poll")
    /\ fate' = IF BusyWait(counted, CopyFD(c)[owner.rule], owner.rule \in CopyInterest(c))
               THEN "busy" ELSE fate
    /\ UNCHANGED <<thread, tcp>>

OwnerServes(r) == fate = "running" /\ owner = Serving(r)

\* Rule 1.  An exception goes to main() by way of the destructor of the socket.
ReadStdin ==
    /\ OwnerServes(1)
    /\ \/ /\ stdin.end = "failed" /\ stdin.arrived = 0
          /\ owner' = At("abort")
          /\ UNCHANGED <<copy, thread, tcp, fate, stdin>>
       \/ /\ stdin.arrived > 0 \/ stdin.end = "eof"
          /\ LET n == Lesser(stdin.arrived, BufferSize - Buffered(copy.outbound))
             IN  /\ stdin' = [stdin EXCEPT !.arrived = @ - n]
                 /\ OwnerServed(CopyInput(copy, n), TRUE)
    /\ UNCHANGED <<pair, tun, remote, stdout>>

Kill(end) == fate' = end /\ UNCHANGED <<owner, copy, thread, tcp, pair>>

\* Rule 2 writes one chunk at most, and may write a part of it.
WriteSocket ==
    /\ OwnerServes(2)
    /\ LET out == copy.outbound
       IN  \/ /\ Buffered(out) > 0 /\ ~Writable(pair, "owner")
              /\ Kill("killed")
           \/ /\ Buffered(out) > 0 => Writable(pair, "owner")
              /\ \E n \in 0 .. Lesser(Buffered(out), Room(pair, "owner")) :
                    LET c == CopyForwarded(copy, n)
                        p == Wrote(pair, "owner", n)
                    IN  /\ Buffered(out) > 0 => n > 0
                        /\ pair' = IF IsFinished(c.outbound) THEN ShutWrite(p, "owner") ELSE p
                        /\ OwnerServed(c, n > 0 \/ IsFinished(c.outbound))
    /\ UNCHANGED world

\* Rule 3
ReadSocket ==
    /\ OwnerServes(3)
    /\ LET n == Lesser(pair.queued["owner"], BufferSize - Buffered(copy.inbound))
       IN  /\ pair' = Got(pair, "owner", n)
           /\ OwnerServed(CopyReceived(copy, n), TRUE)
    /\ UNCHANGED world

\* Rule 4
WriteStdout ==
    /\ OwnerServes(4)
    /\ LET in == copy.inbound
       IN  \/ /\ Buffered(in) > 0 /\ stdout = "gone"
              /\ Kill("killed") /\ UNCHANGED stdout
           \/ /\ Buffered(in) > 0 => stdout # "gone"
              /\ \E n \in 0 .. Buffered(in) :
                    LET c == CopyOutput(copy, n)
                    IN  /\ Buffered(in) > 0 => n > 0
                        /\ stdout' = IF n > 0 THEN "full" ELSE stdout
                        /\ OwnerServed(c, n > 0 \/ IsFinished(c.inbound))
              /\ UNCHANGED pair
    /\ UNCHANGED <<tun, remote, stdin>>

\* wait_until_closed() shuts the socket and joins the thread.
OwnerCloses ==
    /\ fate = "running" /\ owner.pc = "close"
    /\ owner' = At("join")
    /\ pair' = ShutBoth(pair)
    /\ UNCHANGED <<copy, thread, tcp, fate, world>>

\* After the destructor has set _abort, or after wait_until_closed().
OwnerJoins ==
    /\ fate = "running" /\ thread.pc = "done"
    /\ \/ owner.pc = "join" /\ fate' = "succeeded"
       \/ owner.pc = "abort" /\ fate' = "failed"
    /\ UNCHANGED <<owner, copy, thread, tcp, pair, world>>

-----------------------------------------------------------------------------
Aborted == owner.pc = "abort"

\* The thread ends, having shut the owner's socket; _tcp.reset() sends nothing.
ThreadEnds(p) == thread' = At("done") /\ pair' = ShutBoth(p)

\* The thread: likewise, but poll() times out after 10 ms.
ThreadPolls ==
    /\ fate = "running" /\ thread.pc = "poll"
    /\ \E t \in {TCPSwept(tcp)} : \E interested \in {TCPInterest(t)} :
          \/ /\ interested = {} \/ Aborted
             /\ tcp' = t /\ ThreadEnds(pair)
          \/ /\ interested # {}
             /\ Returns(t.rules, TCPDirection, interested, TCPEvents)
             /\ \E outcome \in {Outcomes(t.rules, TCPDirection, interested, TCPEvents)} :
                   /\ tcp' = TCPCancel(t, Defunct(outcome, "hungup"))
                   /\ thread' = Serving(Served(outcome))
             /\ UNCHANGED pair
    /\ UNCHANGED <<owner, copy, fate, world>>

\* After its callback the served rule has become t, the sockets p.  An exception
\* that leaves the thread function ends the process.
ThreadServed(t, p, counted) ==
    /\ tcp' = t
    /\ IF Aborted THEN ThreadEnds(p) ELSE thread' = At("poll") /\ pair' = p
    /\ fate' = IF BusyWait(counted, TCPFD(t)[thread.rule], thread.rule \in TCPInterest(t))
               THEN "busy" ELSE fate
    /\ UNCHANGED <<owner, copy>>

ThreadServes(r) == fate = "running" /\ thread = Serving(r)

\* receive() may throw, and nothing catches it.
ReceiveSegment ==
    /\ ThreadServes(1)
    /\ tun' = Tail(tun)
    /\ IF ReceiveThrows(tcp, Head(tun)) THEN Kill("thrown")
       ELSE ThreadServed(TCPReceived(tcp, Head(tun)), pair, TRUE)
    /\ UNCHANGED <<remote, stdin, stdout>>

\* It reads no more than the outbound stream has room for.
ReadFromOwner ==
    /\ ThreadServes(2)
    /\ LET n == Lesser(pair.queued["thread"], SendCapacity - Buffered(tcp.outbound))
       IN  ThreadServed(TCPOutbound(tcp, n), Got(pair, "thread", n), TRUE)
    /\ UNCHANGED world

WriteToOwner ==
    /\ ThreadServes(3)
    /\ LET in == tcp.inbound
       IN  \/ /\ Buffered(in) > 0 /\ ~Writable(pair, "thread")
              /\ Kill("killed")
           \/ /\ Buffered(in) > 0 => Writable(pair, "thread")
              /\ \E n \in 0 .. Lesser(Buffered(in), Room(pair, "thread")) :
                    LET t == TCPInbound(tcp, n)
                        p == Wrote(pair, "thread", n)
                    IN  /\ Buffered(in) > 0 => n > 0
                        /\ ThreadServed(t, IF InboundEnds(t.inbound) THEN ShutWrite(p, "thread") ELSE p,
                                        n > 0 \/ InboundEnds(t.inbound))
    /\ UNCHANGED world

\* tick(): ten timeouts have passed since the last segment was received.
LingerPasses ==
    /\ fate = "running" /\ thread.pc = "poll"
    /\ SenderFinished(tcp) /\ tcp.inbound.closed /\ tcp.linger /\ ~tcp.lingered
    /\ tcp' = [tcp EXCEPT !.lingered = TRUE]
    /\ UNCHANGED <<owner, copy, thread, pair, fate, world>>

-----------------------------------------------------------------------------
\* The remote peer.  TCP delivers in order what it sends, as TCPConnection shows.
Sends(kind, acked, window) ==
    /\ Len(tun) < MaxSegments
    /\ tun' = Append(tun, Segment(kind, remote.sent + (IF remote.fin THEN 1 ELSE 0),
                                  acked, window))

\* It sends a byte or the FIN when there is room, acknowledges what has reached
\* it, with any window, or announces a wider window.
RemoteSends ==
    /\ fate = "running" /\ ~remote.reset /\ UNCHANGED <<local, stdin, stdout>>
    /\ \/ /\ ~remote.fin /\ remote.sent - tcp.inbound.popped < RecvCapacity
          /\ \/ /\ remote.sent < RemoteBytes
                /\ Sends("data", remote.acked, remote.window)
                /\ remote' = [remote EXCEPT !.sent = @ + 1]
             \/ /\ Sends("fin", remote.acked, remote.window)
                /\ remote' = [remote EXCEPT !.fin = TRUE]
       \/ \E acked \in remote.acked .. SentNumbers(tcp), window \in Windows :
             /\ acked > remote.acked \/ window > remote.window
             /\ Sends("ack", acked, window)
             /\ remote' = [remote EXCEPT !.acked = acked, !.window = window]

RemoteResets ==
    /\ fate = "running" /\ ~remote.reset
    /\ Sends("rst", remote.acked, remote.window)
    /\ remote' = [remote EXCEPT !.reset = TRUE]
    /\ UNCHANGED <<local, stdin, stdout>>

\* Who writes to standard input writes, ends, or its terminal fails.
StdinArrives ==
    /\ fate = "running" /\ stdin.end = "open" /\ stdin.total < StdinBytes
    /\ stdin' = [stdin EXCEPT !.arrived = @ + 1, !.total = @ + 1]
    /\ UNCHANGED <<local, tun, remote, stdout>>

StdinEnds ==
    /\ fate = "running" /\ stdin.end = "open"
    /\ \E end \in {"eof", "hangup", "failed"} : stdin' = [stdin EXCEPT !.end = end]
    /\ UNCHANGED <<local, tun, remote, stdout>>

\* Who reads standard output reads, or leaves.
StdoutDrains ==
    /\ fate = "running" /\ stdout = "full"
    /\ stdout' = "ready"
    /\ UNCHANGED <<local, tun, remote, stdin>>

StdoutLeaves ==
    /\ fate = "running" /\ stdout # "gone" /\ ~copy.output.closed
    /\ stdout' = "gone"
    /\ UNCHANGED <<local, tun, remote, stdin>>

OwnerStep == \/ OwnerPolls \/ ReadStdin \/ WriteSocket \/ ReadSocket
             \/ WriteStdout \/ OwnerCloses \/ OwnerJoins

ThreadStep == \/ ThreadPolls \/ ReceiveSegment \/ ReadFromOwner
              \/ WriteToOwner \/ LingerPasses

WorldStep == StdinEnds \/ StdoutDrains \/ RemoteSends

Next == \/ OwnerStep \/ ThreadStep \/ RemoteSends \/ RemoteResets
        \/ StdinArrives \/ StdinEnds \/ StdoutDrains \/ StdoutLeaves

(***************************************************************************)
(* The operating system runs both threads, time passes, and the remote     *)
(* peer, who writes and who reads go on to the end: as long as one of them *)
(* has a step to take, one is taken.  That is enough, for no step can be   *)
(* taken forever: each uses up bytes, ends, acknowledgments or rules.      *)
(***************************************************************************)
Fairness == WF_vars(WorldStep \/ ThreadStep \/ OwnerStep)

Spec == Init /\ [][Next]_vars /\ Fairness

-----------------------------------------------------------------------------
Streams(max) == [pushed : 0 .. max, popped : 0 .. max, closed : BOOLEAN, error : BOOLEAN]

\* The types of all that the two threads keep; the buffers keep their capacities.
TypeOK ==
    /\ copy.rules \subseteq 1 .. 4 /\ tcp.rules \subseteq 1 .. 3
    /\ copy.outbound \in Streams(StdinBytes) /\ copy.inbound \in Streams(RemoteBytes)
    /\ tcp.outbound \in Streams(StdinBytes) /\ tcp.inbound \in Streams(RemoteBytes)
    /\ Buffered(copy.outbound) \in 0 .. BufferSize
    /\ Buffered(copy.inbound) \in 0 .. BufferSize
    /\ Buffered(tcp.outbound) \in 0 .. SendCapacity
    /\ Buffered(tcp.inbound) \in 0 .. RecvCapacity
    /\ InFlight(tcp) \in 0 .. StdinBytes + 1
    /\ {copy.input, copy.socket, copy.output, tcp.data} \subseteq FileDescriptors
    /\ pair \in Pairs
    /\ owner.pc \in {"poll", "serve", "close", "join", "abort"}
    /\ thread.pc \in {"poll", "serve", "done"}
    /\ Len(tun) <= MaxSegments
    /\ fate \in {"running", "succeeded", "failed", "killed", "thrown", "busy"}

Undisturbed == ~remote.reset /\ stdout # "gone"

(***************************************************************************)
(* The program ends well only when all is done: the remote peer has        *)
(* acknowledged what standard input had, and the FIN if it was sent, and   *)
(* standard output has what the remote peer sent.  Neither loop returns    *)
(* early, and no hangup makes it give up a rule that has bytes to carry    *)
(* (eventloop.cc:156, 196, tcp_minnow_socket_impl.hh:34, tcp_ipv4.cc:171). *)
(* That the FIN was sent is not promised: tcp_peer.hh:42 does not ask.     *)
(***************************************************************************)
SuccessIsComplete ==
    fate = "succeeded" /\ Undisturbed =>
        /\ stdin.end \in {"eof", "hangup"} /\ tcp.outbound.closed
        /\ tcp.acked = stdin.total + IF tcp.fin_sent THEN 1 ELSE 0
        /\ remote.fin /\ copy.inbound.popped = remote.sent

(***************************************************************************)
(* What else ends the program has its cause.  Without a reset or the loss  *)
(* of a reader no write hits a socket or pipe that is shut, between the    *)
(* poll() that allowed it and the write (the signal SIGPIPE ends the       *)
(* process: nothing ignores it); the exit is a failure only when standard  *)
(* input failed; and the exception that nothing catches, which kills also  *)
(* an undisturbed run, comes only after the FIN of the remote peer, while  *)
(* the owner has not taken all that was sent before it                     *)
(* (reassembler.cc:30, tcp_minnow_socket_impl.hh:290-293).                 *)
(***************************************************************************)
DeathHasCause ==
    /\ fate = "killed" => ~Undisturbed
    /\ fate = "failed" => stdin.end = "failed"
    /\ fate = "thrown" => remote.fin /\ copy.inbound.popped < remote.sent

(***************************************************************************)
(* Either end is believed when it is seen: the outbound stream is closed   *)
(* after all of standard input and the FIN goes out after all of it was    *)
(* sent; standard output is closed after all the remote peer has sent      *)
(* (bidirectional_stream_copy.cc:62-66, 112-114,                           *)
(* tcp_minnow_socket_impl.hh:113-124, 155-157).                            *)
(***************************************************************************)
EndsAreTrue ==
    /\ tcp.outbound.closed /\ Undisturbed =>
          stdin.end \in {"eof", "hangup"} /\ tcp.outbound.pushed = stdin.total
    /\ tcp.fin_sent => tcp.outbound.closed /\ tcp.outbound.popped = tcp.outbound.pushed
    /\ copy.output.closed /\ ~remote.reset =>
          remote.fin /\ copy.inbound.popped = remote.sent

\* No callback leaves its descriptor alone and stays interested: the exception of
\* eventloop.cc:211-215 is not thrown, whatever poll() saw and is no longer true.
NoBusyWait == fate # "busy"

\* All that was sent is acknowledged, and what is left no callback will push.
HeldBack ==
    /\ Buffered(tcp.outbound) > 0 /\ InFlight(tcp) = 0
    /\ tcp.outbound_shutdown \/ Buffered(tcp.outbound) = SendCapacity

(***************************************************************************)
(* The program ends, also after a reset or a failure of standard input: no *)
(* join waits for a thread that waits for its owner, and no rule is erased *)
(* that the end depends on.  When standard output is gone it may wait for  *)
(* the remote peer forever, as tcp_minnow_socket.hh:26-27 warns.  The one  *)
(* other way to wait forever is that the window held bytes back and rule 2 *)
(* is done or has no room to read more: receive() does not push            *)
(* (tcp_peer.hh:76), so the acknowledgment that opens the window sends     *)
(* nothing.                                                                *)
(***************************************************************************)
Terminates == <>(fate # "running" \/ stdout = "gone") \/ <>[]HeldBack
=============================================================================
