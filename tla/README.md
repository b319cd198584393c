# A TLA+ development of minnow's TCP

minnow (`src/`) is a user-space TCP over IP: a byte stream, a reassembler, the
sender and receiver halves of TCP, the peer that joins them, the event loop and
socket that run a peer in a thread, and, below them, ARP and an IP router. This
directory holds TLA+ modules translated from that code, the TLC configurations
that check them on small instances, and proofs, checked by TLAPS, of what holds
for every value of the constants.

## Contents

1. The system
2. Modules and code
3. What the runs check
4. Bounds
5. Fairness
6. Disagreements found
7. What is proved
8. What is not modelled
9. Plan

## 1. The system

```
 application
     |  socket pair
 TCPMinnowSocket  -- EventLoop: rule 1 network -> peer, rule 2 application -> outbound,
     |                          rule 3 inbound -> application; tick after every round
 TCPPeer ---- TCPSender ---- ByteStream (outbound)
     |   \--- TCPReceiver -- Reassembler -- ByteStream (inbound)
 TCPOverIPv4Adapter (over a LossyFdAdapter) -- TUN device
 NetworkInterface (ARP)  --  Router
```

| component | state | operations | hard behaviour | what makes it correct |
|---|---|---|---|---|
| ByteStream (`src/byte_stream.*`) | a queue of chunks, a `string_view` into the first, four counters, `is_closed_`, `has_error_` | push, close, set_error; peek, pop; `read()` | the view is cached and must be refreshed when, and only when, its chunk is gone; `close()` puts an uncounted one-byte end mark in the queue; differences of unsigned counters | it is a bounded FIFO; what `peek()` shows is what comes next; `read()` ends and takes what it returns |
| Reassembler (`src/reassembler.*`) | an ordered list of substrings, `expecting_index_`, `terminate_index_`, `bytes_pending_` | insert | any order, any overlap; the end may be known early; unsigned differences | the output is the stream, each byte once, and closes exactly at the end; what is held is ordered, disjoint and within capacity; it never throws |
| Wrap32 (`src/wrapping_integers.*`) | a 32-bit value | wrap, unwrap | ties, both ends of the range, the neighbourhood of zero | unwrap finds the number nearest the checkpoint |
| TCPSender (`src/tcp_sender.*`) | the outbound stream, outstanding segments, window, retransmission timer with back-off, flags for SYN and FIN | push, receive, tick, make_empty_message | stale and false acknowledgments, window zero, when to add the FIN, time-outs between any two steps | outstanding segments tile the unacknowledged numbers; nothing unacknowledged is forgotten; the window is respected and used; FIN comes last; the timer rests when nothing is outstanding |
| TCPReceiver (`src/tcp_receiver.*`) | the peer's ISN, a Reassembler | receive, send | duplicated and reordered segments, wrap-around, SYN and FIN occupy numbers without being bytes | each payload is inserted in its place; the ackno is what was received in order |
| TCPPeer (`util/tcp_peer.hh`) | sender, receiver, `need_send_`, `linger_after_streams_finish_`, times | push, tick, receive, active | when a reply is due; when the connection is over; a lost last acknowledgment | both ends agree on what was received; a clean end is complete; both ends finish |
| TCPMinnowSocket (`util/tcp_minnow_socket*`) | a peer, an event loop, a thread, `_abort`, flags for either direction | connect, listen_and_accept, wait_until_closed, destructor; three rules | owner and TCP thread; exceptions in the thread; half-closed connections | the owner's calls return; both directions drain; nobody writes to a socket that is shut |
| EventLoop, FileDescriptor (`util/eventloop.*`, `util/file_descriptor.*`) | rules, their interest, service counts, eof and closed flags | add_rule, wait_next_event, cancel | rules erased while results are walked, results that are no longer true, end of file, hang-up, busy waits | a rule is given up only when its descriptor can do no more; the loop ends when, and only when, nothing is left to do |
| NetworkInterface (`src/network_interface.*`) | mappings with their ages, datagrams that wait with the age of the request | send_datagram, recv_frame, tick | late and lost frames, hosts that are replaced, a mapping learned while a datagram waits | a mapping is young and was the hop's last word; no flood of requests; what waits goes once |
| Router (`src/router.*`) | a routing table, the interfaces | add_route, route | overlapping prefixes, length zero, TTL | longest prefix wins, a default route applies to all; the TTL counts down; the next hop accepts what is forwarded |
| bidirectional_stream_copy (`apps/`) | two byte streams, four rules | copy loop | one of four ends stops first | what was read is written before the loop ends |
| adapters (`util/tcp_over_ip.*`, `tuntap_adapter.*`, `lossy_fd_adapter.hh`) | the peer's address, whether it listens | read, write | a stranger's segment, a first SYN that is lost, chunks of any length | what is read is what the peer wrote |
| headers (`util/parser.hh`, `checksum.hh`, `*_header.cc`, `tcp_segment.cc`, `arp_message.cc`) | a cursor in a list of chunks, a sum with its parity | parse, serialize | fields across chunks, odd chunks, damaged octets | parse undoes serialize, and refuses what was damaged |
| TUN/TAP devices, addresses, programs | none, or parameters | system calls | | see 8 |

How they interact. Everything below the application runs in one thread for each
socket: the event loop calls one rule at a time, the rule calls the peer, and the
peer calls its halves, so a method of the peer is atomic for everything but the
owner thread, which only reads, writes and shuts the socket pair, sets `_abort` and
joins. The owner has an event loop of its own in `bidirectional_stream_copy()`, and
everything between the two threads goes through the kernel's socket pair. Two *hosts* are concurrent, and all they share is the network. That is
why `push()` and `receive()` are modelled round by round where the sender is
studied alone (their loops may fail to end) and as one step where two peers meet.

## 2. Modules and code

| module | models | how |
|---|---|---|
| `ByteStream` | `src/byte_stream.*` | A record per object and an operator per method. A byte is its position in the stream, so the queue is the list of positions where its chunks end, and the view is how much of the first chunk is left in it. `StreamInv` is the consistency of all that. |
| `BoundedFifo` | the promise of a ByteStream | Abstract: counters of bytes written and taken, and how far a reader may look. |
| `ByteStreamSystem` | a writer and a reader; `read()` | One action per method, one per iteration of `read()`. Implements `BoundedFifo`. |
| `Reassembler` | `src/reassembler.*` | The list of substrings with the actual bytes, `bytes_pending_`, and the exception of `data.resize()`. |
| `ReassemblyBuffer`, `ReassemblySpec` | the promise of a Reassembler | Abstract: a set of held-back indexes and the counters of the output. |
| `ReassemblerSystem` | arrivals of one stream in any order, any number of times, and a reader | Implements `ReassemblySpec`. |
| `Wrap32` | `src/wrapping_integers.*` | Operators; 2^32 is the constant `Modulus`. |
| `TCPMessages` | `util/tcp_sender_message.hh`, `util/tcp_receiver_message.hh` | A payload is a size and, for the properties alone, the position `lo` of its first byte: the "name" of the bytes the code carries. |
| `TCPSender` | `src/tcp_sender.*` | A record per object. `push()` is `PushCall` and then `PushRound` for each turn of its loop; `receive()` is `ReceiveCall` and `AckRound`; `tick()` is `Tick`. `curr_size`, `ack_no` and `poped` are the local variables of the loops. |
| `TCPSenderSystem` | a sender in any environment | The application, the clock, and every receiver message there is. |
| `TCPReceiver` | `src/tcp_receiver.*` | On `ReassemblyBuffer`, which `ReassemblerSystem` justifies. |
| `TCPPeer` | `util/tcp_peer.hh` | A record per object; an operator for each method, and one for the set of segments it transmits. |
| `TCPConnection` | two peers, the rules of `util/tcp_minnow_socket_impl.hh:83-173`, the tick of line 44, the filter of a listening adapter | `peer` and `phase` for each side; a network which loses, duplicates and reorders. Implements `ReliableStream` twice, once in each direction (`ToServer`, `ToClient`). |
| `ReliableStream` | the promise of one direction of a connection | Abstract: how many bytes were written, have arrived and were taken, whether the writer closed and whether the end has arrived. |
| `NetworkInterface` | `src/network_interface.*` | A record per object, an operator per method, and for a method that transmits the frames it transmits. The two maps are total functions, `Absent` where there is no entry. |
| `Router` | `src/router.*` | The table, `BestMatch` (the loop over it), the test of the TTL; `Span` is how many addresses a mask keeps together. `zero_shift` is what the build makes of the undefined shift by 32. |
| `Network` | the network of `tests/router.cc` | Hosts and router ports on segments, each with an `inbox`; frames may be late or lost, a host may be replaced. `RouteStart`, `RouteOne`, `RouteNext` are the loops of `route()`. `origin`, `sent`, `heard`, `asked`, `had` are history for the properties. |
| `EventLoop` | `util/eventloop.cc:83-224`, the flags of `util/file_descriptor.*` | What an iteration decides: the rules it ends, what results of `poll()` mean for a rule, which rule is served, which are erased, the busy-wait test. |
| `SocketPair` | the kernel's AF_UNIX pair, as `util/socket.cc`, `file_descriptor.cc` use it | External: bytes queued, directions shut, what `poll()` reports. |
| `StreamCopy` | `apps/bidirectional_stream_copy.cc` | The four rules: interest, callback, cancellation, error. |
| `MinnowSocket` | `util/tcp_minnow_socket_impl.hh:83-173` | The three rules, with what they see of a TCPPeer: the streams with their capacities, what `push()` sends within the window (`TCPPush`, `fin_sent`) and what it holds back, what is acknowledged (`acked`), the linger flag, `active()`, and when `receive()` throws (`ReceiveThrows`). |
| `Program` | `main()` of `apps/tcp_ipv4.cc` once connected, `tcp_minnow_socket_impl.hh:30-49, 190-235, 276-294` | Two threads; an iteration of an event loop is a step for the sweep, `poll()` and the walk, and a step for the callback, so that everything else may happen between them. |
| `Parser` | `util/parser.hh`, `util/checksum.hh` | Chunks of octets; `RemovePrefix` is `BufferList::remove_prefix`. |
| `Headers` | `ipv4_header.cc`, `ipv4_datagram.hh`, `tcp_segment.cc`, `arp_message.cc`, `ethernet_*` | A format is a sequence of names and widths; a parsed object is a record of octets. |
| `TCPOverIP` | `util/tcp_over_ip.cc`, `util/tuntap_adapter.*` | An adapter is its configuration and whether it listens. |
| `Wire` | a client and a server behind adapters, strangers, a network | Packets of octets that may be damaged and cut; the lossy adapter may drop. |
| `MC*` | | the instances TLC checks; `MCSequential` puts `ByteStreamSystem`, `MCWrap32` and `Wire` in one run: the variable `part` says which of them moves, from initial states of its own. |
| `ByteStreamLemmas`, `ByteStreamProofs`, `ReassemblerProofs`, `TCPSenderLemmas`, `TCPSenderProofs`, `TCPConnectionProofs`, `NetworkProofs`, `ProgramProofs` | | proofs; `TCPSenderLemmas` also has the theorems about `Wrap32`. |

`TCPConnection` composes `TCPPeer`, which composes `TCPSender` (with `ByteStream`)
and `TCPReceiver` (with `ReassemblyBuffer`); both use `Wrap32` and `TCPMessages`.
`Network` composes `Router`, which extends `NetworkInterface`. `Program` composes
`MinnowSocket`, `StreamCopy`, both on `EventLoop`, and `SocketPair`. `Wire` composes
`TCPOverIP`, `Headers` and `Parser`.
The wrong operators kept beside some definitions (their comments start with
"Wrong") are the faults each property has been shown to notice.

A word on the abstractions. *Bytes are positions*: no operation of the code looks
at a byte's value except `data == "\377"` (`tcp_sender.cc:31`), which is modelled by
the set `EOFBytes` of positions that hold 0xFF. *Time*: `tick()` gets elapsed
milliseconds; a unit of `InitialRTO` and `LingerFactor` stands for a time-out, and
a lingering peer's clock stops where it no longer matters. *TCP inside `Program`*:
what the remote peer sends arrives in order and once, and what it acknowledges it
has received, which is what `ImplementsStream` and `EndsAgree` say of the two peers
of `TCPConnection`; there are no retransmissions, for what is lost comes later. Of the
local peer `Program` keeps what decides how the threads go on. `push()` sends what the
window lets through, one number if the window is zero and nothing is in flight, and the
FIN only if it has room; it is called by rule 2 and never by `receive()`. The remote
peer acknowledges what it likes of what was sent, and announces any window, smaller
ones too. An acknowledgment carries the number after the FIN, if that was sent, so
`receive()` throws where `Reassembler::insert()` does. *Datagrams in
`Network`* are an id, a destination, a TTL and the TTL the checksum was made for; that
parsing and serializing keep the rest is `Wire`'s subject. `Wire` in turn works on
octets, because the conversion is what it is about.

## 3. What the runs check

| run | configuration | shows |
|---|---|---|
| `sequential_parts` | `MCSequential` | *ByteStream*: after any sequence of operations counters, chunks and view agree (`StreamConsistent`), `peek()` shows the next bytes, `read()` takes what it returns and returns, and the whole is a bounded FIFO. *Octets*: each message is read by the adapter it is meant for, and no other, as it was written, through octets, checksums, a damaged octet and every way of cutting chunks (`ReadAsWritten`). *Numbers*: `unwrap()` finds the nearest number, for every value, ISN and checkpoint. |
| `reassembler` | `MCReassembler` | For every order and multiplicity of arrivals: the output is a prefix of the stream, what is held is orderly and within capacity, the output closes exactly at the end, and the list is a set of indexes. |
| `reassembler_throw` | `MCReassemblerThrow` | *Violation*: `insert()` can throw (section 6). |
| `tcp_sender` | `MCTCPSender` | Whatever messages come: `OutstandingIsContiguous`, `TimerAtRest`, `NothingForgotten`, `FinEndsTheStream`; new numbers go only into the window announced last, `push()` leaves nothing it may send, and both loops end. |
| `tcp_sender_eof` | `MCTCPSenderEOF` | *Violation*: a byte 0xFF is taken for the end mark (section 6). |
| `tcp_connection` | `MCTCPConnection` | Handshake, transfer, close, lingering and a foreign RST over a network that loses, duplicates and reorders, with sequence numbers that wrap around: payloads are inserted in place, the two ends agree about what was received, also by every acknowledgment still on its way (`EndsAgree`), a clean end is complete, and each direction is a `ReliableStream` (`ImplementsStream`), so no stream ends early. |
| `tcp_connection_live` | `MCTCPConnectionLive` | With losses bounded and delivery quicker than the time-out, both peers finish: a lost acknowledgment of the last FIN is recovered by the peer that lingers. |
| `tcp_end_without_fin` | `MCTCPConnectionFIN` | *Violation*: a peer can end cleanly without having sent its FIN (section 6). |
| `network` | `MCNetwork` | With frames late, lost and a host replaced: a mapping is what its host said last and less than `ARP_MAP_TTL` ago (`MapIsFresh`), requests for an address keep their distance (`NoFlood`), a waiting datagram goes once (`SentAtMostOnce`) and, when nothing is lost, does go (`WaitingIsServed`), and the route is the longest prefix (`LongestPrefixWins`), for every table of up to three routes and both outcomes of the shift, except for an address to which only default routes apply in a build that leaves their mask whole. |
| `router_forwarding` | `MCNetworkForward` | *Violation*: a forwarded datagram has a stale checksum (section 6). |
| `router_default_route` | `MCNetworkDefault` | *Violation*: that exception. In such a build an address that only the default route could serve has no route (section 6). |
| `program` | `MCProgram` | A clean exit means that all of standard input was acknowledged, and the FIN if it was sent, and that all that came was written (`SuccessIsComplete`); every other end has its cause (`DeathHasCause`): without a reset or a reader that leaves no write hits a shut socket, a failure is one of standard input, and the exception of the reassembler, which kills orderly runs too, comes only after the remote FIN while bytes before it are not taken; ends of streams are passed on, and the FIN is sent, only when true (`EndsAreTrue`); the busy-wait exception is never thrown (`NoBusyWait`); and the program ends (`Terminates`), unless bytes are held back for ever (`HeldBack`) or standard output is gone. |

A connection ends, and so does a program, and then the system stops: the runs of
`TCPConnection` and of `Program` say `CHECK_DEADLOCK FALSE`. In all others a deadlock
would be an error.

Not stated as a property, because the code does not promise it, but worth
knowing: `receive()` takes the window from every message, stale ones too
(`tcp_sender.cc:78`), so after a reordering a sender may send beyond the receiver's
present right edge; the receiver discards what it has no room for, and the
retransmission repairs it. `WindowRespected` is therefore about the window
announced last, not about the receiver's room.

## 4. Bounds

* `MCSequential`. The stream: capacity 3, seven bytes, requests of 0, 1, 2 and 4. Several
  chunks and several generations of chunks, partial pops inside a chunk, requests
  above the capacity and above what is buffered, the end mark behind a chunk and
  alone. The numbers: 8 raw values, checkpoints to 20: more than two turns of the range, both
  ties, and the neighbourhood of zero (`UnwrapIsNearest` removes the bound). The octets:
  three messages: a first SYN, data of an odd length with the FIN, a SYN that
  resets; four ARP messages, two of them not supported. Packets go by the TUN adapter's
  two buffers or in a frame cut inside the Ethernet, IPv4 and TCP headers, at odd places
  too; any one octet may be changed in its highest bit, which is also the reserved bit
  that no checksum covers. Writers are the client, another connection of its host, another
  host, a wrong port.
* `MCReassembler`: a stream of 8, capacity 6: three separate held substrings fit with
  gaps between them, a new substring may overlap, bridge or contain them and be cut
  at both limits; the limit moves when the reader pops.
* `MCTCPSender`: four bytes, payloads of at most 2, windows 0, 1 and 4, every ackno
  including those never sent, sequence numbers modulo 12 from 10 on, so that they wrap
  inside the stream; one retransmission with its back-off. `MaxBytes` and `MaxRetx`
  are guards on the environment only. `MaxWindow` is small enough for unwrap to be
  right about what is in flight, as 65535 is for 2^32 (`InFlightAssumption`).
* `MCTCPConnection`: two bytes from the client, none from the server (the server's
  numbers are those of its SYN and its FIN), modulo 16 from 14
  on, two segments in the network at a time and two faults (loss or duplication),
  one retransmission: a lost or duplicated segment of every kind meets every phase,
  including lingering. `MaxInFlight` stops a peer from making a segment while the
  network is full, never a delivery.
* `MCNetwork`: addresses of two bits, so that all prefix lengths and both ends of the
  table are there; routes that overlap, repeat and have length zero. Two hosts and a port
  share a segment; the other port's segment is empty and stands for where the default
  route leads. Two datagrams, with a TTL that survives the router or not, one fault
  (a frame lost, a frame late or a host replaced), `ARP_RETX_PERIOD` 2 and `ARP_MAP_TTL` 3, in steps of 1: a request, a mapping
  and a datagram that waits all expire, in every order the code allows (30 s is longer
  than 5 s, so a mapping outlives a request here too).
* `MCNetworkDefault` is the same instance, for one property that it violates.
* `MCProgram`: sockets and the owner's buffers of one byte, so that every buffer is full
  and every write partial or refused at some time; one segment waiting to be received.
  Three bytes of standard input, an outbound stream of two and a window of one, which each
  byte fills and each acknowledgment opens: bytes and the FIN are held back, and both ways
  to hold them back for ever occur, rule 2 shut and rule 2 without room. With windows that
  close and open (`Windows = {0, 2}`) there are two million states, and the same properties
  hold, in a longer run than the one that is kept. An inbound capacity of three, so that
  the number after the remote FIN is still within it when a byte is unread, and `receive()`
  does throw. One byte from the remote peer is the least with which that can be; the
  theorems of section 7 have neither bound, nor any on the windows. Standard input is a file (readable at its end), a pipe (hangs up) or a
  terminal (may fail); the remote peer may refuse the connection, reset it at any time
  and end before or after.
* `MCTCPConnectionLive`: one byte, two faults, a retransmission bound of 3 which two
  faults cannot exhaust, a lingering time of 4 time-outs.

## 5. Fairness

* `ByteStreamSystem`, `TCPSenderSystem`: weak fairness of the iterations of a loop
  already entered. It is straight-line code of one thread. Nothing is assumed of
  callers.
* `TCPConnection`: the event loop polls again and again and serves each ready rule,
  `tick()` is called after each poll, applications read and close, and the network
  delivers what it does not lose. The formula is weak fairness of each action with
  its guard written out, which TLC evaluates much faster than ENABLED.
  `BothFinish` further assumes `Prompt` (delivery is quicker than a tick) and
  `OneClock`; a peer that lingers for ten time-outs can be outlasted by a slower
  network, and then the other end retransmits its FIN for ever, because nothing in
  the code looks at `MAX_RETX_ATTEMPTS` (`util/tcp_config.hh:17`).
* `Program`: weak fairness of one formula, `WorldStep \/ ThreadStep \/ OwnerStep`: as long
  as the owner, the thread or the world has a step to take, one of them takes one. The
  operating system runs both threads, time passes for a peer that lingers, the remote
  peer goes on sending and acknowledging until its FIN, standard input ends some day,
  and who reads standard output reads. It is weaker than fairness of each of them, and
  enough, because none can go on for ever by itself: each step uses up bytes, ends,
  acknowledgments or rules. No fairness is given to a reset or to a reader that leaves.
  `Terminates` makes two exceptions. A program whose standard output is gone waits for
  the remote peer, as `tcp_minnow_socket.hh:26-27` says it may. And when all that was
  sent is acknowledged, bytes are left, and rule 2 is shut or has no room (`HeldBack`),
  nothing calls `push()` any more (section 6, 3).
* `Network`, `Wire`: none; their properties are safety.

## 6. Disagreements found

1. **`reassembler.cc:30` throws.** `unacceptable_index_ - first_index` is unsigned
   and wraps when a substring starts beyond the end of the stream, and `data.resize()`
   throws `std::length_error`. A peer's empty acknowledgments after its FIN are such
   substrings (index one past the end), if bytes are still unread and there is room.
   `tcp_receiver.hh:15-16` promises that payloads are inserted "at the correct stream
   index". In a socket the exception leaves the TCP thread and ends the process, also in a
   run that nothing disturbs: `Program` ends with the fate "thrown", and `DeathHasCause`
   says when.
2. **`tcp_sender.cc:31` stops at a byte 0xFF.** A byte 0xFF alone in its view equals
   the end mark; with the stream closed, the FIN leaves with bytes unsent, though
   `tcp_sender_message.hh:20` says it "represents the ending of the byte stream".
3. **`tcp_peer.hh:76` does not push.** The acknowledgment opens the window but
   nothing pushes until the application writes again. A FIN held back by a full
   window is never sent, and `active()` does not notice; `tcp_peer.hh:102` speaks of
   "all closure conditions met". Bytes can be held back in the same way: rule 2 pushes
   only when it reads, and it does not read when the owner has closed or the outbound
   buffer is full (`tcp_minnow_socket_impl.hh:128`), so the transfer stops although the
   remote peer acknowledges and its window is wide. `Terminates` names that case. The tests do not
   see it because they push by themselves (`tests/sender_test_harness.hh:211-212`).
4. **`router.cc:46` does not recompute the checksum.** The TTL changes and the header
   checksum does not, so `IPv4Header::parse()` of the next hop refuses every datagram
   that a router has forwarded. `tests/router.cc:260-262` expects one with a checksum
   computed for the new TTL.
5. **`router.cc:38` shifts by 32 for a default route.** The shift is undefined. x86 and
   ARM64 leave the mask whole (`g++` at -O0 and -O2 on x86_64 does), and a default route
   then matches its own address only. `router.cc:9-10` says that the length is the number
   of bits that "will need to match", and `tests/router.cc:212, 276-283` sends a datagram
   "to the Internet" by a route of length 0.

The runs of section 3 that pass do not depend on these: bytes 0xFF are excluded by
`EOFBytes = {}`; in `TCPConnection` a thread that died is "crashed" and serves nothing,
and `CleanEndIsComplete` speaks of a peer that has sent its FIN; `Program` has the
exception, the FIN that is never sent and the bytes that are held back, and its
properties say what remains true with them; a forwarded datagram is followed to the next
inbox; and `LongestPrefixWins` makes an exception of `LeftToTheBuild` by name.

Read off the models and left without a run of their own:

* After a RST with two or more chunks still buffered, rule 3
  (`tcp_minnow_socket_impl.hh:149-157`) writes one chunk, shuts the socket because
  `has_error()`, stays interested because bytes are left, and its next write goes to a
  socket that is shut: SIGPIPE ends the process. `DeathHasCause` excludes resets
  from that part for this reason.
* `tcp_minnow_socket.hh:36` and `119-120` promise a RST when a socket is destructed;
  `_tcp.reset()` (`tcp_minnow_socket_impl.hh:289`) destroys the peer and sends nothing.
  For the same reason a RST that was received shows to the owner as an ordinary end.
* `tcp_minnow_socket.hh:30` says that `connect()` blocks until it succeeds or fails, but
  a refusal is only logged (245-252); `main()` of `tcp_ipv4` then ends with EXIT_SUCCESS.
* `eventloop.hh:66` says of `Success` that a rule was triggered; `wait_next_event()`
  returns it also when it only erased rules, or did nothing, because a rule that is not
  interested has a descriptor that hangs up; the caller then spins.
* When standard output is lost, both streams get an error and the truncated outbound
  stream ends with a FIN, like a complete one (`EndsAreTrue` excludes it).
* `network_interface.cc:57` asks to queue a datagram until the address is known; lines
  46-47 drop it if another one waits. Line 54 transmits the request before line 55
  queues: with an OutputPort that delivers at once, as in `tests/router.cc`, the reply
  finds nothing to release and the datagram waits until it expires.
* `router.cc:46` tests the TTL before it is decremented (`ttl-- <= 0`), so a datagram with
  a TTL of 1 leaves with a TTL of 0. `tests/router.cc:321-328` ("Testing TTL
  expiration...") sends one with 1 and one with 0 and expects neither anywhere: a host
  throws at a datagram it does not expect (124-129). No property is about the TTL;
  `Router.Expires` and `Router.Decremented` show what the code does.
* `payload_length()` (`ipv4_header.cc:82-85`) is not compared with the payload: zero
  octets added to a datagram leave both checksums right and become data. The checksum of
  the header is taken over 20 octets (`ipv4_header.cc:47-52`), so options pass only if
  they add up to nothing. A `data_offset` beyond the segment leaves an empty payload
  instead of an error.
* A TUN device that is reported readable and then has nothing clears the buffers
  (`file_descriptor.cc:130-132`), and `strs.at( 0 )` of `tuntap_adapter.cc:13` throws.

## 7. What is proved

Proved for every value of the constants, from the `ASSUME`s of the modules alone.

*ByteStream* (`ByteStreamProofs`, with the operator lemmas of `ByteStreamLemmas`):
`TypeCorrect`, `StreamAlwaysConsistent`, `PeekAlwaysNext`, `ReadAlwaysExact` and
`Refinement` (`Spec => Fifo!Spec`). The inductive invariant is `IInv`: types,
`StreamInv` and `ReadIsExact`. `StreamInv` is what makes it inductive: the ends of
the chunks increase strictly, the first lies after what was popped, the last is what
was pushed, or one more with the end mark, and the view is the rest of the first
chunk exactly when something is buffered. From it a pop of any length lands in a
chunk or at its end, and `peek()` is never empty while bytes are buffered, which is
why the `throw` in `read()` cannot happen.

*Reassembler* (`ReassemblerProofs`), for every capacity, every length of the stream and
every order and multiplicity of arrivals: `TypeCorrect`, `OutputAlwaysPrefix`,
`HeldAlwaysOrderly`, `ClosedAlwaysAtEnd` and `Refinement`
(`Spec => ImplementsIndexSet`: the list of substrings behaves as the set of indexes that
`TCPReceiver` works with). The inductive invariant is `Settled`, what holds between two
calls: the list is orderly, what was written is a prefix, the first substring is not yet
due, and the output is closed if the end was reached. Inside `insert()` only its first
part holds, `LoopInv`: the list is orderly but its front may be due. The argument follows
the code:

* `InsertCuts`: what is left of a substring after the cuts of `reassembler.cc:19-31` is a
  piece of the stream that lies within the capacity and before the end.
* `MergeAddsSubstring`: replacing what a new substring overlaps or touches by the one
  joined piece (lines 33-61) leaves an orderly list, which holds exactly the old
  indexes and the new ones (`FirstOfIs`, `EndingAfterIs`, `StartingFromIs` say what the
  scans find).
* `LoopWritesOut`: the writing loop (64-70) writes the whole front while it is due; it
  ends because every turn shortens the list, by `RoundByRound`, an induction on the first
  turn that would break the invariant. `bytes_pending_` is the sum of the sizes before
  and after (`TotalSizeIsSum`, `SizeOfJoined`), so it never goes below zero.
* `CloseAtEndSettles`: lines 73-74 close the output exactly when all was written.
* For the refinement, `IndexesHeld` says which indexes an orderly list holds,
  `DeliverIs` what the abstract delivery does when the first gap is known, and
  `InsertRefines` joins them; an `insert()` that throws changes what is known of the end
  and nothing else, on both levels.

*Wrap32* (at the head of `TCPSenderLemmas`): `UnwrapIsNearest` for any even number of raw values and
any checkpoint, from it `UnwrapAlwaysFindsNearest` (`Spec => []UnwrapFindsNearest` for
`MCWrap32`, whatever its bound), and `RoundTrip`: a number within half the range of the checkpoint is
recovered. The argument is that two numbers with one raw value differ by a multiple
of `Modulus`, and that a non-zero multiple is at least `Modulus` away.

*TCPSender* (`TCPSenderProofs`, with `TCPSenderLemmas` about what `push()` takes from
the outbound stream): `TypeCorrect`, `OutstandingAlwaysContiguous`,
`TimerAlwaysAtRest`, `NothingEverForgotten`, the action property
`WindowAlwaysRespected`, and, when no byte of the stream is 0xFF,
`FinAlwaysEndsTheStream` and the action property `PushAlwaysFillsWindow`. They hold for
every capacity, payload size, window,
time-out and ISN, and for every sequence of receiver messages. The one assumption
that limits them is `InFlightAssumption`: what a window or the SYN's segment can hold
is less than half the sequence space (2^16 against 2^32 in the code), without which
the seqno of the oldest segment could not be read back (`tcp_sender.cc:88`). The
inductive invariant `IInv` adds to what the runs check:

* `StreamSound`: the outbound stream is consistent (the lemmas of `ByteStreamLemmas`
  carry it through every operation).
* `NumbersSent`: `next_abs_seqno_` is the SYN, what has left the stream, and the FIN;
  `impossible_ackno_` is one more; once the FIN is sent nothing can be. So an
  accepted ackno is of what was sent.
* `OutstandingTiles`: the queue lies end to end and ends at `next_abs_seqno_`. Each
  round of `push()` extends it at the end, each of `receive()` takes its first.
* `BudgetUsedUp`: when the window has no room, what is left of `curr_size` is the one
  number of a window probe, or there is nothing to send. This is why a budget kept
  from round to round (`tcp_sender.cc:16-27`) does not overrun the window, also when
  `--curr_size` wraps around for a SYN.
* `FlightBounded`: with `InFlightAssumption`, it makes unwrapping exact.
* `TimerKept` and `Remembered`: `TimerAtRest` and `NothingForgotten`, and what holds
  between the rounds of `receive()`, where both are still to be re-established.

`PushAlwaysFillsWindow` needs two facts more, proved on top of `IInv`. `push()` returns
after a round that takes nothing. If that round had a budget, nothing was left to send.
If it had none, the window is full, or it is zero and has to count as one: something
must be in flight. `ProbeReady` says so: with a window of zero and nothing in flight
there is still a budget, that of a window probe. `push()` grants it to an established
sender only, and a sender with nothing in flight is one, for until it is established its
SYN is outstanding (`SYNRemembered`).

*TCPConnection* (`TCPConnectionProofs`), for every capacity, window, time-out, pair of
ISNs and pair of streams, and any number of segments lost, repeated, overtaken and
reset: `TypeCorrect`, `SegmentsInPlace`, `EndsAlwaysAgree`, `CleanEndsAreComplete`
and, when no byte of the streams is 0xFF, `NeverEndsEarly` and the refinement
`StreamsAreReliable` (`Spec => ImplementsStream`; the run `tcp_sender_eof` shows what such a
byte does). The invariant `IInv` relates the two ends and what is between them:

* `SenderSound`: the invariant of `TCPSenderProofs` for a sender between two calls.
  `PushedSound` and `AckedSound` carry it through the loops of `push()` and `receive()`,
  which a peer runs to their end in one call (`PushRoundsExist`, `AckRoundsExist`).
* `ReceivedFrom`: a receiver knows the ISN of the other end or none; what it has pushed,
  and every index it holds, has left the other sender's stream, and it knows of an end
  only where that sender has sent its FIN.
* `Agree` adds that what the other sender has released was received, and that either
  stream is within what its application may write.
* `NetworkIsHonest`: a segment on its way is one its sender has sent, its payload in
  place (`SentBy`), and an acknowledgment in it is of what its sender has received
  (`AckedBy`), however long ago. Both are stable: senders only send more (`GoesOn`) and
  receivers only receive more (`ReceiverGrows`), so `CarriedStays` needs no more than
  that, and losing or duplicating a segment disturbs nothing.
* A call on one peer is a `Moves`: it keeps the peer sound and in agreement with the
  other end as that end was, and all it transmits is honest (`WriteMoves`, `TickMoves`,
  `ReceiveMoves`). `StepKeeps` turns this into `IInv'`, so each action is argued on one
  side only.
* `InPlace`: a segment's number and the receiver's checkpoint are both within what the
  sender has sent, so `unwrap()` cannot be a turn off.

The last step needs `StreamAssumption`: a stream with its SYN and FIN is less than half the
sequence space (2^31 in the code). The code does not enforce that, and it is a real
limit: nothing bounds how long the network keeps a segment, and one that is half a turn
old is taken for a new one. Longer streams are in no run either.

`StreamsAreReliable` puts the others together: with everything between the applications
hidden, each direction is an ordered stream in a bounded buffer that ends where its
writer closed it. Initial states map to initial states; for the steps,

* `Does` lists all that a call on a peer may do to the two streams it holds an end of:
  write, close, receive, take, or nothing of it, and one of these at a time. `NextDoes`
  shows that every step does one of them at one peer and leaves the other alone, except
  that time may pass for both, which neither application notices.
* A step therefore belongs, in a given direction, to the writer, to the reader, or to
  neither (`EitherStream`), and `StreamStep` maps it to a step of `ReliableStream` or a
  stutter.
* What `StreamStep` needs to know of the states is `StreamFacts`, a consequence of `IInv`:
  nothing has arrived that was not written, the end has arrived only if the writer closed
  and all has arrived (`EndsTogether`), and what waits for the reader fits its buffer
  (`AllFit`).

*Network* (`NetworkProofs`), for every
network, routing table and traffic, and any number of frames lost or late and of hosts
replaced:

* `TypeCorrect`. Its invariant `TypeInv` is used by all that follow: an interface is an
  element of `Interfaces`, an inbox a sequence of `Frames`, and `route()` finds an
  interface and an address for every datagram it forwards. `RouteOneEffect` says once
  what the body of the loop of `route()` does to the interfaces.
* `LongestPrefixAlwaysWins`: `LongestPrefixWins`, for every table, every width of an
  address and either outcome of the undefined shift. A prefix there is the leading bits
  of an address, whatever the code's masks are; the one exception is `LeftToTheBuild`.
  `MatchesIsPrefix` says that the mask of a length above zero, or a cleared one, compares
  just those bits. `BestMatch` is a loop, so a recursive
  function; `BestMatchIsLongest` goes by its loop invariant, `LongestOf` (the choice is
  the longest of the entries seen so far, and the first of them). The induction is on
  the first turn that would break the invariant, whose existence (`Least`) follows from
  the library's `WFMin`; that the recursion defines a function is shown in the same
  way (`LoopIsDefined`, `SpanIsDefined`). `SameQuotient` is the
  arithmetic of the masks.
* `MapStaysFresh`: `MapIsFresh`. The invariant `FreshInv` adds that every ARP message
  on its way is true (`TrueFrames`): its Ethernet address has been one of the host that
  has its IP address. An entry that is learned again keeps its age, so it is at least
  as old as what was heard and forgotten no later (`RecvFresh`, `TickFresh`).
* `NeverFloods`: the action property `NoFlood`. What an interface knows of its last
  request it knows only through its two maps, so `RequestInv` bounds the age of the
  last request by them: while an entry of either map is there, the request is at least
  as old as the entry, and when both are gone it is older than `ARP_RETX_PERIOD`.
  `tick()` preserves that because a mapping lives at least as long as a request, which
  is `PeriodAssumption` (30000 and 5000 ms).
* `WaitingIsAlwaysServed`: `WaitingIsServed`. The invariant `ServiceInv` says why: while
  nothing has been lost or late, whoever waits for a neighbour has its own request on the
  way to that neighbour, or the reply on the way back (`Awaited`). A request that arrives is
  answered at once, also by one that is itself waiting for the asker, and its arrival does
  not release what waits there; that is left to the reply (`SendServed`, `TransitCarried`).
* `NothingSentTwice`: `SentAtMostOnce`, for a router that has one port on a segment
  (`PortsApart`). The invariant `OnceInv` follows a datagram that may still be
  transmitted: it waits at one interface, or comes to one port, or has been received by
  one port, never two of these and never twice in one (`Alone`, `OneEach`), and no port has
  sent it yet (`NotYetSent`). `OnceShrinks` covers the steps that lose it, `OnceMoves` those
  that pass it on. Without `PortsApart` the property is not to be expected: a datagram that
  a port sends to another port of the same router goes round until its time to live ends.

*Program* (`ProgramProofs`), for every room in the socket pair, capacity, amount of input
and number of segments that wait, and every interleaving of the two threads, the kernel,
the remote peer, and who writes and reads the standard streams: `TypeCorrect`,
`SuccessMeansAllCarried`, `DeathsHaveCauses`, `EndsCanBeBelieved` and `NeverBusyWaits`.
The inductive invariant `IInv` (TLC has checked it, too, with windows that close and open
and with one segment that waits and with two) is what each thread may rely on about the other:

* `Counted`: conservation. What was taken from one stream is in the next one or in the
  queue between them, from standard input to the TCP stream and from the remote peer to
  standard output; the buffers keep their capacities.
* `OwnerReady` and `ThreadReady`: what `poll()` saw is still enough when the callback runs.
  A queue that had bytes still has them, as only the served rule takes any; a direction
  that was shut stays shut. So a callback moves a byte, or finds the end it was called
  for, and the exception of `eventloop.cc:211-215` is not thrown. That `write()` to standard
  output moves at least a byte, when it does not kill, is how the kernel is modelled.
* `EndsInv`: while nothing was reset and no reader left (`Sound`), whoever is told of an
  end can rely on it. An end of the socket pair is shut only after the stream behind it
  was finished; so the reader of the pair sees the end after all bytes, a rule that is
  erased has none left, and a thread that ends has had all it sent acknowledged. It claims
  nothing of the socket pair once the thread has ended because its owner gave up
  (`OwnAccord`).
* `CopyInv`, `TCPInv`: why a rule is erased or a stream has an error. The TCP thread never
  loses rule 1, and rule 2 only after its end (`TCPSweptIs`, `TCPSees`: a descriptor that
  hangs up is also readable, so the hangup alone erases only rule 3).
* `TunInv`: neither data nor a FIN comes after a FIN, and a RST is one the remote peer has
  sent. It is how `Program` takes the remote peer (`RemoteSends`), not a result about TCP.
* `SentInv`: bytes leave the outbound stream in order and the FIN after all of them, and
  only what was sent is acknowledged; so a peer that is finished has had all it sent
  acknowledged, and all of the outbound stream was sent.
* `FateInv`: why the program ended as it did. `receive()` can throw only when an
  acknowledgment beyond the end comes with bytes unread, so after the remote FIN and
  before the owner has taken all.

`GaveUpKeeps`, `ThreadPollsOn` and `ThreadEndsKeeps` say once what an iteration of either
event loop may do to the state; the sweep and the walk are then shown to do no more
(`SweptKeeps`, `WalkedIs`, `CopySees`). The callbacks are one lemma each.

The assumptions are about the constants alone: `TopologyAssumption` (the ports are not
hosts, the interfaces start with Ethernet addresses of their own), `WidthAssumption`,
`PeriodAssumption`, `TTLAssumption` and `AbsentAssumption` (the value that stands for a
missing entry is not an entry) for the network; the capacities are positive and the bounds
are numbers for `Program`.

Out of TLAPS's reach and left to TLC: liveness under fairness and ENABLED
(`ReadReturns`, `LoopsEnd`, `BothFinish`, `Terminates`). Model-checked only: everything about
octets (`ReadAsWritten`, of `Parser`, `Headers`, `TCPOverIP` and `Wire`), whose operators are
recursive and where a proof would be an induction over the octets of a packet.

## 8. What is not modelled

* System calls: opening and configuring TUN/TAP devices and sockets, name resolution,
  random seeds, command lines. What the kernel does with the socket pair is modelled
  from outside (`SocketPair`).
* `to_string()` of anything, `Address`, logging, the probabilities of LossyFdAdapter.
* Rules of an EventLoop without a descriptor and `RuleHandle::cancel()`: no program of
  the repository adds or cancels one.
* `webget` and `tcp_native`, which run over the kernel's TCP.
* The 64-bit absolute numbers do not overflow; `Nat` stands for them. The one
  difference that does wrap around in reach, `--curr_size` (`tcp_sender.cc:27`), is
  modelled (`SizeModulus`).
* The counters of reads and writes of a file descriptor are shared by both threads
  without synchronisation (`shutdown()` of the TCP thread counts too), which is a data
  race. `Program` counts what the callback itself did: the race could only produce a
  false busy wait if an increment were lost between the two reads of one iteration.
* `Reassembler` is a list in its own runs and a set of indexes inside a connection;
  inside `Program` the remote peer and the network are an ordered stream each way, with
  windows and acknowledgments but without sequence numbers and retransmissions. Each time the smaller model is
  what the larger one was shown, or checked, to provide.

## 9. Plan

Done: all components of section 1 as far as section 8 says, in the order ByteStream,
Reassembler, Wrap32, TCPSender, TCPReceiver, TCPPeer, TCPConnection, NetworkInterface,
Router and Network, EventLoop, MinnowSocket, StreamCopy and Program, Parser, Headers,
TCPOverIP and Wire. Left, in this order:

1. Proofs: that parsing undoes serializing, for a single field and then for a header, once
   `Parser` is written without recursive operators.
2. More of `TCPConnection`: data in both directions in a run (the theorems cover it), the
   stall of a window that opens unseen (`Program` has it, without retransmissions), a stream longer than the sequence space.
