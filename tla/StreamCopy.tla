----------------------------- MODULE StreamCopy -----------------------------
(***************************************************************************)
(* bidirectional_stream_copy() of apps/bidirectional_stream_copy.cc: the   *)
(* four rules between standard input and output and the owner's end of the *)
(* socket pair.  Of the two ByteStreams the bytes are counted.             *)
(***************************************************************************)
EXTENDS EventLoop

CONSTANT BufferSize  \* 1048576 in the code

ASSUME BufferAssumption == BufferSize \in Nat \ {0}

NewStream == [pushed |-> 0, popped |-> 0, closed |-> FALSE, error |-> FALSE]

Buffered(s)     == s.pushed - s.popped
IsFinished(s)   == s.closed /\ Buffered(s) = 0
PushBytes(s, n) == IF s.closed THEN s ELSE [s EXCEPT !.pushed = @ + n]
PopBytes(s, n)  == [s EXCEPT !.popped = @ + n]
CloseStream(s)  == [s EXCEPT !.closed = TRUE]
SetError(s)     == [s EXCEPT !.error = TRUE]

\* 1: read from stdin, 2: write to the socket, 3: read from it, 4: write to stdout.
CopyDirection == <<"IN", "OUT", "IN", "OUT">>

NewCopy ==
    [rules |-> 1 .. 4, outbound |-> NewStream, inbound |-> NewStream,
     outbound_shutdown |-> FALSE, inbound_shutdown |-> FALSE,
     input |-> NewFD, socket |-> NewFD, output |-> NewFD]

CopyFD(c) == <<c.input, c.socket, c.socket, c.output>>

\* Wrong interest, for the mutation checks: also when there is nothing to write.
CopyInterestAlways(c) ==
    LET fine == ~c.outbound.error /\ ~c.inbound.error
    IN  {r \in c.rules :
            CASE r = 1 -> fine /\ Buffered(c.outbound) < BufferSize /\ ~c.outbound.closed
              [] r = 2 -> ~c.outbound_shutdown
              [] r = 3 -> fine /\ Buffered(c.inbound) < BufferSize /\ ~c.inbound.closed
              [] r = 4 -> \/ Buffered(c.inbound) > 0
                          \/ IsFinished(c.inbound) /\ ~c.inbound_shutdown}

CopyInterest(c) ==
    LET fine == ~c.outbound.error /\ ~c.inbound.error
    IN  {r \in c.rules :
            CASE r = 1 -> fine /\ Buffered(c.outbound) < BufferSize /\ ~c.outbound.closed
              [] r = 2 -> \/ Buffered(c.outbound) > 0
                          \/ IsFinished(c.outbound) /\ ~c.outbound_shutdown
              [] r = 3 -> fine /\ Buffered(c.inbound) < BufferSize /\ ~c.inbound.closed
              [] r = 4 -> \/ Buffered(c.inbound) > 0
                          \/ IsFinished(c.inbound) /\ ~c.inbound_shutdown}

\* Rules are cancelled: those of a stream close it.
CopyCancel(c, rules) ==
    [c EXCEPT !.rules = @ \ rules,
              !.outbound.closed = @ \/ rules \intersect {1, 2} # {},
              !.inbound.closed  = @ \/ rules \intersect {3, 4} # {}]

\* An error at any end is an error of both streams.
CopyError(c, rules) ==
    IF rules = {} THEN c
    ELSE [c EXCEPT !.outbound = SetError(@), !.inbound = SetError(@)]

\* The sweep and the walk, up to the rule that is served.
CopySwept(c) == CopyCancel(c, Ended(c.rules, CopyDirection, CopyFD(c)))

CopyWalked(c, outcome) ==
    LET failed == Defunct(outcome, "failed")
    IN  CopyCancel(CopyError(c, failed), failed \union Defunct(outcome, "hungup"))

\* Rule 1 after a read of n bytes, none at the end of the input.
CopyInput(c, n) ==
    IF n = 0 THEN [c EXCEPT !.input = ReachEOF(@), !.outbound = CloseStream(@)]
    ELSE [c EXCEPT !.outbound = PushBytes(@, n)]

\* Rule 3, likewise.
CopyReceived(c, n) ==
    IF n = 0 THEN [c EXCEPT !.socket = ReachEOF(@), !.inbound = CloseStream(@)]
    ELSE [c EXCEPT !.inbound = PushBytes(@, n)]

\* Wrong shutdown, for the mutation checks: the socket is left open.
CopyForwardedOpen(c, n) == [c EXCEPT !.outbound = PopBytes(@, n)]

\* Rule 2 after a write of n bytes: at the end it shuts the socket for writing.
CopyForwarded(c, n) ==
    LET out == PopBytes(c.outbound, n)
    IN  [c EXCEPT !.outbound = out, !.outbound_shutdown = @ \/ IsFinished(out)]

\* Rule 4, likewise: at the end it closes standard output.
CopyOutput(c, n) ==
    LET in == PopBytes(c.inbound, n)
    IN  [c EXCEPT !.inbound = in, !.inbound_shutdown = @ \/ IsFinished(in),
                  !.output = IF IsFinished(in) THEN CloseFD(@) ELSE @]
=============================================================================
