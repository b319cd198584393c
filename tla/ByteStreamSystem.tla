-------------------------- MODULE ByteStreamSystem --------------------------
(***************************************************************************)
(* One ByteStream between a Writer, which pushes, closes and may flag an   *)
(* error, and a Reader, which either pops what it likes or calls the       *)
(* helper read() of src/byte_stream_helpers.cc.  read() is a loop of peeks *)
(* and pops; its iterations are actions of their own.  Both ends run in    *)
(* one thread, so nothing else touches the stream while read() runs.       *)
(***************************************************************************)
EXTENDS ByteStream

CONSTANTS Capacity,     \* the capacity the stream is constructed with
          MaxPushed,    \* bound: the writer stops after this many bytes
          Sizes         \* the sizes of the requests either end makes

ASSUME CapacityAssumption == Capacity \in Nat \ {0}
ASSUME BoundAssumption == MaxPushed \in Nat
ASSUME SizesAssumption == Sizes \subseteq Nat

VARIABLES stream,   \* the ByteStream
          pc,       \* "idle", or where read() is: "loop", "threw"
          want,     \* the argument len of the call of read()
          start,    \* bytes_popped() and bytes_buffered() when it was called
          got       \* out, as the number of bytes appended to it so far

vars == <<stream, pc, want, start, got>>

Init ==
    /\ stream = NewByteStream(Capacity)
    /\ pc = "idle"
    /\ want = 0
    /\ start = [popped |-> 0, buffered |-> 0]
    /\ got = 0

-----------------------------------------------------------------------------
\* The writer's operations.
WriterPush(n) ==
    /\ pc = "idle"
    /\ stream.pushed + Lesser(n, AvailableCapacity(stream)) <= MaxPushed
    /\ stream' = Push(stream, n)
    /\ UNCHANGED <<pc, want, start, got>>

WriterClose ==
    /\ pc = "idle"
    /\ stream' = Close(stream)
    /\ UNCHANGED <<pc, want, start, got>>

WriterError ==
    /\ pc = "idle"
    /\ stream' = SetError(stream)
    /\ UNCHANGED <<pc, want, start, got>>

\* The reader's pop(len).
ReaderPop(n) ==
    /\ pc = "idle"
    /\ stream' = Pop(stream, n)
    /\ UNCHANGED <<pc, want, start, got>>

(***************************************************************************)
(* read(reader, len, out): the call, which clears out; an iteration, which *)
(* throws on an empty view and otherwise takes at most what is still       *)
(* wanted of it and pops that; and the return.                             *)
(***************************************************************************)
ReadCall(n) ==
    /\ pc = "idle"
    /\ pc' = "loop"
    /\ want' = n
    /\ start' = [popped |-> stream.popped, buffered |-> stream.buffered]
    /\ got' = 0
    /\ UNCHANGED stream

\* Wrong condition, for the mutation checks: the stream may have run dry.
MoreWanted == got < want

MoreToRead == stream.buffered > 0 /\ got < want

\* Wrong iteration, for the mutation checks: the whole view is popped.
ReadStepWholeView ==
    /\ pc = "loop"
    /\ MoreToRead
    /\ got' = got + Lesser(PeekSize(stream), want - got)
    /\ stream' = Pop(stream, PeekSize(stream))
    /\ UNCHANGED <<pc, want, start>>

ReadStep ==
    /\ pc = "loop"
    /\ MoreToRead
    /\ IF PeekSize(stream) = 0
       THEN pc' = "threw" /\ UNCHANGED <<stream, got>>
       ELSE LET took == Lesser(PeekSize(stream), want - got)
            IN  /\ got' = got + took
                /\ stream' = Pop(stream, took)
                /\ UNCHANGED pc
    /\ UNCHANGED <<want, start>>

ReadReturn ==
    /\ pc = "loop"
    /\ ~MoreToRead
    /\ pc' = "idle"
    /\ UNCHANGED <<stream, want, start, got>>

Next ==
    \/ \E n \in Sizes : WriterPush(n) \/ ReaderPop(n) \/ ReadCall(n)
    \/ WriterClose
    \/ WriterError
    \/ ReadStep
    \/ ReadReturn

(***************************************************************************)
(* read() is straight-line code of its thread: once called it runs.        *)
(* Nothing is assumed of the callers.                                      *)
(***************************************************************************)
Fairness == WF_vars(ReadStep \/ ReadReturn)

Spec == Init /\ [][Next]_vars /\ Fairness
-----------------------------------------------------------------------------
TypeOK ==
    /\ stream \in ByteStreams
    /\ pc \in {"idle", "loop", "threw"}
    /\ want \in Nat
    /\ start \in [popped : Nat, buffered : Nat]
    /\ got \in Nat

(***************************************************************************)
(* The counters, the chunks and the view agree with each other after any   *)
(* sequence of operations, and so peek() never shows a byte that is not    *)
(* the next one (byte_stream.cc:12-37, 59-80).                             *)
(***************************************************************************)
StreamConsistent == StreamInv(stream) /\ stream.capacity = Capacity

PeekShowsNextBytes == PeekIsNext(stream)

(***************************************************************************)
(* read() takes from the stream exactly what it appends to out, never      *)
(* meets an empty view (its throw, byte_stream_helpers.cc:17-19, is dead), *)
(* and hands over min(len, bytes_buffered()) bytes, counted at the call.   *)
(***************************************************************************)
ReadIsExact ==
    /\ pc # "threw"
    /\ pc = "loop" => /\ stream.popped = start.popped + got
                      /\ stream.buffered + got = start.buffered
                      /\ got <= want
                      /\ ~MoreToRead => got = Lesser(want, start.buffered)

(***************************************************************************)
(* Every call of read() comes to an end (the loop at                       *)
(* byte_stream_helpers.cc:13-24 always makes progress).                    *)
(***************************************************************************)
ReadReturns == pc = "loop" ~> pc = "idle"

(***************************************************************************)
(* The stream is a bounded FIFO: the abstract specification it implements. *)
(***************************************************************************)
Fifo == INSTANCE BoundedFifo
            WITH written <- stream.pushed, taken <- stream.popped,
                 ended <- stream.closed, failed <- stream.error,
                 front <- IF stream.buffered = 0 THEN 0
                          ELSE PeekTo(stream) - stream.popped

ImplementsFifo == Fifo!Spec
=============================================================================
