-------------------------- MODULE ReassemblyBuffer --------------------------
(***************************************************************************)
(* What the Reassembler of src/reassembler.{hh,cc} and the ByteStream it   *)
(* writes to amount to, without the list of substrings: a set of indexes   *)
(* that are held back, and the counters of the output stream.  Reassembler *)
(* is the code itself, and ReassemblerSystem shows that it implements this.*)
(***************************************************************************)
EXTENDS Naturals

Smaller(a, b) == IF a <= b THEN a ELSE b

Buffers == [capacity : Nat,          \* of the output stream
            pushed   : Nat,          \* output bytes written: expecting_index_
            popped   : Nat,          \* output bytes the reader has taken
            held     : SUBSET Nat,   \* indexes stored but not yet written
            finSeen  : BOOLEAN,      \* is_closed_: the end is known ...
            end      : Nat,          \* ... and is here: terminate_index_
            ended    : BOOLEAN]      \* the output stream is closed

NewBuffer(cap) ==
    [capacity |-> cap, pushed |-> 0, popped |-> 0, held |-> {},
     finSeen |-> FALSE, end |-> 0, ended |-> FALSE]

\* available_capacity() and is_finished() of the output stream.
Room(b)     == b.capacity - (b.pushed - b.popped)
Finished(b) == b.ended /\ b.pushed = b.popped

\* A substring that starts where nothing can be stored is ignored.
Ignores(b, first) ==
    Finished(b) \/ Room(b) = 0 \/ first >= b.pushed + Room(b)

\* What insert() learns of the end of the stream from a substring it accepts.
WithEnd(b, first, n, last) ==
    IF last THEN [b EXCEPT !.finSeen = TRUE, !.end = first + n] ELSE b

\* The first index that is not stored: no room for it, or beyond the end.
Limit(b) == IF b.finSeen THEN Smaller(b.end, b.pushed + Room(b))
            ELSE b.pushed + Room(b)

(***************************************************************************)
(* data.resize() is asked for a negative length, and throws, when the      *)
(* substring starts beyond the end of the stream (reassembler.cc:29-31).   *)
(***************************************************************************)
InsertThrows(b, first, n, last) ==
    /\ ~Ignores(b, first)
    /\ Limit(WithEnd(b, first, n, last)) < (IF first < b.pushed THEN b.pushed ELSE first)

\* The output takes every held byte that is next in line.
FirstGap(b) ==
    CHOOSE e \in b.pushed .. b.pushed + Room(b) :
        e \notin b.held /\ \A i \in b.pushed .. e - 1 : i \in b.held

\* Wrong delivery, for the mutation checks: the output closes on seeing the end.
DeliverOnFin(b) ==
    LET gap == FirstGap(b)
    IN  [b EXCEPT !.pushed = gap,
                  !.held   = {i \in b.held : i > gap},
                  !.ended  = b.ended \/ b.finSeen]

Deliver(b) ==
    LET gap == FirstGap(b)
    IN  [b EXCEPT !.pushed = gap,
                  !.held   = {i \in b.held : i > gap},
                  !.ended  = b.ended \/ (b.finSeen /\ gap >= b.end)]

\* insert(first_index, data, is_last_substring), data being of size n.
Insert(b, first, n, last) ==
    LET known == WithEnd(b, first, n, last)
        fits  == {i \in first .. first + n - 1 : i >= b.pushed /\ i < Limit(known)}
    IN  IF Ignores(b, first) THEN b
        ELSE IF InsertThrows(b, first, n, last) THEN known
        ELSE Deliver([known EXCEPT !.held = b.held \union fits])

\* The reader takes n bytes of the output stream.
Take(b, n) == [b EXCEPT !.popped = b.popped + Smaller(n, b.pushed - b.popped)]
=============================================================================
