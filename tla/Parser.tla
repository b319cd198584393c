------------------------------- MODULE Parser -------------------------------
(***************************************************************************)
(* Parser and Serializer of util/parser.hh and the InternetChecksum of     *)
(* util/checksum.hh.  Data travels as chunks, strings of octets.  An       *)
(* integer is kept as its octets, most significant first; Number and       *)
(* Octets2 convert it where the code computes with it.                     *)
(***************************************************************************)
EXTENDS Naturals, SequencesExt

Size(chunks) == Len(FlattenSeq(chunks))

Number(octets) == FoldLeft(LAMBDA n, octet : 256 * n + octet, 0, octets)

\* The octets of a uint16_t.
Octets2(n) == <<(n \div 256) % 256, n % 256>>

-----------------------------------------------------------------------------
\* The chunks of a BufferList after its first n octets, those used up dropped.
RECURSIVE RemovePrefix(_, _)
RemovePrefix(chunks, n) ==
    IF n = 0 \/ chunks = << >> THEN chunks
    ELSE LET first == Head(chunks)
         IN  IF n < Len(first) THEN <<SubSeq(first, n + 1, Len(first))>> \o Tail(chunks)
             ELSE RemovePrefix(Tail(chunks), n - Len(first))

\* The first n octets, one at a time: the front of an empty chunk is undefined.
RECURSIVE Taken(_, _)
Taken(chunks, n) ==
    IF n = 0 THEN << >>
    ELSE <<Head(Head(chunks))>> \o Taken(RemovePrefix(chunks, 1), n - 1)

\* A parser: what is left of its input, and the fields it has read.
NewParser(chunks) == [input |-> chunks, error |-> FALSE, fields |-> << >>]

Failed(p)  == [p EXCEPT !.error = TRUE]
Skip(p, n) == [p EXCEPT !.input = RemovePrefix(@, n)]

\* integer(): once there is an error nothing more is read.
Integer(p, name, width) ==
    IF p.error \/ width > Size(p.input) THEN Failed(p)
    ELSE [Skip(p, width) EXCEPT !.fields = @ @@ (name :> Taken(p.input, width))]

\* A format is a sequence of fields, each a name and a width.
Integers(p, format) == FoldLeft(LAMBDA q, f : Integer(q, f[1], f[2]), p, format)

AllRemaining(p) == IF Size(p.input) = 0 THEN << >> ELSE p.input

-----------------------------------------------------------------------------
NewSerializer == [output |-> << >>, buffer |-> << >>]

Flush(s) == IF s.buffer = << >> THEN s
            ELSE [output |-> Append(s.output, s.buffer), buffer |-> << >>]

PutInteger(s, octets) == [s EXCEPT !.buffer = @ \o octets]

PutIntegers(s, format, object) == FoldLeft(LAMBDA t, f : PutInteger(t, object[f[1]]), s, format)

PutBuffer(s, chunk) ==
    IF chunk = << >> THEN Flush(s) ELSE [Flush(s) EXCEPT !.output = Append(@, chunk)]

PutBuffers(s, chunks) == FoldLeft(PutBuffer, s, chunks)

Output(s) == Flush(s).output

-----------------------------------------------------------------------------
NewChecksum(sum) == [sum |-> sum, parity |-> FALSE]

AddOctet(c, octet) ==
    [sum |-> c.sum + (IF c.parity THEN octet ELSE 256 * octet), parity |-> ~c.parity]

\* Wrong addition, for the mutation checks: every chunk starts at an even octet.
AddChunkAligned(c, chunk) == FoldLeft(AddOctet, [c EXCEPT !.parity = FALSE], chunk)

AddChunk(c, chunk) == FoldLeft(AddOctet, c, chunk)

Add(c, chunks) == FoldLeft(AddChunk, c, chunks)

RECURSIVE Carried(_)
Carried(sum) == IF sum > 65535 THEN Carried((sum \div 65536) + (sum % 65536)) ELSE sum

Value(c) == 65535 - Carried(c.sum)
=============================================================================
