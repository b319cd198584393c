---------------------------- MODULE BoundedFifo -----------------------------
(***************************************************************************)
(* What a ByteStream promises, with no chunks and no view: a FIFO of bytes *)
(* named by their positions, of bounded capacity, that can be ended once   *)
(* and that shows its reader some of the next bytes whenever it has any.   *)
(* The promise is that of the comments of src/byte_stream.hh:40-57.        *)
(***************************************************************************)
EXTENDS Naturals

CONSTANT Capacity

VARIABLES written,  \* bytes accepted so far
          taken,    \* bytes removed so far
          ended,    \* no byte is accepted any more
          failed,   \* the error flag
          front     \* how many of the next bytes the reader is shown

vars == <<written, taken, ended, failed, front>>

\* Something is shown exactly if something is there, and never what is not.
FrontOK == front' \in 0 .. written' - taken' /\ (front' = 0 <=> written' = taken')

Init == written = 0 /\ taken = 0 /\ ~ended /\ ~failed /\ front = 0

\* Bytes are accepted up to the capacity; what the reader is shown stays put.
Write ==
    /\ ~ended
    /\ written' \in written + 1 .. taken + Capacity
    /\ FrontOK
    /\ front # 0 => front' = front
    /\ UNCHANGED <<taken, ended, failed>>

Take ==
    /\ taken' \in taken + 1 .. written
    /\ UNCHANGED <<written, ended, failed>>
    /\ FrontOK

End == ended' = TRUE /\ UNCHANGED <<written, taken, failed, front>>

Fail == failed' = TRUE /\ UNCHANGED <<written, taken, ended, front>>

Next == Write \/ Take \/ End \/ Fail

Spec == Init /\ [][Next]_vars
=============================================================================
