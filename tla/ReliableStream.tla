--------------------------- MODULE ReliableStream ---------------------------
(***************************************************************************)
(* What one direction of a connection promises to the applications at its  *)
(* two ends, with no segments, numbers, timers or network in sight: bytes  *)
(* named by their positions, that arrive in order, once each, in a buffer  *)
(* of bounded capacity, and an end that arrives with the last of them.     *)
(* Either end may fail at any time; a failed direction merely stops.       *)
(***************************************************************************)
EXTENDS Naturals

CONSTANT Capacity   \* how much may have arrived and not been taken

VARIABLES written,  \* bytes the writer has written
          closed,   \* has the writer closed the stream?
          arrived,  \* bytes that have arrived at the reader's end
          ended,    \* has the end of the stream arrived?
          taken     \* bytes the reader has taken

vars == <<written, closed, arrived, ended, taken>>

Init == written = 0 /\ ~closed /\ arrived = 0 /\ ~ended /\ taken = 0

Write ==
    /\ ~closed
    /\ written' \in Nat /\ written' > written
    /\ UNCHANGED <<closed, arrived, ended, taken>>

CloseStream == closed' = TRUE /\ UNCHANGED <<written, arrived, ended, taken>>

\* Bytes arrive, or the end does, which comes with the last byte or after it.
Arrive ==
    /\ ~ended
    /\ arrived' \in arrived .. written
    /\ arrived' <= taken + Capacity
    /\ ended' \in BOOLEAN
    /\ ended' => closed /\ arrived' = written
    /\ UNCHANGED <<written, closed, taken>>

Take ==
    /\ taken' \in taken + 1 .. arrived
    /\ UNCHANGED <<written, closed, arrived, ended>>

Next == Write \/ CloseStream \/ Arrive \/ Take

Spec == Init /\ [][Next]_vars
=============================================================================
