------------------------------ MODULE MCWrap32 ------------------------------
(***************************************************************************)
(* unwrap() against its reference for every zero point, every raw value    *)
(* and every checkpoint up to a bound, the checkpoint moving as the one of *)
(* a connection does: forward, by any amount the window allows.            *)
(***************************************************************************)
EXTENDS Wrap32

CONSTANT MaxCheckpoint  \* bound on the checkpoint

VARIABLES zero_point, raw, checkpoint

vars == <<zero_point, raw, checkpoint>>

Init == zero_point \in RawValues /\ raw \in RawValues /\ checkpoint = 0

\* The stream moves on and another raw value is to be read.
Advance == /\ checkpoint' \in checkpoint .. MaxCheckpoint
           /\ raw' \in RawValues
           /\ UNCHANGED zero_point

Spec == Init /\ [][Advance]_vars

\* unwrap() finds the nearest number (wrapping_integers.cc:12-20).
UnwrapFindsNearest ==
    IsNearest(0 .. MaxCheckpoint + Modulus, Unwrap(raw, zero_point, checkpoint),
              raw, zero_point, checkpoint)
=============================================================================
