------------------------------- MODULE Wrap32 -------------------------------
(***************************************************************************)
(* The 32-bit sequence numbers of src/wrapping_integers.{hh,cc}.  The      *)
(* number of raw values is a parameter, 2^32 in the code, so that small    *)
(* instances wrap around.  Absolute sequence numbers are 64-bit in the     *)
(* code; a connection would have to carry 2^64 bytes to overflow them, so  *)
(* they are natural numbers here.                                          *)
(***************************************************************************)
EXTENDS Integers

CONSTANT Modulus    \* how many raw values there are: 2^32 in the code

ASSUME ModulusAssumption == Modulus \in Nat /\ Modulus > 0
ASSUME EvenAssumption == Modulus = 2 * (Modulus \div 2)

RawValues == 0 .. Modulus - 1

\* zero_point + uint32_t(n): both the conversion and the sum wrap around.
Wrap(n, zero_point) == (zero_point + (n % Modulus)) % Modulus

\* Wrong test, for the mutation checks: it ignores what lies below zero.
AheadOnHalfOnly(offset, checkpoint) == offset <= Modulus \div 2

\* The candidate ahead of the checkpoint is taken if it is the nearer one, or
\* if the one behind would be negative.
Ahead(offset, checkpoint) ==
    offset <= Modulus \div 2 \/ checkpoint + offset < Modulus

\* The absolute sequence number nearest checkpoint that raw stands for.
Unwrap(raw, zero_point, checkpoint) ==
    LET offset == (raw - Wrap(checkpoint, zero_point)) % Modulus
    IN  IF Ahead(offset, checkpoint) THEN checkpoint + offset
        ELSE checkpoint + offset - Modulus

-----------------------------------------------------------------------------
Distance(a, b) == IF a <= b THEN b - a ELSE a - b

(***************************************************************************)
(* The reference for unwrap(): a number that wraps to the raw value, and   *)
(* none of the numbers in S that do is closer to the checkpoint            *)
(* (wrapping_integers.hh:20-24).                                           *)
(***************************************************************************)
IsNearest(S, n, raw, zero_point, checkpoint) ==
    /\ n \in Nat
    /\ Wrap(n, zero_point) = raw
    /\ \A x \in S : Wrap(x, zero_point) = raw
                   => Distance(n, checkpoint) <= Distance(x, checkpoint)
=============================================================================
