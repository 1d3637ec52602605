------------------------------- MODULE Wrap32 -------------------------------
(***************************************************************************)
(* Sequence numbers on the wire (src/src/wrapping_integers.cc).  A         *)
(* Wrap32's raw_value_ is an absolute 64-bit sequence number plus the      *)
(* zero point (the ISN), modulo M; unwrap recovers an absolute number near *)
(* a checkpoint.  M is 2^32 in the code; a small even M makes the wrap     *)
(* happen within a few bytes.                                              *)
(***************************************************************************)
EXTENDS Integers

CONSTANT M      \* SL32 in the code

ASSUME ModulusAssumption == M \in Nat /\ M > 0 /\ M % 2 = 0

Half == M \div 2      \* SL31 in the code

Raw == 0 .. (M - 1)   \* the values of Wrap32::raw_value_

\* Wrap32::wrap: zero_point + n in uint32_t arithmetic.
Wrap(n, zero) == (zero + n) % M

\* The uint32_t difference raw_value_ - ckpt32.raw_value_.
Offset(raw, zero, checkpoint) == (raw - Wrap(checkpoint, zero)) % M

\* Wrap32::unwrap.
Unwrap(raw, zero, checkpoint) ==
    LET up == checkpoint + Offset(raw, zero, checkpoint)
    IN  IF up - checkpoint <= Half \/ up < M THEN up ELSE up - M

Distance(a, b) == IF a >= b THEN a - b ELSE b - a

\* u is an absolute sequence number that wraps to raw, and none of the
\* numbers up to limit that wrap to raw is closer to the checkpoint.
IsClosest(u, raw, zero, checkpoint, limit) ==
    /\ u \in Nat
    /\ Wrap(u, zero) = raw
    /\ \A v \in 0 .. limit :
         Wrap(v, zero) = raw => Distance(u, checkpoint) <= Distance(v, checkpoint)
=============================================================================
