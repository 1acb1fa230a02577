------------------------------- MODULE MCBuf -------------------------------
(***************************************************************************)
(* Small instances of Buf for TLC: capacities are multiples of 2, and the  *)
(* largest that the header has room for is none of them, as in the code.   *)
(***************************************************************************)
EXTENDS Buf, TLC

\* Slices that fit a Buf, and some that fit none: rounded up, their length is
\* past the limit.
MCSlices == UNION {[1 .. n -> Byte] : n \in 0 .. 2}
            \cup {[i \in 1 .. MaxCapacity |-> v] : v \in Byte}

\* Byte values are interchangeable.
Symmetry == Permutations(Byte)
=============================================================================
