----------------------------- MODULE MCArrayVec -----------------------------
(***************************************************************************)
(* A small instance of ArrayVec for TLC: inputs that fit, that fit only    *)
(* an empty ArrayVec, and that do not fit.                                 *)
(***************************************************************************)
EXTENDS ArrayVec, TLC

MCInputs == UNION {[1 .. n -> Values] : n \in 0 .. (C + 1)}

Symmetry == Permutations(Vecs)
=============================================================================
