------------------------------- MODULE Varint -------------------------------
(***************************************************************************)
(* varint.rs for words of WordBits bits sent in groups of GroupBits: 64    *)
(* and 7 in the code.  A word is the set of its bits that are 1, a byte    *)
(* likewise; bit GroupBits of a byte marks the last one.                   *)
(***************************************************************************)
EXTENDS Integers, Sequences, SequencesExt, FiniteSetsExt

CONSTANTS
    WordBits, GroupBits,
    Foreign    \* byte strings a peer with another encoder may send

ASSUME VarintAssumption ==
    /\ GroupBits \in Nat \ {0} /\ WordBits \in Nat /\ WordBits > GroupBits

Words == SUBSET (0 .. (WordBits - 1))
Bytes == SUBSET (0 .. GroupBits)

\* 10 in the code
VARINT_MAX_SIZE_BYTES == (WordBits + GroupBits - 1) \div GroupBits

\* Groups from the lowest, as many as it takes to reach the highest bit.
Groups_Dense(v) == 1 + Cardinality(v) \div GroupBits
Groups(v) == 1 + Max(v \cup {0}) \div GroupBits
encode(v) ==
    [i \in 1 .. Groups(v) |->
        {k \in 0 .. (GroupBits - 1) : (i - 1) * GroupBits + k \in v}
        \cup (IF i = Groups(v) THEN {GroupBits} ELSE {})]

\* wrapping_shl takes the distance modulo the width.
wrapping_shl(x, n) == {k + (n % WordBits) : k \in x} \cap (0 .. (WordBits - 1))

\* The value of the groups up to the first byte that is marked as the last,
\* and their number; None is the empty sequence.
Parse(b) ==
    LET ends == {i \in DOMAIN b : GroupBits \in b[i]}
        n == Min(ends)
        bits == UNION {wrapping_shl(b[i] \ {GroupBits}, (i - 1) * GroupBits) : i \in 1 .. n}
    IN  IF ends = {} THEN <<>> ELSE <<[v |-> bits, n |-> n]>>

\* read takes bytes as long as they come.
read(r) == Parse(r)
decode_Short(b) == Parse(SubSeq(b, 1, Min({Len(b), VARINT_MAX_SIZE_BYTES - 1})))
decode(b) == Parse(SubSeq(b, 1, Min({Len(b), VARINT_MAX_SIZE_BYTES})))
=============================================================================
