-------------------------------- MODULE Hex --------------------------------
(***************************************************************************)
(* hex.rs.  Bytes and characters are their codes; a u64 is the sequence of *)
(* its WordNibbles nibbles, the highest first.                             *)
(***************************************************************************)
EXTENDS Integers, Sequences, SequencesExt

WordNibbles == 16

HEX_CHARS(x) == IF x < 10 THEN 48 + x ELSE 87 + x

\* What the three ranges of the decoders accept, and the digit it stands for.
IsHex_LowerOnly(c) == c \in 48 .. 57 \/ c \in 97 .. 102
IsHex(c) == c \in 48 .. 57 \/ c \in 65 .. 70 \/ c \in 97 .. 102
HexValue(c) == IF c <= 57 THEN c - 48 ELSE IF c <= 70 THEN c - 55 ELSE c - 87

\* to_string, and to_hex_bytes into a destination that is long enough.
to_string(b) == [i \in 1 .. (2 * Len(b)) |->
    LET x == b[(i + 1) \div 2]
    IN  HEX_CHARS(IF i % 2 = 1 THEN x \div 16 ELSE x % 16)]

\* filter: what passes the test, in order.
Selected(s, Test(_)) == FlattenSeq([i \in DOMAIN s |-> IF Test(s[i]) THEN <<s[i]>> ELSE <<>>])

\* The digits of a text, one that has no partner at the end left out.
PairedDigits(s) ==
    LET digits == Selected(s, IsHex)
    IN  [i \in 1 .. (2 * (Len(digits) \div 2)) |-> HexValue(digits[i])]

from_string(s) ==
    LET d == PairedDigits(s)
    IN  [i \in 1 .. (Len(d) \div 2) |-> 16 * d[2 * i - 1] + d[2 * i]]

Zero == [i \in 1 .. WordNibbles |-> 0]

\* The digits after the zeroes at the front.
Significant(n) ==
    SubSeq(n, CHOOSE i \in 1 .. (WordNibbles + 1) :
                /\ \A j \in 1 .. (i - 1) : n[j] = 0
                /\ i <= WordNibbles => n[i] # 0,
           WordNibbles)

\* to_string_u64 and to_vec_u64
to_vec_u64(n, skip_leading_zeroes) ==
    LET digits == IF skip_leading_zeroes THEN Significant(n) ELSE n
    IN  [i \in DOMAIN digits |-> HEX_CHARS(digits[i])]

\* A byte at a time is shifted in from the right.
from_string_u64(s) ==
    LET all == Zero \o PairedDigits(s)
    IN  SubSeq(all, Len(all) - WordNibbles + 1, Len(all))
=============================================================================
