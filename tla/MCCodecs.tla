------------------------------ MODULE MCCodecs ------------------------------
(***************************************************************************)
(* A small instance of Codecs for TLC.  Keys and values contain all that   *)
(* the formats treat specially, and what it is escaped to.                 *)
(***************************************************************************)
EXTENDS Codecs

\* "", "=", "\u{e9}\n"
MCKeys == {<<>>, <<61>>, <<195, 169, 10>>}

\* "", "\e", NUL CR 255, NL "n=", "+r0"
MCValues == {<<>>, <<92, 101>>, <<0, 13, 255>>, <<10, 110, 61>>, <<43, 114, 48>>}

Nibbles(front, back) == front \o SubSeq(Zero, 1, WordNibbles - Len(front) - Len(back)) \o back
MCU64s == {Zero, Nibbles(<<>>, <<5>>), Nibbles(<<>>, <<10, 0>>), Nibbles(<<>>, <<1, 0, 2>>),
           Nibbles(<<8>>, <<15>>)}

\* Every byte string of up to five bytes over an empty, a full and a last one.
MCForeign == UNION {[1 .. n -> {{}, 0 .. (GroupBits - 1), {0, GroupBits}}] : n \in 1 .. 5}
=============================================================================
