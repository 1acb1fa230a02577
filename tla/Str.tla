-------------------------------- MODULE Str --------------------------------
(***************************************************************************)
(* str.rs: \XX escapes for everything but plain printable characters.      *)
(***************************************************************************)
EXTENDS Hex

Plain_Backslash(c) == c \in 43 .. 126 /\ c # 96
Plain(c) == c \in 43 .. 126 /\ c \notin {92, 96}

escape(b) ==
    FlattenSeq([i \in DOMAIN b |->
        IF Plain(b[i]) THEN <<b[i]>> ELSE <<92>> \o to_string(<<b[i]>>)])

\* The two characters after a backslash; those that are no digits are skipped.
Escaped(c1, c2) ==
    LET digit(x, c) == IF IsHex(c) THEN (16 * x + HexValue(c)) % 256 ELSE x
    IN  digit(digit(0, c1), c2)

\* open holds the characters of an escape that is not complete; one that the
\* end of the text cuts off is dropped.
Unescaped(st, c) ==
    CASE st.open = <<>> /\ c = 92 -> [st EXCEPT !.open = <<c>>]
      [] st.open = <<>> /\ c # 92 -> [st EXCEPT !.b = Append(@, c)]
      [] Len(st.open) = 1         -> [st EXCEPT !.open = Append(@, c)]
      [] OTHER -> [b |-> Append(st.b, Escaped(st.open[2], c)), open |-> <<>>]

unescape(s) ==
    LET run[i \in 0 .. Len(s)] ==
          IF i = 0 THEN [b |-> <<>>, open |-> <<>>] ELSE Unescaped(run[i - 1], s[i])
    IN  run[Len(s)].b
=============================================================================
