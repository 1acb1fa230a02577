----------------------------- MODULE Dictionary -----------------------------
(***************************************************************************)
(* dictionary.rs: a map from strings to byte strings, saved as lines       *)
(* key=value with five characters escaped, and loaded again, perhaps by a  *)
(* process that starts after the one that saved it died in the middle.     *)
(***************************************************************************)
EXTENDS Hex, FiniteSets

CONSTANTS
    Keys,    \* strings, as their bytes
    Values,  \* byte strings
    U64s     \* u64 values

\* str::from_utf8: the number of bytes of the character that a byte begins (0
\* if it begins none), and what may follow it there; later bytes are any Tails.
\* The second byte rules out overlong forms, surrogates and what is too large.
Tails == 128 .. 191
Width(c) ==
    CASE c < 128           -> 1
      [] c \in 194 .. 223 -> 2
      [] c \in 224 .. 239 -> 3
      [] c \in 240 .. 244 -> 4
      [] OTHER             -> 0
Second(c) ==
    CASE c = 224 -> 160 .. 191
      [] c = 237 -> 128 .. 159
      [] c = 240 -> 144 .. 191
      [] c = 244 -> 128 .. 143
      [] OTHER   -> Tails
Utf8(s) ==
    \A i \in DOMAIN s :
        IF s[i] \in Tails THEN \E j \in 1 .. (i - 1) : i - j < Width(s[j])
        ELSE /\ Width(s[i]) # 0 /\ i + Width(s[i]) - 1 <= Len(s)
             /\ \A k \in 1 .. (Width(s[i]) - 1) :
                  s[i + k] \in IF k = 1 THEN Second(s[i]) ELSE Tails

\* A key is a str.
ASSUME DictionaryAssumption ==
    /\ \A k \in Keys : k \in Seq(0 .. 255) /\ Utf8(k)
    /\ Values \subseteq Seq(0 .. 255)
    /\ U64s \subseteq [1 .. WordNibbles -> 0 .. 15]

VARIABLES
    dict,   \* the BTreeMap of a Dictionary
    meant,  \* what the program set each key to, and as what
    file,   \* what write_to has written
    stage   \* "edit", or the file is "saved" or "edited" by somebody

dictVars == <<dict, meant, file, stage>>

Nothing == [k \in {} |-> <<>>]
With(d, k, v) == [x \in DOMAIN d \cup {k} |-> IF x = k THEN v ELSE d[x]]

DictInit == dict = Nothing /\ meant = Nothing /\ file = <<>> /\ stage = "edit"

\* Natural order of strings.
Precedes(s, t) ==
    \/ IsPrefix(s, t)
    \/ \E i \in DOMAIN s \cap DOMAIN t :
         /\ s[i] < t[i]
         /\ \A j \in 1 .. (i - 1) : s[j] = t[j]
Sorted(keys) ==
    CHOOSE ks \in [1 .. Cardinality(keys) -> keys] :
        \A i, j \in DOMAIN ks : i < j => ks[i] # ks[j] /\ Precedes(ks[i], ks[j])

\* write_escaped: NUL, newline, carriage return, = and backslash.
Escape_NoReturn(c) ==
    CASE c = 0  -> <<92, 48>>
      [] c = 10 -> <<92, 110>>
      [] c = 61 -> <<92, 101>>
      [] c = 92 -> <<92, 92>>
      [] OTHER  -> <<c>>
Escape(c) ==
    CASE c = 0  -> <<92, 48>>
      [] c = 10 -> <<92, 110>>
      [] c = 13 -> <<92, 114>>
      [] c = 61 -> <<92, 101>>
      [] c = 92 -> <<92, 92>>
      [] OTHER  -> <<c>>
write_escaped(b) == FlattenSeq([i \in DOMAIN b |-> Escape(b[i])])

\* write_to, to_bytes
Line(k, v) == write_escaped(k) \o <<61>> \o write_escaped(v) \o <<10>>
to_bytes(d) ==
    LET ks == Sorted(DOMAIN d) IN FlattenSeq([i \in DOMAIN ks |-> Line(ks[i], d[ks[i]])])

\* from_bytes, one character after the other: state 0 is in a key, 1 in a
\* value.
Unescape(c) == CASE c = 48 -> 0 [] c = 110 -> 10 [] c = 114 -> 13 [] c = 101 -> 61 [] OTHER -> c
Push(p, c) == IF p.state = 0 THEN [p EXCEPT !.key = Append(@, c)]
                             ELSE [p EXCEPT !.val = Append(@, c)]
EndLine_KeepsKey(p) ==
    [p EXCEPT !.ok = p.state = 1 /\ Utf8(p.key),
              !.d = IF p.key = <<>> THEN @ ELSE With(@, p.key, p.val),
              !.val = <<>>, !.state = 0]
EndLine(p) ==
    [p EXCEPT !.ok = p.state = 1 /\ Utf8(p.key),
              !.d = IF p.key = <<>> THEN @ ELSE With(@, p.key, p.val),
              !.key = <<>>, !.val = <<>>, !.state = 0]
Parsed(p, c) ==
    IF ~p.ok THEN p
    ELSE IF p.escape THEN [Push(p, Unescape(c)) EXCEPT !.escape = FALSE]
    ELSE CASE c = 92 -> [p EXCEPT !.escape = TRUE]
           [] c = 61 -> [p EXCEPT !.ok = p.state = 0, !.state = 1]
           [] c = 10 -> EndLine(p)
           [] c = 13 -> p
           [] OTHER  -> Push(p, c)
Fresh == [d |-> Nothing, key |-> <<>>, val |-> <<>>, state |-> 0,
          escape |-> FALSE, ok |-> TRUE]
from_bytes(b) ==
    LET run[i \in 0 .. Len(b)] == IF i = 0 THEN Fresh ELSE Parsed(run[i - 1], b[i])
    IN  run[Len(b)]

-----------------------------------------------------------------------------
\* An Option is a sequence of at most one element.
get_bytes(k) == IF k \in DOMAIN dict THEN <<dict[k]>> ELSE <<>>
get_str(k) == IF k \in DOMAIN dict /\ Utf8(dict[k]) THEN <<dict[k]>> ELSE <<>>

\* from_str_radix(_, 16) of what follows the sign: digits that fit.
Radix16(s) ==
    IF s = <<>> \/ ~(\A i \in DOMAIN s : IsHex(s[i])) THEN <<>>
    ELSE LET all == Zero \o [i \in DOMAIN s |-> HexValue(s[i])]
             top == SubSeq(all, 1, Len(s))
         IN  IF \E i \in DOMAIN top : top[i] # 0 THEN <<>>
             ELSE <<SubSeq(all, Len(s) + 1, Len(all))>>
AfterPlus(s) == IF Len(s) > 1 /\ s[1] = 43 THEN Tail(s) ELSE s
get_u64(k) == IF get_str(k) = <<>> THEN <<>> ELSE Radix16(AfterPlus(get_str(k)[1]))

\* An i64 is its sign and its magnitude.
get_i64(k) ==
    LET s == get_str(k)[1]
        minus == Len(s) > 1 /\ s[1] = 45
        n == Radix16(IF minus THEN Tail(s) ELSE AfterPlus(s))
        fits == n[1][1] < 8 \/ (minus /\ n[1] = [Zero EXCEPT ![1] = 8])
    IN  IF get_str(k) = <<>> \/ n = <<>> \/ ~fits THEN <<>>
        ELSE <<[neg |-> minus /\ n[1] # Zero, n |-> n[1]]>>

BOOL_TRUTH == {49, 116, 84, 121, 89}
get_bool(k) == IF k \notin DOMAIN dict THEN <<>>
               ELSE <<dict[k] # <<>> /\ dict[k][1] \in BOOL_TRUTH>>

-----------------------------------------------------------------------------
\* BTreeMap::insert.  Bound: a saved file is loaded before the next change.
Insert(k, v, as) ==
    /\ stage = "edit"
    /\ dict' = With(dict, k, v)
    /\ meant' = With(meant, k, as)
    /\ UNCHANGED <<file, stage>>

set_str(k, v) == Utf8(v) /\ Insert(k, v, [type |-> "bytes", v |-> v])
set_bytes(k, v) == Insert(k, v, [type |-> "bytes", v |-> v])
set_u64(k, n) == Insert(k, to_vec_u64(n, TRUE), [type |-> "u64", v |-> n])
set_bool(k, b) == Insert(k, IF b THEN <<49>> ELSE <<48>>, [type |-> "bool", v |-> b])

clear ==
    /\ stage = "edit"
    /\ dict' = Nothing /\ meant' = Nothing
    /\ UNCHANGED <<file, stage>>

\* write_to fails, or the process dies, after any number of bytes.
write_to ==
    /\ stage = "edit"
    /\ \E n \in 0 .. Len(to_bytes(dict)) : file' = SubSeq(to_bytes(dict), 1, n)
    /\ stage' = "saved"
    /\ UNCHANGED <<dict, meant>>

\* An editor that ends lines with CR NL saves the file.
CrLf ==
    /\ stage = "saved"
    /\ file' = FlattenSeq([i \in DOMAIN file |->
                  IF file[i] = 10 THEN <<13, 10>> ELSE <<file[i]>>])
    /\ stage' = "edited"
    /\ UNCHANGED <<dict, meant>>

Load ==
    /\ stage # "edit"
    /\ dict' = IF from_bytes(file).ok THEN from_bytes(file).d ELSE Nothing
    /\ file' = <<>>
    /\ stage' = "edit"
    /\ meant' = [k \in DOMAIN meant \cap DOMAIN dict' |-> meant[k]]

DictNext ==
    \/ clear \/ write_to \/ CrLf \/ Load
    \/ \E k \in Keys :
         \/ \E v \in Values : set_str(k, v) \/ set_bytes(k, v)
         \/ \E n \in U64s : set_u64(k, n)
         \/ \E b \in BOOLEAN : set_bool(k, b)

-----------------------------------------------------------------------------
\* The number of lines that are complete in the file.
Lines == Len(Selected(file, LAMBDA c : c = 10))

\* However short the file was cut, whatever the keys and values contain, and
\* with either kind of line end, from_bytes accepts it and finds the keys of
\* the complete lines, in the order of the map; only the empty key is lost.
LoadsCompleteLines ==
    stage # "edit" =>
        /\ from_bytes(file).ok
        /\ DOMAIN from_bytes(file).d =
             ToSet(SubSeq(Sorted(DOMAIN dict), 1, Lines)) \ {<<>>}

\* Every key that is there reads as what the program last set it to, also
\* after a save, a torn save and a load: except that a u64 of zero reads as
\* None, and a u64 that is no i64 as None when it is read as one.
ReadsBack ==
    \A k \in DOMAIN dict :
        LET as == meant[k]
        IN  /\ as.type = "bytes" => get_bytes(k) = <<as.v>>
            /\ as.type = "bool" => get_bool(k) = <<as.v>>
            /\ as.type = "u64" =>
                 /\ get_u64(k) = IF as.v = Zero THEN <<>> ELSE <<as.v>>
                 /\ get_i64(k) = IF as.v = Zero \/ as.v[1] >= 8 THEN <<>>
                                 ELSE <<[neg |-> FALSE, n |-> as.v]>>
=============================================================================
