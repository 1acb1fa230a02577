------------------------------- MODULE Codecs -------------------------------
(***************************************************************************)
(* A program that keeps a Dictionary in a file and sends varints over a    *)
(* stream, and the text codecs applied to the byte strings it holds.  File *)
(* and stream have nothing in common, so only one is in use at a time.     *)
(***************************************************************************)
EXTENDS Dictionary, Varint, Str

CONSTANTS
    SentWords,   \* words the program sends
    MaxUnread    \* bound: varints in flight

ASSUME CodecsAssumption ==
    /\ SentWords \subseteq Words
    /\ Foreign \subseteq Seq(Bytes)
    /\ MaxUnread \in Nat

VARIABLES
    stream,   \* bytes sent and not read yet
    unread,   \* the words they stand for; none for a foreign sender
    cut       \* the stream ends where it stands

streamVars == <<stream, unread, cut>>
vars == <<dictVars, streamVars>>

Init ==
    /\ DictInit
    /\ stream \in {<<>>} \cup Foreign
    /\ unread = <<>>
    /\ cut = (stream # <<>>)

\* varint::write
write(v) ==
    /\ ~cut /\ Len(unread) < MaxUnread
    /\ stream' = stream \o encode(v)
    /\ unread' = Append(unread, v)
    /\ UNCHANGED cut

\* The connection ends with any number of bytes lost.
Disconnect ==
    /\ ~cut
    /\ \E n \in 0 .. Len(stream) : stream' = SubSeq(stream, 1, n)
    /\ cut' = TRUE
    /\ UNCHANGED unread

\* varint::read; at the end of the stream it fails and has eaten the rest.
Read ==
    /\ stream # <<>>
    /\ LET r == read(stream)
       IN  IF r = <<>> THEN stream' = <<>> /\ UNCHANGED unread
           ELSE /\ stream' = SubSeq(stream, r[1].n + 1, Len(stream))
                /\ unread' = IF unread = <<>> THEN <<>> ELSE Tail(unread)
    /\ UNCHANGED cut

\* A stream that has ended and has been read.
Closed == cut /\ stream = <<>> /\ UNCHANGED vars

Next ==
    \/ Closed
    \/ dict = Nothing /\ stage = "edit" /\ UNCHANGED dictVars
         /\ (Disconnect \/ Read \/ \E v \in SentWords : write(v))
    \/ streamVars = <<<<>>, <<>>, FALSE>> /\ UNCHANGED streamVars /\ DictNext

Spec == Init /\ [][Next]_vars

-----------------------------------------------------------------------------
\* The next word on the stream reads as what was sent, with its own bytes and
\* none of the bytes of the words behind it; if the stream ends inside it,
\* read fails and decode returns None: a prefix is never taken for a word.
ReadsWhatWasWritten ==
    unread # <<>> /\ stream # <<>> =>
        LET sent == [v |-> unread[1], n |-> Len(encode(unread[1]))]
        IN  read(stream) = IF Len(stream) >= sent.n THEN <<sent>> ELSE <<>>

\* decode gives what read gives for any bytes, canonical or not, and differs
\* only where a word does not end within VARINT_MAX_SIZE_BYTES.
DecodeAgreesWithRead ==
    \/ decode(stream) = read(stream)
    \/ decode(stream) = <<>> /\ read(stream)[1].n > VARINT_MAX_SIZE_BYTES

\* Hex text decodes to the bytes it was made of, in any case and with any
\* separators, and the digits of every u64 set decode to it: but without its
\* leading zeroes only if an even number is left, else the last is lost.
Separated(s) == FlattenSeq([i \in DOMAIN s |-> <<58, IF s[i] > 96 THEN s[i] - 32 ELSE s[i]>>])
HexInverts ==
    \A k \in DOMAIN dict :
        /\ from_string(to_string(dict[k])) = dict[k]
        /\ from_string(Separated(to_string(dict[k]))) = dict[k]
        /\ meant[k].type = "u64" =>
             LET n == meant[k].v
                 short == to_vec_u64(n, TRUE)
             IN  /\ from_string_u64(to_vec_u64(n, FALSE)) = n
                 /\ from_string_u64(short) =
                      IF Len(short) % 2 = 0 THEN n ELSE <<0>> \o Front(n)

\* An escaped byte string is printable and unescapes to itself; cut anywhere,
\* it unescapes to a beginning of itself, never to a wrong byte.
EscapeInverts ==
    \A k \in DOMAIN dict :
        LET text == escape(dict[k])
        IN  /\ \A i \in DOMAIN text : text[i] \in 43 .. 126
            /\ unescape(text) = dict[k]
            /\ \A n \in DOMAIN text : IsPrefix(unescape(SubSeq(text, 1, n)), dict[k])
=============================================================================
