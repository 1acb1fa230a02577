---------------------------- MODULE CodecsProofs ----------------------------
(***************************************************************************)
(* Proofs about the codecs, for all byte strings, keys and words.          *)
(* Varints: on a stream that may end anywhere, for every width of words    *)
(* and groups.  Text: what is escaped, written in hex or saved as a        *)
(* dictionary is read back, also from a file that was cut anywhere.        *)
(* Induction over sequences goes by sets: LeastElement gives Upwards,      *)
(* Upwards gives SeqInduct, and every coder and decoder is a fold (After)  *)
(* or a replacement of elements by sequences (Mapped).                     *)
(***************************************************************************)
EXTENDS Codecs, IntegerLemmas, FiniteSetTheorems, SequenceTheorems, TLAPS

-----------------------------------------------------------------------------
\* varint.rs.

\* A set of bits has a highest one.
LEMMA Highest ==
    ASSUME NEW n \in Nat, NEW T, T \subseteq 0 .. n, T # {}
    PROVE  Max(T) \in T /\ \A y \in T : y <= Max(T)
<1> DEFINE D == {n - x : x \in T}
<1>0. \A x \in T : x \in Int /\ n - x \in Nat
  OBVIOUS
<1>1. D \subseteq Nat /\ D # {}
  BY <1>0
<1>2. PICK d \in D : \A e \in D : d <= e
  <2> HIDE DEF D
  <2> QED
    BY <1>1, LeastElement
<1>3. PICK x \in T : d = n - x
  OBVIOUS
<1>4. ASSUME NEW y \in T PROVE x >= y /\ y <= x
  <2>1. n - x <= n - y
    BY <1>2, <1>3
  <2>2. x \in Int /\ y \in Int
    BY <1>0
  <2> QED
    BY <2>1, <2>2
<1>5. \E z \in T : \A y \in T : z >= y
  BY <1>4
<1> DEFINE m == Max(T)
<1>6. m \in T /\ \A y \in T : m >= y
  BY <1>5 DEF Max
<1> HIDE DEF m
<1>7. \A y \in T : y <= m
  BY <1>6
<1> QED
  BY <1>6, <1>7 DEF m

\* The first of some positions.
LEMMA First ==
    ASSUME NEW T, T \subseteq Nat, T # {}
    PROVE  Min(T) \in T /\ \A y \in T : Min(T) <= y
<1>1. \E x \in T : \A y \in T : x <= y
  BY LeastElement
<1> QED
  BY <1>1 DEF Min

\* It is the only one that no other precedes.
LEMMA FirstIs ==
    ASSUME NEW T, T \subseteq Nat, NEW n \in T, \A y \in T : n <= y
    PROVE  Min(T) = n
<1> DEFINE m == Min(T)
<1>1. m \in T /\ m <= n /\ n <= m
  BY First
<1> HIDE DEF m
<1>2. m \in Int /\ n \in Int
  BY <1>1
<1>3. m = n
  BY <1>1, <1>2
<1> QED
  BY <1>3 DEF m

\* An interval from 1 has one end.
LEMMA IntervalEnd ==
    ASSUME NEW m \in Nat, NEW n \in Nat, 1 .. m = 1 .. n
    PROVE  m = n
<1>1. m > n => m \in 1 .. m /\ m \notin 1 .. n
  OBVIOUS
<1>2. n > m => n \in 1 .. n /\ n \notin 1 .. m
  OBVIOUS
<1> QED
  BY <1>1, <1>2

-----------------------------------------------------------------------------
\* The groups of a word start inside it.
LEMMA GroupStarts ==
    ASSUME NEW v \in Words
    PROVE  /\ Groups(v) \in Nat \ {0}
           /\ \A i \in 1 .. Groups(v) : (i - 1) * GroupBits \in 0 .. (WordBits - 1)
           /\ \A x \in v : /\ x \div GroupBits + 1 \in 1 .. Groups(v)
                           /\ x % GroupBits \in 0 .. (GroupBits - 1)
                           /\ (x \div GroupBits) * GroupBits + (x % GroupBits) = x
<1> DEFINE G == GroupBits
           W == WordBits
           h == Max(v \cup {0})
           q == h \div G
<1>1. G \in Nat \ {0} /\ W \in Nat /\ W > G
  BY VarintAssumption
<1>2. W - 1 \in Nat /\ v \subseteq 0 .. (W - 1) /\ v \cup {0} \subseteq 0 .. (W - 1)
  BY <1>1 DEF Words
<1>3. h \in 0 .. (W - 1) /\ \A x \in v : x <= h
  <2> DEFINE T == v \cup {0}
  <2>1. T \subseteq 0 .. (W - 1) /\ T # {}
    BY <1>2
  <2> HIDE DEF T
  <2>2. Max(T) \in T /\ \A y \in T : y <= Max(T)
    BY <1>2, <2>1, Highest
  <2> QED
    BY <2>1, <2>2 DEF T
<1>4. Groups(v) = 1 + q
  BY DEF Groups
<1> HIDE DEF G, W, h
<1>5. q \in Int /\ h = G * q + (h % G) /\ h % G \in 0 .. (G - 1) /\ h \in Int
  BY <1>1, <1>3, DivMod
<1> HIDE DEF q
<1>6. ASSUME NEW d \in Int, d > q PROVE G * d > h
  <2>1. G * (d - q) = G * d - G * q
    BY <1>1, <1>5, MulDiff
  <2>2. d - q \in Int /\ d - q >= 1
    BY <1>5, <1>6
  <2>3. G * (d - q) >= G
    BY <1>1, <2>2, MulBound
  <2>4. G * d \in Int /\ G * q \in Int
    BY <1>1, <1>5
  <2> DEFINE gd == G * d
             gq == G * q
  <2>5. gd - gq >= G /\ gd \in Int /\ gq \in Int /\ h = gq + (h % G)
    BY <1>5, <2>1, <2>3, <2>4
  <2> HIDE DEF gd, gq
  <2>6. gd > h
    BY <1>1, <1>5, <2>5
  <2> QED
    BY <2>6 DEF gd
<1>7. ASSUME NEW x \in v
      PROVE  /\ x \in 0 .. (W - 1) /\ x <= h /\ x \div G \in Nat /\ x \div G <= q
             /\ x % G \in 0 .. (G - 1) /\ (x \div G) * G + (x % G) = x
  <2>1. x \in Nat /\ x <= h /\ x \in 0 .. (W - 1)
    BY <1>2, <1>3
  <2> DEFINE e == x \div G
             r == x % G
  <2>2. e \in Int /\ x = G * e + r /\ r \in 0 .. (G - 1)
    BY <1>1, <2>1, DivMod
  <2> HIDE DEF e, r
  <2>3. ~(e > q)
    <3> SUFFICES ASSUME e > q PROVE FALSE
      OBVIOUS
    <3>1. G * e > h /\ G * e \in Int
      BY <1>1, <1>6, <2>2
    <3> DEFINE ge == G * e
    <3>2. ge > h /\ ge \in Int /\ x = ge + r
      BY <2>2, <3>1
    <3> HIDE DEF ge
    <3> QED
      BY <1>5, <2>1, <2>2, <3>2
  <2>4. e >= 0
    <3> SUFFICES ASSUME e < 0 PROVE FALSE
      BY <2>2
    <3>1. e <= -1
      BY <2>2
    <3>2. G * e <= -G /\ G * e \in Int
      BY <1>1, <2>2, <3>1, MulBound
    <3> DEFINE ge == G * e
    <3>3. ge <= -G /\ ge \in Int /\ x = ge + r
      BY <2>2, <3>2
    <3> HIDE DEF ge
    <3> QED
      BY <1>1, <2>1, <2>2, <3>3
  <2>5. e * G = G * e
    BY <1>1, <2>2
  <2>6. e \in Nat /\ e <= q /\ e * G + r = x
    BY <1>5, <2>2, <2>3, <2>4, <2>5
  <2> QED
    BY <2>1, <2>2, <2>6 DEF e, r
<1>8. q \in Nat
  <2>1. ~(q < 0)
    <3> SUFFICES ASSUME q < 0 PROVE FALSE
      OBVIOUS
    <3>1. 0 \in Int /\ 0 > q
      BY <1>5
    <3>2. G * 0 > h
      BY <1>6, <3>1
    <3> QED
      BY <1>1, <1>3, <3>2
  <2> QED
    BY <1>5, <2>1
<1>9. ASSUME NEW i \in 1 .. (1 + q) PROVE (i - 1) * G \in 0 .. (W - 1)
  <2> DEFINE d == i - 1
  <2>1. d \in Nat /\ d <= q
    BY <1>8
  <2> HIDE DEF d
  <2>2. d * G = G * d /\ G * d \in Nat
    BY <1>1, <2>1
  <2>3. G * d <= G * q
    <3>1. G * (q - d) = G * q - G * d /\ q - d \in Nat
      BY <1>1, <1>8, <2>1, MulDiff
    <3>2. G * (q - d) \in Nat /\ G * q \in Int
      BY <1>1, <1>8, <3>1
    <3> DEFINE gd == G * d
               gq == G * q
               gg == G * (q - d)
    <3>3. gg = gq - gd /\ gg \in Nat /\ gq \in Int /\ gd \in Nat
      BY <2>2, <3>1, <3>2
    <3> HIDE DEF gd, gq, gg
    <3>4. gd <= gq
      BY <3>3
    <3> QED
      BY <3>4 DEF gd, gq
  <2> DEFINE gd == G * d
             gq == G * q
  <2>4. gd <= gq /\ gd \in Nat /\ gq \in Int /\ h = gq + (h % G)
    BY <1>1, <1>5, <2>2, <2>3
  <2> HIDE DEF gd, gq
  <2>5. gd \in 0 .. (W - 1)
    BY <1>1, <1>3, <1>5, <2>4
  <2> QED
    BY <2>2, <2>5 DEF gd, d
<1>10. ASSUME NEW x \in v PROVE x \div G + 1 \in 1 .. (1 + q)
  <2> DEFINE e == x \div G
  <2>1. e \in Nat /\ e <= q
    BY <1>7
  <2> HIDE DEF e
  <2>2. e + 1 \in 1 .. (1 + q)
    BY <1>8, <2>1
  <2> QED
    BY <2>2 DEF e
<1>11. 1 + q \in Nat \ {0}
  BY <1>8
<1> QED
  BY <1>4, <1>7, <1>9, <1>10, <1>11 DEF G, W
\* An encoding has one byte per group, and marks the last and no other.
LEMMA EncodeShape ==
    ASSUME NEW v \in Words
    PROVE  /\ encode(v) \in Seq(Bytes) /\ Len(encode(v)) = Groups(v)
           /\ \A i \in 1 .. Groups(v) :
                /\ GroupBits \in encode(v)[i] <=> i = Groups(v)
                /\ encode(v)[i] \ {GroupBits} =
                     {k \in 0 .. (GroupBits - 1) : (i - 1) * GroupBits + k \in v}
<1> DEFINE n == Groups(v)
           c == encode(v)
           low(i) == {k \in 0 .. (GroupBits - 1) : (i - 1) * GroupBits + k \in v}
<1>1. n \in Nat \ {0} /\ GroupBits \in Nat
  BY GroupStarts, VarintAssumption
<1>2. c = [i \in 1 .. n |-> low(i) \cup (IF i = n THEN {GroupBits} ELSE {})]
  BY DEF encode
<1>3. \A i : low(i) \subseteq 0 .. (GroupBits - 1)
  OBVIOUS
<1> HIDE DEF n, c, low
<1>4. /\ GroupBits \in 0 .. GroupBits /\ GroupBits \notin 0 .. (GroupBits - 1)
      /\ 0 .. (GroupBits - 1) \subseteq 0 .. GroupBits
  BY <1>1
<1>5. c \in [1 .. n -> Bytes]
  BY <1>2, <1>3, <1>4 DEF Bytes
<1>6. c \in Seq(Bytes) /\ Len(c) = n
  <2>1. c \in Seq(Bytes) /\ DOMAIN c = 1 .. n
    BY <1>1, <1>5, SeqDef
  <2>2. Len(c) \in Nat /\ DOMAIN c = 1 .. Len(c)
    BY <2>1, LenProperties
  <2> QED
    BY <1>1, <2>1, <2>2, IntervalEnd
<1>7. ASSUME NEW i \in 1 .. n
      PROVE  (GroupBits \in c[i] <=> i = n) /\ c[i] \ {GroupBits} = low(i)
  BY <1>2, <1>3, <1>4
<1> QED
  BY <1>6, <1>7 DEF n, c, low

\* Its groups, shifted to where they belong, are the word.
LEMMA EncodeValue ==
    ASSUME NEW v \in Words
    PROVE  UNION {wrapping_shl(encode(v)[i] \ {GroupBits}, (i - 1) * GroupBits) :
                     i \in 1 .. Groups(v)} = v
<1> DEFINE n == Groups(v)
           low(i) == {k \in 0 .. (GroupBits - 1) : (i - 1) * GroupBits + k \in v}
           part(i) == wrapping_shl(encode(v)[i] \ {GroupBits}, (i - 1) * GroupBits)
<1>1. GroupBits \in Nat \ {0} /\ WordBits \in Nat /\ v \subseteq 0 .. (WordBits - 1)
  BY VarintAssumption DEF Words
<1>2. ASSUME NEW i \in 1 .. n
      PROVE  part(i) = {k + (i - 1) * GroupBits : k \in low(i)} \cap (0 .. (WordBits - 1))
  <2> DEFINE d == (i - 1) * GroupBits
  <2>1. d \in 0 .. (WordBits - 1) /\ encode(v)[i] \ {GroupBits} = low(i)
    BY GroupStarts, EncodeShape
  <2> HIDE DEF d, low
  <2>2. d % WordBits = d
    BY <1>1, <2>1
  <2>3. wrapping_shl(low(i), d) = {k + d : k \in low(i)} \cap (0 .. (WordBits - 1))
    BY <2>2 DEF wrapping_shl
  <2> QED
    BY <2>1, <2>3 DEF d
<1>3. ASSUME NEW i \in 1 .. n PROVE part(i) \subseteq v
  <2> DEFINE d == (i - 1) * GroupBits
  <2>1. d \in Int /\ \A k \in low(i) : k \in Int /\ d + k \in v
    <3>1. d \in 0 .. (WordBits - 1)
      BY GroupStarts
    <3> QED
      BY <1>1, <3>1
  <2>2. part(i) \subseteq {k + d : k \in low(i)}
    BY <1>2
  <2> HIDE DEF d, low, part
  <2>3. \A k \in low(i) : k + d = d + k
    BY <2>1
  <2> QED
    BY <2>1, <2>2, <2>3
<1>4. ASSUME NEW x \in v PROVE \E i \in 1 .. n : x \in part(i)
  <2> DEFINE e == x \div GroupBits
             k == x % GroupBits
             i == e + 1
             d == e * GroupBits
  <2>1. i \in 1 .. n /\ k \in 0 .. (GroupBits - 1) /\ d + k = x /\ x \in 0 .. (WordBits - 1)
    BY <1>1, GroupStarts
  <2>2. e \in Int
    BY <1>1, <2>1, DivMod
  <2> HIDE DEF e, k
  <2>3. i - 1 = e /\ d \in Int /\ k \in Int
    BY <1>1, <2>1, <2>2
  <2>4. k \in low(i)
    BY <2>1, <2>3
  <2> HIDE DEF d, low, part
  <2>5. k + d = x
    BY <2>1, <2>3
  <2>6. x \in part(i)
    BY <1>2, <2>1, <2>3, <2>4, <2>5 DEF d
  <2> QED
    BY <2>1, <2>6
<1> HIDE DEF part
<1>5. UNION {part(i) : i \in 1 .. n} = v
  BY <1>3, <1>4
<1> QED
  BY <1>5 DEF part, n

-----------------------------------------------------------------------------
\* The bytes that are marked as the last of a word.
Ends(b) == {i \in DOMAIN b : GroupBits \in b[i]}

\* The value of the first n bytes.
Bits(b, n) ==
    UNION {wrapping_shl(b[i] \ {GroupBits}, (i - 1) * GroupBits) : i \in 1 .. n}

\* Parse finds nothing without a last byte, and else goes up to the first one.
LEMMA Parses ==
    ASSUME NEW S, NEW b \in Seq(S)
    PROVE  /\ Ends(b) \subseteq 1 .. Len(b)
           /\ Ends(b) = {} => Parse(b) = <<>>
           /\ Ends(b) # {} => /\ Min(Ends(b)) \in Ends(b)
                              /\ \A i \in Ends(b) : Min(Ends(b)) <= i
                              /\ Parse(b) = <<[v |-> Bits(b, Min(Ends(b))), n |-> Min(Ends(b))]>>
<1>1. Ends(b) \subseteq 1 .. Len(b) /\ Ends(b) \subseteq Nat
  BY DEF Ends
<1>2. Ends(b) = {} => Parse(b) = <<>>
  BY DEF Parse, Ends
<1>3. ASSUME Ends(b) # {}
      PROVE  /\ Min(Ends(b)) \in Ends(b) /\ \A i \in Ends(b) : Min(Ends(b)) <= i
             /\ Parse(b) = <<[v |-> Bits(b, Min(Ends(b))), n |-> Min(Ends(b))]>>
  <2>1. Min(Ends(b)) \in Ends(b) /\ \A i \in Ends(b) : Min(Ends(b)) <= i
    BY <1>1, <1>3, First
  <2>2. Parse(b) = <<[v |-> Bits(b, Min(Ends(b))), n |-> Min(Ends(b))]>>
    BY <1>3 DEF Parse, Ends, Bits
  <2> QED
    BY <2>1, <2>2
<1> QED
  BY <1>1, <1>2, <1>3

\* Bytes that begin with the encoding of a word read as that word, whatever is
\* behind it; bytes that end inside the encoding read as nothing.
LEMMA ParsesWord ==
    ASSUME NEW v \in Words, NEW b \in Seq(Bytes),
           \A k \in 1 .. Len(b) : k <= Groups(v) => b[k] = encode(v)[k]
    PROVE  Parse(b) = IF Len(b) >= Groups(v) THEN <<[v |-> v, n |-> Groups(v)]>> ELSE <<>>
<1> DEFINE n == Groups(v)
           L == Len(b)
           E == Ends(b)
<1>1. n \in Nat \ {0} /\ L \in Nat
  BY GroupStarts
<1>2. \A i \in 1 .. n : GroupBits \in encode(v)[i] <=> i = n
  BY EncodeShape
<1>3. E = {i \in 1 .. L : GroupBits \in b[i]}
  BY DEF Ends
<1>4. \A k \in 1 .. L : k <= n => b[k] = encode(v)[k]
  OBVIOUS
<1> HIDE DEF n, L, E
<1>5. \A i \in E : i >= n /\ i \in Nat /\ n <= i
  <2> SUFFICES ASSUME NEW i \in E, ~(i >= n) PROVE FALSE
    BY <1>1, <1>3
  <2>1. i \in 1 .. L /\ i \in 1 .. n /\ i # n /\ i <= n
    BY <1>1, <1>3
  <2> QED
    BY <1>2, <1>3, <1>4, <2>1
<1>6. CASE L >= n
  <2>1. n \in 1 .. L /\ n \in 1 .. n /\ n <= n
    BY <1>1, <1>6
  <2>2. n \in E
    BY <1>2, <1>3, <1>4, <2>1
  <2>3. Min(E) = n
    <3>1. E \subseteq Nat
      BY <1>5
    <3> QED
      BY <1>5, <2>2, <3>1, FirstIs
  <2>4. Parse(b) = <<[v |-> Bits(b, n), n |-> n]>>
    BY <2>2, <2>3, Parses DEF E
  <2>5. Bits(b, n) = v
    <3>1. \A i \in 1 .. n : b[i] = encode(v)[i]
      <4>1. \A i \in 1 .. n : i \in 1 .. L /\ i <= n
        BY <1>1, <1>6
      <4> QED
        BY <1>4, <4>1
    <3>2. Bits(b, n) = UNION {wrapping_shl(encode(v)[i] \ {GroupBits}, (i - 1) * GroupBits) :
                                i \in 1 .. n}
      BY <3>1 DEF Bits
    <3> QED
      BY <3>2, EncodeValue DEF n
  <2> QED
    BY <1>6, <2>4, <2>5 DEF n, L
<1>7. CASE ~(L >= n)
  <2>1. E = {}
    <3>1. \A i \in E : i \in 1 .. L
      BY <1>3
    <3> QED
      BY <1>1, <1>5, <1>7, <3>1
  <2>2. Parse(b) = <<>>
    BY <2>1, Parses DEF E
  <2> QED
    BY <1>7, <2>2 DEF n, L
<1> QED
  BY <1>6, <1>7
\* The first m bytes have the last bytes of the whole that lie among them.
LEMMA PrefixEnds ==
    ASSUME NEW S, NEW b \in Seq(S), NEW m \in 0 .. Len(b)
    PROVE  /\ SubSeq(b, 1, m) \in Seq(S) /\ Len(SubSeq(b, 1, m)) = m
           /\ \A i \in 1 .. m : SubSeq(b, 1, m)[i] = b[i]
           /\ Ends(SubSeq(b, 1, m)) = {i \in Ends(b) : i <= m}
<1> DEFINE c == SubSeq(b, 1, m)
<1>1. c \in Seq(S) /\ Len(c) = m /\ \A i \in 1 .. m : c[i] = b[i]
  OBVIOUS
<1>2. DOMAIN b = 1 .. Len(b) /\ DOMAIN c = 1 .. m /\ Len(b) \in Nat
  BY <1>1
<1> HIDE DEF c
<1>3. \A i : i \in 1 .. m <=> i \in 1 .. Len(b) /\ i <= m
  BY <1>2
<1>4. Ends(c) = {i \in Ends(b) : i <= m}
  BY <1>1, <1>2, <1>3 DEF Ends
<1> QED
  BY <1>1, <1>4 DEF c

\* decode agrees with read on any bytes.
LEMMA DecodeAgrees ==
    ASSUME NEW S, NEW b \in Seq(S)
    PROVE  \/ decode(b) = read(b)
           \/ decode(b) = <<>> /\ read(b)[1].n > VARINT_MAX_SIZE_BYTES
<1> DEFINE M == VARINT_MAX_SIZE_BYTES
           L == Len(b)
           m == Min({L, M})
           c == SubSeq(b, 1, m)
           n == Min(Ends(b))
<1>1. M \in Nat /\ L \in Nat
  <2> DEFINE x == WordBits + GroupBits - 1
  <2>1. x \in Nat /\ GroupBits \in Nat \ {0}
    BY VarintAssumption
  <2> HIDE DEF x
  <2>2. x \div GroupBits \in Nat
    BY <2>1
  <2> QED
    BY <2>2 DEF VARINT_MAX_SIZE_BYTES, x
<1>2. decode(b) = Parse(c) /\ read(b) = Parse(b)
  BY DEF decode, read
<1> HIDE DEF M, L
<1>3. m \in {L, M} /\ m <= L /\ m <= M
  <2> DEFINE Q == {L, M}
  <2>1. Q \subseteq Nat /\ Q # {}
    BY <1>1
  <2> HIDE DEF Q
  <2>2. Min(Q) \in Q /\ \A y \in Q : Min(Q) <= y
    BY <2>1, First
  <2> QED
    BY <2>2 DEF Q
<1> HIDE DEF m
<1>4. m \in 0 .. L /\ m \in Nat
  BY <1>1, <1>3
<1>5. /\ c \in Seq(S) /\ Ends(c) = {i \in Ends(b) : i <= m} /\ \A i \in 1 .. m : c[i] = b[i]
  BY <1>4, PrefixEnds DEF L
<1> HIDE DEF c
<1>6. CASE Ends(b) = {}
  <2>1. Ends(c) = {}
    BY <1>5, <1>6
  <2> QED
    BY <1>2, <1>5, <1>6, <2>1, Parses
<1>7. CASE Ends(b) # {} /\ n <= m
  <2>1. n \in Ends(b) /\ (\A i \in Ends(b) : n <= i) /\ Ends(b) \subseteq 1 .. L
    BY <1>7, Parses DEF L
  <2>2. Parse(b) = <<[v |-> Bits(b, n), n |-> n]>>
    BY <1>7, Parses
  <2> HIDE DEF n
  <2>3. n \in Ends(c) /\ \A i \in Ends(c) : n <= i
    BY <1>5, <1>7, <2>1
  <2>4. Ends(c) \subseteq Nat /\ n \in Nat /\ n <= m
    BY <1>5, <1>7, <2>1
  <2>5. Min(Ends(c)) = n
    BY <2>3, <2>4, FirstIs
  <2>6. Parse(c) = <<[v |-> Bits(c, n), n |-> n]>>
    BY <1>5, <2>3, <2>5, Parses
  <2>7. Bits(c, n) = Bits(b, n)
    <3>1. \A i \in 1 .. n : c[i] = b[i]
      BY <1>4, <1>5, <2>4
    <3> QED
      BY <3>1 DEF Bits
  <2> QED
    BY <1>2, <2>2, <2>6, <2>7
<1>8. CASE Ends(b) # {} /\ ~(n <= m)
  <2>1. n \in Ends(b) /\ (\A i \in Ends(b) : n <= i) /\ Ends(b) \subseteq 1 .. L
    BY <1>8, Parses DEF L
  <2>2. read(b)[1].n = n
    BY <1>2, <1>8, Parses
  <2> HIDE DEF n
  <2>3. n \in 1 .. L
    BY <2>1
  <2>4. \A i \in Ends(b) : ~(i <= m)
    BY <1>4, <1>8, <2>1, <2>3
  <2>5. Ends(c) = {}
    BY <1>5, <2>4
  <2>6. decode(b) = <<>>
    BY <1>2, <1>5, <2>5, Parses
  <2>7. n > M
    BY <1>1, <1>3, <1>8, <2>3
  <2> QED
    BY <2>2, <2>6, <2>7 DEF M
<1> QED
  BY <1>6, <1>7, <1>8

-----------------------------------------------------------------------------
\* The i-th word of us ends at byte e[i] of all that was sent; the bytes w are a
\* beginning of that, and all of it unless they were cut.
LaidOut(e, us, w, short) ==
    LET n == Len(us)
    IN  /\ e \in [0 .. n -> Nat] /\ e[0] = 0
        /\ \A i, j \in 0 .. n : i <= j => e[i] <= e[j]
        /\ \A i \in 1 .. n :
             /\ e[i] = e[i - 1] + Groups(us[i])
             /\ \A k \in 1 .. Groups(us[i]) :
                  e[i - 1] + k <= Len(w) => w[e[i - 1] + k] = encode(us[i])[k]
        /\ Len(w) <= e[n]
        /\ ~short => Len(w) = e[n]

\* So lies what has been sent and not read.
Laid(e) == LaidOut(e, unread, stream, cut)

\* The inductive invariant: the stream holds the unread words one behind the
\* other, or comes from a foreign sender and gets no more.
StreamInv ==
    /\ stream \in Seq(Bytes) /\ unread \in Seq(Words) /\ cut \in BOOLEAN
    /\ (\E e : Laid(e)) \/ (cut /\ unread = <<>>)

\* What the invariant says of the next word.
LEMMA NextWord ==
    ASSUME StreamInv, unread # <<>>
    PROVE  /\ unread[1] \in Words /\ Groups(unread[1]) \in Nat \ {0}
           /\ Len(encode(unread[1])) = Groups(unread[1])
           /\ read(stream) = IF Len(stream) >= Groups(unread[1])
                             THEN <<[v |-> unread[1], n |-> Groups(unread[1])]>> ELSE <<>>
<1> DEFINE v == unread[1]
           n == Len(unread)
<1>1. n \in Nat /\ 1 \in 1 .. n /\ 0 \in 0 .. n /\ v \in Words
  <2>1. unread \in Seq(Words) /\ n \in Nat /\ n # 0
    BY EmptySeq DEF StreamInv
  <2> HIDE DEF n
  <2>2. 1 \in 1 .. n /\ 0 \in 0 .. n
    BY <2>1
  <2> QED
    BY <2>1, <2>2, ElementOfSeq DEF n
<1>2. PICK e : Laid(e)
  BY DEF StreamInv
<1>3. stream \in Seq(Bytes) /\ Len(stream) \in Nat
  BY DEF StreamInv
<1>4. \A k \in 1 .. Groups(v) : e[0] + k <= Len(stream) => stream[e[0] + k] = encode(v)[k]
  <2>1. 1 - 1 = 0
    OBVIOUS
  <2> QED
    BY <1>1, <1>2, <2>1 DEF Laid, LaidOut
<1>5. e[0] = 0
  BY <1>2 DEF Laid, LaidOut
<1>6. Groups(v) \in Nat \ {0} /\ Len(encode(v)) = Groups(v)
  BY <1>1, GroupStarts, EncodeShape
<1> HIDE DEF v
<1>7. \A k \in 1 .. Len(stream) : k <= Groups(v) => stream[k] = encode(v)[k]
  <2> SUFFICES ASSUME NEW k \in 1 .. Len(stream), k <= Groups(v) PROVE stream[k] = encode(v)[k]
    OBVIOUS
  <2>1. k \in 1 .. Groups(v) /\ 0 + k = k /\ k <= Len(stream)
    BY <1>3, <1>6
  <2> QED
    BY <1>4, <1>5, <2>1
<1>8. Parse(stream) = IF Len(stream) >= Groups(v) THEN <<[v |-> v, n |-> Groups(v)]>> ELSE <<>>
  BY <1>1, <1>3, <1>7, ParsesWord
<1> QED
  BY <1>1, <1>6, <1>8 DEF v, read

\* The invariant gives both properties.
LEMMA StreamReads == StreamInv => ReadsWhatWasWritten /\ DecodeAgreesWithRead
<1> SUFFICES ASSUME StreamInv PROVE ReadsWhatWasWritten /\ DecodeAgreesWithRead
  OBVIOUS
<1>1. ReadsWhatWasWritten
  BY NextWord DEF ReadsWhatWasWritten
<1>2. DecodeAgreesWithRead
  <2>1. stream \in Seq(Bytes)
    BY DEF StreamInv
  <2> QED
    BY <2>1, DecodeAgrees DEF DecodeAgreesWithRead
<1> QED
  BY <1>1, <1>2
-----------------------------------------------------------------------------
\* A word is written behind the others.
LEMMA WriteInv ==
    ASSUME StreamInv, NEW v \in Words, write(v)
    PROVE  StreamInv'
<1> DEFINE n == Len(unread)
           L == Len(stream)
           c == encode(v)
           g == Groups(v)
           u == Append(unread, v)
           w == stream \o c
<1>1. ~cut /\ stream' = w /\ unread' = u /\ cut' = cut
  BY DEF write
<1>2. stream \in Seq(Bytes) /\ unread \in Seq(Words) /\ cut \in BOOLEAN
  BY DEF StreamInv
<1>3. PICK e : Laid(e)
  BY <1>1 DEF StreamInv
<1>4. /\ n \in Nat /\ e \in [0 .. n -> Nat] /\ e[0] = 0 /\ L = e[n] /\ L \in Nat
      /\ \A i, j \in 0 .. n : i <= j => e[i] <= e[j]
  BY <1>1, <1>2, <1>3 DEF Laid, LaidOut
<1>5. ASSUME NEW i \in 1 .. n
      PROVE  /\ e[i] = e[i - 1] + Groups(unread[i])
             /\ \A k \in 1 .. Groups(unread[i]) :
                  e[i - 1] + k <= L => stream[e[i - 1] + k] = encode(unread[i])[k]
  BY <1>3 DEF Laid, LaidOut
<1>6. c \in Seq(Bytes) /\ Len(c) = g /\ g \in Nat \ {0}
  BY EncodeShape, GroupStarts
<1>7. /\ u \in Seq(Words) /\ Len(u) = n + 1 /\ u[n + 1] = v
      /\ \A i \in 1 .. n : u[i] = unread[i]
  BY <1>2, AppendProperties
<1> HIDE DEF c, g
<1>8. /\ w \in Seq(Bytes) /\ Len(w) = L + g
      /\ \A i \in 1 .. (L + g) : w[i] = IF i <= L THEN stream[i] ELSE c[i - L]
  BY <1>2, <1>6, ConcatProperties
<1> HIDE DEF n, L, u, w
<1> DEFINE f == [i \in 0 .. (n + 1) |-> IF i <= n THEN e[i] ELSE L + g]
<1>9. /\ f \in [0 .. (n + 1) -> Nat] /\ f[0] = 0 /\ f[n + 1] = L + g
      /\ \A i \in 0 .. n : f[i] = e[i]
  BY <1>4, <1>6
<1> HIDE DEF f
<1>10. \A i, j \in 0 .. (n + 1) : i <= j => f[i] <= f[j]
  <2> SUFFICES ASSUME NEW i \in 0 .. (n + 1), NEW j \in 0 .. (n + 1), i <= j
               PROVE  f[i] <= f[j]
    OBVIOUS
  <2>1. CASE j <= n
    <3>1. i \in 0 .. n /\ j \in 0 .. n
      BY <1>4, <2>1
    <3> QED
      BY <1>4, <1>9, <3>1
  <2>2. CASE ~(j <= n) /\ i <= n
    <3>1. j = n + 1 /\ i \in 0 .. n /\ n \in 0 .. n
      BY <1>4, <2>2
    <3>2. f[i] \in Nat /\ f[i] <= L
      BY <1>4, <1>9, <3>1
    <3> QED
      BY <1>4, <1>6, <1>9, <3>1, <3>2
  <2>3. CASE ~(i <= n)
    <3>1. i = n + 1 /\ j = n + 1
      BY <1>4, <2>3
    <3> QED
      BY <1>4, <1>6, <1>9, <3>1
  <2> QED
    BY <2>1, <2>2, <2>3
<1>11. ASSUME NEW i \in 1 .. (n + 1)
       PROVE  /\ f[i] = f[i - 1] + Groups(u[i])
              /\ \A k \in 1 .. Groups(u[i]) :
                   f[i - 1] + k <= Len(w) => w[f[i - 1] + k] = encode(u[i])[k]
  <2>1. CASE i <= n
    <3>1. i \in 1 .. n /\ i \in 0 .. n /\ i - 1 \in 0 .. n /\ n \in 0 .. n
      BY <1>4, <2>1
    <3>2. f[i] = e[i] /\ f[i - 1] = e[i - 1] /\ u[i] = unread[i] /\ e[i] <= L
      BY <1>4, <1>7, <1>9, <3>1
    <3>3. Groups(u[i]) \in Nat \ {0}
      <4>1. u[i] \in Words
        BY <1>2, <3>1, <3>2, ElementOfSeq DEF n
      <4> QED
        BY <4>1, GroupStarts
    <3>4. ASSUME NEW k \in 1 .. Groups(u[i]) PROVE w[f[i - 1] + k] = encode(u[i])[k]
      <4> DEFINE p == e[i - 1] + k
      <4>1. e[i - 1] \in Nat /\ e[i] = e[i - 1] + Groups(u[i])
        BY <1>4, <1>5, <3>1, <3>2
      <4>2. p \in 1 .. (L + g) /\ p <= L
        <5>1. L \in Nat /\ g \in Nat /\ e[i] <= L
          BY <1>4, <1>6, <3>2
        <5> QED
          BY <3>3, <4>1, <5>1
      <4>3. stream[p] = encode(u[i])[k]
        BY <1>5, <3>1, <3>2, <4>2
      <4> HIDE DEF p
      <4>4. w[p] = stream[p]
        BY <1>8, <4>2
      <4> QED
        BY <3>2, <4>3, <4>4 DEF p
    <3> QED
      BY <1>5, <3>1, <3>2, <3>4
  <2>2. CASE ~(i <= n)
    <3>1. i = n + 1 /\ i - 1 = n /\ n \in 0 .. n
      BY <1>4, <2>2
    <3>2. f[i] = L + g /\ f[i - 1] = L /\ u[i] = v
      BY <1>4, <1>7, <1>9, <3>1
    <3>3. ASSUME NEW k \in 1 .. g PROVE w[L + k] = c[k]
      <4> DEFINE p == L + k
      <4>1. p \in 1 .. (L + g) /\ ~(p <= L) /\ p - L = k
        BY <1>4, <1>6
      <4> HIDE DEF p
      <4>2. w[p] = c[k]
        BY <1>8, <4>1
      <4> QED
        BY <4>2 DEF p
    <3> QED
      BY <3>2, <3>3 DEF g, c
  <2> QED
    BY <2>1, <2>2
<1>12. PICK z : LaidOut(z, u, w, cut)
  <2>1. Len(w) <= f[n + 1] /\ Len(w) = f[n + 1]
    BY <1>4, <1>6, <1>8, <1>9
  <2>2. LaidOut(f, u, w, cut)
    BY <1>7, <1>9, <1>10, <1>11, <2>1 DEF LaidOut
  <2> QED
    BY <2>2
<1>13. Laid(z)'
  BY <1>1, <1>12 DEF Laid
<1> QED
  BY <1>1, <1>2, <1>7, <1>8, <1>13 DEF StreamInv

\* A stream that is cut is a beginning of what was sent.
LEMMA DisconnectInv ==
    ASSUME StreamInv, Disconnect
    PROVE  StreamInv'
<1>1. ~cut /\ cut' = TRUE /\ unread' = unread
  BY DEF Disconnect
<1>2. PICK m \in 0 .. Len(stream) : stream' = SubSeq(stream, 1, m)
  BY DEF Disconnect
<1>3. stream \in Seq(Bytes) /\ unread \in Seq(Words)
  BY DEF StreamInv
<1>4. PICK e : Laid(e)
  BY <1>1 DEF StreamInv
<1> DEFINE w == SubSeq(stream, 1, m)
           n == Len(unread)
<1>5. w \in Seq(Bytes) /\ Len(w) = m /\ \A i \in 1 .. m : w[i] = stream[i]
  BY <1>3, PrefixEnds
<1>6. Len(stream) \in Nat /\ n \in Nat
  BY <1>3
<1> HIDE DEF w, n
<1>7. e \in [0 .. n -> Nat] /\ Len(stream) <= e[n] /\ n \in 0 .. n
  BY <1>4, <1>6 DEF Laid, LaidOut, n
<1>8. Len(w) <= e[n]
  BY <1>5, <1>6, <1>7
<1>9. ASSUME NEW i \in 1 .. n, NEW k \in 1 .. Groups(unread[i]), e[i - 1] + k <= Len(w)
      PROVE  w[e[i - 1] + k] = encode(unread[i])[k]
  <2> DEFINE p == e[i - 1] + k
  <2>1. e[i - 1] \in Nat /\ Groups(unread[i]) \in Nat
    <3>1. i - 1 \in 0 .. n /\ unread[i] \in Words
      BY <1>3, <1>6, ElementOfSeq DEF n
    <3> QED
      BY <1>7, <3>1, GroupStarts
  <2>2. p \in 1 .. m /\ p <= Len(stream)
    BY <1>5, <1>6, <1>9, <2>1
  <2>3. stream[p] = encode(unread[i])[k]
    BY <1>4, <2>2 DEF Laid, LaidOut, n
  <2> HIDE DEF p
  <2>4. w[p] = stream[p]
    BY <1>5, <2>2
  <2> QED
    BY <2>3, <2>4 DEF p
<1>10. Laid(e)'
  <2>1. stream' = w
    BY <1>2 DEF w
  <2>2. LaidOut(e, unread, w, TRUE)
    BY <1>4, <1>8, <1>9 DEF Laid, LaidOut, n
  <2> QED
    BY <1>1, <2>1, <2>2 DEF Laid
<1> QED
  BY <1>1, <1>2, <1>3, <1>5, <1>10 DEF StreamInv, w
\* The first word is read and leaves with its bytes.
LEMMA ReadWordInv ==
    ASSUME StreamInv, unread # <<>>, Len(stream) >= Groups(unread[1]),
           stream' = SubSeq(stream, Groups(unread[1]) + 1, Len(stream)),
           unread' = Tail(unread), cut' = cut
    PROVE  StreamInv'
<1> DEFINE n == Len(unread)
           L == Len(stream)
           g == Groups(unread[1])
           u == Tail(unread)
           w == SubSeq(stream, g + 1, L)
<1>1. stream \in Seq(Bytes) /\ unread \in Seq(Words) /\ cut \in BOOLEAN
  BY DEF StreamInv
<1>2. PICK e : Laid(e)
  BY DEF StreamInv
<1>3. n \in Nat \ {0} /\ L \in Nat /\ g \in Nat \ {0} /\ L >= g
  BY <1>1, EmptySeq, NextWord
<1>4. /\ e \in [0 .. n -> Nat] /\ e[0] = 0 /\ L <= e[n] /\ (~cut => L = e[n])
      /\ \A i, j \in 0 .. n : i <= j => e[i] <= e[j]
  BY <1>2 DEF Laid, LaidOut
<1>5. ASSUME NEW i \in 1 .. n
      PROVE  /\ e[i] = e[i - 1] + Groups(unread[i])
             /\ \A k \in 1 .. Groups(unread[i]) :
                  e[i - 1] + k <= L => stream[e[i - 1] + k] = encode(unread[i])[k]
  BY <1>2 DEF Laid, LaidOut
<1>6. u \in Seq(Words) /\ Len(u) = n - 1 /\ \A i \in 1 .. (n - 1) : u[i] = unread[i + 1]
  BY <1>1, HeadTailProperties
<1>7. w \in Seq(Bytes) /\ Len(w) = L - g /\ \A i \in 1 .. (L - g) : w[i] = stream[i + g]
  <2> HIDE DEF g
  <2>1. g + 1 \in 1 .. (L + 1)
    BY <1>3
  <2>2. w \in Seq(Bytes)
    BY <1>1, <1>3, <2>1
  <2>3. Len(w) = L - g
    BY <1>1, <1>3, <2>1
  <2>4. \A i \in 1 .. (L - g) : w[i] = stream[i + g]
    BY <1>1, <1>3, <2>1
  <2> QED
    BY <2>2, <2>3, <2>4
<1>8. e[1] = g
  <2>1. 1 \in 1 .. n /\ 1 - 1 = 0
    BY <1>3
  <2> QED
    BY <1>3, <1>4, <1>5, <2>1
<1> HIDE DEF n, L, g, u, w
<1> DEFINE f == [i \in 0 .. (n - 1) |-> e[i + 1] - g]
<1>9. ASSUME NEW i \in 0 .. (n - 1)
      PROVE  f[i] = e[i + 1] - g /\ f[i] \in Nat /\ e[i + 1] \in Nat /\ i + 1 \in 1 .. n
  <2>1. i + 1 \in 0 .. n /\ 1 \in 0 .. n /\ 1 <= i + 1 /\ i + 1 \in 1 .. n
    BY <1>3
  <2>2. e[1] <= e[i + 1] /\ e[i + 1] \in Nat
    BY <1>4, <2>1
  <2> QED
    BY <1>3, <1>8, <2>1, <2>2
<1>10. f \in [0 .. (n - 1) -> Nat]
  BY <1>9
<1> HIDE DEF f
<1>11. f[0] = 0
  <2>1. 0 \in 0 .. (n - 1) /\ 0 + 1 = 1
    BY <1>3
  <2> QED
    BY <1>3, <1>8, <1>9, <2>1
<1>12. \A i, j \in 0 .. (n - 1) : i <= j => f[i] <= f[j]
  <2> SUFFICES ASSUME NEW i \in 0 .. (n - 1), NEW j \in 0 .. (n - 1), i <= j PROVE f[i] <= f[j]
    OBVIOUS
  <2>1. i + 1 \in 0 .. n /\ j + 1 \in 0 .. n /\ i + 1 <= j + 1
    BY <1>3
  <2>2. e[i + 1] <= e[j + 1]
    BY <1>4, <2>1
  <2>3. /\ f[i] = e[i + 1] - g /\ e[i + 1] \in Nat
        /\ f[j] = e[j + 1] - g /\ e[j + 1] \in Nat
    BY <1>9
  <2> DEFINE x == e[i + 1]
             y == e[j + 1]
  <2>4. x <= y /\ x \in Nat /\ y \in Nat /\ f[i] = x - g /\ f[j] = y - g
    BY <2>2, <2>3
  <2> HIDE DEF x, y
  <2> QED
    BY <1>3, <2>4
<1>13. ASSUME NEW i \in 1 .. (n - 1)
       PROVE  /\ f[i] = f[i - 1] + Groups(u[i])
              /\ \A k \in 1 .. Groups(u[i]) :
                   f[i - 1] + k <= Len(w) => w[f[i - 1] + k] = encode(u[i])[k]
  <2> DEFINE h == i + 1
  <2>1. /\ h \in 1 .. n /\ h - 1 = i /\ i \in 0 .. (n - 1) /\ i - 1 \in 0 .. (n - 1)
        /\ (i - 1) + 1 = i
    BY <1>3
  <2>2. u[i] = unread[h] /\ f[i] = e[h] - g /\ f[i - 1] = e[i] - g /\ e[i] \in Nat /\ e[h] \in Nat
    BY <1>6, <1>9, <2>1
  <2>3. Groups(u[i]) \in Nat
    <3>1. unread[h] \in Words
      BY <1>1, <2>1, ElementOfSeq DEF n
    <3> QED
      BY <2>2, <3>1, GroupStarts
  <2> HIDE DEF h
  <2>4. e[h] = e[i] + Groups(u[i])
    BY <1>5, <2>1, <2>2
  <2>5. f[i] = f[i - 1] + Groups(u[i])
    <3> DEFINE x == e[i]  y == e[h]  z == Groups(u[i])
    <3>1. f[i] = y - g /\ f[i - 1] = x - g /\ x \in Nat /\ y \in Nat /\ z \in Nat /\ y = x + z
      BY <2>2, <2>3, <2>4, Zenon
    <3> HIDE DEF x, y, z
    <3>2. f[i] = f[i - 1] + z
      BY <1>3, <3>1
    <3> QED
      BY <3>2, Zenon DEF z
  <2>6. ASSUME NEW k \in 1 .. Groups(u[i]), f[i - 1] + k <= Len(w)
        PROVE  w[f[i - 1] + k] = encode(u[i])[k]
    <3> DEFINE p == f[i - 1] + k
    <3>1. f[i - 1] \in Nat
      BY <1>9, <2>1
    <3>2. p \in 1 .. (L - g) /\ p + g = e[i] + k /\ e[i] + k <= L
      <4> DEFINE x == f[i - 1]
                 y == e[i]
      <4>1. x \in Nat /\ y \in Nat /\ x = y - g /\ x + k <= L - g
        BY <1>7, <2>2, <2>6, <3>1
      <4>2. k \in Nat /\ k >= 1
        BY <2>3
      <4> HIDE DEF x, y
      <4>3. x + k \in 1 .. (L - g) /\ x + k + g = y + k /\ y + k <= L
        BY <1>3, <4>1, <4>2
      <4> QED
        BY <4>3 DEF x, y
    <3>3. stream[e[i] + k] = encode(u[i])[k]
      BY <1>5, <2>1, <2>2, <3>2
    <3> HIDE DEF p
    <3>4. w[p] = stream[e[i] + k]
      BY <1>7, <3>2
    <3> QED
      BY <3>3, <3>4 DEF p
  <2> QED
    BY <2>5, <2>6
<1>14. Len(w) <= f[n - 1] /\ (~cut => Len(w) = f[n - 1])
  <2>1. n - 1 \in 0 .. (n - 1) /\ (n - 1) + 1 = n
    BY <1>3
  <2>2. f[n - 1] = e[n] - g /\ e[n] \in Nat
    BY <1>9, <2>1
  <2> QED
    BY <1>3, <1>4, <1>7, <2>2
<1>15. PICK z : LaidOut(z, u, w, cut)
  <2>1. LaidOut(f, u, w, cut)
    BY <1>6, <1>10, <1>11, <1>12, <1>13, <1>14 DEF LaidOut
  <2> QED
    BY <2>1
<1>16. unread' = u /\ stream' = w
  BY DEF u, w, g, L
<1>17. Laid(z)'
  BY <1>15, <1>16 DEF Laid
<1> QED
  BY <1>1, <1>6, <1>7, <1>16, <1>17 DEF StreamInv

\* A read takes a word, or all that is left of a stream that was cut.
LEMMA ReadInv ==
    ASSUME StreamInv, Read
    PROVE  StreamInv'
<1> DEFINE r == read(stream)
<1>1. stream # <<>> /\ cut' = cut
  BY DEF Read
<1>2. r = <<>> => stream' = <<>> /\ unread' = unread
  BY DEF Read
<1>3. r # <<>> => /\ stream' = SubSeq(stream, r[1].n + 1, Len(stream))
                  /\ unread' = IF unread = <<>> THEN <<>> ELSE Tail(unread)
  BY DEF Read
<1>4. stream \in Seq(Bytes) /\ unread \in Seq(Words) /\ cut \in BOOLEAN /\ Len(stream) \in Nat \ {0}
  BY <1>1, EmptySeq DEF StreamInv
<1>5. CASE unread # <<>>
  <2> DEFINE g == Groups(unread[1])
  <2>1. /\ g \in Nat \ {0}
        /\ r = IF Len(stream) >= g THEN <<[v |-> unread[1], n |-> g]>> ELSE <<>>
    BY <1>5, NextWord
  <2> HIDE DEF g, r
  <2>2. CASE Len(stream) >= g
    <3>1. r # <<>> /\ r[1].n = g
      BY <2>1, <2>2
    <3>2. stream' = SubSeq(stream, g + 1, Len(stream)) /\ unread' = Tail(unread)
      BY <1>3, <1>5, <3>1
    <3> QED
      BY <1>1, <1>5, <2>2, <3>2, ReadWordInv DEF g
  <2>3. CASE ~(Len(stream) >= g)
    <3>1. stream' = <<>> /\ unread' = unread
      BY <1>2, <2>1, <2>3
    <3>2. PICK e : Laid(e)
      BY <1>5 DEF StreamInv
    <3> DEFINE n == Len(unread)
    <3>3. n \in Nat \ {0}
      BY <1>4, <1>5, EmptySeq
    <3>4. /\ e \in [0 .. n -> Nat] /\ e[0] = 0 /\ (~cut => Len(stream) = e[n])
          /\ \A i, j \in 0 .. n : i <= j => e[i] <= e[j]
      BY <3>2 DEF Laid, LaidOut
    <3>5. \A i \in 1 .. n : e[i] = e[i - 1] + Groups(unread[i])
      BY <3>2 DEF Laid, LaidOut
    <3>6. cut
      <4>1. 1 \in 1 .. n /\ 1 - 1 = 0 /\ 1 \in 0 .. n /\ n \in 0 .. n /\ 1 <= n
        BY <3>3
      <4>2. e[1] = g /\ e[1] <= e[n] /\ e[n] \in Nat
        BY <2>1, <3>4, <3>5, <4>1 DEF g
      <4> QED
        BY <1>4, <2>1, <2>3, <3>4, <4>2
    <3> DEFINE w == <<>>
    <3>7. w \in Seq(Bytes) /\ Len(w) = 0
      BY EmptySeq
    <3> HIDE DEF w
    <3>8. ASSUME NEW i \in 1 .. n, NEW k \in 1 .. Groups(unread[i])
          PROVE  ~(e[i - 1] + k <= Len(w))
      <4>1. i - 1 \in 0 .. n /\ unread[i] \in Words
        BY <1>4, <3>3, ElementOfSeq
      <4>2. e[i - 1] \in Nat /\ Groups(unread[i]) \in Nat
        BY <3>4, <4>1, GroupStarts
      <4> QED
        BY <3>7, <4>2
    <3>9. Len(w) <= e[n]
      <4>1. n \in 0 .. n
        BY <3>3
      <4> QED
        BY <3>4, <3>7, <4>1
    <3>10. LaidOut(e, unread, w, cut)
      BY <3>4, <3>5, <3>6, <3>8, <3>9 DEF LaidOut
    <3>11. stream' = w
      BY <3>1 DEF w
    <3>12. Laid(e)'
      BY <1>1, <3>1, <3>10, <3>11 DEF Laid
    <3> QED
      BY <1>1, <1>4, <3>1, <3>7, <3>11, <3>12 DEF StreamInv
  <2> QED
    BY <2>2, <2>3
<1>6. CASE unread = <<>>
  <2>1. cut
    <3> SUFFICES ASSUME NEW e, Laid(e) PROVE FALSE
      BY DEF StreamInv
    <3>1. Len(unread) = 0
      BY <1>6
    <3>2. e[0] = 0 /\ Len(stream) <= e[0]
      BY <3>1 DEF Laid, LaidOut
    <3> QED
      BY <1>4, <3>2
  <2>2. unread' = <<>>
    BY <1>2, <1>3, <1>6
  <2>3. stream' \in Seq(Bytes)
    <3>1. CASE r = <<>>
      BY <1>2, <3>1, EmptySeq
    <3>2. CASE r # <<>>
      <4> DEFINE m == Min(Ends(stream))
      <4>1. m \in 1 .. Len(stream) /\ r[1].n = m
        <5>1. r = Parse(stream)
          BY DEF read
        <5>2. Ends(stream) # {}
          BY <1>4, <3>2, <5>1, Parses
        <5>3. m \in Ends(stream) /\ Ends(stream) \subseteq 1 .. Len(stream)
          BY <1>4, <5>2, Parses
        <5>4. r = <<[v |-> Bits(stream, m), n |-> m]>>
          BY <1>4, <5>1, <5>2, Parses
        <5> HIDE DEF r, m
        <5> QED
          BY <5>3, <5>4
      <4> HIDE DEF m, r
      <4>2. stream' = SubSeq(stream, m + 1, Len(stream))
        BY <1>3, <3>2, <4>1
      <4> QED
        BY <1>4, <4>1, <4>2
    <3> QED
      BY <3>1, <3>2
  <2> QED
    BY <1>1, <1>4, <2>1, <2>2, <2>3 DEF StreamInv
<1> QED
  BY <1>5, <1>6

\* The stream is empty at first, or foreign.
LEMMA InitStream == Init => StreamInv
<1> SUFFICES ASSUME Init PROVE StreamInv
  OBVIOUS
<1>1. stream \in {<<>>} \cup Foreign /\ unread = <<>> /\ cut = (stream # <<>>)
  BY DEF Init
<1>2. stream \in Seq(Bytes) /\ unread \in Seq(Words) /\ cut \in BOOLEAN
  BY <1>1, CodecsAssumption, EmptySeq
<1>3. CASE stream = <<>>
  <2> DEFINE e == [i \in 0 .. 0 |-> 0]
  <2>1. e \in [0 .. 0 -> Nat] /\ e[0] = 0 /\ \A i, j \in 0 .. 0 : i <= j => e[i] <= e[j]
    OBVIOUS
  <2>2. Len(stream) = 0 /\ Len(unread) = 0
    BY <1>1, <1>3
  <2>3. \A i \in 1 .. 0 : FALSE
    OBVIOUS
  <2> HIDE DEF e
  <2>4. LaidOut(e, unread, stream, cut)
    BY <2>1, <2>2, <2>3 DEF LaidOut
  <2> QED
    BY <1>2, <2>4 DEF StreamInv, Laid
<1>4. CASE stream # <<>>
  BY <1>1, <1>2, <1>4 DEF StreamInv
<1> QED
  BY <1>3, <1>4

\* Every step keeps the invariant; those of the dictionary leave the stream
\* alone.
LEMMA NextStream == StreamInv /\ [Next]_vars => StreamInv'
<1> SUFFICES ASSUME StreamInv, [Next]_vars PROVE StreamInv'
  OBVIOUS
<1>1. ASSUME stream' = stream, unread' = unread, cut' = cut PROVE StreamInv'
  BY <1>1 DEF StreamInv, Laid
<1>2. CASE Disconnect \/ Read
  BY <1>2, DisconnectInv, ReadInv
<1>3. CASE \E v \in SentWords : write(v)
  <2>1. PICK v \in SentWords : write(v)
    BY <1>3
  <2>2. v \in Words
    BY CodecsAssumption
  <2> QED
    BY <2>1, <2>2, WriteInv
<1>4. CASE UNCHANGED streamVars
  BY <1>1, <1>4 DEF streamVars
<1>5. CASE UNCHANGED vars
  BY <1>1, <1>5 DEF vars, streamVars
<1> QED
  BY <1>2, <1>3, <1>4, <1>5 DEF Next, Closed

\* The bytes on the stream are those of the words written and not read yet, one
\* behind the other, or a beginning of them once the stream has been cut.
THEOREM StreamInvariance == Spec => []StreamInv
BY InitStream, NextStream, PTL DEF Spec

\* varint::read gives the word that varint::write wrote, with its own bytes and
\* none of those behind it, and fails on a stream that ends inside it: for
\* words and groups of any width, those of 64 and 7 bits in the code included.
THEOREM VarintsReadBack == Spec => []ReadsWhatWasWritten
BY StreamReads, StreamInvariance, PTL

\* varint::decode gives what varint::read gives for any bytes, and differs only
\* where a word does not end within VARINT_MAX_SIZE_BYTES.
THEOREM VarintDecodersAgree == Spec => []DecodeAgreesWithRead
BY StreamReads, StreamInvariance, PTL

-----------------------------------------------------------------------------
\* Induction over numbers and sequences, and folds.

\* Induction up to a bound: what a set contains zero of and each successor of.
LEMMA Upwards ==
    ASSUME NEW m \in Nat, NEW S, 0 \in S, \A n \in 0 .. (m - 1) : n \in S => n + 1 \in S
    PROVE  \A n \in 0 .. m : n \in S
<1> SUFFICES ASSUME NEW k \in 0 .. m, k \notin S PROVE FALSE
  OBVIOUS
<1> DEFINE T == {n \in 0 .. m : n \notin S}
<1>1. T \subseteq Nat /\ T # {}
  OBVIOUS
<1>2. PICK x \in T : \A y \in T : x <= y
  <2> HIDE DEF T
  <2> QED
    BY <1>1, LeastElement
<1>3. x # 0 /\ x \in 0 .. m /\ x \notin S
  BY <1>2
<1>4. x - 1 \in 0 .. (m - 1) /\ (x - 1) + 1 = x /\ ~(x <= x - 1) /\ x - 1 \in 0 .. m
  BY <1>3
<1>5. x - 1 \in S
  BY <1>2, <1>4
<1> QED
  BY <1>3, <1>4, <1>5

\* Induction over a sequence from its end.
LEMMA SeqInduct ==
    ASSUME NEW D, NEW S, <<>> \in S,
           \A s \in Seq(D), c \in D : s \in S => Append(s, c) \in S
    PROVE  \A s \in Seq(D) : s \in S
<1> TAKE s \in Seq(D)
<1> DEFINE T == {n \in 0 .. Len(s) : SubSeq(s, 1, n) \in S}
<1>0. Len(s) \in Nat
  OBVIOUS
<1>1. 0 \in T
  <2>1. SubSeq(s, 1, 0) = <<>>
    BY SubSeqEmpty
  <2>2. 0 \in 0 .. Len(s)
    BY <1>0
  <2> QED
    BY <2>1, <2>2, Zenon
<1>2. ASSUME NEW n \in 0 .. (Len(s) - 1), n \in T PROVE n + 1 \in T
  <2>1. SubSeq(s, 1, n) \in Seq(D) /\ s[n + 1] \in D /\ SubSeq(s, 1, n) \in S
    BY <1>2
  <2>2. SubSeq(s, 1, n + 1) = Append(SubSeq(s, 1, n), s[n + 1])
    OBVIOUS
  <2>3. SubSeq(s, 1, n + 1) \in S
    BY <2>1, <2>2
  <2> QED
    BY <2>3, <1>0
<1>3. \A n \in 0 .. Len(s) : n \in T
  <2> HIDE DEF T
  <2> QED
    BY <1>0, <1>1, <1>2, Upwards
<1>4. SubSeq(s, 1, Len(s)) = s
  BY SubSeqFull
<1>5. Len(s) \in 0 .. Len(s)
  BY <1>0
<1> QED
  BY <1>3, <1>4, <1>5, Zenon

\* A fold from the left with a function for its step.
Trace(step, p, s) == CHOOSE r : r = [i \in 0 .. Len(s) |-> IF i = 0 THEN p ELSE step[s[i]][r[i - 1]]]
After(step, p, s) == Trace(step, p, s)[Len(s)]

\* A step for each element, and a run of steps.
IsStep(step, P, D) == step \in [D -> [P -> P]]
IsTrace(r, P, step, p, s) ==
    /\ r \in [0 .. Len(s) -> P] /\ r[0] = p
    /\ \A i \in 1 .. Len(s) : r[i] = step[s[i]][r[i - 1]]

\* Every sequence has a run of the steps.
LEMMA TraceExists ==
    ASSUME NEW P, NEW D, NEW step, IsStep(step, P, D), NEW p \in P
    PROVE  \A s \in Seq(D) : \E r : IsTrace(r, P, step, p, s)
<1> DEFINE S == {s \in Seq(D) : \E r : IsTrace(r, P, step, p, s)}
<1>1. <<>> \in S
  <2> DEFINE r == [i \in 0 .. 0 |-> p]
  <2>1. r \in [0 .. 0 -> P] /\ r[0] = p
    OBVIOUS
  <2>2. Len(<<>>) = 0 /\ 1 .. 0 = {} /\ <<>> \in Seq(D)
    OBVIOUS
  <2> HIDE DEF r
  <2>3. IsTrace(r, P, step, p, <<>>)
    BY <2>1, <2>2 DEF IsTrace
  <2> QED
    BY <2>2, <2>3
<1>2. ASSUME NEW s \in Seq(D), NEW c \in D, s \in S PROVE Append(s, c) \in S
  <2>1. PICK r : IsTrace(r, P, step, p, s)
    BY <1>2
  <2>a. r \in [0 .. Len(s) -> P] /\ r[0] = p
    BY <2>1 DEF IsTrace
  <2>b. \A i \in 1 .. Len(s) : r[i] = step[s[i]][r[i - 1]]
    BY <2>1 DEF IsTrace
  <2> DEFINE t == Append(s, c)
  <2> DEFINE q == [i \in 0 .. (Len(s) + 1) |-> IF i <= Len(s) THEN r[i] ELSE step[c][r[Len(s)]]]
  <2>2. Len(s) \in Nat /\ t \in Seq(D) /\ Len(t) = Len(s) + 1 /\ t[Len(s) + 1] = c
        /\ \A i \in 1 .. Len(s) : t[i] = s[i]
    OBVIOUS
  <2> HIDE DEF t
  <2>3. q \in [0 .. Len(t) -> P]
    <3>0. Len(s) \in 0 .. Len(s)
      BY <2>2
    <3>1. r[Len(s)] \in P
      BY <2>a, <3>0, Zenon
    <3>2. step[c][r[Len(s)]] \in P
      BY <3>1 DEF IsStep
    <3> QED
      BY <2>a, <2>2, <3>2
  <2>4. q[0] = p
    BY <2>a, <2>2
  <2>5. ASSUME NEW i \in 1 .. Len(t) PROVE q[i] = step[t[i]][q[i - 1]]
    <3>1. CASE i <= Len(s)
      <4>1. i \in 1 .. Len(s) /\ i - 1 \in 0 .. (Len(s) + 1) /\ i - 1 <= Len(s) /\ i \in 0 .. (Len(s) + 1)
        BY <3>1, <2>2
      <4>2. q[i] = r[i] /\ q[i - 1] = r[i - 1] /\ t[i] = s[i]
        BY <4>1, <3>1, <2>2
      <4> QED
        BY <4>1, <4>2, <2>b
    <3>2. CASE ~(i <= Len(s))
      <4>1. i = Len(s) + 1 /\ Len(s) \in 0 .. (Len(s) + 1) /\ i - 1 = Len(s) /\ i \in 0 .. (Len(s) + 1)
        BY <3>2, <2>2
      <4>2. q[i] = step[c][r[Len(s)]] /\ q[i - 1] = r[Len(s)] /\ t[i] = c
        BY <4>1, <3>2, <2>2
      <4> QED
        BY <4>2
    <3> QED
      BY <3>1, <3>2
  <2> HIDE DEF q
  <2>6. IsTrace(q, P, step, p, t)
    BY <2>3, <2>4, <2>5 DEF IsTrace
  <2> QED
    BY <2>2, <2>6 DEF t
<1>3. \A s \in Seq(D) : s \in S
  <2> HIDE DEF S
  <2> QED
    BY <1>1, <1>2, SeqInduct
<1> QED
  BY <1>3

\* What satisfies the fold's equations ends in its result.
LEMMA AfterIs ==
    ASSUME NEW P, NEW D, NEW step, NEW p, NEW s \in Seq(D), NEW r, IsTrace(r, P, step, p, s)
    PROVE  After(step, p, s) = r[Len(s)]
<1> DEFINE h == CHOOSE q : q = [i \in 0 .. Len(s) |-> IF i = 0 THEN p ELSE step[s[i]][q[i - 1]]]
<1>0. Len(s) \in Nat
  OBVIOUS
<1>a. r \in [0 .. Len(s) -> P] /\ r[0] = p /\ \A i \in 1 .. Len(s) : r[i] = step[s[i]][r[i - 1]]
  BY DEF IsTrace
<1>1. r = [i \in 0 .. Len(s) |-> IF i = 0 THEN p ELSE step[s[i]][r[i - 1]]]
  <2>1. \A i \in 0 .. Len(s) : r[i] = IF i = 0 THEN p ELSE step[s[i]][r[i - 1]]
    BY <1>0, <1>a
  <2> QED
    BY <2>1, <1>a
<1>2. h = [i \in 0 .. Len(s) |-> IF i = 0 THEN p ELSE step[s[i]][h[i - 1]]]
  BY <1>1, Zenon
<1>3. After(step, p, s) = h[Len(s)]
  BY Zenon DEF After, Trace
<1> HIDE DEF h
<1>4. h[0] = p /\ \A i \in 1 .. Len(s) : h[i] = step[s[i]][h[i - 1]]
  <2>1. \A i \in 0 .. Len(s) : h[i] = IF i = 0 THEN p ELSE step[s[i]][h[i - 1]]
    BY <1>2, Zenon
  <2> QED
    BY <2>1, <1>0
<1> DEFINE T == {n \in 0 .. Len(s) : h[n] = r[n]}
<1>5. 0 \in T
  BY <1>4, <1>0, <1>a
<1>6. ASSUME NEW n \in 0 .. (Len(s) - 1), n \in T PROVE n + 1 \in T
  <2>1. n + 1 \in 1 .. Len(s) /\ (n + 1) - 1 = n /\ n + 1 \in 0 .. Len(s)
    BY <1>0
  <2>2. h[n + 1] = step[s[n + 1]][h[n]] /\ r[n + 1] = step[s[n + 1]][r[n]]
    BY <2>1, <1>4, <1>a
  <2>3. h[n] = r[n]
    BY <1>6
  <2> QED
    BY <2>1, <2>2, <2>3
<1>7. \A n \in 0 .. Len(s) : n \in T
  <2> HIDE DEF T
  <2> QED
    BY <1>0, <1>5, <1>6, Upwards
<1>8. h[Len(s)] = r[Len(s)]
  BY <1>0, <1>7
<1> QED
  BY <1>3, <1>8

\* The fold of the empty sequence is the state it starts in.
LEMMA AfterEmpty ==
    ASSUME NEW P, NEW D, NEW step, IsStep(step, P, D), NEW p \in P
    PROVE  After(step, p, <<>>) = p
<1> DEFINE e == <<>>
<1>0. e \in Seq(D)
  OBVIOUS
<1>1. Len(e) = 0
  OBVIOUS
<1> HIDE DEF e
<1>2. PICK r : IsTrace(r, P, step, p, e)
  BY <1>0, TraceExists, Zenon
<1>3. After(step, p, e) = r[Len(e)]
  BY <1>0, <1>2, AfterIs, SMT
<1>4. r[0] = p
  BY <1>2, Zenon DEF IsTrace
<1> QED
  BY <1>1, <1>3, <1>4 DEF e

\* The fold ends in a state.
LEMMA AfterType ==
    ASSUME NEW P, NEW D, NEW step, IsStep(step, P, D), NEW p \in P, NEW s \in Seq(D)
    PROVE  After(step, p, s) \in P
<1>1. PICK r : IsTrace(r, P, step, p, s)
  BY TraceExists, Zenon
<1>2. After(step, p, s) = r[Len(s)]
  BY <1>1, AfterIs, SMT
<1>3. r \in [0 .. Len(s) -> P]
  BY <1>1, Zenon DEF IsTrace
<1>4. Len(s) \in 0 .. Len(s)
  OBVIOUS
<1> QED
  BY <1>2, <1>3, <1>4, Zenon

\* One element more is one step more.
LEMMA AfterAppend ==
    ASSUME NEW P, NEW D, NEW step, IsStep(step, P, D), NEW p \in P, NEW s \in Seq(D), NEW c \in D
    PROVE  After(step, p, Append(s, c)) = step[c][After(step, p, s)]
<1> DEFINE t == Append(s, c)
<1>1. Len(s) \in Nat /\ t \in Seq(D) /\ Len(t) = Len(s) + 1 /\ t[Len(s) + 1] = c
      /\ \A i \in 1 .. Len(s) : t[i] = s[i]
  OBVIOUS
<1> HIDE DEF t
<1>2. PICK r : IsTrace(r, P, step, p, t)
  BY <1>1, TraceExists, Zenon
<1>3. After(step, p, t) = r[Len(t)]
  BY <1>1, <1>2, AfterIs, SMT
<1>a. r \in [0 .. Len(t) -> P] /\ r[0] = p /\ \A i \in 1 .. Len(t) : r[i] = step[t[i]][r[i - 1]]
  BY <1>2 DEF IsTrace
<1> DEFINE q == [i \in 0 .. Len(s) |-> r[i]]
<1>4. q \in [0 .. Len(s) -> P] /\ q[0] = p /\ q[Len(s)] = r[Len(s)]
  BY <1>1, <1>a
<1>5. ASSUME NEW i \in 1 .. Len(s) PROVE q[i] = step[s[i]][q[i - 1]]
  <2>1. i \in 1 .. Len(t) /\ i - 1 \in 0 .. Len(s) /\ i \in 0 .. Len(s) /\ t[i] = s[i]
    BY <1>1
  <2>2. q[i] = r[i] /\ q[i - 1] = r[i - 1]
    BY <2>1
  <2> QED
    BY <2>1, <2>2, <1>a
<1> HIDE DEF q
<1>b. IsTrace(q, P, step, p, s)
  BY <1>4, <1>5 DEF IsTrace
<1>6. After(step, p, s) = q[Len(s)]
  BY <1>b, AfterIs, SMT
<1>7. r[Len(t)] = step[c][r[Len(s)]]
  <2>1. Len(t) \in 1 .. Len(t) /\ Len(t) - 1 = Len(s) /\ t[Len(t)] = c /\ Len(s) \in 0 .. Len(t)
    BY <1>1
  <2> QED
    BY <2>1, <1>a
<1> QED
  BY <1>3, <1>4, <1>6, <1>7 DEF t

\* A sequence behind another goes on where that one ended.
LEMMA AfterConcat ==
    ASSUME NEW P, NEW D, NEW step, IsStep(step, P, D), NEW p \in P, NEW s \in Seq(D)
    PROVE  \A t \in Seq(D) : After(step, p, s \o t) = After(step, After(step, p, s), t)
<1> DEFINE S == {t \in Seq(D) : After(step, p, s \o t) = After(step, After(step, p, s), t)}
<1>0. After(step, p, s) \in P
  BY AfterType, Zenon
<1>1. <<>> \in S
  <2>1. s \o <<>> = s /\ <<>> \in Seq(D)
    OBVIOUS
  <2>2. After(step, After(step, p, s), <<>>) = After(step, p, s)
    BY <1>0, AfterEmpty, Zenon
  <2> QED
    BY <2>1, <2>2
<1>2. ASSUME NEW t \in Seq(D), NEW c \in D, t \in S PROVE Append(t, c) \in S
  <2>1. s \o Append(t, c) = Append(s \o t, c) /\ s \o t \in Seq(D) /\ Append(t, c) \in Seq(D)
    OBVIOUS
  <2>2. After(step, p, Append(s \o t, c)) = step[c][After(step, p, s \o t)]
    <3> DEFINE u == s \o t
    <3>1. u \in Seq(D)
      BY <2>1
    <3> HIDE DEF u
    <3>2. After(step, p, Append(u, c)) = step[c][After(step, p, u)]
      BY <3>1, AfterAppend, SMT
    <3> QED
      BY <3>2 DEF u
  <2>3. After(step, After(step, p, s), Append(t, c)) = step[c][After(step, After(step, p, s), t)]
    BY <1>0, AfterAppend, SMT
  <2>4. After(step, p, s \o t) = After(step, After(step, p, s), t)
    BY <1>2
  <2>5. After(step, p, s \o Append(t, c)) = After(step, After(step, p, s), Append(t, c))
    BY <2>1, <2>2, <2>3, <2>4, Zenon
  <2> QED
    BY <2>1, <2>5
<1>3. \A t \in Seq(D) : t \in S
  <2> HIDE DEF S
  <2> QED
    BY <1>1, <1>2, SeqInduct
<1> QED
  BY <1>3

\* A part of the states that the steps on some elements do not leave.
LEMMA AfterStays ==
    ASSUME NEW P, NEW D, NEW step, IsStep(step, P, D), NEW Q, Q \subseteq P, NEW E, E \subseteq D,
           NEW p \in Q, \A q \in Q, c \in E : step[c][q] \in Q
    PROVE  \A s \in Seq(E) : After(step, p, s) \in Q
<1> DEFINE S == {s \in Seq(E) : After(step, p, s) \in Q}
<1>0. p \in P
  OBVIOUS
<1>1. <<>> \in S
  <2>1. After(step, p, <<>>) = p
    BY <1>0, AfterEmpty, Zenon
  <2> QED
    BY <2>1
<1>2. ASSUME NEW s \in Seq(E), NEW c \in E, s \in S PROVE Append(s, c) \in S
  <2>1. s \in Seq(D) /\ c \in D /\ Append(s, c) \in Seq(E)
    BY SeqMonotonic
  <2>2. After(step, p, Append(s, c)) = step[c][After(step, p, s)]
    BY <1>0, <2>1, AfterAppend, SMT
  <2>3. After(step, p, s) \in Q
    BY <1>2
  <2>4. step[c][After(step, p, s)] \in Q
    BY <2>3
  <2> QED
    BY <2>1, <2>2, <2>4
<1>3. \A s \in Seq(E) : s \in S
  <2> HIDE DEF S
  <2> QED
    BY <1>1, <1>2, SeqInduct
<1> QED
  BY <1>3

\* Concatenation, as a step.
CatStep(X) == [t \in Seq(X) |-> [p \in Seq(X) |-> p \o t]]

\* Concatenation is a step on sequences.
LEMMA CatIsStep ==
    ASSUME NEW X
    PROVE  IsStep(CatStep(X), Seq(X), Seq(X))
BY DEF CatStep, IsStep

\* FlattenSeq is a fold.
LEMMA FlattenIs ==
    ASSUME NEW X, NEW ss \in Seq(Seq(X)), ss # <<>>
    PROVE  FlattenSeq(ss) = After(CatStep(X), <<>>, ss)
<1> DEFINE e == <<>>
<1> DEFINE h == CHOOSE f : f = [i \in 1 .. Len(ss) |-> IF i = 1 THEN ss[i] ELSE f[i - 1] \o ss[i]]
<1>0. Len(ss) \in Nat /\ Len(ss) # 0 /\ \A i \in 1 .. Len(ss) : ss[i] \in Seq(X)
  OBVIOUS
<1>1. e \in Seq(X) /\ \A t \in Seq(X) : e \o t = t
  OBVIOUS
<1> HIDE DEF e
<1>2. PICK r : IsTrace(r, Seq(X), CatStep(X), e, ss)
  BY <1>1, CatIsStep, TraceExists, Zenon
<1>3. After(CatStep(X), e, ss) = r[Len(ss)]
  BY <1>2, AfterIs, SMT
<1>4. r \in [0 .. Len(ss) -> Seq(X)] /\ r[0] = e /\ \A i \in 1 .. Len(ss) : r[i] = CatStep(X)[ss[i]][r[i - 1]]
  BY <1>2, Zenon DEF IsTrace
<1>5. ASSUME NEW i \in 1 .. Len(ss) PROVE r[i] = r[i - 1] \o ss[i]
  <2>1. i - 1 \in 0 .. Len(ss)
    BY <1>0
  <2>2. r[i - 1] \in Seq(X) /\ ss[i] \in Seq(X)
    BY <2>1, <1>4, <1>0
  <2>3. CatStep(X)[ss[i]][r[i - 1]] = r[i - 1] \o ss[i]
    BY <2>2, Zenon DEF CatStep
  <2> QED
    BY <1>4, <2>3
<1> DEFINE g == [i \in 1 .. Len(ss) |-> r[i]]
<1>6. g = [i \in 1 .. Len(ss) |-> IF i = 1 THEN ss[i] ELSE g[i - 1] \o ss[i]]
  <2>1. ASSUME NEW i \in 1 .. Len(ss) PROVE g[i] = IF i = 1 THEN ss[i] ELSE g[i - 1] \o ss[i]
    <3>1. CASE i = 1
      <4>1. i - 1 = 0 /\ ss[i] \in Seq(X)
        BY <3>1, <1>0
      <4>2. r[i] = e \o ss[i]
        BY <4>1, <1>4, <1>5
      <4>3. r[i] = ss[i]
        BY <4>1, <4>2, <1>1
      <4> QED
        BY <3>1, <4>3, Zenon
    <3>2. CASE i # 1
      <4>1. i - 1 \in 1 .. Len(ss)
        BY <3>2, <1>0
      <4>2. g[i - 1] = r[i - 1] /\ g[i] = r[i]
        BY <4>1, Zenon
      <4>3. r[i] = r[i - 1] \o ss[i]
        BY <1>5, Zenon
      <4> QED
        BY <3>2, <4>2, <4>3, Zenon
    <3> QED
      BY <3>1, <3>2
  <2>2. [i \in 1 .. Len(ss) |-> g[i]] = [i \in 1 .. Len(ss) |-> IF i = 1 THEN ss[i] ELSE g[i - 1] \o ss[i]]
    BY <2>1, Zenon
  <2>3. [i \in 1 .. Len(ss) |-> g[i]] = g
    BY Zenon
  <2> QED
    BY <2>2, <2>3, Zenon
<1> HIDE DEF g
<1>7. h = [i \in 1 .. Len(ss) |-> IF i = 1 THEN ss[i] ELSE h[i - 1] \o ss[i]]
  BY <1>6, Zenon
<1>8. FlattenSeq(ss) = h[Len(ss)]
  BY <1>0, Zenon DEF FlattenSeq
<1> HIDE DEF h
<1>9. \A i \in 1 .. Len(ss) : h[i] = IF i = 1 THEN ss[i] ELSE h[i - 1] \o ss[i]
  BY <1>7, Zenon
<1> DEFINE T == {n \in 0 .. Len(ss) : n = 0 \/ h[n] = r[n]}
<1>10. 0 \in T
  BY <1>0
<1>11. ASSUME NEW n \in 0 .. (Len(ss) - 1), n \in T PROVE n + 1 \in T
  <2>1. n + 1 \in 1 .. Len(ss) /\ (n + 1) - 1 = n /\ n + 1 \in 0 .. Len(ss)
    BY <1>0
  <2>2. r[n + 1] = r[n] \o ss[n + 1]
    BY <2>1, <1>5, Zenon
  <2>3. CASE n = 0
    <3>1. h[n + 1] = ss[n + 1]
      BY <2>1, <2>3, <1>9
    <3>2. ss[n + 1] \in Seq(X) /\ r[n] = e
      BY <2>1, <1>0, <1>4, <2>3
    <3>3. r[n + 1] = ss[n + 1]
      BY <2>2, <3>2, <1>1
    <3> QED
      BY <3>1, <3>3, <2>1
  <2>4. CASE n # 0
    <3>1. h[n] = r[n]
      BY <1>11, <2>4
    <3>2. n + 1 # 1
      BY <2>4
    <3>3. h[n + 1] = h[n] \o ss[n + 1]
      BY <2>1, <3>2, <1>9
    <3>4. h[n + 1] = r[n + 1]
      BY <3>1, <3>3, <2>2
    <3> QED
      BY <3>4, <2>1
  <2> QED
    BY <2>3, <2>4
<1>12. \A n \in 0 .. Len(ss) : n \in T
  <2> HIDE DEF T
  <2> QED
    BY <1>0, <1>10, <1>11, Upwards
<1>13. h[Len(ss)] = r[Len(ss)]
  BY <1>0, <1>12
<1> QED
  BY <1>3, <1>8, <1>13 DEF e

\* Every element replaced by a sequence.
Mapped(esc, b) == FlattenSeq([i \in DOMAIN b |-> esc[b[i]]])
IsEsc(esc, B, X) == esc \in [B -> Seq(X)]

\* Nothing to replace.
LEMMA MappedEmpty ==
    ASSUME NEW esc
    PROVE  Mapped(esc, <<>>) = <<>>
<1>1. DOMAIN <<>> = {}
  OBVIOUS
<1>2. [i \in DOMAIN <<>> |-> esc[<<>>[i]]] = <<>>
  BY <1>1
<1>3. Len(<<>>) = 0
  OBVIOUS
<1>4. FlattenSeq(<<>>) = <<>>
  BY <1>3, Zenon DEF FlattenSeq
<1> QED
  BY <1>2, <1>4 DEF Mapped

\* The pieces are a sequence of sequences.
LEMMA MapSeq ==
    ASSUME NEW B, NEW X, NEW esc, IsEsc(esc, B, X), NEW b \in Seq(B)
    PROVE  [i \in DOMAIN b |-> esc[b[i]]] \in Seq(Seq(X))
<1>1. Len(b) \in Nat /\ DOMAIN b = 1 .. Len(b) /\ \A i \in 1 .. Len(b) : b[i] \in B
  OBVIOUS
<1>2. \A i \in 1 .. Len(b) : esc[b[i]] \in Seq(X)
  BY <1>1 DEF IsEsc
<1>3. [i \in 1 .. Len(b) |-> esc[b[i]]] \in [1 .. Len(b) -> Seq(X)]
  BY <1>2
<1> QED
  BY <1>1, <1>3

\* Replacing every element is a fold.
LEMMA MappedIs ==
    ASSUME NEW B, NEW X, NEW esc, IsEsc(esc, B, X), NEW b \in Seq(B)
    PROVE  Mapped(esc, b) = After(CatStep(X), <<>>, [i \in DOMAIN b |-> esc[b[i]]])
<1> DEFINE ss == [i \in DOMAIN b |-> esc[b[i]]]
<1>1. ss \in Seq(Seq(X))
  BY MapSeq
<1>2. Mapped(esc, b) = FlattenSeq(ss)
  BY DEF Mapped
<1> HIDE DEF ss
<1>3. CASE ss = <<>>
  <2>1. Len(ss) = 0
    BY <1>3
  <2>2. FlattenSeq(ss) = <<>>
    BY <1>3, <2>1, Zenon DEF FlattenSeq
  <2> DEFINE e == <<>>
  <2>3. e \in Seq(X)
    OBVIOUS
  <2> HIDE DEF e
  <2>4. After(CatStep(X), e, <<>>) = e
    BY <2>3, CatIsStep, AfterEmpty, Zenon
  <2> QED
    BY <1>2, <1>3, <2>2, <2>4, Zenon DEF e, ss
<1>4. CASE ss # <<>>
  BY <1>1, <1>2, <1>4, FlattenIs, Zenon DEF ss
<1> QED
  BY <1>3, <1>4

\* What is written consists of what the pieces consist of.
LEMMA MappedType ==
    ASSUME NEW B, NEW X, NEW esc, IsEsc(esc, B, X), NEW b \in Seq(B)
    PROVE  Mapped(esc, b) \in Seq(X)
<1> DEFINE ss == [i \in DOMAIN b |-> esc[b[i]]]
<1>1. ss \in Seq(Seq(X))
  BY MapSeq
<1> DEFINE e == <<>>
<1>2. e \in Seq(X)
  OBVIOUS
<1>3. Mapped(esc, b) = After(CatStep(X), e, ss)
  BY MappedIs
<1> HIDE DEF ss, e
<1>4. After(CatStep(X), e, ss) \in Seq(X)
  BY <1>1, <1>2, CatIsStep, AfterType, Zenon
<1> QED
  BY <1>3, <1>4

\* One element more adds its piece at the end.
LEMMA MappedAppend ==
    ASSUME NEW B, NEW X, NEW esc, IsEsc(esc, B, X), NEW b \in Seq(B), NEW c \in B
    PROVE  Mapped(esc, Append(b, c)) = Mapped(esc, b) \o esc[c]
<1> DEFINE ss == [i \in DOMAIN b |-> esc[b[i]]]
<1> DEFINE tt == [i \in DOMAIN Append(b, c) |-> esc[Append(b, c)[i]]]
<1>1. ss \in Seq(Seq(X))
  BY MapSeq
<1>2. esc[c] \in Seq(X)
  BY DEF IsEsc
<1> DEFINE e == <<>>
<1>3. e \in Seq(X) /\ Append(b, c) \in Seq(B)
  OBVIOUS
<1>4. tt \in Seq(Seq(X))
  BY <1>3, MapSeq
<1>5. tt = Append(ss, esc[c])
  <2>1. Len(b) \in Nat /\ DOMAIN b = 1 .. Len(b) /\ DOMAIN Append(b, c) = 1 .. (Len(b) + 1)
        /\ Append(b, c)[Len(b) + 1] = c /\ \A i \in 1 .. Len(b) : Append(b, c)[i] = b[i]
    OBVIOUS
  <2>2. Len(ss) = Len(b) /\ Len(tt) = Len(b) + 1
    BY <2>1, <1>1, <1>4
  <2> DEFINE uu == Append(ss, esc[c])
  <2>3. uu \in Seq(Seq(X)) /\ Len(uu) = Len(b) + 1 /\ uu[Len(b) + 1] = esc[c]
        /\ \A i \in 1 .. Len(b) : uu[i] = ss[i]
    <3> HIDE DEF ss
    <3> QED
      BY <1>1, <1>2, <2>1, <2>2
  <2>4. ASSUME NEW i \in 1 .. (Len(b) + 1) PROVE tt[i] = uu[i]
    <3>1. CASE i = Len(b) + 1
      <4>1. tt[i] = esc[c]
        BY <2>1, <3>1
      <4> QED
        BY <4>1, <2>3, <3>1
    <3>2. CASE i # Len(b) + 1
      <4>1. i \in 1 .. Len(b)
        BY <3>2, <2>1
      <4>2. tt[i] = esc[b[i]] /\ ss[i] = esc[b[i]]
        BY <4>1, <2>1
      <4> QED
        BY <4>1, <4>2, <2>3
    <3> QED
      BY <3>1, <3>2
  <2> HIDE DEF tt, uu
  <2>5. tt = uu
    BY <1>4, <2>2, <2>3, <2>4, SeqEqual
  <2> QED
    BY <2>5 DEF uu
<1>6. Mapped(esc, b) = After(CatStep(X), e, ss)
  BY MappedIs
<1>7. Mapped(esc, Append(b, c)) = After(CatStep(X), e, tt)
  <2> DEFINE bc == Append(b, c)
  <2>1. bc \in Seq(B)
    OBVIOUS
  <2> HIDE DEF bc
  <2>2. Mapped(esc, bc) = After(CatStep(X), <<>>, [i \in DOMAIN bc |-> esc[bc[i]]])
    BY <2>1, MappedIs, SMT
  <2> QED
    BY <2>2 DEF bc
<1> HIDE DEF ss, tt, e
<1> DEFINE m == Mapped(esc, b)
<1>8. m \in Seq(X)
  BY MappedType, Zenon
<1> DEFINE x == esc[c]
<1> HIDE DEF x
<1>9. After(CatStep(X), e, Append(ss, x)) = CatStep(X)[x][After(CatStep(X), e, ss)]
  BY <1>1, <1>2, <1>3, CatIsStep, AfterAppend, SMT DEF x
<1>10. CatStep(X)[x][m] = m \o x
  <2> HIDE DEF m
  <2> QED
    BY <1>2, <1>8, Zenon DEF CatStep, x
<1> QED
  BY <1>5, <1>6, <1>7, <1>9, <1>10 DEF x

\* What is written for two sequences is written for each.
LEMMA MappedConcat ==
    ASSUME NEW B, NEW X, NEW esc, IsEsc(esc, B, X), NEW a \in Seq(B)
    PROVE  \A b \in Seq(B) : Mapped(esc, a \o b) = Mapped(esc, a) \o Mapped(esc, b)
<1> DEFINE S == {b \in Seq(B) : Mapped(esc, a \o b) = Mapped(esc, a) \o Mapped(esc, b)}
<1> DEFINE m == Mapped(esc, a)
<1>0. m \in Seq(X)
  BY MappedType, Zenon
<1>1. <<>> \in S
  <2>1. a \o <<>> = a /\ <<>> \in Seq(B)
    OBVIOUS
  <2>2. Mapped(esc, <<>>) = <<>>
    BY MappedEmpty, Zenon
  <2> HIDE DEF m
  <2>3. m \o <<>> = m
    BY <1>0
  <2> QED
    BY <2>1, <2>2, <2>3 DEF m
<1>2. ASSUME NEW b \in Seq(B), NEW c \in B, b \in S PROVE Append(b, c) \in S
  <2>1. a \o Append(b, c) = Append(a \o b, c) /\ a \o b \in Seq(B) /\ Append(b, c) \in Seq(B)
    OBVIOUS
  <2> DEFINE u == a \o b
  <2>0. u \in Seq(B)
    BY <2>1
  <2> HIDE DEF u
  <2>2. Mapped(esc, Append(u, c)) = Mapped(esc, u) \o esc[c]
    BY <2>0, MappedAppend, SMT
  <2>3. Mapped(esc, Append(b, c)) = Mapped(esc, b) \o esc[c]
    BY MappedAppend, SMT
  <2>4. Mapped(esc, u) = m \o Mapped(esc, b)
    BY <1>2 DEF u
  <2> DEFINE n == Mapped(esc, b)  x == esc[c]
  <2>5. n \in Seq(X) /\ x \in Seq(X)
    BY MappedType DEF IsEsc
  <2>6. (m \o n) \o x = m \o (n \o x)
    <3> HIDE DEF m, n, x
    <3> QED
      BY <1>0, <2>5, ConcatAssociative
  <2>7. Mapped(esc, a \o Append(b, c)) = Mapped(esc, a) \o Mapped(esc, Append(b, c))
    BY <2>1, <2>2, <2>3, <2>4, <2>6 DEF u
  <2> QED
    BY <2>1, <2>7
<1>3. \A b \in Seq(B) : b \in S
  <2> HIDE DEF S
  <2> QED
    BY <1>1, <1>2, SeqInduct
<1> QED
  BY <1>3

\* One element, one piece.
LEMMA MappedOne ==
    ASSUME NEW B, NEW X, NEW esc, IsEsc(esc, B, X), NEW c \in B
    PROVE  Mapped(esc, <<c>>) = esc[c]
<1> DEFINE e == <<>>
<1>0. e \in Seq(B)
  OBVIOUS
<1>1. Append(e, c) = <<c>>
  OBVIOUS
<1>2. Mapped(esc, e) = <<>>
  BY MappedEmpty, Zenon
<1> HIDE DEF e
<1>3. Mapped(esc, Append(e, c)) = Mapped(esc, e) \o esc[c]
  BY <1>0, MappedAppend, SMT
<1> DEFINE x == esc[c]
<1>4. x \in Seq(X)
  BY DEF IsEsc
<1>5. <<>> \o x = x
  <2> HIDE DEF x
  <2> QED
    BY <1>4
<1> QED
  BY <1>1, <1>2, <1>3, <1>5

-----------------------------------------------------------------------------
\* str.rs: escape and unescape.

\* A byte, as its value.
Octet == 0 .. 255

\* What a character tells the hex decoders.
LEMMA HexChars ==
    /\ \A x \in 0 .. 15 : /\ HEX_CHARS(x) \in 48 .. 57 \cup 97 .. 102
                          /\ IsHex(HEX_CHARS(x)) /\ HexValue(HEX_CHARS(x)) = x
    /\ \A c \in Int : IsHex(c) => HexValue(c) \in 0 .. 15
BY DEF HEX_CHARS, IsHex, HexValue

\* The codes of the hex digits.
LEMMA HexRange == \A x \in 0 .. 15 : HEX_CHARS(x) \in 48 .. 102
BY DEF HEX_CHARS

\* The two nibbles of a byte.
LEMMA ByteNibbles ==
    ASSUME NEW c \in Octet
    PROVE  /\ c \div 16 \in 0 .. 15 /\ c % 16 \in 0 .. 15 /\ 16 * (c \div 16) + (c % 16) = c
           /\ (16 * (c \div 16) + (c % 16)) % 256 = c
BY DEF Octet

\* hex::to_string of one byte is its two digits.
LEMMA ToStringOne ==
    ASSUME NEW c \in Octet
    PROVE  to_string(<<c>>) = <<HEX_CHARS(c \div 16), HEX_CHARS(c % 16)>>
<1> DEFINE b == <<c>>
<1>1. Len(b) = 1 /\ b[1] = c
  OBVIOUS
<1>2. to_string(b) = [i \in 1 .. 2 |-> HEX_CHARS(IF i % 2 = 1 THEN b[(i + 1) \div 2] \div 16 ELSE b[(i + 1) \div 2] % 16)]
  BY <1>1 DEF to_string
<1> DEFINE t == [i \in 1 .. 2 |-> HEX_CHARS(IF i % 2 = 1 THEN b[(i + 1) \div 2] \div 16 ELSE b[(i + 1) \div 2] % 16)]
<1>3. t[1] = HEX_CHARS(c \div 16)
  <2>1. 1 \in 1 .. 2 /\ 1 % 2 = 1 /\ (1 + 1) \div 2 = 1
    OBVIOUS
  <2> QED
    BY <2>1, <1>1
<1>4. t[2] = HEX_CHARS(c % 16)
  <2>1. 2 \in 1 .. 2 /\ 2 % 2 # 1 /\ (2 + 1) \div 2 = 1
    OBVIOUS
  <2> QED
    BY <2>1, <1>1
<1>5. t = [i \in 1 .. 2 |-> t[i]]
  OBVIOUS
<1> HIDE DEF t
<1>6. t = <<t[1], t[2]>>
  BY <1>5
<1> QED
  BY <1>2, <1>3, <1>4, <1>6 DEF t

\* One element before two.
LEMMA OneTwo ==
    ASSUME NEW S, NEW a \in S, NEW b \in S, NEW c \in S
    PROVE  <<a>> \o <<b, c>> = <<a, b, c>>
<1> DEFINE s == <<a>>  t == <<b, c>>  u == <<a, b, c>>  v == s \o t
<1>1. s \in Seq(S) /\ t \in Seq(S) /\ u \in Seq(S)
  OBVIOUS
<1>2. Len(s) = 1 /\ Len(t) = 2 /\ Len(u) = 3 /\ s[1] = a /\ t[1] = b /\ t[2] = c /\ u[1] = a /\ u[2] = b /\ u[3] = c
  OBVIOUS
<1> HIDE DEF s, t, u
<1>a. /\ v \in Seq(S) /\ Len(v) = Len(s) + Len(t)
      /\ \A i \in 1 .. Len(s) + Len(t) : v[i] = IF i <= Len(s) THEN s[i] ELSE t[i - Len(s)]
  BY <1>1, ConcatProperties, Zenon
<1> HIDE DEF v
<1>3. v \in Seq(S) /\ Len(v) = 3
  BY <1>2, <1>a
<1>4. v[1] = a /\ v[2] = b /\ v[3] = c
  BY <1>2, <1>a
<1> HIDE DEF v
<1>5. \A i \in 1 .. 3 : i = 1 \/ i = 2 \/ i = 3
  OBVIOUS
<1>6. \A i \in 1 .. Len(v) : v[i] = u[i]
  BY <1>2, <1>3, <1>4, <1>5
<1>7. v = u
  BY <1>1, <1>2, <1>3, <1>6, SeqEqual
<1> QED
  BY <1>7 DEF s, t, u, v

\* escape, a chunk for each byte.
EscStr == [c \in Octet |-> IF Plain(c) THEN <<c>> ELSE <<92>> \o to_string(<<c>>)]

\* A byte is written as itself, or as a backslash and two digits; both
\* printable.
LEMMA EscStrShape ==
    ASSUME NEW c \in Octet
    PROVE  /\ EscStr[c] = IF Plain(c) THEN <<c>>
                          ELSE <<92, HEX_CHARS(c \div 16), HEX_CHARS(c % 16)>>
           /\ EscStr[c] \in Seq(43 .. 126)
<1> DEFINE h == HEX_CHARS(c \div 16)  l == HEX_CHARS(c % 16)
<1>1. EscStr[c] = IF Plain(c) THEN <<c>> ELSE <<92>> \o to_string(<<c>>)
  BY DEF EscStr
<1>2. to_string(<<c>>) = <<h, l>>
  BY ToStringOne
<1>3. h \in 48 .. 102 /\ l \in 48 .. 102
  BY ByteNibbles, HexRange, Zenon
<1> HIDE DEF h, l
<1>4. <<92>> \o <<h, l>> = <<92, h, l>>
  <2>1. 92 \in Int /\ h \in Int /\ l \in Int
    BY <1>3
  <2> DEFINE x == 92
  <2> HIDE DEF x
  <2>2. <<x>> \o <<h, l>> = <<x, h, l>>
    BY <2>1, OneTwo, Zenon DEF x
  <2> QED
    BY <2>2, Zenon DEF x
<1>5. <<92, h, l>> \in Seq(43 .. 126)
  BY <1>3
<1>6. Plain(c) => <<c>> \in Seq(43 .. 126)
  BY DEF Plain
<1> QED
  BY <1>1, <1>2, <1>4, <1>5, <1>6 DEF h, l

\* Every byte has its piece of text.
LEMMA EscStrIsEsc == IsEsc(EscStr, Octet, 43 .. 126)
<1>1. \A c \in Octet : EscStr[c] \in Seq(43 .. 126)
  BY EscStrShape
<1>2. EscStr = [c \in Octet |-> EscStr[c]]
  BY Zenon DEF EscStr
<1> HIDE DEF EscStr
<1>3. [c \in Octet |-> EscStr[c]] \in [Octet -> Seq(43 .. 126)]
  BY <1>1, Zenon
<1> QED
  BY <1>2, <1>3, Zenon DEF IsEsc

\* str::escape replaces every byte by its piece.
LEMMA EscapeIs ==
    ASSUME NEW b \in Seq(Octet)
    PROVE  escape(b) = Mapped(EscStr, b)
<1>1. \A i \in DOMAIN b : b[i] \in Octet
  OBVIOUS
<1>2. \A i \in DOMAIN b : EscStr[b[i]] = IF Plain(b[i]) THEN <<b[i]>> ELSE <<92>> \o to_string(<<b[i]>>)
  BY <1>1, Zenon DEF EscStr
<1>3. [i \in DOMAIN b |-> EscStr[b[i]]] = [i \in DOMAIN b |->
        IF Plain(b[i]) THEN <<b[i]>> ELSE <<92>> \o to_string(<<b[i]>>)]
  BY <1>2, Zenon
<1> QED
  BY <1>3, Zenon DEF escape, Mapped

\* unescape, a fold over the text.
UState == [b : Seq(Octet), open : Seq(Octet)]
UStep == [c \in Octet |-> [p \in UState |-> Unescaped(p, c)]]
U(b) == [b |-> b, open |-> <<>>]

\* An escape decodes to a byte.
LEMMA EscapedType ==
    ASSUME NEW c1 \in Octet, NEW c2 \in Octet
    PROVE  Escaped(c1, c2) \in Octet
<1> DEFINE x == IF IsHex(c1) THEN (16 * 0 + HexValue(c1)) % 256 ELSE 0
<1>1. x \in Octet
  BY HexChars DEF Octet
<1>2. Escaped(c1, c2) = IF IsHex(c2) THEN (16 * x + HexValue(c2)) % 256 ELSE x
  BY DEF Escaped
<1> HIDE DEF x
<1>3. ASSUME IsHex(c2) PROVE (16 * x + HexValue(c2)) % 256 \in Octet
  <2> DEFINE y == HexValue(c2)
  <2>1. y \in 0 .. 15
    BY <1>3, HexChars DEF Octet
  <2> HIDE DEF y
  <2>2. 16 * x + y \in Nat
    BY <1>1, <2>1 DEF Octet
  <2>3. (16 * x + y) % 256 \in 0 .. 255
    BY <2>2
  <2> QED
    BY <2>3 DEF Octet, y
<1> QED
  BY <1>1, <1>2, <1>3

\* A number that is not zero is one or more.
LEMMA Positive == \A n \in Nat \ {0} : n = 1 \/ n > 1
OBVIOUS

\* An escape has not begun, has begun, or is one digit from its end.
LEMMA OpenLength ==
    ASSUME NEW o \in Seq(Octet)
    PROVE  o = <<>> \/ Len(o) = 1 \/ Len(o) > 1
<1>1. Len(o) \in Nat /\ (o # <<>> => Len(o) \in Nat \ {0})
  BY EmptySeq
<1>2. \A n \in Nat \ {0} : n = 1 \/ n > 1
  BY Positive, Zenon
<1> QED
  BY <1>1, <1>2, Zenon

\* A step of str::unescape by how much of an escape is open.
LEMMA UnescapedCases ==
    ASSUME NEW p \in UState, NEW c \in Octet
    PROVE  /\ p.open = <<>> /\ c = 92 => Unescaped(p, c) = [b |-> p.b, open |-> <<c>>]
           /\ p.open = <<>> /\ c # 92 => Unescaped(p, c) = [b |-> Append(p.b, c), open |-> <<>>]
           /\ Len(p.open) = 1 => Unescaped(p, c) = [b |-> p.b, open |-> Append(p.open, c)]
           /\ Len(p.open) > 1 => Unescaped(p, c) = [b |-> Append(p.b, Escaped(p.open[2], c)), open |-> <<>>]
<1>0. p = [b |-> p.b, open |-> p.open] /\ p.b \in Seq(Octet) /\ p.open \in Seq(Octet) /\ Len(p.open) \in Nat
  BY DEF UState
<1>1. Len(<<>>) = 0
  OBVIOUS
<1>6. Len(<<>>) # 1 /\ ~(Len(<<>>) > 1)
  BY <1>1
<1>2. CASE p.open = <<>> /\ c = 92
  <2>1. Unescaped(p, c) = [b |-> p.b, open |-> <<c>>]
    BY <1>0, <1>2 DEF Unescaped
  <2> QED
    BY <1>2, <1>6, <2>1, Zenon
<1>3. CASE p.open = <<>> /\ c # 92
  <2>0. ~(Len(p.open) = 1)
    BY <1>3, <1>6, Zenon
  <2>1. Unescaped(p, c) = [p EXCEPT !.b = Append(p.b, c)]
    BY <1>3, <2>0, Zenon DEF Unescaped
  <2> DEFINE x == Append(p.b, c)
  <2> HIDE DEF x
  <2>2. [p EXCEPT !.b = x] = [b |-> x, open |-> <<>>]
    BY <1>0, <1>3
  <2>3. Unescaped(p, c) = [b |-> Append(p.b, c), open |-> <<>>]
    BY <2>1, <2>2, Zenon DEF x
  <2> QED
    BY <1>3, <1>6, <2>3, Zenon
<1>4. CASE Len(p.open) = 1
  <2>0. ~(1 > 1) /\ 1 # 0
    OBVIOUS
  <2>1. p.open # <<>> /\ ~(Len(p.open) > 1)
    BY <2>0, <1>1, <1>4, Zenon
  <2>2. Unescaped(p, c) = [b |-> p.b, open |-> Append(p.open, c)]
    BY <2>1, <1>0, <1>4 DEF Unescaped
  <2> QED
    BY <2>1, <2>2
<1>5. CASE Len(p.open) > 1
  <2>0. ~(1 > 1) /\ ~(0 > 1)
    OBVIOUS
  <2>1. p.open # <<>> /\ Len(p.open) # 1
    BY <2>0, <1>1, <1>5, Zenon
  <2>2. Unescaped(p, c) = [b |-> Append(p.b, Escaped(p.open[2], c)), open |-> <<>>]
    BY <2>1, <1>0, <1>5 DEF Unescaped
  <2> QED
    BY <2>1, <2>2
<1>7. p.open = <<>> \/ Len(p.open) = 1 \/ Len(p.open) > 1
  BY <1>0, OpenLength, Zenon
<1> QED
  BY <1>1, <1>2, <1>3, <1>4, <1>5, <1>7

\* A step keeps or extends the bytes decoded so far.
LEMMA UnescapedGrows ==
    ASSUME NEW p \in UState, NEW c \in Octet
    PROVE  /\ Unescaped(p, c) \in UState
           /\ Unescaped(p, c).b = p.b \/ \E x \in Octet : Unescaped(p, c).b = Append(p.b, x)
<1>0. p.b \in Seq(Octet) /\ p.open \in Seq(Octet) /\ Len(p.open) \in Nat
  BY DEF UState
<1>a. <<>> \in Seq(Octet) /\ Append(p.b, c) \in Seq(Octet) /\ Append(p.open, c) \in Seq(Octet) /\ <<c>> \in Seq(Octet)
  BY <1>0
<1>2. CASE p.open = <<>> /\ c = 92
  <2>1. Unescaped(p, c) = [b |-> p.b, open |-> <<c>>]
    BY <1>2, UnescapedCases, Zenon
  <2> QED
    BY <2>1, <1>0, <1>a DEF UState
<1>3. CASE p.open = <<>> /\ c # 92
  <2>1. Unescaped(p, c) = [b |-> Append(p.b, c), open |-> <<>>]
    BY <1>3, UnescapedCases, Zenon
  <2> QED
    BY <2>1, <1>0, <1>a DEF UState
<1>4. CASE Len(p.open) = 1
  <2>1. Unescaped(p, c) = [b |-> p.b, open |-> Append(p.open, c)]
    BY <1>4, UnescapedCases, Zenon
  <2> QED
    BY <2>1, <1>0, <1>a DEF UState
<1>5. CASE Len(p.open) > 1
  <2> DEFINE x == Escaped(p.open[2], c)
  <2>1. p.open[2] \in Octet
    BY <1>0, <1>5
  <2>2. x \in Octet
    BY <2>1, EscapedType
  <2>3. Unescaped(p, c) = [b |-> Append(p.b, x), open |-> <<>>]
    BY <1>5, UnescapedCases
  <2> HIDE DEF x
  <2>4. Append(p.b, x) \in Seq(Octet)
    BY <2>2, <1>0
  <2> QED
    BY <2>2, <2>3, <2>4, <1>a DEF UState
<1>6. p.open = <<>> \/ Len(p.open) = 1 \/ Len(p.open) > 1
  BY <1>0, OpenLength, Zenon
<1> QED
  BY <1>2, <1>3, <1>4, <1>5, <1>6

\* The steps of str::unescape keep the type of its state.
LEMMA UStepIs == IsStep(UStep, UState, Octet)
<1>1. \A c \in Octet, p \in UState : Unescaped(p, c) \in UState
  BY UnescapedGrows, Zenon
<1> QED
  BY <1>1, Zenon DEF UStep, IsStep

\* A step as a function.
LEMMA UStepAt ==
    ASSUME NEW p \in UState, NEW c \in Octet
    PROVE  UStep[c][p] = Unescaped(p, c)
BY Zenon DEF UStep

\* str::unescape is a fold.
LEMMA UnescapeIs ==
    ASSUME NEW s \in Seq(Octet)
    PROVE  unescape(s) = After(UStep, U(<<>>), s).b
<1> DEFINE u == U(<<>>)
<1> DEFINE h == CHOOSE f : f = [i \in 0 .. Len(s) |-> IF i = 0 THEN [b |-> <<>>, open |-> <<>>] ELSE Unescaped(f[i - 1], s[i])]
<1>0. Len(s) \in Nat /\ \A i \in 1 .. Len(s) : s[i] \in Octet
  OBVIOUS
<1>1. u \in UState /\ u = [b |-> <<>>, open |-> <<>>]
  BY DEF U, UState
<1>2. PICK r : IsTrace(r, UState, UStep, u, s)
  <2> HIDE DEF u
  <2> QED
    BY <1>1, UStepIs, TraceExists, Zenon
<1>3. After(UStep, u, s) = r[Len(s)]
  <2> HIDE DEF u
  <2> QED
    BY <1>2, AfterIs, SMT
<1>4. r \in [0 .. Len(s) -> UState] /\ r[0] = u /\ \A i \in 1 .. Len(s) : r[i] = UStep[s[i]][r[i - 1]]
  BY <1>2, Zenon DEF IsTrace
<1> HIDE DEF u
<1>5. ASSUME NEW i \in 1 .. Len(s) PROVE r[i] = Unescaped(r[i - 1], s[i])
  <2>1. i - 1 \in 0 .. Len(s)
    BY <1>0
  <2>2. r[i - 1] \in UState /\ s[i] \in Octet
    BY <2>1, <1>4, <1>0
  <2> QED
    BY <1>4, <2>2, UStepAt
<1>6. r = [i \in 0 .. Len(s) |-> IF i = 0 THEN [b |-> <<>>, open |-> <<>>] ELSE Unescaped(r[i - 1], s[i])]
  <2>1. \A i \in 0 .. Len(s) : i = 0 \/ i \in 1 .. Len(s)
    BY <1>0
  <2>2. \A i \in 0 .. Len(s) : r[i] = IF i = 0 THEN [b |-> <<>>, open |-> <<>>] ELSE Unescaped(r[i - 1], s[i])
    BY <2>1, <1>1, <1>4, <1>5, Zenon
  <2>3. r = [i \in 0 .. Len(s) |-> r[i]]
    BY <1>4, Zenon
  <2>4. [i \in 0 .. Len(s) |-> r[i]] = [i \in 0 .. Len(s) |-> IF i = 0 THEN [b |-> <<>>, open |-> <<>>] ELSE Unescaped(r[i - 1], s[i])]
    BY <2>2, Zenon
  <2> QED
    BY <2>3, <2>4, Zenon
<1>7. h = [i \in 0 .. Len(s) |-> IF i = 0 THEN [b |-> <<>>, open |-> <<>>] ELSE Unescaped(h[i - 1], s[i])]
  BY <1>6, Zenon
<1>8. unescape(s) = h[Len(s)].b
  BY Zenon DEF unescape
<1> HIDE DEF h
<1>9. \A i \in 0 .. Len(s) : h[i] = IF i = 0 THEN [b |-> <<>>, open |-> <<>>] ELSE Unescaped(h[i - 1], s[i])
  BY <1>7, Zenon
<1> DEFINE T == {n \in 0 .. Len(s) : h[n] = r[n]}
<1>10. 0 \in T
  <2>1. 0 \in 0 .. Len(s)
    BY <1>0
  <2> QED
    BY <2>1, <1>9, <1>4, <1>1, Zenon
<1>11. ASSUME NEW n \in 0 .. (Len(s) - 1), n \in T PROVE n + 1 \in T
  <2>1. n + 1 \in 1 .. Len(s) /\ (n + 1) - 1 = n /\ n + 1 \in 0 .. Len(s) /\ n + 1 # 0
    BY <1>0
  <2>2. r[n + 1] = Unescaped(r[(n + 1) - 1], s[n + 1])
    BY <2>1, <1>5, Zenon
  <2>3. h[n + 1] = Unescaped(h[(n + 1) - 1], s[n + 1])
    BY <2>1, <1>9, Zenon
  <2>4. h[n] = r[n]
    BY <1>11, Zenon
  <2>5. h[n + 1] = r[n + 1]
    BY <2>1, <2>2, <2>3, <2>4, Zenon
  <2> QED
    BY <2>1, <2>5, Zenon
<1>12. \A n \in 0 .. Len(s) : n \in T
  <2> HIDE DEF T
  <2> QED
    BY <1>0, <1>10, <1>11, Upwards
<1>13. h[Len(s)] = r[Len(s)]
  BY <1>0, <1>12
<1> QED
  BY <1>3, <1>8, <1>13 DEF u

\* The run over a text from a state where no escape is open.
URun(p, s) == After(UStep, p, s)

\* Append to a concatenation.
LEMMA OctetAppend ==
    \A s, t \in Seq(Octet), c \in Octet : Append(s \o t, c) = s \o Append(t, c)
<1> TAKE s, t \in Seq(Octet), c \in Octet
<1> QED
  OBVIOUS

\* One character more.
LEMMA URunAppend ==
    ASSUME NEW p \in UState, NEW s \in Seq(Octet), NEW c \in Octet
    PROVE  URun(p, Append(s, c)) = Unescaped(URun(p, s), c)
<1>1. URun(p, s) \in UState
  BY UStepIs, AfterType, Zenon DEF URun
<1>2. After(UStep, p, Append(s, c)) = UStep[c][After(UStep, p, s)]
  BY UStepIs, AfterAppend, SMT
<1> QED
  BY <1>1, <1>2, UStepAt DEF URun

\* No characters.
LEMMA URunEmpty ==
    ASSUME NEW p \in UState
    PROVE  URun(p, <<>>) = p
BY UStepIs, AfterEmpty, Zenon DEF URun

\* The type of the result.
LEMMA URunType ==
    ASSUME NEW p \in UState, NEW s \in Seq(Octet)
    PROVE  URun(p, s) \in UState
BY UStepIs, AfterType, Zenon DEF URun

\* One text after another.
LEMMA URunConcat ==
    ASSUME NEW p \in UState, NEW s \in Seq(Octet), NEW t \in Seq(Octet)
    PROVE  URun(p, s \o t) = URun(URun(p, s), t)
<1>1. \A x \in Seq(Octet) : After(UStep, p, s \o x) = After(UStep, After(UStep, p, s), x)
  BY UStepIs, AfterConcat, SMT
<1> QED
  BY <1>1, Zenon DEF URun

\* A state with no escape open.
LEMMA UType ==
    ASSUME NEW b \in Seq(Octet)
    PROVE  U(b) \in UState /\ U(b).b = b /\ U(b).open = <<>>
BY DEF U, UState

\* A single character.
LEMMA URunOne ==
    ASSUME NEW p \in UState, NEW c \in Octet
    PROVE  URun(p, <<c>>) = Unescaped(p, c)
<1> DEFINE e == <<>>
<1>1. e \in Seq(Octet)
  OBVIOUS
<1>2. Append(e, c) = <<c>>
  OBVIOUS
<1>3. URun(p, e) = p
  BY URunEmpty, Zenon
<1> HIDE DEF e
<1>4. URun(p, Append(e, c)) = Unescaped(URun(p, e), c)
  BY <1>1, URunAppend, SMT
<1> QED
  BY <1>2, <1>3, <1>4

\* The two digits of an escape decode to its byte.
LEMMA EscapedDigits ==
    ASSUME NEW c \in Octet
    PROVE  Escaped(HEX_CHARS(c \div 16), HEX_CHARS(c % 16)) = c
<1> DEFINE x == c \div 16  y == c % 16
<1>1. x \in 0 .. 15 /\ y \in 0 .. 15 /\ (16 * x + y) % 256 = c
  BY ByteNibbles
<1> HIDE DEF x, y
<1>2. IsHex(HEX_CHARS(x)) /\ HexValue(HEX_CHARS(x)) = x /\ IsHex(HEX_CHARS(y)) /\ HexValue(HEX_CHARS(y)) = y
  BY <1>1, HexChars
<1>3. (16 * 0 + x) % 256 = x
  BY <1>1
<1>4. Escaped(HEX_CHARS(x), HEX_CHARS(y)) = (16 * ((16 * 0 + x) % 256) + y) % 256
  BY <1>2, Zenon DEF Escaped
<1> QED
  BY <1>1, <1>3, <1>4 DEF x, y

\* The piece of a byte adds that byte.
LEMMA UChunk ==
    ASSUME NEW b \in Seq(Octet), NEW c \in Octet
    PROVE  URun(U(b), EscStr[c]) = U(Append(b, c))
<1>1. CASE Plain(c)
  <2>1. EscStr[c] = <<c>>
    BY <1>1, EscStrShape
  <2>2. c # 92
    BY <1>1 DEF Plain
  <2>3. Unescaped(U(b), c) = [b |-> Append(b, c), open |-> <<>>]
    BY <2>2, UType, UnescapedCases
  <2> QED
    BY <2>1, <2>3, UType, URunOne DEF U
<1>2. CASE ~Plain(c)
  <2> DEFINE h == HEX_CHARS(c \div 16)  l == HEX_CHARS(c % 16)
  <2>1. EscStr[c] = <<92, h, l>>
    BY <1>2, EscStrShape
  <2>0. h \in 48 .. 102 /\ l \in 48 .. 102
    BY ByteNibbles, HexRange, Zenon
  <2>3. Escaped(h, l) = c
    BY EscapedDigits
  <2> HIDE DEF h, l
  <2>2. h \in Octet /\ l \in Octet /\ 92 \in Octet
    BY <2>0 DEF Octet
  <2> DEFINE s1 == <<92>>  s2 == <<92, h>>
  <2>4. s1 \in Seq(Octet) /\ s2 \in Seq(Octet)
    BY <2>2
  <2>5. s2 = Append(s1, h) /\ <<92, h, l>> = Append(s2, l)
    OBVIOUS
  <2>6. URun(U(b), s1) = [b |-> b, open |-> <<92>>]
    BY <2>2, UType, UnescapedCases, URunOne
  <2> DEFINE p1 == [b |-> b, open |-> <<92>>]  p2 == [b |-> b, open |-> <<92, h>>]
  <2>b. p1 \in UState /\ p2 \in UState
    BY <2>4, Zenon DEF UState
  <2>c. p1.open = s1 /\ p2.open = s2 /\ p1.b = b /\ p2.b = b
    OBVIOUS
  <2>d. Len(s1) = 1 /\ Len(s2) > 1 /\ s2[2] = h
    OBVIOUS
  <2>7. Len(p1.open) = 1 /\ Len(p2.open) > 1 /\ p2.open[2] = h
        /\ p1.b = b /\ p2.b = b /\ Append(p1.open, h) = s2
    BY <2>c, <2>d, <2>5, Zenon
  <2>a. p2 = [b |-> b, open |-> s2]
    OBVIOUS
  <2> HIDE DEF s1, s2, p1, p2
  <2>8. Unescaped(p1, h) = p2
    <3>1. Unescaped(p1, h) = [b |-> p1.b, open |-> Append(p1.open, h)]
      BY <2>2, <2>b, <2>7, UnescapedCases, Zenon
    <3> QED
      BY <3>1, <2>7, <2>a, Zenon
  <2>9. Unescaped(p2, l) = [b |-> Append(b, c), open |-> <<>>]
    <3>1. Unescaped(p2, l) = [b |-> Append(p2.b, Escaped(p2.open[2], l)), open |-> <<>>]
      BY <2>2, <2>b, <2>7, UnescapedCases, Zenon
    <3> QED
      BY <3>1, <2>3, <2>7, Zenon
  <2>10. URun(U(b), s2) = p2
    BY <2>2, <2>4, <2>5, <2>6, <2>8, UType, URunAppend DEF p1
  <2>11. URun(U(b), Append(s2, l)) = [b |-> Append(b, c), open |-> <<>>]
    BY <2>2, <2>4, <2>9, <2>10, UType, URunAppend
  <2> QED
    BY <2>1, <2>5, <2>11 DEF U
<1> QED
  BY <1>1, <1>2

\* unescape undoes escape.
LEMMA URunEscape ==
    \A b \in Seq(Octet) : URun(U(<<>>), Mapped(EscStr, b)) = U(b)
<1> DEFINE S == {b \in Seq(Octet) : URun(U(<<>>), Mapped(EscStr, b)) = U(b)}
<1> DEFINE u == U(<<>>)
<1>a. <<>> \in Seq(Octet)
  OBVIOUS
<1>0. u \in UState /\ <<>> \in Seq(Octet)
  BY <1>a, UType, Zenon
<1> HIDE DEF u
<1>1. <<>> \in S
  <2>1. Mapped(EscStr, <<>>) = <<>>
    BY MappedEmpty
  <2>2. URun(u, <<>>) = u
    BY <1>0, URunEmpty
  <2> QED
    BY <1>0, <2>1, <2>2 DEF u
<1>2. ASSUME NEW b \in Seq(Octet), NEW c \in Octet, b \in S PROVE Append(b, c) \in S
  <2> DEFINE m == Mapped(EscStr, b)  x == EscStr[c]
  <2>1. Mapped(EscStr, Append(b, c)) = m \o x
    BY EscStrIsEsc, MappedAppend, SMT
  <2>2. m \in Seq(43 .. 126) /\ x \in Seq(43 .. 126)
    BY EscStrIsEsc, EscStrShape, MappedType
  <2>3. URun(u, m) = U(b)
    BY <1>2 DEF u
  <2>4. URun(U(b), x) = U(Append(b, c))
    BY UChunk
  <2> HIDE DEF m, x
  <2>5. m \in Seq(Octet) /\ x \in Seq(Octet)
    <3>1. 43 .. 126 \subseteq Octet
      BY DEF Octet
    <3> QED
      BY <3>1, <2>2, SeqMonotonic
  <2>6. URun(u, m \o x) = URun(URun(u, m), x)
    BY <1>0, <2>5, URunConcat, SMT
  <2>7. Append(b, c) \in Seq(Octet)
    OBVIOUS
  <2> QED
    BY <2>1, <2>3, <2>4, <2>6, <2>7 DEF u
<1>3. \A b \in Seq(Octet) : b \in S
  <2> HIDE DEF S
  <2> QED
    BY <1>1, <1>2, SeqInduct
<1> QED
  BY <1>3

\* What has been decoded stays a beginning of what is decoded later.
LEMMA URunGrows ==
    ASSUME NEW p \in UState
    PROVE  \A s \in Seq(Octet) : \E x \in Seq(Octet) : URun(p, s).b = p.b \o x
<1> DEFINE S == {s \in Seq(Octet) : \E x \in Seq(Octet) : URun(p, s).b = p.b \o x}
<1>0. p.b \in Seq(Octet)
  BY DEF UState
<1>1. <<>> \in S
  <2>1. URun(p, <<>>) = p
    BY URunEmpty
  <2> DEFINE b == p.b
  <2>2. <<>> \in Seq(Octet)
    OBVIOUS
  <2>3. b \o <<>> = b
    <3>1. b \in Seq(Octet)
      BY <1>0
    <3> HIDE DEF b
    <3> QED
      BY <3>1
  <2> QED
    BY <2>1, <2>2, <2>3
<1>2. ASSUME NEW s \in Seq(Octet), NEW c \in Octet, s \in S PROVE Append(s, c) \in S
  <2>1. PICK x \in Seq(Octet) : URun(p, s).b = p.b \o x
    BY <1>2
  <2> DEFINE q == URun(p, s)  b == p.b
  <2>2. q \in UState
    BY URunType
  <2>3. URun(p, Append(s, c)) = Unescaped(q, c)
    BY URunAppend
  <2>a. Append(s, c) \in Seq(Octet) /\ b \in Seq(Octet) /\ q.b = b \o x
    BY <1>0, <2>1
  <2> HIDE DEF q, b
  <2>4. CASE Unescaped(q, c).b = q.b
    <3>1. URun(p, Append(s, c)).b = b \o x
      BY <2>3, <2>4, <2>a
    <3> QED
      BY <3>1, <2>a DEF b
  <2>5. ASSUME NEW y \in Octet, Unescaped(q, c).b = Append(q.b, y) PROVE Append(s, c) \in S
    <3>1. Append(b \o x, y) = b \o Append(x, y) /\ Append(x, y) \in Seq(Octet)
      <4>1. Append(b \o x, y) = b \o Append(x, y)
        <5>1. b \in Seq(Octet)
          BY <2>a
        <5> QED
          BY <5>1, OctetAppend, Zenon
      <4>2. Append(x, y) \in Seq(Octet)
        OBVIOUS
      <4> QED
        BY <4>1, <4>2
    <3>2. URun(p, Append(s, c)).b = b \o Append(x, y)
      BY <2>3, <2>5, <2>a, <3>1
    <3> QED
      BY <3>1, <3>2, <2>a DEF b
  <2> QED
    BY <2>2, <2>4, <2>5, UnescapedGrows
<1>3. \A s \in Seq(Octet) : s \in S
  <2> HIDE DEF S
  <2> QED
    BY <1>1, <1>2, SeqInduct
<1> QED
  BY <1>3

\* A sequence begins every concatenation it is first in.
LEMMA PrefixOfConcat ==
    ASSUME NEW S, NEW s \in Seq(S), NEW t \in Seq(S)
    PROVE  IsPrefix(s, s \o t)
BY DEF IsPrefix

\* A sequence is its beginning and a rest.
LEMMA Cut ==
    ASSUME NEW S, NEW s \in Seq(S), NEW n \in 0 .. Len(s)
    PROVE  \E t \in Seq(S) : s = SubSeq(s, 1, n) \o t
<1> DEFINE t == SubSeq(s, n + 1, Len(s))
<1>1. t \in Seq(S)
  OBVIOUS
<1>2. s = SubSeq(s, 1, n) \o t
  <2>0. Len(s) \in Nat /\ 1 \in 1 .. Len(s) + 1 /\ n \in 1 - 1 .. Len(s) /\ Len(s) \in n .. Len(s)
    OBVIOUS
  <2>1. SubSeq(s, 1, n) \o SubSeq(s, n + 1, Len(s)) = SubSeq(s, 1, Len(s))
    BY <2>0, ConcatAdjacentSubSeq
  <2> QED
    BY <2>1, SubSeqFull
<1> QED
  BY <1>1, <1>2

\* An escaped byte string is printable, unescapes to itself, and cut anywhere
\* to a beginning of itself.
LEMMA EscapeRoundTrip ==
    ASSUME NEW b \in Seq(Octet)
    PROVE  LET text == escape(b)
           IN  /\ \A i \in DOMAIN text : text[i] \in 43 .. 126
               /\ unescape(text) = b
               /\ \A n \in DOMAIN text : IsPrefix(unescape(SubSeq(text, 1, n)), b)
<1> DEFINE text == escape(b)  u == U(<<>>)
<1>1. text = Mapped(EscStr, b)
  BY EscapeIs
<1>2. text \in Seq(43 .. 126)
  BY <1>1, EscStrIsEsc, MappedType
<1>3. URun(u, text) = U(b)
  BY <1>1, URunEscape
<1>a. <<>> \in Seq(Octet)
  OBVIOUS
<1>4. u \in UState
  BY <1>a, UType, Zenon
<1> HIDE DEF text, u
<1>5. text \in Seq(Octet)
  <2>1. 43 .. 126 \subseteq Octet
    BY DEF Octet
  <2> QED
    BY <2>1, <1>2, SeqMonotonic
<1>6. \A s \in Seq(Octet) : unescape(s) = URun(u, s).b
  BY UnescapeIs DEF URun, u
<1>7. unescape(text) = b
  BY <1>3, <1>5, <1>6, UType
<1>8. ASSUME NEW n \in DOMAIN text PROVE IsPrefix(unescape(SubSeq(text, 1, n)), b)
  <2> DEFINE s == SubSeq(text, 1, n)
  <2>1. n \in 0 .. Len(text)
    BY <1>5
  <2>2. s \in Seq(Octet)
    BY <1>5, <2>1
  <2>3. PICK t \in Seq(Octet) : text = s \o t
    BY <1>5, <2>1, Cut
  <2> HIDE DEF s
  <2> DEFINE q == URun(u, s)
  <2>4. q \in UState
    BY <1>4, <2>2, URunType
  <2>5. URun(u, s \o t) = URun(q, t)
    BY <1>4, <2>2, URunConcat
  <2>6. unescape(s) = q.b
    BY <1>6, <2>2
  <2> HIDE DEF q
  <2>7. PICK x \in Seq(Octet) : URun(q, t).b = q.b \o x
    BY <2>4, URunGrows
  <2>8. b = q.b \o x
    BY <1>3, <2>3, <2>5, <2>7, UType
  <2>9. q.b \in Seq(Octet)
    BY <2>4 DEF UState
  <2>10. IsPrefix(q.b, q.b \o x)
    BY <2>9, PrefixOfConcat
  <2> QED
    BY <2>6, <2>8, <2>10 DEF s
<1>9. \A i \in DOMAIN text : text[i] \in 43 .. 126
  BY <1>2, LenProperties, ElementOfSeq, Zenon
<1> QED
  BY <1>7, <1>8, <1>9 DEF text

-----------------------------------------------------------------------------
\* hex.rs.

\* Hex digits, and the text filtered for them.
HexText == {c \in Octet : IsHex(c)}
SelHex == [c \in Octet |-> IF IsHex(c) THEN <<c>> ELSE <<>>]

\* Selecting a digit is a replacement.
LEMMA SelHexIs == IsEsc(SelHex, Octet, Octet)
<1>1. \A c \in Octet : <<c>> \in Seq(Octet) /\ <<>> \in Seq(Octet)
  OBVIOUS
<1> QED
  BY <1>1, Zenon DEF SelHex, IsEsc

\* The filter of hex::from_string as a replacement.
LEMMA SelectedIs ==
    ASSUME NEW s \in Seq(Octet)
    PROVE  Selected(s, IsHex) = Mapped(SelHex, s)
<1>1. \A i \in DOMAIN s : s[i] \in Octet
  OBVIOUS
<1>2. \A i \in DOMAIN s : SelHex[s[i]] = IF IsHex(s[i]) THEN <<s[i]>> ELSE <<>>
  BY <1>1, Zenon DEF SelHex
<1>3. [i \in DOMAIN s |-> SelHex[s[i]]] = [i \in DOMAIN s |-> IF IsHex(s[i]) THEN <<s[i]>> ELSE <<>>]
  BY <1>2, Zenon
<1> QED
  BY <1>3, Zenon DEF Selected, Mapped

\* Digits are bytes.
LEMMA HexTextIs == HexText \subseteq Octet
BY DEF HexText

\* Text that is digits only is selected as it is.
LEMMA SelectedAll == \A s \in Seq(HexText) : Mapped(SelHex, s) = s
<1> DEFINE S == {s \in Seq(HexText) : Mapped(SelHex, s) = s}
<1>1. <<>> \in S
  <2>1. <<>> \in Seq(HexText)
    OBVIOUS
  <2> QED
    BY <2>1, MappedEmpty, Zenon
<1>2. ASSUME NEW s \in Seq(HexText), NEW c \in HexText, s \in S PROVE Append(s, c) \in S
  <2>1. s \in Seq(Octet) /\ c \in Octet
    BY HexTextIs, SeqMonotonic
  <2>2. Mapped(SelHex, Append(s, c)) = Mapped(SelHex, s) \o SelHex[c]
    BY <2>1, SelHexIs, MappedAppend, SMT
  <2>3. SelHex[c] = <<c>> /\ Mapped(SelHex, s) = s
    BY <1>2, Zenon DEF SelHex, HexText
  <2>4. s \o <<c>> = Append(s, c) /\ Append(s, c) \in Seq(HexText)
    OBVIOUS
  <2> QED
    BY <2>2, <2>3, <2>4, Zenon
<1>3. \A s \in Seq(HexText) : s \in S
  <2> HIDE DEF S
  <2> QED
    BY <1>1, <1>2, SeqInduct
<1> QED
  BY <1>3

\* Digits as to_string writes them, and separated in upper case.
LowerText == 48 .. 57 \cup 97 .. 102
Upper(c) == IF c > 96 THEN c - 32 ELSE c
SepHex == [c \in Octet |-> <<58, Upper(c)>>]

\* A lower-case digit, its upper-case form and their value.
LEMMA LowerIs ==
    ASSUME NEW c \in LowerText
    PROVE  /\ c \in HexText /\ Upper(c) \in HexText /\ Upper(c) \in Octet /\ HexValue(Upper(c)) = HexValue(c)
           /\ c \in Octet
BY DEF LowerText, HexText, Octet, IsHex, Upper, HexValue

\* Separating is a replacement.
LEMMA SepHexIs == IsEsc(SepHex, Octet, Octet)
<1>1. ASSUME NEW c \in Octet PROVE <<58, Upper(c)>> \in Seq(Octet)
  <2>1. 58 \in Octet /\ Upper(c) \in Octet
    BY DEF Octet, Upper
  <2> QED
    BY <2>1
<1> QED
  BY <1>1, Zenon DEF SepHex, IsEsc

\* Separated replaces every character.
LEMMA SeparatedIs ==
    ASSUME NEW s \in Seq(Octet)
    PROVE  Separated(s) = Mapped(SepHex, s)
<1>1. \A i \in DOMAIN s : s[i] \in Octet
  OBVIOUS
<1>2. \A i \in DOMAIN s : SepHex[s[i]] = <<58, IF s[i] > 96 THEN s[i] - 32 ELSE s[i]>>
  BY <1>1, Zenon DEF SepHex, Upper
<1>3. [i \in DOMAIN s |-> SepHex[s[i]]] = [i \in DOMAIN s |-> <<58, IF s[i] > 96 THEN s[i] - 32 ELSE s[i]>>]
  BY <1>2, Zenon
<1> QED
  BY <1>3, Zenon DEF Separated, Mapped

\* Of a separated character the digit is selected, in upper case.
LEMMA SelectedPair ==
    ASSUME NEW c \in LowerText
    PROVE  Mapped(SelHex, SepHex[c]) = <<Upper(c)>>
<1> DEFINE u == Upper(c)
<1>1. u \in HexText /\ u \in Octet /\ c \in Octet /\ 58 \in Octet
  BY LowerIs DEF Octet
<1>2. SepHex[c] = <<58, u>>
  BY <1>1, Zenon DEF SepHex
<1> HIDE DEF u
<1>3. <<58>> \in Seq(Octet) /\ <<58, u>> = Append(<<58>>, u)
  BY <1>1
<1>4. SelHex[58] = <<>>
  BY <1>1 DEF SelHex, IsHex
<1>5. SelHex[u] = <<u>>
  BY <1>1, Zenon DEF SelHex, HexText
<1>6. Mapped(SelHex, <<58>>) = <<>>
  BY <1>1, <1>4, SelHexIs, MappedOne
<1> DEFINE x == <<58>>
<1> HIDE DEF x
<1>7. Mapped(SelHex, Append(x, u)) = Mapped(SelHex, x) \o SelHex[u]
  <2>1. x \in Seq(Octet)
    BY <1>3 DEF x
  <2> QED
    BY <1>1, <2>1, SelHexIs, MappedAppend, SMT
<1>8. <<>> \o <<u>> = <<u>>
  OBVIOUS
<1> QED
  BY <1>2, <1>3, <1>5, <1>6, <1>7, <1>8, Zenon DEF x, u

\* Of a separated text the digits are selected, in upper case.
LEMMA SelectedSeparated ==
    \A s \in Seq(LowerText) : /\ Mapped(SelHex, Mapped(SepHex, s)) \in Seq(Octet)
                              /\ Len(Mapped(SelHex, Mapped(SepHex, s))) = Len(s)
                              /\ \A i \in 1 .. Len(s) : Mapped(SelHex, Mapped(SepHex, s))[i] = Upper(s[i])
<1> DEFINE M(s) == Mapped(SelHex, Mapped(SepHex, s))
<1> DEFINE P(s) == M(s) \in Seq(Octet) /\ Len(M(s)) = Len(s) /\ \A i \in 1 .. Len(s) : M(s)[i] = Upper(s[i])
<1> DEFINE S == {s \in Seq(LowerText) : P(s)}
<1>1. <<>> \in S
  <2>1. M(<<>>) = <<>>
    BY MappedEmpty, Zenon
  <2>2. <<>> \in Seq(LowerText) /\ <<>> \in Seq(Octet) /\ Len(<<>>) = 0 /\ 1 .. 0 = {}
    OBVIOUS
  <2> HIDE DEF M
  <2> QED
    BY <2>1, <2>2
<1>2. ASSUME NEW s \in Seq(LowerText), NEW c \in LowerText, s \in S PROVE Append(s, c) \in S
  <2>0. LowerText \subseteq Octet
    BY LowerIs
  <2>1. s \in Seq(Octet) /\ c \in Octet /\ Append(s, c) \in Seq(LowerText)
    BY <2>0, SeqMonotonic
  <2> DEFINE m == Mapped(SepHex, s)  x == SepHex[c]  u == Upper(c)  k == M(s)
  <2>2. Mapped(SepHex, Append(s, c)) = m \o x
    BY <2>1, SepHexIs, MappedAppend, SMT
  <2>3. m \in Seq(Octet)
    BY <2>1, SepHexIs, MappedType
  <2>4. x \in Seq(Octet)
    BY <2>1, SepHexIs DEF IsEsc
  <2>5. Mapped(SelHex, x) = <<u>> /\ u \in Octet
    BY SelectedPair, LowerIs
  <2>6. Mapped(SelHex, m) = k
    OBVIOUS
  <2>7. k \in Seq(Octet) /\ Len(k) = Len(s) /\ \A i \in 1 .. Len(s) : k[i] = Upper(s[i])
    BY <1>2
  <2>8. M(Append(s, c)) = Mapped(SelHex, m \o x)
    BY <2>2, Zenon
  <2>9. Mapped(SelHex, m \o x) = Mapped(SelHex, m) \o Mapped(SelHex, x)
    <3> HIDE DEF m, x
    <3> QED
      BY <2>3, <2>4, SelHexIs, MappedConcat, SMT
  <2> DEFINE t == Append(s, c)  v == k \o <<u>>
  <2>10. Len(s) \in Nat /\ Len(t) = Len(s) + 1 /\ t[Len(s) + 1] = c /\ \A i \in 1 .. Len(s) : t[i] = s[i]
    OBVIOUS
  <2>11. M(t) = v
    BY <2>5, <2>6, <2>8, <2>9, Zenon
  <2> HIDE DEF M, k, u, t, m, x
  <2>12. v \in Seq(Octet) /\ Len(v) = Len(k) + 1 /\ v[Len(k) + 1] = u /\ \A i \in 1 .. Len(k) : v[i] = k[i]
    BY <2>5, <2>7
  <2> HIDE DEF v
  <2>13. ASSUME NEW i \in 1 .. Len(t) PROVE v[i] = Upper(t[i])
    <3>1. CASE i = Len(s) + 1
      BY <3>1, <2>7, <2>10, <2>12 DEF u
    <3>2. CASE i # Len(s) + 1
      <4>1. i \in 1 .. Len(s)
        BY <3>2, <2>10
      <4> QED
        BY <4>1, <2>7, <2>10, <2>12
    <3> QED
      BY <3>1, <3>2
  <2>14. P(t)
    BY <2>7, <2>10, <2>11, <2>12, <2>13
  <2> QED
    BY <2>1, <2>14 DEF t
<1>3. \A s \in Seq(LowerText) : s \in S
  <2> HIDE DEF S
  <2> QED
    BY <1>1, <1>2, SeqInduct
<1> QED
  BY <1>3

\* The digit at a place of hex text.
Nibble(b, i) == IF i % 2 = 1 THEN b[(i + 1) \div 2] \div 16 ELSE b[(i + 1) \div 2] % 16

\* The place of a byte and of its two digits.
LEMMA Halves ==
    /\ \A n \in Nat : \A i \in 1 .. (2 * n) : (i + 1) \div 2 \in 1 .. n
    /\ \A i \in Nat : ((2 * i - 1) + 1) \div 2 = i /\ (2 * i + 1) \div 2 = i
                      /\ (2 * i) % 2 # 1 /\ (2 * i) \div 2 = i
    /\ \A i \in Nat \ {0} : (2 * i - 1) % 2 = 1
    /\ \A i \in Nat : 2 * (i \div 2) \in 0 .. i /\ i \div 2 \in Nat
                      /\ (2 * (i \div 2)) \div 2 = i \div 2
    /\ \A i \in Nat : 2 * (i \div 2) = IF i % 2 = 0 THEN i ELSE i - 1
OBVIOUS

\* hex::to_string writes the digits of the bytes in order.
LEMMA ToStringIs ==
    ASSUME NEW b \in Seq(Octet)
    PROVE  /\ to_string(b) \in Seq(LowerText) /\ Len(to_string(b)) = 2 * Len(b)
           /\ \A i \in 1 .. (2 * Len(b)) : to_string(b)[i] = HEX_CHARS(Nibble(b, i)) /\ Nibble(b, i) \in 0 .. 15
<1> DEFINE n == Len(b)  t == to_string(b)
<1>0. n \in Nat /\ 2 * n \in Nat
  OBVIOUS
<1>1. t = [i \in 1 .. (2 * n) |-> HEX_CHARS(Nibble(b, i))]
  BY Zenon DEF to_string, Nibble
<1>2. ASSUME NEW i \in 1 .. (2 * n) PROVE Nibble(b, i) \in 0 .. 15
  <2> DEFINE j == (i + 1) \div 2
  <2>1. j \in 1 .. n
    BY <1>0, Halves
  <2>2. b[j] \in Octet
    BY <2>1
  <2>3. b[j] \div 16 \in 0 .. 15 /\ b[j] % 16 \in 0 .. 15
    BY <2>2, ByteNibbles
  <2> QED
    BY <2>3, Zenon DEF Nibble
<1>3. \A x \in 0 .. 15 : HEX_CHARS(x) \in LowerText
  BY HexChars DEF LowerText
<1>4. \A i \in 1 .. (2 * n) : HEX_CHARS(Nibble(b, i)) \in LowerText
  BY <1>2, <1>3, Zenon
<1>5. [i \in 1 .. (2 * n) |-> HEX_CHARS(Nibble(b, i))] \in [1 .. (2 * n) -> LowerText]
  BY <1>4, Zenon
<1> HIDE DEF t, n
<1>6. t \in [1 .. (2 * n) -> LowerText]
  BY <1>1, <1>5, Zenon
<1>7. t \in Seq(LowerText) /\ Len(t) = 2 * n
  BY <1>6, <1>0
<1>8. \A i \in 1 .. (2 * n) : t[i] = HEX_CHARS(Nibble(b, i))
  BY <1>1, Zenon
<1> QED
  BY <1>2, <1>7, <1>8, Zenon DEF t, n

\* A hex digit, as its value.
Digit == 0 .. 15

\* The paired digits of a text whose digits are known.
LEMMA PairedIs ==
    ASSUME NEW t, NEW d, d = Selected(t, IsHex), NEW k \in Nat, Len(d) = k,
           \A i \in 1 .. k : HexValue(d[i]) \in 0 .. 15
    PROVE  /\ PairedDigits(t) \in Seq(Digit) /\ Len(PairedDigits(t)) = 2 * (k \div 2)
           /\ \A i \in 1 .. (2 * (k \div 2)) : PairedDigits(t)[i] = HexValue(d[i])
<1> DEFINE m == 2 * (k \div 2)  p == PairedDigits(t)
<1>1. m \in Nat /\ \A i \in 1 .. m : i \in 1 .. k
  BY Halves
<1>2. p = [i \in 1 .. m |-> HexValue(d[i])]
  BY Zenon DEF PairedDigits
<1>3. \A i \in 1 .. m : HexValue(d[i]) \in 0 .. 15
  BY <1>1, Zenon
<1>4. [i \in 1 .. m |-> HexValue(d[i])] \in [1 .. m -> Digit]
  BY <1>3, Zenon DEF Digit
<1> HIDE DEF m, p
<1>5. p \in [1 .. m -> Digit]
  BY <1>2, <1>4, Zenon
<1>6. p \in Seq(Digit) /\ Len(p) = m
  BY <1>1, <1>5
<1>7. \A i \in 1 .. m : p[i] = HexValue(d[i])
  BY <1>2, Zenon
<1> QED
  BY <1>6, <1>7, Zenon DEF m, p

\* Two digits to a byte.
LEMMA FromDigits ==
    ASSUME NEW b \in Seq(Octet), NEW t, NEW d, d = Selected(t, IsHex), Len(d) = 2 * Len(b),
           \A i \in 1 .. (2 * Len(b)) : HexValue(d[i]) = Nibble(b, i) /\ Nibble(b, i) \in 0 .. 15
    PROVE  from_string(t) = b
<1> DEFINE n == Len(b)  p == PairedDigits(t)  k == 2 * n
<1>0. n \in Nat /\ k \in Nat /\ 2 * (k \div 2) = k /\ k \div 2 = n
  <2>1. n \in Nat
    OBVIOUS
  <2> HIDE DEF n
  <2> QED
    BY <2>1, Halves
<1>1. \A i \in 1 .. k : HexValue(d[i]) \in 0 .. 15
  BY Zenon
<1>2. Len(d) = k
  OBVIOUS
<1> HIDE DEF n, k
<1>3. /\ p \in Seq(Digit) /\ Len(p) = 2 * (k \div 2)
      /\ \A i \in 1 .. (2 * (k \div 2)) : p[i] = HexValue(d[i])
  BY <1>0, <1>1, <1>2, PairedIs, Zenon
<1>4. Len(p) = k /\ \A i \in 1 .. k : p[i] = Nibble(b, i)
  BY <1>0, <1>3, Zenon DEF k, n
<1>5. from_string(t) = [i \in 1 .. (Len(p) \div 2) |-> 16 * p[2 * i - 1] + p[2 * i]]
  BY Zenon DEF from_string
<1> HIDE DEF p
<1>6. ASSUME NEW i \in 1 .. n PROVE 16 * p[2 * i - 1] + p[2 * i] = b[i]
  <2>1. 2 * i - 1 \in 1 .. k /\ 2 * i \in 1 .. k /\ i \in Nat \ {0} /\ i \in Nat
    BY <1>0 DEF k
  <2>2. p[2 * i - 1] = Nibble(b, 2 * i - 1) /\ p[2 * i] = Nibble(b, 2 * i)
    BY <1>4, <2>1, Zenon
  <2>3. ((2 * i - 1) + 1) \div 2 = i /\ (2 * i + 1) \div 2 = i /\ (2 * i) % 2 # 1 /\ (2 * i - 1) % 2 = 1
    BY <2>1, Halves
  <2>4. Nibble(b, 2 * i - 1) = b[i] \div 16
    BY <2>3, Zenon DEF Nibble
  <2>5. Nibble(b, 2 * i) = b[i] % 16
    BY <2>3, Zenon DEF Nibble
  <2>6. b[i] \in Octet
    BY DEF n
  <2>7. 16 * (b[i] \div 16) + (b[i] % 16) = b[i]
    BY <2>6, ByteNibbles
  <2> QED
    BY <2>2, <2>4, <2>5, <2>7, Zenon
<1>7. from_string(t) = [i \in 1 .. n |-> 16 * p[2 * i - 1] + p[2 * i]]
  BY <1>0, <1>4, <1>5
<1>8. [i \in 1 .. n |-> 16 * p[2 * i - 1] + p[2 * i]] = [i \in 1 .. n |-> b[i]]
  BY <1>6, Zenon
<1>9. [i \in 1 .. n |-> b[i]] = b
  BY DEF n
<1> QED
  BY <1>7, <1>8, <1>9

\* Hex text of any byte string decodes to it, also with separators.
LEMMA HexRoundTrip ==
    ASSUME NEW b \in Seq(Octet)
    PROVE  from_string(to_string(b)) = b /\ from_string(Separated(to_string(b))) = b
<1> DEFINE t == to_string(b)  n == Len(b)
<1>1. t \in Seq(LowerText) /\ Len(t) = 2 * n
  BY ToStringIs
<1>2. \A i \in 1 .. (2 * n) : t[i] = HEX_CHARS(Nibble(b, i)) /\ Nibble(b, i) \in 0 .. 15
  BY ToStringIs
<1>3. LowerText \subseteq HexText /\ LowerText \subseteq Octet
  BY LowerIs
<1> HIDE DEF t
<1>4. t \in Seq(HexText) /\ t \in Seq(Octet)
  BY <1>1, <1>3, SeqMonotonic
<1>5. \A i \in 1 .. (2 * n) : HexValue(t[i]) = Nibble(b, i)
  BY <1>2, HexChars
<1>6. from_string(t) = b
  <2>1. t = Selected(t, IsHex)
    BY <1>4, SelectedAll, SelectedIs, Zenon
  <2> QED
    BY <2>1, <1>1, <1>2, <1>5, FromDigits, Zenon
<1>7. from_string(Separated(t)) = b
  <2> DEFINE m == Mapped(SepHex, t)  d == Mapped(SelHex, m)
  <2>1. Separated(t) = m
    BY <1>4, SeparatedIs
  <2>2. m \in Seq(Octet)
    BY <1>4, SepHexIs, MappedType
  <2>3. d \in Seq(Octet) /\ Len(d) = Len(t) /\ \A i \in 1 .. Len(t) : d[i] = Upper(t[i])
    BY <1>1, SelectedSeparated
  <2>4. d = Selected(m, IsHex)
    <3> HIDE DEF m
    <3> QED
      BY <2>2, SelectedIs
  <2> HIDE DEF m, d
  <2>5. ASSUME NEW i \in 1 .. (2 * n) PROVE HexValue(d[i]) = Nibble(b, i)
    <3>1. t[i] \in LowerText
      BY <1>1, ElementOfSeq
    <3>2. HexValue(Upper(t[i])) = HexValue(t[i])
      BY <3>1, LowerIs
    <3> QED
      BY <1>1, <1>5, <2>3, <3>2
  <2>6. Len(d) = 2 * n
    BY <1>1, <2>3
  <2>7. from_string(m) = b
    BY <2>4, <2>5, <2>6, <1>2, FromDigits, Zenon
  <2> QED
    BY <2>1, <2>7
<1> QED
  BY <1>6, <1>7 DEF t

\* A u64, as its digits.
Word64 == [1 .. WordNibbles -> Digit]

\* The first digit that is not zero, or the end.
FirstDigit(n, z) ==
    /\ z \in 1 .. (WordNibbles + 1)
    /\ \A j \in 1 .. (z - 1) : n[j] = 0
    /\ z <= WordNibbles => n[z] # 0

\* Significant starts at the first digit that is not zero.
LEMMA SignificantIs ==
    ASSUME NEW n \in Word64
    PROVE  \E z : FirstDigit(n, z) /\ Significant(n) = SubSeq(n, z, WordNibbles)
<1> DEFINE T == {i \in 1 .. 17 : i <= 16 => n[i] # 0}
<1>1. T \subseteq Nat /\ 17 \in T
  OBVIOUS
<1>2. PICK z \in T : \A y \in T : z <= y
  <2> HIDE DEF T
  <2> QED
    BY <1>1, LeastElement
<1>3. z \in 1 .. 17 /\ (z <= 16 => n[z] # 0)
  OBVIOUS
<1>4. ASSUME NEW j \in 1 .. (z - 1) PROVE n[j] = 0
  <2>1. j \in 1 .. 17 /\ j <= 16 /\ ~(z <= j)
    BY <1>3
  <2>2. j \notin T
    BY <1>2, <2>1
  <2> QED
    BY <2>1, <2>2
<1> DEFINE Q(i) == (\A j \in 1 .. (i - 1) : n[j] = 0) /\ (i <= WordNibbles => n[i] # 0)
<1> DEFINE w == CHOOSE i \in 1 .. (WordNibbles + 1) : Q(i)
<1>5. z \in 1 .. (WordNibbles + 1) /\ Q(z)
  BY <1>3, <1>4 DEF WordNibbles
<1>6. w \in 1 .. (WordNibbles + 1) /\ Q(w)
  BY <1>5, Zenon
<1>7. Significant(n) = SubSeq(n, w, WordNibbles)
  BY Zenon DEF Significant
<1>8. FirstDigit(n, w)
  BY <1>6, Zenon DEF FirstDigit
<1> QED
  BY <1>7, <1>8

\* A function on 1 .. k is a sequence.
LEMMA FunSeq ==
    ASSUME NEW S, NEW k \in Nat, NEW f \in [1 .. k -> S]
    PROVE  f \in Seq(S) /\ Len(f) = k /\ DOMAIN f = 1 .. k /\ \A i \in 1 .. k : f[i] \in S
OBVIOUS

\* v is the k elements of s from a on.
SubProps(v, S, s, a, k) ==
    v \in Seq(S) /\ Len(v) = k /\ \A i \in 1 .. k : v[i] = s[a + i - 1]
\* What SubSeq returns.
LEMMA SubIs ==
    ASSUME NEW S, NEW s \in Seq(S), NEW n, n = Len(s), NEW a \in 1 .. (n + 1), NEW b \in (a - 1) .. n,
           NEW k, k = b - a + 1
    PROVE  SubProps(SubSeq(s, a, b), S, s, a, k)
BY DEF SubProps

\* Digits as text.
DigitText(g) == [i \in DOMAIN g |-> HEX_CHARS(g[i])]

\* The text of digits is hex text of their number and values.
LEMMA DigitTextIs ==
    ASSUME NEW g \in Seq(Digit)
    PROVE  /\ DigitText(g) \in Seq(HexText) /\ Len(DigitText(g)) = Len(g)
           /\ \A i \in 1 .. Len(g) : HexValue(DigitText(g)[i]) = g[i]
           /\ \A i \in 1 .. Len(g) : DigitText(g)[i] = HEX_CHARS(g[i])
<1> DEFINE k == Len(g)  v == DigitText(g)
<1>1. k \in Nat /\ DOMAIN g = 1 .. k /\ \A i \in 1 .. k : g[i] \in Digit
  OBVIOUS
<1>2. v = [i \in 1 .. k |-> HEX_CHARS(g[i])]
  BY <1>1, Zenon DEF DigitText
<1>3. \A x \in Digit : HEX_CHARS(x) \in HexText
  <2>1. 48 .. 102 \subseteq Octet
    BY DEF Octet
  <2>2. \A x \in Digit : HEX_CHARS(x) \in 48 .. 102 /\ IsHex(HEX_CHARS(x))
    BY HexChars, HexRange, Zenon DEF Digit
  <2> QED
    BY <2>1, <2>2, Zenon DEF HexText
<1>4. \A i \in 1 .. k : HEX_CHARS(g[i]) \in HexText
  BY <1>1, <1>3, Zenon
<1>5. [i \in 1 .. k |-> HEX_CHARS(g[i])] \in [1 .. k -> HexText]
  BY <1>4, Zenon
<1> HIDE DEF v, k
<1>6. v \in [1 .. k -> HexText]
  BY <1>2, <1>5, Zenon
<1>7. v \in Seq(HexText) /\ Len(v) = k
  BY <1>1, <1>6
<1>8. \A i \in 1 .. k : v[i] = HEX_CHARS(g[i])
  BY <1>2, Zenon
<1>9. \A x \in Digit : HexValue(HEX_CHARS(x)) = x
  BY HexChars, Zenon DEF Digit
<1>10. \A i \in 1 .. k : HexValue(v[i]) = g[i]
  BY <1>1, <1>8, <1>9, Zenon
<1> QED
  BY <1>7, <1>8, <1>10, Zenon DEF v, k

\* A zero word.
LEMMA ZeroIs == Zero \in Seq(Digit) /\ Len(Zero) = 16 /\ \A i \in 1 .. 16 : Zero[i] = 0
<1>1. 0 \in Digit
  BY DEF Digit
<1> QED
  BY <1>1 DEF Zero, WordNibbles

\* The digits are shifted in behind a zero word.
LEMMA FromU64 ==
    ASSUME NEW g \in Seq(Digit), NEW m, m = 2 * (Len(g) \div 2)
    PROVE  from_string_u64(DigitText(g)) =
             [j \in 1 .. 16 |-> IF m + j <= 16 THEN 0 ELSE g[m + j - 16]]
<1> DEFINE k == Len(g)  v == DigitText(g)  p == PairedDigits(v)  all == Zero \o p
<1>0. k \in Nat /\ m \in Nat /\ m <= k
  BY Halves
<1>1. v \in Seq(HexText) /\ Len(v) = k /\ \A i \in 1 .. k : HexValue(v[i]) = g[i]
  BY DigitTextIs
<1> HIDE DEF v
<1>2. v \in Seq(Octet)
  BY <1>1, HexTextIs, SeqMonotonic
<1>3. v = Selected(v, IsHex)
  BY <1>1, <1>2, SelectedAll, SelectedIs, Zenon
<1>4. \A i \in 1 .. k : HexValue(v[i]) \in Digit
  BY <1>1, ElementOfSeq, Zenon DEF Digit
<1>5. p \in Seq(Digit) /\ Len(p) = m /\ \A i \in 1 .. m : p[i] = HexValue(v[i])
  <2> HIDE DEF k
  <2>1. /\ p \in Seq(Digit) /\ Len(p) = 2 * (k \div 2)
        /\ \A i \in 1 .. (2 * (k \div 2)) : p[i] = HexValue(v[i])
    BY <1>0, <1>1, <1>3, <1>4, PairedIs, Zenon DEF Digit
  <2> QED
    BY <2>1, Zenon DEF k
<1> HIDE DEF p
<1>6. \A i \in 1 .. m : p[i] = g[i]
  BY <1>0, <1>1, <1>5
<1>7. /\ all \in Seq(Digit) /\ Len(all) = Len(Zero) + Len(p)
      /\ \A i \in 1 .. Len(Zero) + Len(p) : all[i] = IF i <= Len(Zero) THEN Zero[i] ELSE p[i - Len(Zero)]
  BY <1>5, ZeroIs, ConcatProperties, Zenon
<1> HIDE DEF all
<1>8. Len(all) = 16 + m /\ \A i \in 1 .. (16 + m) : all[i] = IF i <= 16 THEN 0 ELSE g[i - 16]
  <2>1. Len(all) = 16 + m /\ \A i \in 1 .. (16 + m) : all[i] = IF i <= 16 THEN Zero[i] ELSE p[i - 16]
    BY <1>7, <1>5, ZeroIs
  <2>2. ASSUME NEW i \in 1 .. (16 + m) PROVE all[i] = IF i <= 16 THEN 0 ELSE g[i - 16]
    <3>1. CASE i <= 16
      <4>1. i \in 1 .. 16
        BY <3>1, <1>0
      <4> QED
        BY <3>1, <4>1, <2>1, ZeroIs, Zenon
    <3>2. CASE ~(i <= 16)
      <4>1. i - 16 \in 1 .. m
        BY <3>2, <1>0
      <4> QED
        BY <3>2, <4>1, <2>1, <1>6
    <3> QED
      BY <3>1, <3>2
  <2> QED
    BY <2>1, <2>2
<1>9. from_string_u64(v) = SubSeq(all, Len(all) - 16 + 1, Len(all))
  BY Zenon DEF from_string_u64, WordNibbles, p, all
<1>10. Len(all) - 16 + 1 = m + 1
  BY <1>8, <1>0
<1> DEFINE w == SubSeq(all, m + 1, 16 + m)
<1>11. w \in Seq(Digit) /\ Len(w) = 16 /\ \A j \in 1 .. 16 : w[j] = all[m + j]
  BY <1>0, <1>7, <1>8
<1>12. from_string_u64(v) = w
  BY <1>8, <1>9, <1>10
<1> HIDE DEF w
<1>13. ASSUME NEW j \in 1 .. 16 PROVE w[j] = IF m + j <= 16 THEN 0 ELSE g[m + j - 16]
  <2>1. m + j \in 1 .. (16 + m)
    BY <1>0
  <2> QED
    <3>1. w[j] = all[m + j]
      BY <1>11, Zenon
    <3>2. all[m + j] = IF m + j <= 16 THEN 0 ELSE g[m + j - 16]
      <4> DEFINE x == m + j
      <4> HIDE DEF x
      <4>1. x \in 1 .. (16 + m)
        BY <2>1 DEF x
      <4>2. all[x] = IF x <= 16 THEN 0 ELSE g[x - 16]
        BY <4>1, <1>8
      <4> QED
        BY <4>2 DEF x
    <3> QED
      BY <3>1, <3>2, Zenon
<1>14. w = [j \in 1 .. 16 |-> w[j]]
  BY <1>11
<1>15. w = [j \in 1 .. 16 |-> IF m + j <= 16 THEN 0 ELSE g[m + j - 16]]
  BY <1>13, <1>14, Zenon
<1> QED
  BY <1>12, <1>15 DEF v

\* A word is a sequence of digits.
LEMMA WordIsSeq ==
    ASSUME NEW n \in Word64
    PROVE  n \in Seq(Digit) /\ Len(n) = 16 /\ DOMAIN n = 1 .. 16 /\ \A i \in 1 .. 16 : n[i] \in Digit
<1>1. n \in [1 .. 16 -> Digit]
  BY Zenon DEF Word64, WordNibbles
<1>2. 16 \in Nat
  OBVIOUS
<1> QED
  BY <1>1, <1>2, FunSeq, Zenon

\* All the digits of a word decode to it.
LEMMA FullWord ==
    ASSUME NEW n \in Word64
    PROVE  from_string_u64(to_vec_u64(n, FALSE)) = n
<1>1. to_vec_u64(n, FALSE) = DigitText(n)
  BY DEF to_vec_u64, DigitText
<1>2. n \in Seq(Digit) /\ Len(n) = 16 /\ 16 = 2 * (16 \div 2)
  BY WordIsSeq
<1>3. 16 = 2 * (Len(n) \div 2)
  BY <1>2
<1>4. from_string_u64(DigitText(n)) = [j \in 1 .. 16 |-> IF 16 + j <= 16 THEN 0 ELSE n[16 + j - 16]]
  BY <1>2, <1>3, FromU64, Zenon
<1>5. \A j \in 1 .. 16 : (IF 16 + j <= 16 THEN 0 ELSE n[16 + j - 16]) = n[j]
  OBVIOUS
<1>6. [j \in 1 .. 16 |-> IF 16 + j <= 16 THEN 0 ELSE n[16 + j - 16]] = [j \in 1 .. 16 |-> n[j]]
  BY <1>5, Zenon
<1>7. [j \in 1 .. 16 |-> n[j]] = n
  BY DEF Word64, WordNibbles
<1> QED
  BY <1>1, <1>4, <1>6, <1>7

\* The digits from the first one on that is not zero.
LEMMA ShortIs ==
    ASSUME NEW n \in Word64
    PROVE  \E z \in 1 .. 17 :
             /\ FirstDigit(n, z)
             /\ to_vec_u64(n, TRUE) = DigitText(SubSeq(n, z, 16))
             /\ SubSeq(n, z, 16) \in Seq(Digit) /\ Len(SubSeq(n, z, 16)) = 17 - z
             /\ \A i \in 1 .. (17 - z) : SubSeq(n, z, 16)[i] = n[z + i - 1]
<1>1. PICK z : FirstDigit(n, z) /\ Significant(n) = SubSeq(n, z, WordNibbles)
  BY SignificantIs
<1>2. z \in 1 .. 17
  BY <1>1 DEF FirstDigit, WordNibbles
<1>3. to_vec_u64(n, TRUE) = DigitText(SubSeq(n, z, 16))
  BY <1>1, Zenon DEF to_vec_u64, DigitText, WordNibbles
<1> DEFINE g == SubSeq(n, z, 16)
<1>4. g \in Seq(Digit) /\ Len(g) = 17 - z /\ \A i \in 1 .. (17 - z) : g[i] = n[z + i - 1]
  <2>1. n \in Seq(Digit) /\ 16 = Len(n)
    BY WordIsSeq, Zenon
  <2>2. z \in 1 .. (16 + 1) /\ 16 \in (z - 1) .. 16 /\ 17 - z = 16 - z + 1
    BY <1>2
  <2>3. SubProps(SubSeq(n, z, 16), Digit, n, z, 17 - z)
    BY <2>1, <2>2, SubIs, Zenon
  <2> QED
    BY <2>3, Zenon DEF SubProps
<1> HIDE DEF g
<1>5. WITNESS z \in 1 .. 17
<1> QED
  BY <1>1, <1>3, <1>4 DEF g

\* Without its leading zeroes a word decodes to itself if an even number of
\* digits is left, and to all but its last digit if not.
LEMMA ShortWord ==
    ASSUME NEW n \in Word64
    PROVE  from_string_u64(to_vec_u64(n, TRUE)) =
             IF Len(to_vec_u64(n, TRUE)) % 2 = 0 THEN n ELSE <<0>> \o Front(n)
<1>1. PICK z \in 1 .. 17 :
         /\ FirstDigit(n, z)
         /\ to_vec_u64(n, TRUE) = DigitText(SubSeq(n, z, 16))
         /\ SubSeq(n, z, 16) \in Seq(Digit) /\ Len(SubSeq(n, z, 16)) = 17 - z
         /\ \A i \in 1 .. (17 - z) : SubSeq(n, z, 16)[i] = n[z + i - 1]
  BY ShortIs
<1> DEFINE g == SubSeq(n, z, 16)  k == 17 - z  m == 2 * (k \div 2)
<1>2. g \in Seq(Digit) /\ Len(g) = k /\ \A i \in 1 .. k : g[i] = n[z + i - 1]
  BY <1>1
<1>3. to_vec_u64(n, TRUE) = DigitText(g)
  BY <1>1
<1>4. \A j \in 1 .. (z - 1) : n[j] = 0
  BY <1>1 DEF FirstDigit
<1>5. k \in Nat /\ k = 17 - z
  OBVIOUS
<1> HIDE DEF g, k
<1>6. Len(DigitText(g)) = k
  BY <1>2, DigitTextIs
<1>7. from_string_u64(DigitText(g)) = [j \in 1 .. 16 |-> IF m + j <= 16 THEN 0 ELSE g[m + j - 16]]
  BY <1>2, FromU64
<1>8. m = IF k % 2 = 0 THEN k ELSE k - 1
  BY <1>5, Halves
<1> HIDE DEF m
<1>9. CASE k % 2 = 0
  <2>1. ASSUME NEW j \in 1 .. 16 PROVE (IF m + j <= 16 THEN 0 ELSE g[m + j - 16]) = n[j]
    <3>1. m = 17 - z
      BY <1>8, <1>9, <1>5
    <3>2. CASE m + j <= 16
      <4>1. j \in 1 .. (z - 1)
        BY <3>1, <3>2
      <4> QED
        BY <3>2, <4>1, <1>4
    <3>3. CASE ~(m + j <= 16)
      <4>1. m + j - 16 \in 1 .. k /\ z + (m + j - 16) - 1 = j
        BY <3>1, <3>3, <1>5
      <4>2. g[m + j - 16] = n[j]
        BY <4>1, <1>2
      <4> QED
        BY <3>3, <4>2
    <3> QED
      BY <3>2, <3>3
  <2>2. [j \in 1 .. 16 |-> IF m + j <= 16 THEN 0 ELSE g[m + j - 16]] = [j \in 1 .. 16 |-> n[j]]
    BY <2>1, Zenon
  <2>3. [j \in 1 .. 16 |-> n[j]] = n
    BY DEF Word64, WordNibbles
  <2> QED
    BY <1>3, <1>6, <1>7, <1>9, <2>2, <2>3
<1>10. CASE k % 2 # 0
  <2> DEFINE f == Front(n)  w == <<0>> \o f  o == <<0>>
  <2>1. f \in Seq(Digit) /\ Len(f) = 15 /\ \A i \in 1 .. 15 : f[i] = n[i]
    <3>1. n \in Seq(Digit) /\ 16 = Len(n) /\ \A i \in 1 .. 16 : n[i] \in Digit
      BY WordIsSeq, Zenon
    <3>2. 16 - 1 = 15 /\ 1 \in 1 .. (16 + 1) /\ 15 \in (1 - 1) .. 16 /\ 15 = 15 - 1 + 1
      OBVIOUS
    <3>3. f = SubSeq(n, 1, 15)
      BY <3>1, <3>2, Zenon DEF Front
    <3>4. Len(f) = 15 /\ f \in Seq(Digit) /\ \A i \in 1 .. 15 : f[i] = n[1 + i - 1]
      <4>1. SubProps(SubSeq(n, 1, 15), Digit, n, 1, 15)
        BY <3>1, <3>2, SubIs, Zenon
      <4> QED
        BY <3>3, <4>1, Zenon DEF SubProps
    <3>5. \A i \in 1 .. 15 : 1 + i - 1 = i
      OBVIOUS
    <3> QED
      BY <3>4, <3>5, Zenon
  <2>2. o \in Seq(Digit) /\ Len(o) = 1 /\ o[1] = 0
    BY DEF Digit
  <2> HIDE DEF f, o
  <2>3. /\ o \o f \in Seq(Digit) /\ Len(o \o f) = Len(o) + Len(f)
        /\ \A i \in 1 .. Len(o) + Len(f) : (o \o f)[i] = IF i <= Len(o) THEN o[i] ELSE f[i - Len(o)]
    BY <2>1, <2>2, ConcatProperties, Zenon
  <2>4. w = o \o f
    BY DEF o
  <2> HIDE DEF w
  <2>5. w \in Seq(Digit) /\ Len(w) = 16 /\ w[1] = 0 /\ \A i \in 2 .. 16 : w[i] = n[i - 1]
    <3>0. 1 + 15 = 16
      OBVIOUS
    <3>1. w \in Seq(Digit) /\ Len(w) = 16 /\ \A i \in 1 .. 16 : w[i] = IF i <= 1 THEN o[i] ELSE f[i - 1]
      BY <3>0, <2>1, <2>2, <2>3, <2>4, Zenon
    <3> QED
      BY <3>1, <2>1, <2>2
  <2>6. ASSUME NEW j \in 1 .. 16 PROVE (IF m + j <= 16 THEN 0 ELSE g[m + j - 16]) = w[j]
    <3>1. m = 16 - z
      BY <1>8, <1>10, <1>5
    <3>2. CASE m + j <= 16
      <4>1. j = 1 \/ (j \in 2 .. 16 /\ j - 1 \in 1 .. (z - 1))
        BY <3>1, <3>2
      <4> QED
        BY <3>2, <4>1, <1>4, <2>5
    <3>3. CASE ~(m + j <= 16)
      <4>1. m + j - 16 \in 1 .. k /\ z + (m + j - 16) - 1 = j - 1 /\ j \in 2 .. 16
        BY <3>1, <3>3, <1>5
      <4>2. g[m + j - 16] = n[j - 1]
        BY <4>1, <1>2
      <4> QED
        BY <3>3, <4>1, <4>2, <2>5
    <3> QED
      BY <3>2, <3>3
  <2>7. [j \in 1 .. 16 |-> IF m + j <= 16 THEN 0 ELSE g[m + j - 16]] = [j \in 1 .. 16 |-> w[j]]
    BY <2>6, Zenon
  <2>8. [j \in 1 .. 16 |-> w[j]] = w
    BY <2>5
  <2> QED
    BY <1>3, <1>6, <1>7, <1>10, <2>7, <2>8 DEF w, f
<1> QED
  BY <1>9, <1>10

-----------------------------------------------------------------------------
\* dictionary.rs: the parser.

\* The state of from_bytes and its steps.
DictVal == UNION {[K -> Seq(Octet)] : K \in SUBSET Seq(Octet)}
PState == [d : DictVal, key : Seq(Octet), val : Seq(Octet), state : {0, 1},
           escape : BOOLEAN, ok : BOOLEAN]
PStep == [c \in Octet |-> [p \in PState |-> Parsed(p, c)]]

\* The maps the parser builds.
LEMMA DictValIs ==
    ASSUME NEW d
    PROVE  d \in DictVal <=> DOMAIN d \subseteq Seq(Octet) /\ d \in [DOMAIN d -> Seq(Octet)]
<1>1. ASSUME d \in DictVal PROVE DOMAIN d \subseteq Seq(Octet) /\ d \in [DOMAIN d -> Seq(Octet)]
  <2>1. PICK K \in SUBSET Seq(Octet) : d \in [K -> Seq(Octet)]
    BY <1>1, Zenon DEF DictVal
  <2> QED
    BY <2>1
<1>2. ASSUME DOMAIN d \subseteq Seq(Octet), d \in [DOMAIN d -> Seq(Octet)] PROVE d \in DictVal
  <2>1. DOMAIN d \in SUBSET Seq(Octet)
    BY <1>2, Zenon
  <2> QED
    BY <1>2, <2>1, Zenon DEF DictVal
<1> QED
  BY <1>1, <1>2, Zenon

\* BTreeMap::insert keeps the type of the map.
LEMMA WithIs ==
    ASSUME NEW d \in DictVal, NEW k \in Seq(Octet), NEW v \in Seq(Octet)
    PROVE  With(d, k, v) \in DictVal
<1>1. DOMAIN d \subseteq Seq(Octet) /\ \A x \in DOMAIN d : d[x] \in Seq(Octet)
  BY DictValIs, Zenon
<1> DEFINE e == With(d, k, v)
<1>2. e = [x \in DOMAIN d \cup {k} |-> IF x = k THEN v ELSE d[x]]
  BY DEF With
<1>3. DOMAIN e = DOMAIN d \cup {k}
  BY <1>2, Zenon
<1>4. DOMAIN e \subseteq Seq(Octet)
  BY <1>1, <1>3, Zenon
<1>5. \A x \in DOMAIN d \cup {k} : (IF x = k THEN v ELSE d[x]) \in Seq(Octet)
  BY <1>1, Zenon
<1>6. e \in [DOMAIN d \cup {k} -> Seq(Octet)]
  BY <1>2, <1>5, Zenon
<1> QED
  BY <1>3, <1>4, <1>6, DictValIs, Zenon

\* A state from its fields.
Rec(d, key, val, state, bs, ok) ==
    [d |-> d, key |-> key, val |-> val, state |-> state, escape |-> bs, ok |-> ok]
\* A state in which nothing has failed.
St(d, key, val, state, bs) == Rec(d, key, val, state, bs, TRUE)

\* The fields of a state.
LEMMA RecFields ==
    ASSUME NEW d, NEW key, NEW val, NEW state, NEW bs, NEW ok
    PROVE  LET p == Rec(d, key, val, state, bs, ok)
           IN  p.d = d /\ p.key = key /\ p.val = val /\ p.state = state /\ p.escape = bs /\ p.ok = ok
BY DEF Rec

\* The type of a state in which nothing has failed.
LEMMA StIs ==
    ASSUME NEW d \in DictVal, NEW key \in Seq(Octet), NEW val \in Seq(Octet), NEW state \in {0, 1},
           NEW bs \in BOOLEAN
    PROVE  St(d, key, val, state, bs) \in PState
<1>1. TRUE \in BOOLEAN
  OBVIOUS
<1> QED
  BY <1>1, Zenon DEF St, Rec, PState

\* A state is made of its fields.
LEMMA PIs ==
    ASSUME NEW p \in PState
    PROVE  /\ p = Rec(p.d, p.key, p.val, p.state, p.escape, p.ok)
           /\ p.d \in DictVal /\ p.key \in Seq(Octet) /\ p.val \in Seq(Octet) /\ p.state \in {0, 1}
           /\ p.escape \in BOOLEAN /\ p.ok \in BOOLEAN
BY DEF PState, Rec

\* The type of a state.
LEMMA RecIs ==
    ASSUME NEW d \in DictVal, NEW key \in Seq(Octet), NEW val \in Seq(Octet), NEW state \in {0, 1},
           NEW bs \in BOOLEAN, NEW ok \in BOOLEAN
    PROVE  Rec(d, key, val, state, bs, ok) \in PState
BY Zenon DEF Rec, PState

\* What a step of the parser does.
LEMMA PushIs ==
    ASSUME NEW d, NEW key, NEW val, NEW state, NEW bs, NEW ok, NEW c
    PROVE  Push(Rec(d, key, val, state, bs, ok), c) =
             IF state = 0 THEN Rec(d, Append(key, c), val, state, bs, ok)
                          ELSE Rec(d, key, Append(val, c), state, bs, ok)
<1> DEFINE p == Rec(d, key, val, state, bs, ok)
<1>1. p.key = key /\ p.val = val /\ p.state = state
  BY RecFields
<1>2. [p EXCEPT !.key = Append(key, c)] = Rec(d, Append(key, c), val, state, bs, ok)
  <2> DEFINE x == Append(key, c)
  <2> HIDE DEF x
  <2>1. [p EXCEPT !.key = x] = Rec(d, x, val, state, bs, ok)
    BY DEF Rec
  <2> QED
    BY <2>1 DEF x
<1>3. [p EXCEPT !.val = Append(val, c)] = Rec(d, key, Append(val, c), state, bs, ok)
  <2> DEFINE x == Append(val, c)
  <2> HIDE DEF x
  <2>1. [p EXCEPT !.val = x] = Rec(d, key, x, state, bs, ok)
    BY DEF Rec
  <2> QED
    BY <2>1 DEF x
<1>4. Push(p, c) = IF p.state = 0 THEN [p EXCEPT !.key = Append(p.key, c)] ELSE [p EXCEPT !.val = Append(p.val, c)]
  BY Zenon DEF Push
<1> HIDE DEF p
<1> QED
  BY <1>1, <1>2, <1>3, <1>4, Zenon DEF p

\* After an error from_bytes reads no further.
LEMMA ParsedFailed ==
    ASSUME NEW p, ~p.ok, NEW c
    PROVE  Parsed(p, c) = p
BY DEF Parsed

\* What each kind of character does to a state in which nothing has failed.
ParsedCases(d, key, val, state, bs, c) ==
    LET p == St(d, key, val, state, bs) IN
    /\ bs => Parsed(p, c) = IF state = 0 THEN St(d, Append(key, Unescape(c)), val, state, FALSE)
                                             ELSE St(d, key, Append(val, Unescape(c)), state, FALSE)
    /\ ~bs /\ c = 92 => Parsed(p, c) = St(d, key, val, state, TRUE)
    /\ ~bs /\ c = 61 => Parsed(p, c) = Rec(d, key, val, 1, bs, state = 0)
    /\ ~bs /\ c = 10 => Parsed(p, c) =
         Rec(IF key = <<>> THEN d ELSE With(d, key, val), <<>>, <<>>, 0, bs, state = 1 /\ Utf8(key))
    /\ ~bs /\ c = 13 => Parsed(p, c) = p
    /\ ~bs /\ c \notin {92, 61, 10, 13} => Parsed(p, c) = Push(p, c)

\* A step of from_bytes, by the character read.
LEMMA ParsedIs ==
    ASSUME NEW d, NEW key, NEW val, NEW state, NEW bs \in BOOLEAN, NEW c
    PROVE  ParsedCases(d, key, val, state, bs, c)
<1> DEFINE p == St(d, key, val, state, bs)  t == TRUE  f == FALSE
<1>2. p = Rec(d, key, val, state, bs, t)
  BY DEF St
<1>0. t /\ ~f
  OBVIOUS
<1> HIDE DEF p, t, f
<1>1. p.d = d /\ p.key = key /\ p.val = val /\ p.state = state /\ p.escape = bs /\ p.ok = t
  BY <1>2 DEF Rec
<1>3. ASSUME bs
      PROVE  Parsed(p, c) = IF state = 0 THEN St(d, Append(key, Unescape(c)), val, state, FALSE)
                                                    ELSE St(d, key, Append(val, Unescape(c)), state, FALSE)
  <2> DEFINE x == Unescape(c)  q == Push(p, x)
  <2>1. Parsed(p, c) = [q EXCEPT !.escape = FALSE]
    <3>1. p.escape /\ p.ok
      BY <1>0, <1>1, <1>3, Zenon
    <3> QED
      BY <3>1, Zenon DEF Parsed
  <2> HIDE DEF x
  <2>2. q = IF state = 0 THEN Rec(d, Append(key, x), val, state, bs, t)
                          ELSE Rec(d, key, Append(val, x), state, bs, t)
    BY <1>2, PushIs, SMT
  <2> HIDE DEF q
  <2> DEFINE y == Append(key, x)  z == Append(val, x)
  <2> HIDE DEF y, z
  <2>3. [Rec(d, y, val, state, bs, t) EXCEPT !.escape = f] = Rec(d, y, val, state, f, t)
    BY DEF Rec
  <2>4. [Rec(d, key, z, state, bs, t) EXCEPT !.escape = f] = Rec(d, key, z, state, f, t)
    BY DEF Rec
  <2>5. CASE state = 0
    <3>1. q = Rec(d, y, val, state, bs, t)
      BY <2>2, <2>5, Zenon DEF y
    <3> QED
      BY <2>1, <2>3, <2>5, <3>1, Zenon DEF x, y, t, f, St
  <2>6. CASE state # 0
    <3>1. q = Rec(d, key, z, state, bs, t)
      BY <2>2, <2>6, Zenon DEF z
    <3> QED
      BY <2>1, <2>4, <2>6, <3>1, Zenon DEF x, z, t, f, St
  <2> QED
    BY <2>5, <2>6, Zenon
<1>4. ASSUME ~bs
      PROVE  Parsed(p, c) = CASE c = 92 -> [p EXCEPT !.escape = TRUE]
           [] c = 61 -> [p EXCEPT !.ok = p.state = 0, !.state = 1]
           [] c = 10 -> EndLine(p)
           [] c = 13 -> p
           [] OTHER  -> Push(p, c)
  <2>1. ~p.escape /\ p.ok
    BY <1>0, <1>1, <1>4, Zenon
  <2> QED
    BY <2>1, Zenon DEF Parsed
<1>5. ASSUME ~bs, c = 92 PROVE Parsed(p, c) = St(d, key, val, state, TRUE)
  <2>1. Parsed(p, c) = [p EXCEPT !.escape = TRUE]
    BY <1>4, <1>5, 92 # 61, 92 # 10, 92 # 13
  <2> QED
    <3>1. [Rec(d, key, val, state, bs, t) EXCEPT !.escape = t] = Rec(d, key, val, state, t, t)
      BY DEF Rec
    <3> QED
      BY <2>1, <1>2, <3>1, Zenon DEF St, t
<1>6. ASSUME ~bs, c = 61 PROVE Parsed(p, c) = Rec(d, key, val, 1, bs, state = 0)
  <2>1. Parsed(p, c) = [p EXCEPT !.ok = p.state = 0, !.state = 1]
    BY <1>4, <1>6
  <2> QED
    <3> DEFINE y == (state = 0)
    <3> HIDE DEF y
    <3>1. [Rec(d, key, val, state, bs, t) EXCEPT !.ok = y, !.state = 1] = Rec(d, key, val, 1, bs, y)
      <4>1. [Rec(d, key, val, state, bs, t) EXCEPT !.ok = y] = Rec(d, key, val, state, bs, y)
        BY DEF Rec
      <4>2. [Rec(d, key, val, state, bs, y) EXCEPT !.state = 1] = Rec(d, key, val, 1, bs, y)
        BY DEF Rec
      <4> QED
        BY <4>1, <4>2, Zenon
    <3>2. Parsed(p, c) = [p EXCEPT !.ok = y, !.state = 1]
      BY <2>1, <1>1, Zenon DEF y
    <3> QED
      BY <1>2, <3>1, <3>2, Zenon DEF y
<1>7. ASSUME ~bs, c = 10
      PROVE  Parsed(p, c) =
                Rec(IF key = <<>> THEN d ELSE With(d, key, val), <<>>, <<>>, 0, bs, state = 1 /\ Utf8(key))
  <2>1. Parsed(p, c) = EndLine(p)
    BY <1>4, <1>7
  <2> DEFINE x == (state = 1 /\ Utf8(key))  y == IF key = <<>> THEN d ELSE With(d, key, val)  e == <<>>
  <2>2. EndLine(p) = [p EXCEPT !.ok = x, !.d = y, !.key = e, !.val = e, !.state = 0]
    BY <1>1, Zenon DEF EndLine
  <2> HIDE DEF x, y, e
  <2> DEFINE r1 == [p EXCEPT !.ok = x]
             r2 == [r1 EXCEPT !.d = y]
             r3 == [r2 EXCEPT !.key = e]
             r4 == [r3 EXCEPT !.val = e]
             r5 == [r4 EXCEPT !.state = 0]
  <2>3. r1 = Rec(d, key, val, state, bs, x)
    <3>1. [Rec(d, key, val, state, bs, t) EXCEPT !.ok = x] = Rec(d, key, val, state, bs, x)
      BY DEF Rec
    <3> QED
      BY <1>2, <3>1, Zenon
  <2>4. EndLine(p) = r5
    BY <2>2, Zenon
  <2> HIDE DEF r1
  <2>5. r2 = Rec(y, key, val, state, bs, x)
    <3>1. [Rec(d, key, val, state, bs, x) EXCEPT !.d = y] = Rec(y, key, val, state, bs, x)
      BY DEF Rec
    <3> QED
      BY <2>3, <3>1, Zenon
  <2> HIDE DEF r2
  <2>6. r3 = Rec(y, e, val, state, bs, x)
    <3>1. [Rec(y, key, val, state, bs, x) EXCEPT !.key = e] = Rec(y, e, val, state, bs, x)
      BY DEF Rec
    <3> QED
      BY <2>5, <3>1, Zenon
  <2> HIDE DEF r3
  <2>7. r4 = Rec(y, e, e, state, bs, x)
    <3>1. [Rec(y, e, val, state, bs, x) EXCEPT !.val = e] = Rec(y, e, e, state, bs, x)
      BY DEF Rec
    <3> QED
      BY <2>6, <3>1, Zenon
  <2> HIDE DEF r4
  <2>8. r5 = Rec(y, e, e, 0, bs, x)
    <3>1. [Rec(y, e, e, state, bs, x) EXCEPT !.state = 0] = Rec(y, e, e, 0, bs, x)
      BY DEF Rec
    <3> QED
      BY <2>7, <3>1, Zenon
  <2> HIDE DEF r5
  <2> QED
    BY <2>1, <2>4, <2>8, Zenon DEF x, y, e
<1>8. ASSUME ~bs, c = 13 PROVE Parsed(p, c) = p
  BY <1>4, <1>8
<1>9. ASSUME ~bs, c \notin {92, 61, 10, 13} PROVE Parsed(p, c) = Push(p, c)
  BY <1>4, <1>9
<1> QED
  BY <1>3, <1>5, <1>6, <1>7, <1>8, <1>9, Zenon DEF p, ParsedCases

\* An escape letter stands for a byte.
LEMMA UnescapeType == \A c \in Octet : Unescape(c) \in Octet
BY DEF Unescape, Octet

\* Push keeps the type and the map.
LEMMA PushType ==
    ASSUME NEW p \in PState, NEW c \in Octet
    PROVE  Push(p, c) \in PState /\ Push(p, c).d = p.d
<1> DEFINE d == p.d  key == p.key  val == p.val  state == p.state  bs == p.escape  ok == p.ok
<1>1. /\ p = Rec(d, key, val, state, bs, ok)
      /\ d \in DictVal /\ key \in Seq(Octet) /\ val \in Seq(Octet) /\ state \in {0, 1}
      /\ bs \in BOOLEAN /\ ok \in BOOLEAN
  BY PIs, Zenon
<1> HIDE DEF d, key, val, state, bs, ok
<1> DEFINE y == Append(key, c)  z == Append(val, c)
<1>2. y \in Seq(Octet) /\ z \in Seq(Octet)
  BY <1>1
<1>3. Push(p, c) = IF state = 0 THEN Rec(d, y, val, state, bs, ok) ELSE Rec(d, key, z, state, bs, ok)
  BY <1>1, PushIs, SMT
<1> HIDE DEF y, z
<1>4. Rec(d, y, val, state, bs, ok) \in PState /\ Rec(d, key, z, state, bs, ok) \in PState
  BY <1>1, <1>2, RecIs, Zenon
<1>5. Rec(d, y, val, state, bs, ok).d = d /\ Rec(d, key, z, state, bs, ok).d = d
  BY RecFields
<1> QED
  BY <1>3, <1>4, <1>5, Zenon DEF d

\* A step keeps the type; only an unescaped newline changes the map.
LEMMA ParsedType ==
    ASSUME NEW p \in PState, NEW c \in Octet
    PROVE  Parsed(p, c) \in PState /\ (c # 10 => Parsed(p, c).d = p.d)
<1> DEFINE d == p.d  key == p.key  val == p.val  state == p.state  bs == p.escape  ok == p.ok
<1>1. /\ p = Rec(d, key, val, state, bs, ok)
      /\ d \in DictVal /\ key \in Seq(Octet) /\ val \in Seq(Octet) /\ state \in {0, 1}
      /\ bs \in BOOLEAN /\ ok \in BOOLEAN
  BY PIs, Zenon
<1>2. CASE ~ok
  BY <1>2, ParsedFailed, Zenon
<1>3. CASE ok
  <2>0. ok = TRUE
    BY <1>1, <1>3
  <2> HIDE DEF d, key, val, state, bs, ok
  <2>1. p = St(d, key, val, state, bs)
    BY <1>1, <2>0, Zenon DEF St
  <2>2. p.d = d
    BY DEF d
  <2>a. ParsedCases(d, key, val, state, bs, c)
    BY <1>1, ParsedIs, Zenon
  <2>3. CASE bs
    <3> DEFINE x == Unescape(c)  y == Append(key, x)  z == Append(val, x)
    <3>1. x \in Octet
      BY UnescapeType
    <3>2. Parsed(p, c) = IF state = 0 THEN St(d, y, val, state, FALSE) ELSE St(d, key, z, state, FALSE)
      BY <1>1, <2>1, <2>3, <2>a, Zenon DEF ParsedCases
    <3> HIDE DEF x
    <3>3. y \in Seq(Octet) /\ z \in Seq(Octet)
      BY <1>1, <3>1
    <3> HIDE DEF y, z
    <3>4. FALSE \in BOOLEAN /\ TRUE \in BOOLEAN
      OBVIOUS
    <3>5. St(d, y, val, state, FALSE) \in PState /\ St(d, key, z, state, FALSE) \in PState
      BY <1>1, <3>3, <3>4, StIs, Zenon
    <3> DEFINE f == FALSE  t == TRUE
    <3> HIDE DEF f, t
    <3>6. Rec(d, y, val, state, f, t).d = d /\ Rec(d, key, z, state, f, t).d = d
      BY RecFields
    <3>7. St(d, y, val, state, FALSE).d = d /\ St(d, key, z, state, FALSE).d = d
      BY <3>6, Zenon DEF f, t, St
    <3> QED
      BY <3>2, <3>5, <3>7, <2>2, Zenon
  <2>4. CASE ~bs /\ c = 92
    <3> DEFINE t == TRUE
    <3>1. Parsed(p, c) = Rec(d, key, val, state, t, t)
      BY <1>1, <2>1, <2>4, <2>a, Zenon DEF St, ParsedCases
    <3>2. t \in BOOLEAN
      OBVIOUS
    <3> HIDE DEF t
    <3>3. Rec(d, key, val, state, t, t) \in PState
      BY <1>1, <3>2, RecIs, Zenon
    <3>4. Rec(d, key, val, state, t, t).d = d
      BY RecFields
    <3> QED
      BY <3>1, <3>3, <3>4, <2>2, Zenon
  <2>5. CASE ~bs /\ c = 61
    <3> DEFINE y == (state = 0)
    <3>1. Parsed(p, c) = Rec(d, key, val, 1, bs, y)
      BY <1>1, <2>1, <2>5, <2>a, Zenon DEF ParsedCases
    <3>2. y \in BOOLEAN /\ 1 \in {0, 1}
      OBVIOUS
    <3> HIDE DEF y
    <3>3. Rec(d, key, val, 1, bs, y) \in PState
      BY <1>1, <3>2, RecIs, Zenon
    <3>4. Rec(d, key, val, 1, bs, y).d = d
      BY RecFields
    <3> QED
      BY <3>1, <3>3, <3>4, <2>2, Zenon
  <2>6. CASE ~bs /\ c = 10
    <3> DEFINE y == IF key = <<>> THEN d ELSE With(d, key, val)  o == (state = 1 /\ Utf8(key))  e == <<>>
    <3>1. Parsed(p, c) = Rec(y, e, e, 0, bs, o)
      BY <1>1, <2>1, <2>6, <2>a, Zenon DEF ParsedCases
    <3>2. o \in BOOLEAN /\ 0 \in {0, 1}
      OBVIOUS
    <3>3. e \in Seq(Octet)
      OBVIOUS
    <3>4. y \in DictVal
      BY <1>1, WithIs, Zenon
    <3> HIDE DEF y, o, e
    <3>5. Rec(y, e, e, 0, bs, o) \in PState
      BY <1>1, <3>2, <3>3, <3>4, RecIs, Zenon
    <3> QED
      BY <2>6, <3>1, <3>5, Zenon
  <2>7. CASE ~bs /\ c = 13
    <3>1. Parsed(p, c) = p
      BY <1>1, <2>1, <2>7, <2>a, Zenon DEF ParsedCases
    <3> QED
      BY <3>1, Zenon
  <2>8. CASE ~bs /\ c \notin {92, 61, 10, 13}
    <3>1. Parsed(p, c) = Push(p, c)
      BY <1>1, <2>1, <2>8, <2>a, Zenon DEF ParsedCases
    <3> QED
      BY <3>1, PushType, Zenon
  <2>9. c = 92 \/ c = 61 \/ c = 10 \/ c = 13 \/ c \notin {92, 61, 10, 13}
    BY Zenon
  <2> QED
    BY <2>3, <2>4, <2>5, <2>6, <2>7, <2>8, <2>9, Zenon
<1> QED
  BY <1>2, <1>3, Zenon

\* The steps of from_bytes keep the type of its state.
LEMMA PStepIs == IsStep(PStep, PState, Octet)
<1>1. \A c \in Octet, p \in PState : Parsed(p, c) \in PState
  BY ParsedType, Zenon
<1> QED
  BY <1>1, Zenon DEF PStep, IsStep

\* A step as a function.
LEMMA PStepAt ==
    ASSUME NEW p \in PState, NEW c \in Octet
    PROVE  PStep[c][p] = Parsed(p, c)
BY Zenon DEF PStep

\* The state from_bytes starts in.
LEMMA FreshIs == Fresh = St(Nothing, <<>>, <<>>, 0, FALSE) /\ Fresh \in PState /\ Nothing \in DictVal
                 /\ DOMAIN Nothing = {}
<1>1. DOMAIN Nothing = {}
  BY DEF Nothing
<1>2. Nothing \in [{} -> Seq(Octet)] /\ {} \subseteq Seq(Octet)
  BY DEF Nothing
<1>3. Nothing \in DictVal
  BY <1>1, <1>2, DictValIs, Zenon
<1>4. <<>> \in Seq(Octet) /\ 0 \in {0, 1} /\ FALSE \in BOOLEAN
  OBVIOUS
<1>5. Fresh = St(Nothing, <<>>, <<>>, 0, FALSE)
  BY Zenon DEF Fresh, St, Rec
<1> QED
  BY <1>1, <1>3, <1>4, <1>5, StIs, Zenon

\* The run over a text.
PRun(p, s) == After(PStep, p, s)

\* One character more.
LEMMA PRunAppend ==
    ASSUME NEW p \in PState, NEW s \in Seq(Octet), NEW c \in Octet
    PROVE  PRun(p, Append(s, c)) = Parsed(PRun(p, s), c)
<1>1. PRun(p, s) \in PState
  BY PStepIs, AfterType, Zenon DEF PRun
<1>2. After(PStep, p, Append(s, c)) = PStep[c][After(PStep, p, s)]
  BY PStepIs, AfterAppend, SMT
<1> QED
  BY <1>1, <1>2, PStepAt DEF PRun

\* No characters.
LEMMA PRunEmpty ==
    ASSUME NEW p \in PState
    PROVE  PRun(p, <<>>) = p
BY PStepIs, AfterEmpty, Zenon DEF PRun

\* The type of the result.
LEMMA PRunType ==
    ASSUME NEW p \in PState, NEW s \in Seq(Octet)
    PROVE  PRun(p, s) \in PState
BY PStepIs, AfterType, Zenon DEF PRun

\* One text after another.
LEMMA PRunConcat ==
    ASSUME NEW p \in PState, NEW s \in Seq(Octet), NEW t \in Seq(Octet)
    PROVE  PRun(p, s \o t) = PRun(PRun(p, s), t)
<1>1. \A x \in Seq(Octet) : After(PStep, p, s \o x) = After(PStep, After(PStep, p, s), x)
  BY PStepIs, AfterConcat, SMT
<1> QED
  BY <1>1, Zenon DEF PRun

\* A single character.
LEMMA PRunOne ==
    ASSUME NEW p \in PState, NEW c \in Octet
    PROVE  PRun(p, <<c>>) = Parsed(p, c)
<1> DEFINE e == <<>>
<1>1. e \in Seq(Octet)
  OBVIOUS
<1>2. Append(e, c) = <<c>>
  OBVIOUS
<1>3. PRun(p, e) = p
  BY PRunEmpty, Zenon
<1> HIDE DEF e
<1>4. PRun(p, Append(e, c)) = Parsed(PRun(p, e), c)
  BY <1>1, PRunAppend, SMT
<1> QED
  BY <1>2, <1>3, <1>4

\* u is s with c behind it.
AppendProps(u, S, s, c) ==
    /\ u \in Seq(S) /\ Len(u) = Len(s) + 1
    /\ (\A i \in 1 .. Len(s) : u[i] = s[i]) /\ u[Len(s) + 1] = c
\* What Append returns.
LEMMA AppendIs ==
    ASSUME NEW S, NEW s \in Seq(S), NEW c \in S
    PROVE  AppendProps(Append(s, c), S, s, c)
BY DEF AppendProps

\* Append to one element.
LEMMA PairAppend ==
    ASSUME NEW S, NEW a \in S, NEW c \in S
    PROVE  Append(<<a>>, c) = <<a, c>>
<1> DEFINE s == <<a>>  t == <<a, c>>  u == Append(s, c)
<1>1. s \in Seq(S) /\ t \in Seq(S)
  OBVIOUS
<1>2. Len(s) = 1 /\ s[1] = a /\ Len(t) = 2 /\ t[1] = a /\ t[2] = c
  OBVIOUS
<1> HIDE DEF s, t
<1>0. /\ u \in Seq(S) /\ Len(u) = Len(s) + 1
      /\ (\A i \in 1 .. Len(s) : u[i] = s[i]) /\ u[Len(s) + 1] = c
  <2>1. AppendProps(u, S, s, c)
    BY <1>1, AppendIs, Zenon
  <2> QED
    BY <2>1, Zenon DEF AppendProps
<1> HIDE DEF u
<1>3. u \in Seq(S) /\ Len(u) = 2 /\ u[1] = a /\ u[2] = c
  <2>1. 1 + 1 = 2 /\ 1 \in 1 .. 1
    OBVIOUS
  <2> QED
    BY <2>1, <1>0, <1>2, Zenon
<1>4. \A i \in 1 .. 2 : i = 1 \/ i = 2
  OBVIOUS
<1>5. \A i \in 1 .. Len(u) : u[i] = t[i]
  BY <1>2, <1>3, <1>4
<1>6. u = t
  BY <1>1, <1>2, <1>3, <1>5, SeqEqual
<1> QED
  BY <1>6 DEF s, t, u

\* Two characters.
LEMMA PRunTwo ==
    ASSUME NEW p \in PState, NEW a \in Octet, NEW c \in Octet
    PROVE  PRun(p, <<a, c>>) = Parsed(Parsed(p, a), c)
<1> DEFINE e == <<a>>
<1>1. e \in Seq(Octet)
  OBVIOUS
<1>2. Append(e, c) = <<a, c>>
  BY PairAppend, Zenon
<1>3. PRun(p, e) = Parsed(p, a)
  BY PRunOne, Zenon
<1> HIDE DEF e
<1>4. PRun(p, Append(e, c)) = Parsed(PRun(p, e), c)
  BY <1>1, PRunAppend, SMT
<1> QED
  BY <1>2, <1>3, <1>4

\* from_bytes is a fold.
LEMMA FromBytesIs ==
    ASSUME NEW s \in Seq(Octet)
    PROVE  from_bytes(s) = PRun(Fresh, s)
<1> DEFINE h == CHOOSE f : f = [i \in 0 .. Len(s) |-> IF i = 0 THEN Fresh ELSE Parsed(f[i - 1], s[i])]
<1>0. Len(s) \in Nat /\ \A i \in 1 .. Len(s) : s[i] \in Octet
  OBVIOUS
<1>1. Fresh \in PState
  BY FreshIs, Zenon
<1>2. PICK r : IsTrace(r, PState, PStep, Fresh, s)
  BY <1>1, PStepIs, TraceExists, Zenon
<1>3. After(PStep, Fresh, s) = r[Len(s)]
  BY <1>2, AfterIs, SMT
<1>4. r \in [0 .. Len(s) -> PState] /\ r[0] = Fresh /\ \A i \in 1 .. Len(s) : r[i] = PStep[s[i]][r[i - 1]]
  BY <1>2, Zenon DEF IsTrace
<1>5. ASSUME NEW i \in 1 .. Len(s) PROVE r[i] = Parsed(r[i - 1], s[i])
  <2>1. i - 1 \in 0 .. Len(s)
    BY <1>0
  <2>2. r[i - 1] \in PState /\ s[i] \in Octet
    BY <2>1, <1>4, <1>0
  <2> QED
    BY <1>4, <2>2, PStepAt
<1>6. r = [i \in 0 .. Len(s) |-> IF i = 0 THEN Fresh ELSE Parsed(r[i - 1], s[i])]
  <2>1. \A i \in 0 .. Len(s) : i = 0 \/ i \in 1 .. Len(s)
    BY <1>0
  <2>2. \A i \in 0 .. Len(s) : r[i] = IF i = 0 THEN Fresh ELSE Parsed(r[i - 1], s[i])
    BY <2>1, <1>4, <1>5, Zenon
  <2>3. r = [i \in 0 .. Len(s) |-> r[i]]
    BY <1>4, Zenon
  <2>4. [i \in 0 .. Len(s) |-> r[i]] = [i \in 0 .. Len(s) |-> IF i = 0 THEN Fresh ELSE Parsed(r[i - 1], s[i])]
    BY <2>2, Zenon
  <2> QED
    BY <2>3, <2>4, Zenon
<1>7. h = [i \in 0 .. Len(s) |-> IF i = 0 THEN Fresh ELSE Parsed(h[i - 1], s[i])]
  BY <1>6, Zenon
<1>8. from_bytes(s) = h[Len(s)]
  BY Zenon DEF from_bytes
<1> HIDE DEF h
<1>9. \A i \in 0 .. Len(s) : h[i] = IF i = 0 THEN Fresh ELSE Parsed(h[i - 1], s[i])
  BY <1>7, Zenon
<1> DEFINE T == {n \in 0 .. Len(s) : h[n] = r[n]}
<1>10. 0 \in T
  <2>1. 0 \in 0 .. Len(s)
    BY <1>0
  <2> QED
    BY <2>1, <1>9, <1>4, Zenon
<1>11. ASSUME NEW n \in 0 .. (Len(s) - 1), n \in T PROVE n + 1 \in T
  <2>1. n + 1 \in 1 .. Len(s) /\ (n + 1) - 1 = n /\ n + 1 \in 0 .. Len(s) /\ n + 1 # 0
    BY <1>0
  <2>2. r[n + 1] = Parsed(r[(n + 1) - 1], s[n + 1])
    BY <2>1, <1>5, Zenon
  <2>3. h[n + 1] = Parsed(h[(n + 1) - 1], s[n + 1])
    BY <2>1, <1>9, Zenon
  <2>4. h[n] = r[n]
    BY <1>11, Zenon
  <2>5. h[n + 1] = r[n + 1]
    BY <2>1, <2>2, <2>3, <2>4, Zenon
  <2> QED
    BY <2>1, <2>5, Zenon
<1>12. \A n \in 0 .. Len(s) : n \in T
  <2> HIDE DEF T
  <2> QED
    BY <1>0, <1>10, <1>11, Upwards
<1>13. h[Len(s)] = r[Len(s)]
  BY <1>0, <1>12
<1> QED
  BY <1>3, <1>8, <1>13 DEF PRun

-----------------------------------------------------------------------------
\* dictionary.rs: what is written is read back.

\* write_escaped, a piece for each byte; no piece has a line end in it.
DEsc == [c \in Octet |-> Escape(c)]
NoEnd == Octet \ {10, 13}
Specials == {0, 10, 13, 61, 92}
Letter(c) == CASE c = 0 -> 48 [] c = 10 -> 110 [] c = 13 -> 114 [] c = 61 -> 101 [] OTHER -> 92

\* An escaped character is a backslash and the letter that from_bytes reads as
\* it; the others stand for themselves, and none of either ends a line.
LEMMA EscapeCases ==
    ASSUME NEW c \in Octet
    PROVE  /\ c \in Specials => Escape(c) = <<92, Letter(c)>> /\ Unescape(Letter(c)) = c /\ Letter(c) \in NoEnd
           /\ c \notin Specials => Escape(c) = <<c>> /\ c \in NoEnd /\ c \notin {92, 61, 10, 13}
<1> DEFINE Goal == Escape(c) = <<92, Letter(c)>> /\ Unescape(Letter(c)) = c /\ Letter(c) \in NoEnd
<1>1. ASSUME c = 0 PROVE Goal
  <2>1. Escape(c) = <<92, 48>> /\ Letter(c) = 48 /\ Unescape(48) = 0 /\ 48 \in NoEnd
    BY <1>1 DEF Escape, Letter, Unescape, NoEnd, Octet
  <2> QED
    BY <1>1, <2>1
<1>2. ASSUME c = 10 PROVE Goal
  <2>1. Escape(c) = <<92, 110>> /\ Letter(c) = 110 /\ Unescape(110) = 10 /\ 110 \in NoEnd
    BY <1>2 DEF Escape, Letter, Unescape, NoEnd, Octet
  <2> QED
    BY <1>2, <2>1
<1>3. ASSUME c = 13 PROVE Goal
  <2>1. Escape(c) = <<92, 114>> /\ Letter(c) = 114 /\ Unescape(114) = 13 /\ 114 \in NoEnd
    BY <1>3 DEF Escape, Letter, Unescape, NoEnd, Octet
  <2> QED
    BY <1>3, <2>1
<1>4. ASSUME c = 61 PROVE Goal
  <2>1. Escape(c) = <<92, 101>> /\ Letter(c) = 101 /\ Unescape(101) = 61 /\ 101 \in NoEnd
    BY <1>4 DEF Escape, Letter, Unescape, NoEnd, Octet
  <2> QED
    BY <1>4, <2>1
<1>5. ASSUME c = 92 PROVE Goal
  <2>1. Escape(c) = <<92, 92>> /\ Letter(c) = 92 /\ Unescape(92) = 92 /\ 92 \in NoEnd
    BY <1>5 DEF Escape, Letter, Unescape, NoEnd, Octet
  <2> QED
    BY <1>5, <2>1
<1>7. ASSUME c \notin Specials PROVE Escape(c) = <<c>> /\ c \in NoEnd /\ c \notin {92, 61, 10, 13}
  <2>1. c # 0 /\ c # 10 /\ c # 13 /\ c # 61 /\ c # 92
    BY <1>7 DEF Specials
  <2>2. Escape(c) = <<c>>
    BY <2>1 DEF Escape
  <2> QED
    BY <2>1, <2>2, Zenon DEF NoEnd
<1>8. ASSUME c \in Specials PROVE Goal
  <2>1. c = 0 \/ c = 10 \/ c = 13 \/ c = 61 \/ c = 92
    BY <1>8 DEF Specials
  <2> HIDE DEF Goal
  <2> QED
    BY <2>1, <1>1, <1>2, <1>3, <1>4, <1>5
<1> QED
  BY <1>7, <1>8, Zenon

\* The codes of the characters that matter are bytes.
LEMMA NoEndIs == NoEnd \subseteq Octet /\ 92 \in NoEnd /\ 61 \in NoEnd /\ 92 \in Octet /\ 61 \in Octet
                 /\ 10 \in Octet /\ 13 \in Octet
BY DEF NoEnd, Octet

\* write_escaped writes no line end.
LEMMA DEscIs == IsEsc(DEsc, Octet, NoEnd)
<1>1. ASSUME NEW c \in Octet PROVE Escape(c) \in Seq(NoEnd)
  <2>1. CASE c \in Specials
    <3> DEFINE x == Letter(c)
    <3>1. Escape(c) = <<92, x>> /\ x \in NoEnd
      BY <2>1, EscapeCases, Zenon
    <3> HIDE DEF x
    <3>2. <<92, x>> \in Seq(NoEnd)
      BY <3>1, NoEndIs
    <3> QED
      BY <3>1, <3>2
  <2>2. CASE c \notin Specials
    <3>1. Escape(c) = <<c>> /\ c \in NoEnd
      BY <2>2, EscapeCases, Zenon
    <3>2. <<c>> \in Seq(NoEnd)
      BY <3>1
    <3> QED
      BY <3>1, <3>2
  <2> QED
    BY <2>1, <2>2
<1> QED
  BY <1>1, Zenon DEF DEsc, IsEsc

\* write_escaped replaces every byte.
LEMMA WriteEscapedIs ==
    ASSUME NEW b \in Seq(Octet)
    PROVE  write_escaped(b) = Mapped(DEsc, b)
<1>1. \A i \in DOMAIN b : b[i] \in Octet
  OBVIOUS
<1>2. \A i \in DOMAIN b : DEsc[b[i]] = Escape(b[i])
  BY <1>1, Zenon DEF DEsc
<1>3. [i \in DOMAIN b |-> DEsc[b[i]]] = [i \in DOMAIN b |-> Escape(b[i])]
  BY <1>2, Zenon
<1> QED
  BY <1>3, Zenon DEF write_escaped, Mapped

\* The state with a byte, or bytes, more in its key or value.
Pushed(d, key, val, st, b) ==
    IF st = 0 THEN St(d, key \o b, val, st, FALSE) ELSE St(d, key, val \o b, st, FALSE)

\* from_bytes reads what write_escaped wrote of a byte as that byte.
LEMMA PChunk ==
    ASSUME NEW d \in DictVal, NEW key \in Seq(Octet), NEW val \in Seq(Octet), NEW st \in {0, 1}, NEW c \in Octet
    PROVE  PRun(St(d, key, val, st, FALSE), DEsc[c]) = Pushed(d, key, val, st, <<c>>)
<1> DEFINE p == St(d, key, val, st, FALSE)  q == St(d, key, val, st, TRUE)
<1>0. TRUE \in BOOLEAN /\ FALSE \in BOOLEAN
  OBVIOUS
<1>1. p \in PState /\ q \in PState
  BY <1>0, StIs, Zenon
<1>2. DEsc[c] = Escape(c)
  BY Zenon DEF DEsc
<1>5. key \o <<c>> = Append(key, c) /\ val \o <<c>> = Append(val, c)
  OBVIOUS
<1>3. CASE c \in Specials
  <2> DEFINE x == Letter(c)
  <2>1. Escape(c) = <<92, x>> /\ Unescape(x) = c /\ x \in Octet /\ 92 \in Octet
    BY <1>3, EscapeCases, NoEndIs, Zenon
  <2>2. Parsed(p, 92) = q
    <3>1. ParsedCases(d, key, val, st, FALSE, 92)
      BY <1>0, ParsedIs, Zenon
    <3> QED
      BY <3>1, Zenon DEF ParsedCases
  <2> HIDE DEF x
  <2>3. Parsed(q, x) = IF st = 0 THEN St(d, Append(key, Unescape(x)), val, st, FALSE)
                                 ELSE St(d, key, Append(val, Unescape(x)), st, FALSE)
    <3>1. ParsedCases(d, key, val, st, TRUE, x)
      BY <1>0, ParsedIs, Zenon
    <3> QED
      BY <3>1, Zenon DEF ParsedCases
  <2>4. Parsed(q, x) = Pushed(d, key, val, st, <<c>>)
    <3>1. Pushed(d, key, val, st, <<c>>) =
             IF st = 0 THEN St(d, Append(key, c), val, st, FALSE) ELSE St(d, key, Append(val, c), st, FALSE)
      BY <1>5, Zenon DEF Pushed
    <3> QED
      BY <2>1, <2>3, <3>1, Zenon
  <2> HIDE DEF p, q
  <2>5. PRun(p, <<92, x>>) = Parsed(Parsed(p, 92), x)
    BY <1>1, <2>1, PRunTwo, SMT
  <2> QED
    BY <1>2, <2>1, <2>2, <2>4, <2>5, Zenon DEF p
<1>4. CASE c \notin Specials
  <2>1. Escape(c) = <<c>> /\ c \notin {92, 61, 10, 13}
    BY <1>4, EscapeCases, Zenon
  <2>2. Parsed(p, c) = Push(p, c)
    <3>1. ParsedCases(d, key, val, st, FALSE, c)
      BY <1>0, ParsedIs, Zenon
    <3> QED
      BY <3>1, <2>1, Zenon DEF ParsedCases
  <2>3. Push(p, c) = IF st = 0 THEN St(d, Append(key, c), val, st, FALSE) ELSE St(d, key, Append(val, c), st, FALSE)
    <3> DEFINE t == TRUE  f == FALSE
    <3> HIDE DEF t, f
    <3>1. Push(Rec(d, key, val, st, f, t), c) =
            IF st = 0 THEN Rec(d, Append(key, c), val, st, f, t) ELSE Rec(d, key, Append(val, c), st, f, t)
      BY PushIs, SMT
    <3> QED
      BY <3>1, Zenon DEF St, t, f
  <2>4. PRun(p, <<c>>) = Parsed(p, c)
    <3> HIDE DEF p
    <3> QED
      BY <1>1, PRunOne
  <2> QED
    <3>1. Pushed(d, key, val, st, <<c>>) =
             IF st = 0 THEN St(d, Append(key, c), val, st, FALSE) ELSE St(d, key, Append(val, c), st, FALSE)
      BY <1>5, Zenon DEF Pushed
    <3> QED
      BY <1>2, <2>1, <2>2, <2>3, <2>4, <3>1, Zenon
<1> QED
  BY <1>3, <1>4, Zenon

\* The type of the state with bytes more.
LEMMA PushedIs ==
    ASSUME NEW d \in DictVal, NEW key \in Seq(Octet), NEW val \in Seq(Octet), NEW st \in {0, 1}, NEW b \in Seq(Octet)
    PROVE  Pushed(d, key, val, st, b) \in PState
<1>1. key \o b \in Seq(Octet) /\ val \o b \in Seq(Octet) /\ FALSE \in BOOLEAN
  OBVIOUS
<1> QED
  BY <1>1, StIs, Zenon DEF Pushed

\* The parser reads back what write_escaped wrote.
LEMMA PRunEscaped ==
    ASSUME NEW d \in DictVal, NEW key \in Seq(Octet), NEW val \in Seq(Octet), NEW st \in {0, 1}
    PROVE  \A b \in Seq(Octet) : PRun(St(d, key, val, st, FALSE), Mapped(DEsc, b)) = Pushed(d, key, val, st, b)
<1> DEFINE p == St(d, key, val, st, FALSE)
<1> DEFINE S == {b \in Seq(Octet) : PRun(p, Mapped(DEsc, b)) = Pushed(d, key, val, st, b)}
<1>0. p \in PState
  <2>1. FALSE \in BOOLEAN
    OBVIOUS
  <2> QED
    BY <2>1, StIs, Zenon
<1>1. <<>> \in S
  <2>1. Mapped(DEsc, <<>>) = <<>>
    BY MappedEmpty, Zenon
  <2>2. key \o <<>> = key /\ val \o <<>> = val /\ <<>> \in Seq(Octet)
    OBVIOUS
  <2>3. Pushed(d, key, val, st, <<>>) = p
    BY <2>2, Zenon DEF Pushed
  <2>4. PRun(p, <<>>) = p
    <3> HIDE DEF p
    <3> QED
      BY <1>0, PRunEmpty, Zenon
  <2> QED
    BY <2>1, <2>2, <2>3, <2>4, Zenon
<1>2. ASSUME NEW b \in Seq(Octet), NEW c \in Octet, b \in S PROVE Append(b, c) \in S
  <2> DEFINE m == Mapped(DEsc, b)  x == DEsc[c]
  <2>1. Mapped(DEsc, Append(b, c)) = m \o x
    BY DEscIs, MappedAppend, SMT
  <2>2. m \in Seq(NoEnd) /\ x \in Seq(NoEnd)
    <3>1. m \in Seq(NoEnd)
      BY DEscIs, MappedType
    <3>2. x \in Seq(NoEnd)
      BY DEscIs, Zenon DEF IsEsc
    <3> QED
      BY <3>1, <3>2
  <2>3. PRun(p, m) = Pushed(d, key, val, st, b)
    BY <1>2, Zenon
  <2> HIDE DEF m, x
  <2>4. m \in Seq(Octet) /\ x \in Seq(Octet)
    BY <2>2, NoEndIs, SeqMonotonic
  <2>5. PRun(p, m \o x) = PRun(PRun(p, m), x)
    <3> HIDE DEF p
    <3> QED
      BY <1>0, <2>4, PRunConcat, SMT
  <2> DEFINE k1 == key \o b  v1 == val \o b
  <2>6. k1 \in Seq(Octet)
    OBVIOUS
  <2>9. v1 \in Seq(Octet)
    OBVIOUS
  <2>10. Append(b, c) \in Seq(Octet)
    OBVIOUS
  <2>7. Append(k1, c) = key \o Append(b, c) /\ Append(v1, c) = val \o Append(b, c)
    BY OctetAppend, Zenon
  <2> HIDE DEF k1, v1
  <2>8. PRun(Pushed(d, key, val, st, b), x) = Pushed(d, key, val, st, Append(b, c))
    <3>1. CASE st = 0
      <4>1. Pushed(d, key, val, st, b) = St(d, k1, val, st, FALSE)
        BY <3>1, Zenon DEF Pushed, k1
      <4>2. PRun(St(d, k1, val, st, FALSE), x) = Pushed(d, k1, val, st, <<c>>)
        BY <2>6, PChunk, Zenon DEF x
      <4>3. Pushed(d, k1, val, st, <<c>>) = St(d, Append(k1, c), val, st, FALSE)
        <5>1. k1 \o <<c>> = Append(k1, c)
          BY <2>6
        <5> QED
          BY <3>1, <5>1, Zenon DEF Pushed
      <4> QED
        BY <3>1, <4>1, <4>2, <4>3, <2>7, Zenon DEF Pushed
    <3>2. CASE st # 0
      <4>1. Pushed(d, key, val, st, b) = St(d, key, v1, st, FALSE)
        BY <3>2, Zenon DEF Pushed, v1
      <4>2. PRun(St(d, key, v1, st, FALSE), x) = Pushed(d, key, v1, st, <<c>>)
        BY <2>9, PChunk, Zenon DEF x
      <4>3. Pushed(d, key, v1, st, <<c>>) = St(d, key, Append(v1, c), st, FALSE)
        <5>1. v1 \o <<c>> = Append(v1, c)
          BY <2>9
        <5> QED
          BY <3>2, <5>1, Zenon DEF Pushed
      <4> QED
        BY <3>2, <4>1, <4>2, <4>3, <2>7, Zenon DEF Pushed
    <3> QED
      BY <3>1, <3>2
  <2> QED
    BY <2>1, <2>3, <2>5, <2>10, <2>8, Zenon
<1>3. \A b \in Seq(Octet) : b \in S
  <2> HIDE DEF S
  <2> QED
    BY <1>1, <1>2, SeqInduct
<1> QED
  BY <1>3, Zenon

\* Strings as their bytes, a line without its end, and the ends a line may have.
Strings == {k \in Seq(Octet) : Utf8(k)}
Body(k, v) == Mapped(DEsc, k) \o (<<61>> \o Mapped(DEsc, v))
LineEnds == {<<10>>, <<13, 10>>}

\* Strings are bytes.
LEMMA StringsAre == Strings \subseteq Seq(Octet)
  BY DEF Strings

\* Strings are UTF-8.
LEMMA StringsUtf8 ==
    ASSUME NEW k \in Strings
    PROVE  Utf8(k) = TRUE
<1>1. Utf8(k)
  BY Zenon DEF Strings
<1> QED
  BY <1>1, Zenon DEF Utf8

\* So is ASCII.
LEMMA AsciiUtf8 ==
    ASSUME NEW k \in Seq(Octet), \A i \in DOMAIN k : k[i] < 128
    PROVE  Utf8(k) = TRUE
<1>1. ASSUME NEW i \in DOMAIN k
      PROVE  /\ k[i] \notin Tails /\ Width(k[i]) # 0 /\ i + Width(k[i]) - 1 <= Len(k)
             /\ 1 .. (Width(k[i]) - 1) = {}
  <2>1. i \in 1 .. Len(k) /\ Len(k) \in Nat /\ k[i] < 128 /\ k[i] \in Octet
    BY <1>1
  <2>2. ASSUME NEW c \in Octet, c < 128 PROVE Width(c) = 1
    <3>1. c \notin 194 .. 223 /\ c \notin 224 .. 239 /\ c \notin 240 .. 244
      BY <2>2 DEF Octet
    <3> QED
      BY <2>2, <3>1, Zenon DEF Width
  <2>3. \A c \in Octet : c < 128 => c \notin Tails
    BY DEF Tails, Octet
  <2>4. 1 .. (1 - 1) = {} /\ i + 1 - 1 <= Len(k) /\ 1 # 0
    BY <2>1
  <2>5. Width(k[i]) = 1 /\ k[i] \notin Tails
    BY <2>1, <2>2, <2>3, Zenon
  <2> QED
    BY <2>4, <2>5
<1>2. Utf8(k)
  BY <1>1, Zenon DEF Utf8
<1> QED
  BY <1>2, Zenon DEF Utf8

\* Escaped text has no line end.
LEMMA DMappedType ==
    ASSUME NEW k \in Seq(Octet)
    PROVE  Mapped(DEsc, k) \in Seq(NoEnd) /\ Mapped(DEsc, k) \in Seq(Octet)
<1>1. Mapped(DEsc, k) \in Seq(NoEnd)
  BY DEscIs, MappedType, Zenon
<1>2. Seq(NoEnd) \subseteq Seq(Octet)
  BY NoEndIs, SeqMonotonic
<1> QED
  BY <1>1, <1>2, Zenon

\* A line has no line end before its end.
LEMMA BodyType ==
    ASSUME NEW k \in Seq(Octet), NEW v \in Seq(Octet)
    PROVE  Body(k, v) \in Seq(NoEnd)
<1> DEFINE a == Mapped(DEsc, k)  b == Mapped(DEsc, v)
<1>1. a \in Seq(NoEnd) /\ b \in Seq(NoEnd)
  BY DMappedType, Zenon
<1> HIDE DEF a, b
<1>2. a \o (<<61>> \o b) \in Seq(NoEnd)
  BY <1>1, NoEndIs
<1> QED
  BY <1>2, Zenon DEF Body, a, b

\* The parser in a key, at the = and in a value.
LEMMA PRunBody ==
    ASSUME NEW d \in DictVal, NEW k \in Seq(Octet), NEW v \in Seq(Octet)
    PROVE  PRun(St(d, <<>>, <<>>, 0, FALSE), Body(k, v)) = St(d, k, v, 1, FALSE)
<1> DEFINE e == <<>>  a == Mapped(DEsc, k)  b == Mapped(DEsc, v)  x == <<61>>
           p == St(d, e, e, 0, FALSE)  q == St(d, k, e, 0, FALSE)  r == St(d, k, e, 1, FALSE)
<1>0. e \in Seq(Octet) /\ 0 \in {0, 1} /\ 1 \in {0, 1} /\ FALSE \in BOOLEAN /\ 1 # 0
  OBVIOUS
<1>1. a \in Seq(Octet) /\ b \in Seq(Octet)
  BY DMappedType, Zenon
<1>2. x \in Seq(Octet)
  BY NoEndIs
<1>3. p \in PState /\ q \in PState /\ r \in PState
  BY <1>0, StIs, Zenon
<1>4. e \o k = k /\ e \o v = v
  OBVIOUS
<1>5. PRun(p, a) = q
  <2>1. PRun(p, a) = Pushed(d, e, e, 0, k)
    BY <1>0, PRunEscaped, Zenon
  <2> QED
    BY <2>1, <1>4, Zenon DEF Pushed
<1>6. PRun(q, x) = r
  <2>1. ParsedCases(d, k, e, 0, FALSE, 61)
    BY <1>0, ParsedIs, Zenon
  <2>2. Parsed(q, 61) = Rec(d, k, e, 1, FALSE, 0 = 0)
    BY <2>1, Zenon DEF ParsedCases
  <2>3. (0 = 0) = TRUE
    OBVIOUS
  <2>4. Parsed(q, 61) = r
    BY <2>2, <2>3, Zenon DEF St
  <2> HIDE DEF q
  <2>5. PRun(q, x) = Parsed(q, 61)
    BY <1>3, NoEndIs, PRunOne
  <2> QED
    BY <2>4, <2>5, Zenon
<1>7. PRun(r, b) = St(d, k, v, 1, FALSE)
  <2>1. PRun(r, b) = Pushed(d, k, e, 1, v)
    BY <1>0, PRunEscaped, Zenon
  <2> QED
    BY <2>1, <1>4, <1>0, Zenon DEF Pushed
<1> DEFINE y == x \o b
<1> HIDE DEF p, q, r, a, b, x
<1>8. y \in Seq(Octet)
  BY <1>1, <1>2
<1>9. PRun(q, y) = PRun(PRun(q, x), b)
  BY <1>1, <1>2, <1>3, PRunConcat, SMT
<1> HIDE DEF y
<1>10. PRun(p, a \o y) = PRun(PRun(p, a), y)
  BY <1>1, <1>8, <1>3, PRunConcat, SMT
<1>11. PRun(p, a \o y) = St(d, k, v, 1, FALSE)
  BY <1>5, <1>6, <1>7, <1>9, <1>10, Zenon
<1> QED
  BY <1>11, Zenon DEF Body, p, a, y, x, b

\* A line of either kind adds its key.
Added(d, k, v) == IF k = <<>> THEN d ELSE With(d, k, v)

\* The type of the map with a key more.
LEMMA AddedIs ==
    ASSUME NEW d \in DictVal, NEW k \in Seq(Octet), NEW v \in Seq(Octet)
    PROVE  Added(d, k, v) \in DictVal
BY WithIs, Zenon DEF Added

\* A line end of either kind finishes the entry.
LEMMA PRunEnd ==
    ASSUME NEW d \in DictVal, NEW k \in Strings, NEW v \in Seq(Octet), NEW e \in LineEnds
    PROVE  PRun(St(d, k, v, 1, FALSE), e) = St(Added(d, k, v), <<>>, <<>>, 0, FALSE)
<1> DEFINE p == St(d, k, v, 1, FALSE)
<1>0. k \in Seq(Octet) /\ 1 \in {0, 1} /\ FALSE \in BOOLEAN
  <2>1. k \in Seq(Octet)
    BY StringsAre, Zenon
  <2> QED
    BY <2>1
<1>1. p \in PState
  BY <1>0, StIs, Zenon
<1>2. Parsed(p, 10) = St(Added(d, k, v), <<>>, <<>>, 0, FALSE)
  <2>1. ParsedCases(d, k, v, 1, FALSE, 10)
    BY <1>0, ParsedIs, Zenon
  <2>2. Parsed(p, 10) = Rec(IF k = <<>> THEN d ELSE With(d, k, v), <<>>, <<>>, 0, FALSE, 1 = 1 /\ Utf8(k))
    BY <2>1, Zenon DEF ParsedCases
  <2>3. (1 = 1 /\ Utf8(k)) = TRUE
    BY StringsUtf8, Zenon
  <2> QED
    BY <2>2, <2>3, Zenon DEF St, Added
<1>3. Parsed(p, 13) = p
  <2>1. ParsedCases(d, k, v, 1, FALSE, 13)
    BY <1>0, ParsedIs, Zenon
  <2> QED
    BY <2>1, Zenon DEF ParsedCases
<1> HIDE DEF p
<1>4. PRun(p, <<10>>) = Parsed(p, 10)
  BY <1>1, NoEndIs, PRunOne
<1>5. PRun(p, <<13, 10>>) = Parsed(Parsed(p, 13), 10)
  BY <1>1, NoEndIs, PRunTwo
<1>6. e = <<10>> \/ e = <<13, 10>>
  BY Zenon DEF LineEnds
<1> QED
  BY <1>2, <1>3, <1>4, <1>5, <1>6, Zenon DEF p

\* Line ends are bytes.
LEMMA EndsType ==
    ASSUME NEW e \in LineEnds
    PROVE  e \in Seq(Octet)
<1>1. <<10>> \in Seq(Octet)
  BY NoEndIs
<1>2. <<13, 10>> \in Seq(Octet)
  BY NoEndIs
<1>3. e = <<10>> \/ e = <<13, 10>>
  BY Zenon DEF LineEnds
<1> QED
  BY <1>1, <1>2, <1>3, Zenon

\* A whole line adds its key with its value.
LEMMA PRunLine ==
    ASSUME NEW d \in DictVal, NEW k \in Strings, NEW v \in Seq(Octet), NEW e \in LineEnds
    PROVE  PRun(St(d, <<>>, <<>>, 0, FALSE), Body(k, v) \o e) = St(Added(d, k, v), <<>>, <<>>, 0, FALSE)
<1> DEFINE p == St(d, <<>>, <<>>, 0, FALSE)  b == Body(k, v)
<1>0. k \in Seq(Octet) /\ 0 \in {0, 1} /\ FALSE \in BOOLEAN
  <2>1. k \in Seq(Octet)
    BY StringsAre, Zenon
  <2> QED
    BY <2>1
<1>1. <<>> \in Seq(Octet)
  OBVIOUS
<1>2. p \in PState
  BY <1>0, <1>1, StIs, Zenon
<1>3. b \in Seq(Octet)
  <2>1. b \in Seq(NoEnd)
    BY <1>0, BodyType, Zenon
  <2>2. Seq(NoEnd) \subseteq Seq(Octet)
    BY NoEndIs, SeqMonotonic
  <2> QED
    BY <2>1, <2>2, Zenon
<1>4. e \in Seq(Octet)
  BY EndsType, Zenon
<1>5. PRun(p, b) = St(d, k, v, 1, FALSE)
  BY <1>0, PRunBody, Zenon
<1>6. PRun(St(d, k, v, 1, FALSE), e) = St(Added(d, k, v), <<>>, <<>>, 0, FALSE)
  BY PRunEnd, Zenon
<1> HIDE DEF p, b
<1>7. PRun(p, b \o e) = PRun(PRun(p, b), e)
  BY <1>2, <1>3, <1>4, PRunConcat, SMT
<1>8. PRun(p, b \o e) = St(Added(d, k, v), <<>>, <<>>, 0, FALSE)
  BY <1>5, <1>6, <1>7, Zenon
<1> QED
  BY <1>8, Zenon DEF p, b

\* The lines of a map, and what is written of them.
LineEsc(d, e) == [k \in DOMAIN d |-> Body(k, d[k]) \o e]
Kept(d, ks) == [k \in ToSet(ks) \ {<<>>} |-> d[k]]
StringMap(d) == d \in [DOMAIN d -> Seq(Octet)] /\ DOMAIN d \subseteq Strings

\* Every key of a map has its line.
LEMMA LineEscIs ==
    ASSUME NEW d, StringMap(d), NEW e \in LineEnds
    PROVE  IsEsc(LineEsc(d, e), DOMAIN d, Octet)
<1>1. ASSUME NEW k \in DOMAIN d PROVE Body(k, d[k]) \o e \in Seq(Octet)
  <2>1. k \in Seq(Octet) /\ d[k] \in Seq(Octet)
    BY StringsAre, Zenon DEF StringMap
  <2> DEFINE b == Body(k, d[k])
  <2>2. b \in Seq(NoEnd)
    BY <2>1, BodyType, Zenon
  <2>3. e \in Seq(Octet)
    BY EndsType, Zenon
  <2> HIDE DEF b
  <2>4. b \in Seq(Octet)
    BY <2>2, NoEndIs, SeqMonotonic
  <2>5. b \o e \in Seq(Octet)
    BY <2>3, <2>4
  <2> QED
    BY <2>5, Zenon DEF b
<1> QED
  BY <1>1, Zenon DEF IsEsc, LineEsc

\* No elements.
LEMMA ToSetEmpty == ToSet(<<>>) = {}
BY DEF ToSet

\* One element more.
LEMMA ToSetAppend ==
    ASSUME NEW S, NEW s \in Seq(S), NEW c \in S
    PROVE  ToSet(Append(s, c)) = ToSet(s) \cup {c}
<1> DEFINE t == Append(s, c)  n == Len(s)
<1>1. DOMAIN s = 1 .. n /\ DOMAIN t = 1 .. (n + 1) /\ n \in Nat
  OBVIOUS
<1>2. t[n + 1] = c /\ \A i \in 1 .. n : t[i] = s[i]
  OBVIOUS
<1> HIDE DEF t, n
<1>3. ASSUME NEW x \in ToSet(t) PROVE x \in ToSet(s) \cup {c}
  <2>1. PICK i \in 1 .. (n + 1) : x = t[i]
    BY <1>1, Zenon DEF ToSet
  <2>2. i \in 1 .. n \/ i = n + 1
    BY <1>1
  <2> QED
    BY <1>1, <1>2, <2>1, <2>2, Zenon DEF ToSet
<1>4. ASSUME NEW x \in ToSet(s) \cup {c} PROVE x \in ToSet(t)
  <2>1. CASE x = c
    <3>1. n + 1 \in 1 .. (n + 1)
      BY <1>1
    <3> QED
      BY <1>1, <1>2, <2>1, <3>1, Zenon DEF ToSet
  <2>2. CASE x \in ToSet(s)
    <3>1. PICK i \in 1 .. n : x = s[i]
      BY <1>1, <2>2, Zenon DEF ToSet
    <3>2. i \in 1 .. (n + 1)
      BY <1>1
    <3> QED
      BY <1>1, <1>2, <3>1, <3>2, Zenon DEF ToSet
  <2> QED
    BY <2>1, <2>2, Zenon
<1> QED
  BY <1>3, <1>4, Zenon DEF t

\* The type and the keys of what is kept.
LEMMA KeptType ==
    ASSUME NEW d, StringMap(d), NEW ks \in Seq(DOMAIN d)
    PROVE  Kept(d, ks) \in DictVal /\ DOMAIN Kept(d, ks) = ToSet(ks) \ {<<>>}
<1>1. ToSet(ks) \subseteq DOMAIN d
  BY DEF ToSet
<1>2. DOMAIN Kept(d, ks) = ToSet(ks) \ {<<>>}
  BY Zenon DEF Kept
<1>3. \A k \in ToSet(ks) \ {<<>>} : d[k] \in Seq(Octet) /\ k \in Seq(Octet)
  BY <1>1, StringsAre, Zenon DEF StringMap
<1>4. Kept(d, ks) \in [ToSet(ks) \ {<<>>} -> Seq(Octet)]
  BY <1>3, Zenon DEF Kept
<1>5. ToSet(ks) \ {<<>>} \subseteq Seq(Octet)
  BY <1>3, Zenon
<1> QED
  BY <1>2, <1>4, <1>5, DictValIs, Zenon

\* One line more keeps one key more, unless it is empty.
LEMMA KeptAppend ==
    ASSUME NEW d, StringMap(d), NEW ks \in Seq(DOMAIN d), NEW k \in DOMAIN d
    PROVE  Kept(d, Append(ks, k)) = Added(Kept(d, ks), k, d[k])
<1> DEFINE K == DOMAIN d
<1>0. ks \in Seq(K) /\ k \in K
  OBVIOUS
<1> HIDE DEF K
<1>1. ToSet(Append(ks, k)) = ToSet(ks) \cup {k}
  BY <1>0, ToSetAppend, SMT
<1> DEFINE T == ToSet(ks)
<1>2. DOMAIN Kept(d, ks) = T \ {<<>>}
  BY KeptType, Zenon
<1> HIDE DEF T
<1>3. CASE k = <<>>
  <2>1. (T \cup {k}) \ {<<>>} = T \ {<<>>}
    BY <1>3, Zenon
  <2> QED
    BY <1>1, <1>3, <2>1, Zenon DEF Added, Kept, T
<1>4. CASE k # <<>>
  <2>1. (T \cup {k}) \ {<<>>} = (T \ {<<>>}) \cup {k}
    BY <1>4, Zenon
  <2> DEFINE z == <<>>  D == T \ {z}
  <2>3. Kept(d, Append(ks, k)) = [x \in D \cup {k} |-> d[x]]
    BY <1>1, <2>1, Zenon DEF Kept, T
  <2>4. Kept(d, ks) = [x \in D |-> d[x]]
    BY Zenon DEF Kept, T
  <2>5. With(Kept(d, ks), k, d[k]) = [x \in D \cup {k} |-> IF x = k THEN d[k] ELSE Kept(d, ks)[x]]
    BY <1>2, Zenon DEF With
  <2> HIDE DEF D
  <2>6. \A x \in D \cup {k} : d[x] = IF x = k THEN d[k] ELSE Kept(d, ks)[x]
    BY <2>4, Zenon
  <2>7. With(Kept(d, ks), k, d[k]) = [x \in D \cup {k} |-> d[x]]
    BY <2>5, <2>6, Zenon
  <2> QED
    BY <1>4, <2>3, <2>7, Zenon DEF Added
<1> QED
  BY <1>3, <1>4, Zenon

\* The parser after complete lines.
LEMMA PRunLines ==
    ASSUME NEW d, StringMap(d), NEW e \in LineEnds
    PROVE  \A ks \in Seq(DOMAIN d) :
              PRun(Fresh, Mapped(LineEsc(d, e), ks)) = St(Kept(d, ks), <<>>, <<>>, 0, FALSE)
<1> DEFINE S == {ks \in Seq(DOMAIN d) :
              PRun(Fresh, Mapped(LineEsc(d, e), ks)) = St(Kept(d, ks), <<>>, <<>>, 0, FALSE)}
<1>0. Fresh \in PState
  BY FreshIs, Zenon
<1>1. <<>> \in S
  <2>1. Mapped(LineEsc(d, e), <<>>) = <<>>
    BY MappedEmpty, Zenon
  <2>2. <<>> \in Seq(DOMAIN d)
    OBVIOUS
  <2>3. Kept(d, <<>>) = Nothing
    <3>1. ToSet(<<>>) \ {<<>>} = {}
      BY ToSetEmpty, Zenon
    <3>2. Kept(d, <<>>) = [k \in {} |-> d[k]]
      BY <3>1, Zenon DEF Kept
    <3>3. [k \in {} |-> d[k]] = [k \in {} |-> <<>>]
      OBVIOUS
    <3> QED
      BY <3>2, <3>3, Zenon DEF Nothing
  <2>4. PRun(Fresh, <<>>) = Fresh
    BY <1>0, PRunEmpty, Zenon
  <2>5. Fresh = St(Nothing, <<>>, <<>>, 0, FALSE)
    BY FreshIs, Zenon
  <2> QED
    BY <2>1, <2>2, <2>3, <2>4, <2>5, Zenon
<1>2. ASSUME NEW ks \in Seq(DOMAIN d), NEW k \in DOMAIN d, ks \in S PROVE Append(ks, k) \in S
  <2> DEFINE esc == LineEsc(d, e)  m == Mapped(esc, ks)  x == esc[k]
  <2>1. IsEsc(esc, DOMAIN d, Octet)
    BY LineEscIs, Zenon
  <2>2. x = Body(k, d[k]) \o e
    BY Zenon DEF LineEsc
  <2>3. PRun(Fresh, m) = St(Kept(d, ks), <<>>, <<>>, 0, FALSE)
    BY <1>2, Zenon
  <2>4. x \in Seq(Octet)
    BY <2>1, Zenon DEF IsEsc
  <2> HIDE DEF esc
  <2>5. Mapped(esc, Append(ks, k)) = m \o x
    BY <2>1, MappedAppend, SMT
  <2>6. m \in Seq(Octet)
    BY <2>1, MappedType, Zenon
  <2> HIDE DEF m, x
  <2>7. PRun(Fresh, m \o x) = PRun(PRun(Fresh, m), x)
    BY <1>0, <2>4, <2>6, PRunConcat, SMT
  <2>8. Kept(d, ks) \in DictVal
    BY KeptType, Zenon
  <2>9. k \in Strings /\ d[k] \in Seq(Octet)
    BY Zenon DEF StringMap
  <2>10. PRun(St(Kept(d, ks), <<>>, <<>>, 0, FALSE), x) = St(Added(Kept(d, ks), k, d[k]), <<>>, <<>>, 0, FALSE)
    BY <2>2, <2>8, <2>9, PRunLine, Zenon
  <2>11. Kept(d, Append(ks, k)) = Added(Kept(d, ks), k, d[k])
    BY KeptAppend, Zenon
  <2>12. Append(ks, k) \in Seq(DOMAIN d)
    OBVIOUS
  <2> QED
    BY <2>3, <2>5, <2>7, <2>10, <2>11, <2>12, Zenon DEF esc
<1>3. \A ks \in Seq(DOMAIN d) : ks \in S
  <2> HIDE DEF S
  <2> QED
    BY <1>1, <1>2, SeqInduct
<1> QED
  BY <1>3, Zenon

-----------------------------------------------------------------------------
\* dictionary.rs: torn files.

\* Without a newline the map stays; after an error everything stays.
LEMMA PRunKeeps ==
    ASSUME NEW p \in PState, NEW u \in Seq(NoEnd)
    PROVE  PRun(p, u).d = p.d
<1> DEFINE Q == {q \in PState : q.d = p.d}
<1>1. Q \subseteq PState /\ p \in Q
  OBVIOUS
<1>2. ASSUME NEW q \in Q, NEW c \in NoEnd PROVE PStep[c][q] \in Q
  <2>1. c \in Octet /\ c # 10
    BY NoEndIs, Zenon DEF NoEnd
  <2>2. Parsed(q, c) \in PState /\ Parsed(q, c).d = q.d
    BY <2>1, ParsedType, Zenon
  <2>3. PStep[c][q] = Parsed(q, c)
    BY <2>1, PStepAt, Zenon
  <2> QED
    BY <2>2, <2>3, Zenon
<1>3. NoEnd \subseteq Octet
  BY NoEndIs, Zenon
<1> HIDE DEF Q
<1>4. \A s \in Seq(NoEnd) : After(PStep, p, s) \in Q
  BY <1>1, <1>2, <1>3, PStepIs, AfterStays, Zenon
<1> QED
  BY <1>4, Zenon DEF PRun, Q

\* After an error the parser stays where it is.
LEMMA PRunFailed ==
    ASSUME NEW p \in PState, ~p.ok, NEW u \in Seq(Octet)
    PROVE  PRun(p, u) = p
<1> DEFINE Q == {p}
<1>1. Q \subseteq PState /\ p \in Q
  OBVIOUS
<1>2. ASSUME NEW q \in Q, NEW c \in Octet PROVE PStep[c][q] \in Q
  <2>1. q = p
    OBVIOUS
  <2>2. Parsed(p, c) = p
    BY ParsedFailed, Zenon
  <2>3. PStep[c][p] = Parsed(p, c)
    BY PStepAt, Zenon
  <2> QED
    BY <2>1, <2>2, <2>3, Zenon
<1>3. Octet \subseteq Octet
  BY Zenon
<1> HIDE DEF Q
<1>4. \A s \in Seq(Octet) : After(PStep, p, s) \in Q
  BY <1>1, <1>2, <1>3, PStepIs, AfterStays, Zenon
<1> QED
  BY <1>4, Zenon DEF PRun, Q

\* The beginning of a line, its end excluded.
Begins(u) == \E k \in Seq(Octet), v \in Seq(Octet), w \in Seq(NoEnd) : u \o w = Body(k, v)

\* The beginning of a line is accepted and leaves the map as it is.
LEMMA BeginsOk ==
    ASSUME NEW d \in DictVal, NEW u \in Seq(NoEnd), Begins(u)
    PROVE  LET q == PRun(St(d, <<>>, <<>>, 0, FALSE), u) IN q.ok /\ q.d = d
<1> DEFINE p == St(d, <<>>, <<>>, 0, FALSE)  q == PRun(p, u)
<1>0. 0 \in {0, 1} /\ FALSE \in BOOLEAN
  OBVIOUS
<1>1. <<>> \in Seq(Octet)
  OBVIOUS
<1>2. p \in PState
  BY <1>0, <1>1, StIs, Zenon
<1>3. p.d = d
  BY DEF St, Rec
<1>4. PICK k \in Seq(Octet), v \in Seq(Octet), w \in Seq(NoEnd) : u \o w = Body(k, v)
  BY Zenon DEF Begins
<1>5. PRun(p, Body(k, v)) = St(d, k, v, 1, FALSE)
  BY PRunBody, Zenon
<1>6. St(d, k, v, 1, FALSE).ok
  BY DEF St, Rec
<1>7. Seq(NoEnd) \subseteq Seq(Octet)
  BY NoEndIs, SeqMonotonic
<1>8. u \in Seq(Octet) /\ w \in Seq(Octet)
  BY <1>7, Zenon
<1> HIDE DEF p
<1>9. PRun(p, u \o w) = PRun(q, w)
  BY <1>2, <1>8, PRunConcat, SMT
<1>10. q.d = d
  BY <1>2, <1>3, PRunKeeps, Zenon
<1>11. q \in PState
  BY <1>2, <1>8, PRunType, Zenon
<1> HIDE DEF q
<1>12. ASSUME ~q.ok PROVE FALSE
  <2>1. PRun(q, w) = q
    BY <1>8, <1>11, <1>12, PRunFailed, SMT
  <2> QED
    BY <2>1, <1>4, <1>5, <1>6, <1>9, <1>12, Zenon
<1> QED
  BY <1>10, <1>12, Zenon DEF p, q

\* A file with i complete lines and the beginning of one.
Torn(f, d, ks, e, i) ==
    \E u \in Seq(NoEnd) : Begins(u) /\ f = Mapped(LineEsc(d, e), SubSeq(ks, 1, i)) \o u

\* A beginning of a sequence.
LEMMA Shorter ==
    ASSUME NEW S, NEW s \in Seq(S), NEW i \in 0 .. Len(s)
    PROVE  SubSeq(s, 1, i) \in Seq(S) /\ Len(SubSeq(s, 1, i)) = i
OBVIOUS

\* A torn file is accepted, and gives the keys of its complete lines with their
\* values.
LEMMA TornLoads ==
    ASSUME NEW d, StringMap(d), NEW e \in LineEnds, NEW ks \in Seq(DOMAIN d), NEW i \in 0 .. Len(ks),
           NEW f, Torn(f, d, ks, e, i)
    PROVE  from_bytes(f).ok /\ from_bytes(f).d = Kept(d, SubSeq(ks, 1, i))
<1> DEFINE esc == LineEsc(d, e)  js == SubSeq(ks, 1, i)  m == Mapped(esc, js)  p == St(Kept(d, js), <<>>, <<>>, 0, FALSE)
<1>1. PICK u \in Seq(NoEnd) : Begins(u) /\ f = m \o u
  BY Zenon DEF Torn
<1>2. js \in Seq(DOMAIN d)
  BY Shorter, Zenon
<1>3. Kept(d, js) \in DictVal
  BY <1>2, KeptType, Zenon
<1>4. PRun(Fresh, m) = p
  BY <1>2, PRunLines, Zenon
<1>5. m \in Seq(Octet)
  <2>1. IsEsc(esc, DOMAIN d, Octet)
    BY LineEscIs, Zenon
  <2> HIDE DEF esc, js
  <2> QED
    BY <1>2, <2>1, MappedType, Zenon
<1>6. PRun(p, u).ok /\ PRun(p, u).d = Kept(d, js)
  BY <1>1, <1>3, BeginsOk, Zenon
<1>7. u \in Seq(Octet)
  BY NoEndIs, SeqMonotonic
<1>8. Fresh \in PState
  BY FreshIs, Zenon
<1> HIDE DEF m, p
<1>9. PRun(Fresh, m \o u) = PRun(PRun(Fresh, m), u)
  BY <1>5, <1>7, <1>8, PRunConcat, SMT
<1> DEFINE g == m \o u
<1>10. g \in Seq(Octet)
  BY <1>5, <1>7
<1> HIDE DEF g
<1>11. from_bytes(g) = PRun(Fresh, g)
  BY <1>10, FromBytesIs, Zenon
<1> QED
  BY <1>1, <1>4, <1>6, <1>9, <1>11, Zenon DEF g

\* The newlines of a text.
SelEnd == [c \in Octet |-> IF c = 10 THEN <<c>> ELSE <<>>]
Ended(s) == Selected(s, LAMBDA c : c = 10)

\* Selecting the newlines is a replacement.
LEMMA SelEndIs == IsEsc(SelEnd, Octet, Octet)
<1>1. \A c \in Octet : <<c>> \in Seq(Octet) /\ <<>> \in Seq(Octet)
  OBVIOUS
<1> QED
  BY <1>1, Zenon DEF SelEnd, IsEsc

\* The filter as a replacement.
LEMMA EndedIs ==
    ASSUME NEW s \in Seq(Octet)
    PROVE  Ended(s) = Mapped(SelEnd, s)
<1>1. \A i \in DOMAIN s : s[i] \in Octet
  OBVIOUS
<1>2. \A i \in DOMAIN s : SelEnd[s[i]] = IF s[i] = 10 THEN <<s[i]>> ELSE <<>>
  BY <1>1, Zenon DEF SelEnd
<1>3. [i \in DOMAIN s |-> SelEnd[s[i]]] = [i \in DOMAIN s |-> IF s[i] = 10 THEN <<s[i]>> ELSE <<>>]
  BY <1>2, Zenon
<1> QED
  BY <1>3, Zenon DEF Ended, Selected, Mapped

\* Text without a line end has no newline.
LEMMA NoneEnded == \A s \in Seq(NoEnd) : Mapped(SelEnd, s) = <<>>
<1> DEFINE S == {s \in Seq(NoEnd) : Mapped(SelEnd, s) = <<>>}
<1>1. <<>> \in S
  <2>1. <<>> \in Seq(NoEnd)
    OBVIOUS
  <2> QED
    BY <2>1, MappedEmpty, Zenon
<1>2. ASSUME NEW s \in Seq(NoEnd), NEW c \in NoEnd, s \in S PROVE Append(s, c) \in S
  <2>1. s \in Seq(Octet) /\ c \in Octet
    BY NoEndIs, SeqMonotonic
  <2>2. Mapped(SelEnd, Append(s, c)) = Mapped(SelEnd, s) \o SelEnd[c]
    BY <2>1, SelEndIs, MappedAppend, SMT
  <2>3. c # 10
    BY Zenon DEF NoEnd
  <2>4. SelEnd[c] = <<>> /\ Mapped(SelEnd, s) = <<>>
    BY <1>2, <2>1, <2>3, Zenon DEF SelEnd
  <2>5. <<>> \o <<>> = <<>> /\ Append(s, c) \in Seq(NoEnd)
    OBVIOUS
  <2> QED
    BY <2>2, <2>4, <2>5, Zenon
<1>3. \A s \in Seq(NoEnd) : s \in S
  <2> HIDE DEF S
  <2> QED
    BY <1>1, <1>2, SeqInduct
<1> QED
  BY <1>3

\* A line end of either kind has one newline.
LEMMA EndEnded ==
    ASSUME NEW e \in LineEnds
    PROVE  Mapped(SelEnd, e) = <<10>>
<1>1. SelEnd[10] = <<10>> /\ SelEnd[13] = <<>>
  <2>1. 13 # 10
    OBVIOUS
  <2> QED
    BY <2>1, NoEndIs, Zenon DEF SelEnd
<1>2. Mapped(SelEnd, <<10>>) = <<10>>
  <2>1. Mapped(SelEnd, <<10>>) = SelEnd[10]
    BY SelEndIs, NoEndIs, MappedOne, SMT
  <2> QED
    BY <1>1, <2>1, Zenon
<1>3. Mapped(SelEnd, <<13, 10>>) = <<10>>
  <2> DEFINE s == <<13>>
  <2>1. Append(s, 10) = <<13, 10>> /\ s \in Seq(Octet)
    <3>1. Append(<<13>>, 10) = <<13, 10>>
      BY NoEndIs, PairAppend, SMT
    <3>2. <<13>> \in Seq(Octet)
      BY NoEndIs
    <3> QED
      BY <3>1, <3>2, Zenon
  <2>2. Mapped(SelEnd, s) = SelEnd[13]
    BY SelEndIs, NoEndIs, MappedOne, SMT
  <2> HIDE DEF s
  <2>3. Mapped(SelEnd, Append(s, 10)) = Mapped(SelEnd, s) \o SelEnd[10]
    BY <2>1, SelEndIs, NoEndIs, MappedAppend, SMT
  <2>4. <<>> \o <<10>> = <<10>>
    OBVIOUS
  <2> QED
    BY <1>1, <2>1, <2>2, <2>3, <2>4, Zenon
<1> QED
  BY <1>2, <1>3, Zenon DEF LineEnds

\* A line has one newline.
LEMMA LineEnded ==
    ASSUME NEW b \in Seq(NoEnd), NEW e \in LineEnds
    PROVE  Mapped(SelEnd, b \o e) = <<10>>
<1>1. b \in Seq(Octet)
  BY NoEndIs, SeqMonotonic
<1>2. e \in Seq(Octet)
  BY EndsType, Zenon
<1>3. Mapped(SelEnd, b) = <<>> /\ Mapped(SelEnd, e) = <<10>>
  BY NoneEnded, EndEnded, Zenon
<1>4. Mapped(SelEnd, b \o e) = Mapped(SelEnd, b) \o Mapped(SelEnd, e)
  <2>1. \A x \in Seq(Octet) : Mapped(SelEnd, b \o x) = Mapped(SelEnd, b) \o Mapped(SelEnd, x)
    BY <1>1, SelEndIs, MappedConcat, SMT
  <2> QED
    BY <1>2, <2>1, Zenon
<1>5. <<>> \o <<10>> = <<10>>
  OBVIOUS
<1> QED
  BY <1>3, <1>4, <1>5, Zenon

\* One newline a line.
LEMMA LinesEnded ==
    ASSUME NEW d, StringMap(d), NEW e \in LineEnds
    PROVE  \A ks \in Seq(DOMAIN d) :
              /\ Mapped(SelEnd, Mapped(LineEsc(d, e), ks)) \in Seq(Octet)
              /\ Len(Mapped(SelEnd, Mapped(LineEsc(d, e), ks))) = Len(ks)
<1> DEFINE esc == LineEsc(d, e)  M(ks) == Mapped(SelEnd, Mapped(esc, ks))
<1> DEFINE S == {ks \in Seq(DOMAIN d) : M(ks) \in Seq(Octet) /\ Len(M(ks)) = Len(ks)}
<1>0. IsEsc(esc, DOMAIN d, Octet)
  BY LineEscIs, Zenon
<1>1. <<>> \in S
  <2>1. <<>> \in Seq(DOMAIN d) /\ Len(<<>>) = 0 /\ <<>> \in Seq(Octet)
    OBVIOUS
  <2>2. Mapped(esc, <<>>) = <<>>
    BY MappedEmpty, Zenon
  <2>3. Mapped(SelEnd, <<>>) = <<>>
    BY MappedEmpty, Zenon
  <2> QED
    BY <2>1, <2>2, <2>3, Zenon
<1>2. ASSUME NEW ks \in Seq(DOMAIN d), NEW k \in DOMAIN d, ks \in S PROVE Append(ks, k) \in S
  <2> DEFINE m == Mapped(esc, ks)  x == esc[k]
  <2>1. x \in Seq(Octet)
    BY <1>0, Zenon DEF IsEsc
  <2>2. Mapped(SelEnd, x) = <<10>>
    <3>1. k \in Seq(Octet) /\ d[k] \in Seq(Octet)
      BY StringsAre, Zenon DEF StringMap
    <3>2. Body(k, d[k]) \in Seq(NoEnd)
      BY <3>1, BodyType, Zenon
    <3>3. x = Body(k, d[k]) \o e
      BY Zenon DEF LineEsc
    <3> QED
      BY <3>2, <3>3, LineEnded, Zenon
  <2>3. M(ks) \in Seq(Octet) /\ Len(M(ks)) = Len(ks)
    BY <1>2, Zenon
  <2> HIDE DEF esc
  <2>4. m \in Seq(Octet)
    BY <1>0, MappedType, Zenon
  <2>5. Mapped(esc, Append(ks, k)) = m \o x
    BY <1>0, MappedAppend, SMT
  <2> HIDE DEF m, x
  <2>6. Mapped(SelEnd, m \o x) = Mapped(SelEnd, m) \o Mapped(SelEnd, x)
    <3>1. \A y \in Seq(Octet) : Mapped(SelEnd, m \o y) = Mapped(SelEnd, m) \o Mapped(SelEnd, y)
      BY <2>4, SelEndIs, MappedConcat, SMT
    <3> QED
      BY <2>1, <3>1, Zenon
  <2> DEFINE y == Mapped(SelEnd, m)
  <2>7. y \in Seq(Octet) /\ Len(y) = Len(ks)
    BY <2>3, Zenon DEF m
  <2> HIDE DEF y
  <2>8. y \o <<10>> \in Seq(Octet) /\ Len(y \o <<10>>) = Len(ks) + 1
    BY <2>7, NoEndIs
  <2>9. Append(ks, k) \in Seq(DOMAIN d) /\ Len(Append(ks, k)) = Len(ks) + 1
    OBVIOUS
  <2> QED
    BY <2>2, <2>5, <2>6, <2>8, <2>9, Zenon DEF y
<1>3. \A ks \in Seq(DOMAIN d) : ks \in S
  <2> HIDE DEF S
  <2> QED
    BY <1>1, <1>2, SeqInduct
<1> QED
  BY <1>3, Zenon

\* A torn file has a newline for each complete line.
LEMMA TornLines ==
    ASSUME NEW d, StringMap(d), NEW e \in LineEnds, NEW ks \in Seq(DOMAIN d), NEW i \in 0 .. Len(ks),
           NEW f, Torn(f, d, ks, e, i)
    PROVE  Len(Ended(f)) = i /\ f \in Seq(Octet)
<1> DEFINE esc == LineEsc(d, e)  js == SubSeq(ks, 1, i)  m == Mapped(esc, js)
<1>1. PICK u \in Seq(NoEnd) : Begins(u) /\ f = m \o u
  BY Zenon DEF Torn
<1>2. js \in Seq(DOMAIN d) /\ Len(js) = i
  BY Shorter, Zenon
<1>3. Mapped(SelEnd, m) \in Seq(Octet) /\ Len(Mapped(SelEnd, m)) = i
  BY <1>2, LinesEnded, Zenon
<1>4. m \in Seq(Octet)
  <2>1. IsEsc(esc, DOMAIN d, Octet)
    BY LineEscIs, Zenon
  <2> HIDE DEF esc, js
  <2> QED
    BY <1>2, <2>1, MappedType, Zenon
<1>5. u \in Seq(Octet)
  BY NoEndIs, SeqMonotonic
<1> HIDE DEF m
<1>6. f \in Seq(Octet)
  BY <1>1, <1>4, <1>5
<1>7. Mapped(SelEnd, m \o u) = Mapped(SelEnd, m) \o Mapped(SelEnd, u)
  <2>1. \A y \in Seq(Octet) : Mapped(SelEnd, m \o y) = Mapped(SelEnd, m) \o Mapped(SelEnd, y)
    BY <1>4, SelEndIs, MappedConcat, SMT
  <2> QED
    BY <1>5, <2>1, Zenon
<1>8. Mapped(SelEnd, u) = <<>>
  BY NoneEnded, Zenon
<1> DEFINE y == Mapped(SelEnd, m)
<1>9. y \o <<>> = y
  BY <1>3
<1>10. Ended(f) = Mapped(SelEnd, f)
  BY <1>6, EndedIs, Zenon
<1> QED
  BY <1>1, <1>3, <1>6, <1>7, <1>8, <1>9, <1>10, Zenon

\* Nothing is the beginning of a line.
LEMMA BeginsEmpty == Begins(<<>>)
<1>1. <<>> \in Seq(Octet)
  OBVIOUS
<1> DEFINE b == Body(<<>>, <<>>)
<1>2. b \in Seq(NoEnd)
  BY <1>1, BodyType, Zenon
<1> HIDE DEF b
<1>3. <<>> \o b = b
  BY <1>2
<1> QED
  BY <1>1, <1>2, <1>3, Zenon DEF Begins, b

\* A cut in the first of two sequences.
LEMMA CutLow ==
    ASSUME NEW S, NEW m \in Seq(S), NEW x \in Seq(S), NEW n \in 0 .. Len(m)
    PROVE  SubSeq(m \o x, 1, n) = SubSeq(m, 1, n)
OBVIOUS

\* A cut in the second of two sequences.
LEMMA CutHigh ==
    ASSUME NEW S, NEW m \in Seq(S), NEW x \in Seq(S), NEW j \in 0 .. Len(x)
    PROVE  SubSeq(m \o x, 1, Len(m) + j) = m \o SubSeq(x, 1, j)
OBVIOUS

\* However far writing a map has got, the file is torn in the line it was at.
CutTorn(d, ks) ==
    LET m == Mapped(LineEsc(d, <<10>>), ks)
    IN  \A n \in 0 .. Len(m) : \E i \in 0 .. Len(ks) : Torn(SubSeq(m, 1, n), d, ks, <<10>>, i)

\* write_to, stopped after any byte, leaves a torn file.
LEMMA CutIsTorn ==
    ASSUME NEW d, StringMap(d)
    PROVE  \A ks \in Seq(DOMAIN d) : CutTorn(d, ks)
<1> DEFINE e == <<10>>  esc == LineEsc(d, e)  S == {ks \in Seq(DOMAIN d) : CutTorn(d, ks)}
<1>0. e \in LineEnds
  BY Zenon DEF LineEnds
<1>9. IsEsc(esc, DOMAIN d, Octet)
  <2> HIDE DEF e
  <2> QED
    BY <1>0, LineEscIs, Zenon
<1>1. <<>> \in S
  <2>1. <<>> \in Seq(DOMAIN d) /\ Len(<<>>) = 0 /\ <<>> \in Seq(NoEnd)
    OBVIOUS
  <2>2. Mapped(esc, <<>>) = <<>>
    BY MappedEmpty, Zenon
  <2>3. SubSeq(<<>>, 1, 0) = <<>> /\ <<>> \o <<>> = <<>>
    OBVIOUS
  <2>4. \A n \in 0 .. 0 : n = 0
    OBVIOUS
  <2>5. 0 \in 0 .. 0
    OBVIOUS
  <2>6. Torn(<<>>, d, <<>>, e, 0)
    BY <2>1, <2>2, <2>3, BeginsEmpty, Zenon DEF Torn
  <2> QED
    BY <2>1, <2>2, <2>3, <2>4, <2>5, <2>6, Zenon DEF CutTorn
<1>2. ASSUME NEW ks \in Seq(DOMAIN d), NEW k \in DOMAIN d, ks \in S PROVE Append(ks, k) \in S
  <2> DEFINE m == Mapped(esc, ks)  x == esc[k]  ls == Append(ks, k)  b == Body(k, d[k])
  <2>1. k \in Seq(Octet) /\ d[k] \in Seq(Octet)
    BY StringsAre, Zenon DEF StringMap
  <2>2. b \in Seq(NoEnd)
    BY <2>1, BodyType, Zenon
  <2>3. x = b \o e
    BY Zenon DEF LineEsc
  <2>4. CutTorn(d, ks)
    BY <1>2, Zenon
  <2>5. x \in Seq(Octet)
    BY <1>9, Zenon DEF IsEsc
  <2> HIDE DEF esc
  <2>6. m \in Seq(Octet)
    BY <1>9, MappedType, Zenon
  <2>7. Mapped(esc, ls) = m \o x
    BY <1>9, MappedAppend, SMT
  <2>8. ls \in Seq(DOMAIN d) /\ Len(ls) = Len(ks) + 1 /\ Len(ks) \in Nat
    OBVIOUS
  <2>9. SubSeq(ls, 1, Len(ks)) = ks /\ SubSeq(ls, 1, Len(ls)) = ls
    OBVIOUS
  <2>10. \A i \in 0 .. Len(ks) : SubSeq(ls, 1, i) = SubSeq(ks, 1, i) /\ i \in 0 .. Len(ls)
    OBVIOUS
  <2>11. Len(ls) \in 0 .. Len(ls) /\ Len(ks) \in 0 .. Len(ls)
    BY <2>8
  <2> HIDE DEF m, x, ls, b
  <2>12. ASSUME NEW n \in 0 .. Len(m \o x)
         PROVE  \E i \in 0 .. Len(ls) : Torn(SubSeq(m \o x, 1, n), d, ls, e, i)
    <3>1. CASE n \in 0 .. Len(m)
      <4>1. SubSeq(m \o x, 1, n) = SubSeq(m, 1, n)
        BY <2>5, <2>6, <3>1, CutLow, SMT
      <4>2. PICK i \in 0 .. Len(ks) : Torn(SubSeq(m, 1, n), d, ks, e, i)
        BY <2>4, <3>1, Zenon DEF CutTorn, m, esc
      <4>3. SubSeq(ls, 1, i) = SubSeq(ks, 1, i) /\ i \in 0 .. Len(ls)
        BY <2>10, Zenon
      <4>4. Torn(SubSeq(m, 1, n), d, ls, e, i)
        BY <4>2, <4>3, Zenon DEF Torn
      <4> QED
        BY <4>1, <4>3, <4>4, Zenon
    <3>2. CASE n \notin 0 .. Len(m)
      <4> DEFINE j == n - Len(m)
      <4>1. j \in 1 .. Len(x) /\ n = Len(m) + j
        BY <2>5, <2>6, <3>2
      <4> HIDE DEF j
      <4>2. j \in 0 .. Len(x)
        BY <4>1
      <4>3. SubSeq(m \o x, 1, n) = m \o SubSeq(x, 1, j)
        BY <2>5, <2>6, <4>1, <4>2, CutHigh, SMT
      <4>4. CASE j = Len(x)
        <5>1. SubSeq(x, 1, j) = x
          BY <2>5, <4>4
        <5>2. (m \o x) \o <<>> = m \o x /\ <<>> \in Seq(NoEnd)
          BY <2>5, <2>6
        <5>3. Torn(m \o x, d, ls, e, Len(ls))
          BY <2>7, <2>9, <5>2, BeginsEmpty, Zenon DEF Torn, esc
        <5> QED
          BY <2>11, <4>3, <5>1, <5>3, Zenon
      <4>5. CASE j # Len(x)
        <5>1. j \in 0 .. Len(b)
          <6>1. Len(x) = Len(b) + 1
            BY <2>2, <2>3
          <6>2. Len(b) \in Nat
            BY <2>2
          <6> QED
            BY <4>1, <4>5, <6>1, <6>2
        <5>2. SubSeq(x, 1, j) = SubSeq(b, 1, j)
          <6>1. b \in Seq(Octet)
            BY <2>2, NoEndIs, SeqMonotonic
          <6>2. e \in Seq(Octet)
            BY <1>0, EndsType, Zenon
          <6> HIDE DEF e
          <6>3. SubSeq(b \o e, 1, j) = SubSeq(b, 1, j)
            BY <5>1, <6>1, <6>2, CutLow, SMT
          <6> QED
            BY <2>3, <6>3, Zenon
        <5> DEFINE u == SubSeq(b, 1, j)
        <5>3. u \in Seq(NoEnd)
          BY <2>2, <5>1, Shorter, SMT
        <5>4. \E w \in Seq(NoEnd) : b = u \o w
          BY <2>2, <5>1, Cut, Zenon
        <5> HIDE DEF u
        <5>5. Begins(u)
          BY <2>1, <5>4, Zenon DEF Begins, b
        <5>6. Torn(m \o u, d, ls, e, Len(ks))
          BY <5>3, <5>5, <2>9, Zenon DEF Torn, m, esc
        <5> QED
          BY <2>11, <4>3, <5>2, <5>6, Zenon DEF u
      <4> QED
        BY <4>4, <4>5, Zenon
    <3> QED
      BY <3>1, <3>2, Zenon
  <2> QED
    BY <2>7, <2>8, <2>12, Zenon DEF CutTorn, esc, ls
<1>3. \A ks \in Seq(DOMAIN d) : ks \in S
  <2> HIDE DEF S
  <2> QED
    BY <1>1, <1>2, SeqInduct
<1> QED
  BY <1>3, Zenon

\* The editor's line ends.
CrEsc == [c \in Octet |-> IF c = 10 THEN <<13, 10>> ELSE <<c>>]
WithCr(s) == FlattenSeq([i \in DOMAIN s |-> IF s[i] = 10 THEN <<13, 10>> ELSE <<s[i]>>])

\* Changing line ends is a replacement.
LEMMA CrEscIs == IsEsc(CrEsc, Octet, Octet)
<1>1. \A c \in Octet : <<c>> \in Seq(Octet)
  OBVIOUS
<1>2. <<13, 10>> \in Seq(Octet)
  BY NoEndIs
<1> QED
  BY <1>1, <1>2, Zenon DEF CrEsc, IsEsc

\* The editor replaces every newline.
LEMMA WithCrIs ==
    ASSUME NEW s \in Seq(Octet)
    PROVE  WithCr(s) = Mapped(CrEsc, s)
<1>1. \A i \in DOMAIN s : s[i] \in Octet
  OBVIOUS
<1>2. \A i \in DOMAIN s : CrEsc[s[i]] = IF s[i] = 10 THEN <<13, 10>> ELSE <<s[i]>>
  BY <1>1, Zenon DEF CrEsc
<1>3. [i \in DOMAIN s |-> CrEsc[s[i]]] = [i \in DOMAIN s |-> IF s[i] = 10 THEN <<13, 10>> ELSE <<s[i]>>]
  BY <1>2, Zenon
<1> QED
  BY <1>3, Zenon DEF WithCr, Mapped

\* The editor leaves text without line ends alone.
LEMMA NoneCr == \A s \in Seq(NoEnd) : Mapped(CrEsc, s) = s
<1> DEFINE S == {s \in Seq(NoEnd) : Mapped(CrEsc, s) = s}
<1>1. <<>> \in S
  <2>1. <<>> \in Seq(NoEnd)
    OBVIOUS
  <2> QED
    BY <2>1, MappedEmpty, Zenon
<1>2. ASSUME NEW s \in Seq(NoEnd), NEW c \in NoEnd, s \in S PROVE Append(s, c) \in S
  <2>1. s \in Seq(Octet) /\ c \in Octet
    BY NoEndIs, SeqMonotonic
  <2>2. Mapped(CrEsc, Append(s, c)) = Mapped(CrEsc, s) \o CrEsc[c]
    BY <2>1, CrEscIs, MappedAppend, SMT
  <2>3. c # 10
    BY Zenon DEF NoEnd
  <2>4. CrEsc[c] = <<c>> /\ Mapped(CrEsc, s) = s
    BY <1>2, <2>1, <2>3, Zenon DEF CrEsc
  <2>5. s \o <<c>> = Append(s, c) /\ Append(s, c) \in Seq(NoEnd)
    OBVIOUS
  <2> QED
    BY <2>2, <2>4, <2>5, Zenon
<1>3. \A s \in Seq(NoEnd) : s \in S
  <2> HIDE DEF S
  <2> QED
    BY <1>1, <1>2, SeqInduct
<1> QED
  BY <1>3

\* The editor changes two texts one by one.
LEMMA CrConcat ==
    ASSUME NEW s \in Seq(Octet), NEW t \in Seq(Octet)
    PROVE  Mapped(CrEsc, s \o t) = Mapped(CrEsc, s) \o Mapped(CrEsc, t)
<1>1. \A y \in Seq(Octet) : Mapped(CrEsc, s \o y) = Mapped(CrEsc, s) \o Mapped(CrEsc, y)
  BY CrEscIs, MappedConcat, SMT
<1> QED
  BY <1>1, Zenon

\* The editor gives a line its other end.
LEMMA LineCr ==
    ASSUME NEW b \in Seq(NoEnd)
    PROVE  Mapped(CrEsc, b \o <<10>>) = b \o <<13, 10>>
<1> DEFINE e == <<10>>
<1>1. b \in Seq(Octet)
  BY NoEndIs, SeqMonotonic
<1>2. e \in Seq(Octet)
  BY NoEndIs
<1>3. Mapped(CrEsc, e) = CrEsc[10]
  BY CrEscIs, NoEndIs, MappedOne, SMT
<1>4. CrEsc[10] = <<13, 10>>
  BY NoEndIs, Zenon DEF CrEsc
<1>5. Mapped(CrEsc, b) = b
  BY NoneCr, Zenon
<1> HIDE DEF e
<1>6. Mapped(CrEsc, b \o e) = Mapped(CrEsc, b) \o Mapped(CrEsc, e)
  BY <1>1, <1>2, CrConcat, SMT
<1> QED
  BY <1>3, <1>4, <1>5, <1>6, Zenon DEF e

\* The editor gives every line its other end.
LEMMA LinesCr ==
    ASSUME NEW d, StringMap(d)
    PROVE  \A ks \in Seq(DOMAIN d) :
              Mapped(CrEsc, Mapped(LineEsc(d, <<10>>), ks)) = Mapped(LineEsc(d, <<13, 10>>), ks)
<1> DEFINE a == LineEsc(d, <<10>>)  z == LineEsc(d, <<13, 10>>)
           S == {ks \in Seq(DOMAIN d) : Mapped(CrEsc, Mapped(a, ks)) = Mapped(z, ks)}
<1>0. <<10>> \in LineEnds /\ <<13, 10>> \in LineEnds
  BY Zenon DEF LineEnds
<1>9. IsEsc(a, DOMAIN d, Octet) /\ IsEsc(z, DOMAIN d, Octet)
  BY <1>0, LineEscIs, Zenon
<1>1. <<>> \in S
  <2>1. <<>> \in Seq(DOMAIN d)
    OBVIOUS
  <2>2. Mapped(a, <<>>) = <<>>
    BY MappedEmpty, Zenon
  <2>3. Mapped(z, <<>>) = <<>>
    BY MappedEmpty, Zenon
  <2>4. Mapped(CrEsc, <<>>) = <<>>
    BY MappedEmpty, Zenon
  <2> QED
    BY <2>1, <2>2, <2>3, <2>4, Zenon
<1>2. ASSUME NEW ks \in Seq(DOMAIN d), NEW k \in DOMAIN d, ks \in S PROVE Append(ks, k) \in S
  <2> DEFINE m == Mapped(a, ks)  x == a[k]
  <2>1. x \in Seq(Octet)
    BY <1>9, Zenon DEF IsEsc
  <2>2. Mapped(CrEsc, x) = z[k]
    <3>1. k \in Seq(Octet) /\ d[k] \in Seq(Octet)
      BY StringsAre, Zenon DEF StringMap
    <3>2. Body(k, d[k]) \in Seq(NoEnd)
      BY <3>1, BodyType, Zenon
    <3>3. x = Body(k, d[k]) \o <<10>> /\ z[k] = Body(k, d[k]) \o <<13, 10>>
      BY Zenon DEF LineEsc
    <3> QED
      BY <3>2, <3>3, LineCr, Zenon
  <2>3. Mapped(CrEsc, m) = Mapped(z, ks)
    BY <1>2, Zenon
  <2> HIDE DEF a, z
  <2>4. m \in Seq(Octet)
    BY <1>9, MappedType, Zenon
  <2>5. Mapped(a, Append(ks, k)) = m \o x
    BY <1>9, MappedAppend, SMT
  <2>6. Mapped(z, Append(ks, k)) = Mapped(z, ks) \o z[k]
    BY <1>9, MappedAppend, SMT
  <2> HIDE DEF m, x
  <2>7. Mapped(CrEsc, m \o x) = Mapped(CrEsc, m) \o Mapped(CrEsc, x)
    BY <2>1, <2>4, CrConcat, SMT
  <2>8. Append(ks, k) \in Seq(DOMAIN d)
    OBVIOUS
  <2> QED
    BY <2>2, <2>3, <2>5, <2>6, <2>7, <2>8, Zenon
<1>3. \A ks \in Seq(DOMAIN d) : ks \in S
  <2> HIDE DEF S
  <2> QED
    BY <1>1, <1>2, SeqInduct
<1> QED
  BY <1>3, Zenon

\* The line end that write_to writes.
Newline == <<10>>

\* A torn file is torn in the same line after the editor saved it.
LEMMA CrIsTorn ==
    ASSUME NEW d, StringMap(d), NEW ks \in Seq(DOMAIN d), NEW i \in 0 .. Len(ks),
           NEW f, Torn(f, d, ks, Newline, i)
    PROVE  Torn(WithCr(f), d, ks, <<13, 10>>, i)
<1> DEFINE e == <<10>>  esc == LineEsc(d, e)  js == SubSeq(ks, 1, i)  m == Mapped(esc, js)
<1>1. PICK u \in Seq(NoEnd) : Begins(u) /\ f = m \o u
  BY Zenon DEF Torn, Newline
<1>2. js \in Seq(DOMAIN d)
  BY Shorter, Zenon
<1>3. e \in LineEnds
  BY Zenon DEF LineEnds
<1>4. m \in Seq(Octet)
  <2> HIDE DEF e
  <2>1. IsEsc(esc, DOMAIN d, Octet)
    BY <1>3, LineEscIs, Zenon
  <2> HIDE DEF esc, js
  <2> QED
    BY <1>2, <2>1, MappedType, Zenon
<1>5. u \in Seq(Octet)
  BY NoEndIs, SeqMonotonic
<1>6. Mapped(CrEsc, m) = Mapped(LineEsc(d, <<13, 10>>), js)
  BY <1>2, LinesCr, Zenon
<1>7. Mapped(CrEsc, u) = u
  BY NoneCr, Zenon
<1> HIDE DEF m
<1>8. Mapped(CrEsc, m \o u) = Mapped(CrEsc, m) \o Mapped(CrEsc, u)
  BY <1>4, <1>5, CrConcat, SMT
<1>9. f \in Seq(Octet)
  BY <1>1, <1>4, <1>5
<1>10. WithCr(f) = Mapped(CrEsc, f)
  BY <1>9, WithCrIs, Zenon
<1> QED
  BY <1>1, <1>6, <1>7, <1>8, <1>10, Zenon DEF Torn

-----------------------------------------------------------------------------
\* dictionary.rs: the order of the keys.

\* The order of strings, over functions s, t, u on 1 .. m, 1 .. n, 1 .. o.
Ints(s, m) == \A i \in 1 .. m : s[i] \in Int
Begin(s, m, t, n) == m <= n /\ \A j \in 1 .. m : s[j] = t[j]
Differ(s, m, t, n, i) == /\ 1 <= i /\ i <= m /\ i <= n /\ s[i] < t[i]
                         /\ \A j \in 1 .. (i - 1) : s[j] = t[j]
Before(s, m, t, n) == Begin(s, m, t, n) \/ \E i \in Nat : Differ(s, m, t, n, i)

\* The order is transitive.
LEMMA BeforeTransitive ==
    ASSUME NEW m \in Nat, NEW n \in Nat, NEW o \in Nat, NEW s, NEW t, NEW u,
           Ints(s, m), Ints(t, n), Ints(u, o), Before(s, m, t, n), Before(t, n, u, o)
    PROVE  Before(s, m, u, o)
<1>3. ASSUME Begin(s, m, t, n), Begin(t, n, u, o) PROVE Begin(s, m, u, o)
  BY <1>3 DEF Begin
<1>4. ASSUME Begin(s, m, t, n), NEW i \in Nat, Differ(t, n, u, o, i)
      PROVE  Begin(s, m, u, o) \/ Differ(s, m, u, o, i)
  <2>1. CASE i <= m
    BY <1>4, <2>1 DEF Begin, Differ
  <2>2. CASE i > m
    BY <1>4, <2>2 DEF Begin, Differ
  <2> QED
    BY <2>1, <2>2
<1>5. ASSUME NEW i \in Nat, Differ(s, m, t, n, i), Begin(t, n, u, o) PROVE Differ(s, m, u, o, i)
  <2>1. s[i] < u[i] /\ i <= o /\ 1 <= i /\ i <= m
    BY <1>5 DEF Begin, Differ
  <2>2. \A j \in 1 .. (i - 1) : s[j] = u[j]
    BY <1>5 DEF Begin, Differ
  <2> QED
    BY <2>1, <2>2 DEF Differ
<1>6. ASSUME NEW i \in Nat, Differ(s, m, t, n, i), NEW j \in Nat, Differ(t, n, u, o, j)
      PROVE  Differ(s, m, u, o, i) \/ Differ(s, m, u, o, j)
  <2>0. /\ i \in 1 .. m /\ i \in 1 .. n /\ j \in 1 .. n /\ j \in 1 .. o /\ s[i] < t[i] /\ t[j] < u[j]
        /\ s[i] \in Int /\ t[i] \in Int /\ t[j] \in Int /\ u[j] \in Int
    BY <1>6 DEF Differ, Ints
  <2>1. CASE i < j
    <3>1. t[i] = u[i] /\ i <= o
      BY <1>6, <2>0, <2>1 DEF Differ
    <3>2. \A x \in 1 .. (i - 1) : s[x] = u[x]
      BY <1>6, <2>1 DEF Differ
    <3> QED
      BY <2>0, <3>1, <3>2 DEF Differ
  <2>2. CASE i = j
    <3>1. s[i] < u[i]
      BY <2>0, <2>2
    <3>2. \A x \in 1 .. (i - 1) : s[x] = u[x]
      BY <1>6, <2>2 DEF Differ
    <3> QED
      BY <2>0, <2>2, <3>1, <3>2 DEF Differ
  <2>3. CASE i > j
    <3>1. s[j] = t[j] /\ j <= m
      BY <1>6, <2>0, <2>3 DEF Differ
    <3>2. \A x \in 1 .. (j - 1) : s[x] = u[x]
      BY <1>6, <2>3 DEF Differ
    <3> QED
      BY <2>0, <3>1, <3>2 DEF Differ
  <2> QED
    BY <2>1, <2>2, <2>3
<1> QED
  BY <1>3, <1>4, <1>5, <1>6, Zenon DEF Before

\* The order is antisymmetric.
LEMMA BeforeAntisymmetric ==
    ASSUME NEW m \in Nat, NEW n \in Nat, NEW s, NEW t,
           Ints(s, m), Ints(t, n), Before(s, m, t, n), Before(t, n, s, m)
    PROVE  m = n /\ \A i \in 1 .. m : s[i] = t[i]
<1>3. ASSUME Begin(s, m, t, n), Begin(t, n, s, m) PROVE m = n /\ \A i \in 1 .. m : s[i] = t[i]
  BY <1>3 DEF Begin
<1>4. ASSUME Begin(s, m, t, n), NEW i \in Nat, Differ(t, n, s, m, i) PROVE FALSE
  BY <1>4 DEF Begin, Differ, Ints
<1>5. ASSUME NEW i \in Nat, Differ(s, m, t, n, i), Begin(t, n, s, m) PROVE FALSE
  BY <1>5 DEF Begin, Differ, Ints
<1>6. ASSUME NEW i \in Nat, Differ(s, m, t, n, i), NEW j \in Nat, Differ(t, n, s, m, j)
      PROVE  FALSE
  <2>0. /\ i \in 1 .. m /\ i \in 1 .. n /\ j \in 1 .. n /\ j \in 1 .. m /\ s[i] < t[i] /\ t[j] < s[j]
        /\ s[i] \in Int /\ t[i] \in Int /\ t[j] \in Int /\ s[j] \in Int
    BY <1>6 DEF Differ, Ints
  <2>1. i < j => t[i] = s[i]
    BY <1>6, <2>0 DEF Differ
  <2>2. j < i => s[j] = t[j]
    BY <1>6, <2>0 DEF Differ
  <2> QED
    BY <2>0, <2>1, <2>2
<1> QED
  BY <1>3, <1>4, <1>5, <1>6, Zenon DEF Before

\* The order is total: compare at the first difference.
LEMMA BeforeTotal ==
    ASSUME NEW m \in Nat, NEW n \in Nat, NEW s, NEW t, Ints(s, m), Ints(t, n)
    PROVE  Before(s, m, t, n) \/ Before(t, n, s, m)
<1> DEFINE T == {i \in Nat : 1 <= i /\ i <= m /\ i <= n /\ s[i] # t[i]}
<1>1. CASE T = {}
  <2>0. \A i \in Nat : 1 <= i /\ i <= m /\ i <= n => s[i] = t[i]
    BY <1>1, Zenon
  <2>1. m <= n => Begin(s, m, t, n)
    BY <2>0 DEF Begin
  <2>2. n <= m => Begin(t, n, s, m)
    BY <2>0 DEF Begin
  <2>3. m <= n \/ n <= m
    OBVIOUS
  <2> QED
    BY <2>1, <2>2, <2>3, Zenon DEF Before
<1>2. CASE T # {}
  <2>1. T \subseteq Nat
    OBVIOUS
  <2>2. PICK i \in T : \A j \in T : i <= j
    <3> HIDE DEF T
    <3> QED
      BY <1>2, <2>1, LeastElement, Zenon
  <2>3. i \in Nat /\ 1 <= i /\ i <= m /\ i <= n /\ s[i] # t[i]
    OBVIOUS
  <2>4. ASSUME NEW j \in 1 .. (i - 1) PROVE s[j] = t[j]
    <3>1. j \in Nat /\ 1 <= j /\ j <= m /\ j <= n /\ ~(i <= j)
      BY <2>3
    <3>2. j \notin T
      BY <2>2, <3>1, Zenon
    <3> QED
      BY <3>1, <3>2, Zenon
  <2>5. s[i] < t[i] \/ t[i] < s[i]
    BY <2>3 DEF Ints
  <2>6. Differ(s, m, t, n, i) \/ Differ(t, n, s, m, i)
    BY <2>3, <2>4, <2>5, Zenon DEF Differ
  <2> QED
    BY <2>3, <2>6, Zenon DEF Before
<1> QED
  BY <1>1, <1>2, Zenon

\* The elements of a sequence of integers.
LEMMA IntSeq ==
    ASSUME NEW s \in Seq(Int)
    PROVE  Len(s) \in Nat /\ Ints(s, Len(s))
BY DEF Ints

\* Precedes is this order.
LEMMA PrecedesIs ==
    ASSUME NEW s \in Seq(Int), NEW t \in Seq(Int)
    PROVE  Precedes(s, t) <=> Before(s, Len(s), t, Len(t))
<1>0. DOMAIN s = 1 .. Len(s) /\ DOMAIN t = 1 .. Len(t) /\ Len(s) \in Nat /\ Len(t) \in Nat
  OBVIOUS
<1>1. IsPrefix(s, t) <=> Begin(s, Len(s), t, Len(t))
  <2>1. ASSUME IsPrefix(s, t) PROVE Begin(s, Len(s), t, Len(t))
    BY <2>1 DEF IsPrefix, Begin
  <2>2. ASSUME Begin(s, Len(s), t, Len(t)) PROVE IsPrefix(s, t)
    <3> DEFINE n == Len(s)  a == SubSeq(s, 1, n)  b == SubSeq(t, 1, n)
    <3>1. n <= Len(t) /\ \A j \in 1 .. n : s[j] = t[j]
      BY <2>2, Zenon DEF Begin
    <3>2. a \in Seq(Int) /\ Len(a) = n /\ \A j \in 1 .. n : a[j] = s[j]
      BY <1>0
    <3>3. b \in Seq(Int) /\ Len(b) = n /\ \A j \in 1 .. n : b[j] = t[j]
      BY <1>0, <3>1
    <3> HIDE DEF a, b
    <3>4. \A j \in 1 .. n : a[j] = b[j]
      BY <3>1, <3>2, <3>3, Zenon
    <3>5. a = b
      BY <3>2, <3>3, <3>4, SeqEqual
    <3> QED
      BY <3>1, <3>5, Zenon DEF IsPrefix, a, b
  <2> QED
    BY <2>1, <2>2
<1>2. (\E i \in DOMAIN s \cap DOMAIN t : s[i] < t[i] /\ \A j \in 1 .. (i - 1) : s[j] = t[j])
        <=> \E i \in Nat : Differ(s, Len(s), t, Len(t), i)
  <2>1. \A i : i \in DOMAIN s \cap DOMAIN t <=> i \in Nat /\ 1 <= i /\ i <= Len(s) /\ i <= Len(t)
    BY <1>0
  <2> QED
    BY <2>1, Zenon DEF Differ
<1> QED
  BY <1>1, <1>2, Zenon DEF Precedes, Before

\* Precedes is reflexive,
LEMMA PrecedesReflexive ==
    ASSUME NEW s \in Seq(Int)
    PROVE  Precedes(s, s)
<1>1. Begin(s, Len(s), s, Len(s))
  BY DEF Begin
<1> QED
  BY <1>1, PrecedesIs, Zenon DEF Before

\* transitive,
LEMMA PrecedesTransitive ==
    ASSUME NEW s \in Seq(Int), NEW t \in Seq(Int), NEW u \in Seq(Int), Precedes(s, t), Precedes(t, u)
    PROVE  Precedes(s, u)
<1>1. Before(s, Len(s), t, Len(t)) /\ Before(t, Len(t), u, Len(u))
  BY PrecedesIs, Zenon
<1>2. Before(s, Len(s), u, Len(u))
  BY <1>1, IntSeq, BeforeTransitive, Zenon
<1> QED
  BY <1>2, PrecedesIs, Zenon

\* antisymmetric
LEMMA PrecedesAntisymmetric ==
    ASSUME NEW s \in Seq(Int), NEW t \in Seq(Int), Precedes(s, t), Precedes(t, s)
    PROVE  s = t
<1>1. Before(s, Len(s), t, Len(t)) /\ Before(t, Len(t), s, Len(s))
  BY PrecedesIs, Zenon
<1> DEFINE m == Len(s)  n == Len(t)
<1>3. m \in Nat /\ n \in Nat /\ Ints(s, m) /\ Ints(t, n)
  BY IntSeq, Zenon
<1>2. m = n /\ \A i \in 1 .. m : s[i] = t[i]
  <2> HIDE DEF m, n
  <2> QED
    BY <1>1, <1>3, BeforeAntisymmetric, SMT DEF m, n
<1> QED
  BY <1>2, SeqEqual

\* and total.
LEMMA PrecedesTotal ==
    ASSUME NEW s \in Seq(Int), NEW t \in Seq(Int)
    PROVE  Precedes(s, t) \/ Precedes(t, s)
<1>2. Before(s, Len(s), t, Len(t)) \/ Before(t, Len(t), s, Len(s))
  BY IntSeq, BeforeTotal, Zenon
<1> QED
  BY <1>2, PrecedesIs, Zenon

\* Any finite set of strings can be sorted: a key's place is the number of
\* keys up to it.
Upto(K, k) == {j \in K : Precedes(j, k)}

\* A later key has more keys up to it.
LEMMA UptoStrict ==
    ASSUME NEW K, K \subseteq Seq(Int), IsFiniteSet(K), NEW j \in K, NEW k \in K, j # k, Precedes(j, k)
    PROVE  Cardinality(Upto(K, j)) < Cardinality(Upto(K, k))
<1>1. Upto(K, j) \subseteq Upto(K, k)
  BY PrecedesTransitive, Zenon DEF Upto
<1>2. k \in Upto(K, k)
  BY PrecedesReflexive, Zenon DEF Upto
<1>3. k \notin Upto(K, j)
  BY PrecedesAntisymmetric, Zenon DEF Upto
<1>4. Upto(K, k) \in SUBSET K /\ Upto(K, j) \in SUBSET Upto(K, k)
  BY <1>1, Zenon DEF Upto
<1> DEFINE A == Upto(K, j)  B == Upto(K, k)
<1>5. A # B
  BY <1>2, <1>3, Zenon
<1> HIDE DEF A, B
<1>6. IsFiniteSet(B)
  BY <1>4, FS_Subset, Zenon DEF B
<1>7. IsFiniteSet(A) /\ Cardinality(A) <= Cardinality(B) /\ (Cardinality(B) = Cardinality(A) => B = A)
  BY <1>4, <1>6, FS_Subset, Zenon DEF A, B
<1>8. Cardinality(A) \in Nat /\ Cardinality(B) \in Nat
  BY <1>6, <1>7, FS_CardinalityType, Zenon
<1>9. Cardinality(A) < Cardinality(B)
  BY <1>5, <1>7, <1>8
<1> QED
  BY <1>9, Zenon DEF A, B

\* A place is one of as many as there are keys.
LEMMA UptoRange ==
    ASSUME NEW K, K \subseteq Seq(Int), IsFiniteSet(K), NEW k \in K
    PROVE  Cardinality(Upto(K, k)) \in 1 .. Cardinality(K)
<1> DEFINE B == Upto(K, k)
<1>1. k \in B
  BY PrecedesReflexive, Zenon DEF Upto
<1>2. B \in SUBSET K
  BY Zenon DEF Upto
<1> HIDE DEF B
<1>3. IsFiniteSet(B) /\ Cardinality(B) <= Cardinality(K)
  BY <1>2, FS_Subset, Zenon
<1>4. Cardinality(B) \in Nat /\ Cardinality(K) \in Nat
  BY <1>3, FS_CardinalityType, Zenon
<1>5. Cardinality(B) # 0
  BY <1>1, <1>3, FS_EmptySet, Zenon
<1>6. Cardinality(B) \in 1 .. Cardinality(K)
  BY <1>3, <1>4, <1>5
<1> QED
  BY <1>6, Zenon DEF B

\* The keys in order are the inverse of their places.
LEMMA SortedExists ==
    ASSUME NEW K, K \subseteq Seq(Int), IsFiniteSet(K)
    PROVE  \E ks \in [1 .. Cardinality(K) -> K] :
              \A i, j \in DOMAIN ks : i < j => ks[i] # ks[j] /\ Precedes(ks[i], ks[j])
<1> DEFINE n == Cardinality(K)  f == [k \in K |-> Cardinality(Upto(K, k))]
<1>1. n \in Nat
  BY FS_CardinalityType, Zenon
<1>2. f \in [K -> 1 .. n]
  BY UptoRange, Zenon
<1>3. ASSUME NEW j \in K, NEW k \in K, j # k, Precedes(j, k) PROVE f[j] < f[k]
  BY <1>3, UptoStrict, Zenon
<1>4. \A j \in K, k \in K : Precedes(j, k) \/ Precedes(k, j)
  BY PrecedesTotal, Zenon
<1> HIDE DEF f, n
<1>5. ASSUME NEW j \in K, NEW k \in K, f[j] = f[k] PROVE j = k
  <2>1. f[j] \in Int /\ f[k] \in Int
    BY <1>1, <1>2
  <2>2. ~(f[j] < f[k]) /\ ~(f[k] < f[j])
    BY <1>5, <2>1
  <2> QED
    BY <1>3, <1>4, <2>2, Zenon
<1>6. f \in Injection(K, 1 .. n)
  BY <1>2, <1>5, Zenon DEF Injection, IsInjective
<1>7. IsFiniteSet(1 .. n) /\ Cardinality(1 .. n) = n
  <2>1. IsFiniteSet(1 .. n) /\ Cardinality(1 .. n) = IF 1 > n THEN 0 ELSE n - 1 + 1
    BY <1>1, FS_Interval
  <2> QED
    BY <1>1, <2>1
<1>8. f \in Surjection(K, 1 .. n)
  BY <1>6, <1>7, FS_Injection, Zenon DEF n
<1>9. \A i \in 1 .. n : \E k \in K : f[k] = i
  BY <1>8, Zenon DEF Surjection
<1> DEFINE ks == [i \in 1 .. n |-> CHOOSE k \in K : f[k] = i]
<1>10. \A i \in 1 .. n : ks[i] \in K /\ f[ks[i]] = i
  BY <1>9, Zenon
<1>11. ks \in [1 .. n -> K] /\ DOMAIN ks = 1 .. n
  BY <1>9, Zenon
<1> HIDE DEF ks
<1>12. ASSUME NEW i \in 1 .. n, NEW j \in 1 .. n, i < j
       PROVE  ks[i] # ks[j] /\ Precedes(ks[i], ks[j])
  <2>1. i # j /\ ~(j < i)
    BY <1>1, <1>12
  <2>2. ks[i] # ks[j]
    BY <1>10, <2>1, Zenon
  <2>3. ASSUME Precedes(ks[j], ks[i]) PROVE FALSE
    <3>1. f[ks[j]] < f[ks[i]]
      BY <1>3, <1>10, <2>2, <2>3, Zenon
    <3> QED
      BY <3>1, <2>1, <1>10, Zenon
  <2> QED
    BY <1>4, <1>10, <2>2, <2>3, Zenon
<1> QED
  BY <1>11, <1>12, Zenon DEF n

\* Sorted, a choice, is a sequence of the keys.
LEMMA SortedIs ==
    ASSUME NEW K, K \subseteq Seq(Int), IsFiniteSet(K)
    PROVE  Sorted(K) \in Seq(K)
<1> DEFINE ks == Sorted(K)  n == Cardinality(K)
<1>1. n \in Nat
  BY FS_CardinalityType, Zenon
<1>2. ks \in [1 .. n -> K]
  BY SortedExists, Zenon DEF Sorted
<1> HIDE DEF ks, n
<1>3. ks \in Seq(K)
  BY <1>1, <1>2
<1> QED
  BY <1>3, Zenon DEF ks

-----------------------------------------------------------------------------
\* dictionary.rs: numbers.

\* A place of the lowest sixteen is one of all.
LEMMA LowPlaces == \A k \in 1 .. 16 : \A i \in 1 .. k : i <= 16 /\ i \in 1 .. (16 + k)
OBVIOUS

\* from_str_radix(_, 16) of digits that fit.
IsRadix(g, w) == Radix16(DigitText(g)) = <<w>>
Widened(g, k) == [j \in 1 .. 16 |-> IF k + j <= 16 THEN 0 ELSE g[k + j - 16]]
\* Up to sixteen digits are read as the word that ends in them.
LEMMA RadixIs ==
    ASSUME NEW g \in Seq(Digit), NEW k \in 1 .. 16, k = Len(g)
    PROVE  IsRadix(g, Widened(g, k))
<1> DEFINE v == DigitText(g)  p == [i \in DOMAIN v |-> HexValue(v[i])]  all == Zero \o p
<1>1. v \in Seq(HexText) /\ Len(v) = k /\ \A i \in 1 .. k : HexValue(v[i]) = g[i]
  BY DigitTextIs
<1> HIDE DEF v
<1>2. DOMAIN v = 1 .. k /\ v # <<>> /\ \A i \in DOMAIN v : v[i] \in HexText
  BY <1>1
<1>3. \A i \in DOMAIN v : IsHex(v[i])
  BY <1>2, Zenon DEF HexText
<1>4. p = [i \in 1 .. k |-> g[i]]
  BY <1>1, <1>2, Zenon
<1>5. p = g
  BY <1>4
<1> HIDE DEF p
<1>7. /\ all \in Seq(Digit) /\ Len(all) = Len(Zero) + Len(p)
      /\ \A i \in 1 .. Len(Zero) + Len(p) : all[i] = IF i <= Len(Zero) THEN Zero[i] ELSE p[i - Len(Zero)]
  BY <1>5, ZeroIs, ConcatProperties, Zenon
<1> HIDE DEF all
<1>8. Len(all) = 16 + k /\ \A i \in 1 .. (16 + k) : all[i] = IF i <= 16 THEN 0 ELSE g[i - 16]
  <2>1. Len(all) = 16 + k /\ \A i \in 1 .. (16 + k) : all[i] = IF i <= 16 THEN Zero[i] ELSE g[i - 16]
    BY <1>7, <1>5, ZeroIs
  <2>2. ASSUME NEW i \in 1 .. (16 + k) PROVE all[i] = IF i <= 16 THEN 0 ELSE g[i - 16]
    <3>1. CASE i <= 16
      BY <3>1, <2>1, ZeroIs
    <3>2. CASE ~(i <= 16)
      BY <3>2, <2>1
    <3> QED
      BY <3>1, <3>2
  <2> QED
    BY <2>1, <2>2
<1> DEFINE top == SubSeq(all, 1, k)  w == SubSeq(all, k + 1, 16 + k)
<1>9. DOMAIN top = 1 .. k /\ \A i \in 1 .. k : top[i] = 0
  <2>1. top \in Seq(Digit) /\ Len(top) = k /\ \A i \in 1 .. k : top[i] = all[i]
    BY <1>7, <1>8
  <2> HIDE DEF top
  <2>2. DOMAIN top = 1 .. k
    BY <2>1
  <2>3. \A i \in 1 .. k : all[i] = 0
    <3>1. ASSUME NEW i \in 1 .. k PROVE all[i] = 0
      <4>1. i <= 16 /\ i \in 1 .. (16 + k)
        BY LowPlaces, Zenon
      <4> QED
        BY <1>8, <4>1, Zenon
    <3> QED
      BY <3>1, Zenon
  <2> QED
    BY <2>1, <2>2, <2>3, Zenon
<1>10. Radix16(v) = <<w>>
  <2>1. Radix16(v) = IF v = <<>> \/ ~(\A i \in DOMAIN v : IsHex(v[i])) THEN <<>>
                     ELSE IF \E i \in DOMAIN SubSeq(all, 1, Len(v)) : SubSeq(all, 1, Len(v))[i] # 0 THEN <<>>
                     ELSE <<SubSeq(all, Len(v) + 1, Len(all))>>
    BY Zenon DEF Radix16, all, p
  <2>2. SubSeq(all, 1, Len(v)) = top /\ SubSeq(all, Len(v) + 1, Len(all)) = w
    BY <1>1, <1>8, Zenon
  <2> HIDE DEF top, w
  <2> QED
    BY <1>2, <1>3, <1>9, <2>1, <2>2, Zenon
<1>11. w \in Seq(Digit) /\ Len(w) = 16 /\ \A j \in 1 .. 16 : w[j] = all[k + j]
  BY <1>7, <1>8
<1> HIDE DEF w
<1>13. ASSUME NEW j \in 1 .. 16 PROVE w[j] = IF k + j <= 16 THEN 0 ELSE g[k + j - 16]
  <2> DEFINE x == k + j
  <2> HIDE DEF x
  <2>1. x \in 1 .. (16 + k)
    BY DEF x
  <2>2. all[x] = IF x <= 16 THEN 0 ELSE g[x - 16]
    BY <2>1, <1>8
  <2>3. w[j] = all[x]
    BY <1>11, Zenon DEF x
  <2> QED
    BY <2>2, <2>3 DEF x
<1>14. w = [j \in 1 .. 16 |-> w[j]]
  BY <1>11
<1>15. w = [j \in 1 .. 16 |-> IF k + j <= 16 THEN 0 ELSE g[k + j - 16]]
  BY <1>13, <1>14, Zenon
<1> QED
  BY <1>10, <1>15, Zenon DEF v, Widened, IsRadix

\* Hex digits are ASCII and no signs.
LEMMA HexTextRange == \A c \in HexText : c \in 48 .. 102 /\ c < 128 /\ c # 43 /\ c # 45 /\ c \in Octet
BY DEF HexText, Octet, IsHex

\* The digits a u64 is saved as read as the u64, except for zero, which has none.
LEMMA ShortReads ==
    ASSUME NEW n \in Word64, NEW s, s = to_vec_u64(n, TRUE)
    PROVE  /\ s \in Seq(HexText)
           /\ Radix16(s) = IF n = Zero THEN <<>> ELSE <<n>>
<1>1. PICK z \in 1 .. 17 :
         /\ FirstDigit(n, z)
         /\ to_vec_u64(n, TRUE) = DigitText(SubSeq(n, z, 16))
         /\ SubSeq(n, z, 16) \in Seq(Digit) /\ Len(SubSeq(n, z, 16)) = 17 - z
         /\ \A i \in 1 .. (17 - z) : SubSeq(n, z, 16)[i] = n[z + i - 1]
  BY ShortIs
<1> DEFINE g == SubSeq(n, z, 16)  k == 17 - z
<1>2. g \in Seq(Digit) /\ Len(g) = k /\ \A i \in 1 .. k : g[i] = n[z + i - 1]
  BY <1>1
<1>3. s = DigitText(g)
  BY <1>1
<1>4. (\A j \in 1 .. (z - 1) : n[j] = 0) /\ (z <= 16 => n[z] # 0)
  BY <1>1 DEF FirstDigit, WordNibbles
<1>5. k \in Nat /\ k = 17 - z
  OBVIOUS
<1> HIDE DEF g, k
<1>6. DigitText(g) \in Seq(HexText) /\ Len(DigitText(g)) = k
  BY <1>2, DigitTextIs
<1>7. n = [j \in 1 .. 16 |-> n[j]]
  BY DEF Word64, WordNibbles
<1>8. CASE z = 17
  <2>1. s = <<>>
    <3>1. k = 0
      BY <1>5, <1>8
    <3>2. s \in Seq(HexText) /\ Len(s) = 0
      BY <1>3, <1>6, <3>1, Zenon
    <3> QED
      BY <3>2, EmptySeq, Zenon
  <2>2. Radix16(<<>>) = <<>>
    BY Zenon DEF Radix16
  <2>3. \A j \in 1 .. 16 : n[j] = 0
    BY <1>4, <1>8
  <2>4. n = [j \in 1 .. 16 |-> 0]
    BY <1>7, <2>3, Zenon
  <2>5. n = Zero
    BY <2>4, Zenon DEF Zero, WordNibbles
  <2> QED
    BY <1>3, <1>6, <2>1, <2>2, <2>5, Zenon
<1>9. CASE z # 17
  <2>1. k \in 1 .. 16 /\ z \in 1 .. 16
    BY <1>5, <1>9
  <2>2. Radix16(DigitText(g)) = <<Widened(g, k)>>
    <3>1. g \in Seq(Digit) /\ k = Len(g)
      BY <1>2, Zenon
    <3>2. IsRadix(g, Widened(g, k))
      BY <2>1, <3>1, RadixIs, Zenon
    <3> QED
      BY <3>2, Zenon DEF IsRadix
  <2>3. ASSUME NEW j \in 1 .. 16 PROVE (IF k + j <= 16 THEN 0 ELSE g[k + j - 16]) = n[j]
    <3>2. CASE k + j <= 16
      <4>1. j \in 1 .. (z - 1)
        BY <1>5, <3>2
      <4> QED
        BY <3>2, <4>1, <1>4
    <3>3. CASE ~(k + j <= 16)
      <4>1. k + j - 16 \in 1 .. k /\ z + (k + j - 16) - 1 = j
        BY <3>3, <1>5
      <4>2. g[k + j - 16] = n[j]
        BY <4>1, <1>2
      <4> QED
        BY <3>3, <4>2
    <3> QED
      BY <3>2, <3>3
  <2>4. Widened(g, k) = n
    BY <2>3, <1>7, Zenon DEF Widened
  <2>5. n # Zero
    <3>1. z <= 16
      BY <2>1
    <3>2. n[z] # 0
      BY <1>4, <3>1, Zenon
    <3>3. Zero[z] = 0
      BY <2>1, ZeroIs, Zenon
    <3> QED
      BY <3>2, <3>3, Zenon
  <2> QED
    BY <1>3, <1>6, <2>2, <2>4, <2>5, Zenon
<1> QED
  BY <1>8, <1>9, Zenon

\* Hex text has no sign before it.
LEMMA HexTextPlain ==
    ASSUME NEW s \in Seq(HexText)
    PROVE  /\ Utf8(s) = TRUE /\ AfterPlus(s) = s /\ s \in Seq(Octet)
           /\ (Len(s) > 1 /\ s[1] = 45) = FALSE
<1>1. \A i \in DOMAIN s : s[i] \in HexText
  OBVIOUS
<1>2. \A i \in DOMAIN s : s[i] < 128
  BY <1>1, HexTextRange, Zenon
<1>3. ASSUME Len(s) > 1 PROVE s[1] # 43 /\ s[1] # 45
  <2>1. 1 \in DOMAIN s
    BY <1>3
  <2> QED
    BY <1>1, <2>1, HexTextRange, Zenon
<1>4. s \in Seq(Octet)
  BY HexTextIs, SeqMonotonic
<1>5. AfterPlus(s) = s
  BY <1>3, Zenon DEF AfterPlus
<1>6. Utf8(s) = TRUE
  BY <1>2, <1>4, AsciiUtf8, Zenon
<1> QED
  BY <1>3, <1>4, <1>5, <1>6, Zenon

-----------------------------------------------------------------------------
\* The dictionary as it is edited, saved, torn and loaded.

\* How a value of each type is stored.
Stored(as, v) ==
    \/ as.type = "bytes" /\ v = as.v
    \/ as.type = "bool" /\ as.v \in BOOLEAN /\ v = IF as.v THEN <<49>> ELSE <<48>>
    \/ as.type = "u64" /\ as.v \in Word64 /\ v = to_vec_u64(as.v, TRUE)

\* The file is a saved map up to some byte, with the line ends of its editor.
TornFile ==
    \E e \in LineEnds : \E i \in 0 .. Len(Sorted(DOMAIN dict)) :
        Torn(file, dict, Sorted(DOMAIN dict), e, i) /\ (stage = "saved" => e = <<10>>)

MapInv ==
    /\ StringMap(dict)
    /\ IsFiniteSet(DOMAIN dict)
    /\ DOMAIN dict \subseteq DOMAIN meant
    /\ \A k \in DOMAIN dict : Stored(meant[k], dict[k])
DictInv == MapInv /\ (stage # "edit" => TornFile)

\* The keys of a finite map can be sorted.
LEMMA SortedSeq ==
    ASSUME NEW d, StringMap(d), IsFiniteSet(DOMAIN d)
    PROVE  Sorted(DOMAIN d) \in Seq(DOMAIN d)
<1>1. Octet \subseteq Int
  BY DEF Octet
<1>2. Strings \subseteq Seq(Int)
  <2>1. Seq(Octet) \subseteq Seq(Int)
    BY <1>1, SeqMonotonic
  <2> QED
    BY <2>1, StringsAre, Zenon
<1>3. DOMAIN d \subseteq Seq(Int)
  BY <1>2, Zenon DEF StringMap
<1> QED
  BY <1>3, SortedIs, Zenon

\* The empty map.
LEMMA NothingIs == DOMAIN Nothing = {} /\ StringMap(Nothing) /\ IsFiniteSet(DOMAIN Nothing)
<1>1. DOMAIN Nothing = {} /\ Nothing \in [{} -> Seq(Octet)]
  BY DEF Nothing
<1> QED
  BY <1>1, FS_EmptySet, Zenon DEF StringMap

\* The dictionary starts empty.
LEMMA InitDict == Init => DictInv
<1>1. SUFFICES ASSUME dict = Nothing, stage = "edit" PROVE DictInv
  BY Zenon DEF Init, DictInit
<1>2. MapInv
  BY <1>1, NothingIs, Zenon DEF MapInv
<1> QED
  BY <1>1, <1>2, Zenon DEF DictInv

\* What the program sets.
LEMMA SetTypes ==
    /\ Keys \subseteq Strings /\ Values \subseteq Seq(Octet) /\ U64s \subseteq Word64
    /\ <<49>> \in Seq(Octet) /\ <<48>> \in Seq(Octet)
<1>1. Keys \subseteq Strings /\ Values \subseteq Seq(Octet) /\ U64s \subseteq Word64
  BY DictionaryAssumption DEF Strings, Octet, Word64, Digit
<1>2. 49 \in Octet /\ 48 \in Octet
  BY DEF Octet
<1>3. <<49>> \in Seq(Octet) /\ <<48>> \in Seq(Octet)
  BY <1>2
<1> QED
  BY <1>1, <1>3, Zenon

\* Setting a key keeps the invariant of the map.
LEMMA InsertDict ==
    ASSUME MapInv, NEW k \in Keys, NEW v \in Seq(Octet), NEW as, Stored(as, v), Insert(k, v, as)
    PROVE  MapInv'
<1>1. dict' = With(dict, k, v) /\ meant' = With(meant, k, as)
  BY Zenon DEF Insert
<1>2. /\ dict' = [x \in DOMAIN dict \cup {k} |-> IF x = k THEN v ELSE dict[x]]
      /\ meant' = [x \in DOMAIN meant \cup {k} |-> IF x = k THEN as ELSE meant[x]]
  BY <1>1, Zenon DEF With
<1>3. DOMAIN dict' = DOMAIN dict \cup {k} /\ DOMAIN meant' = DOMAIN meant \cup {k}
  BY <1>2, Zenon
<1>4. k \in Strings
  BY SetTypes, Zenon
<1>5. \A x \in DOMAIN dict \cup {k} : (IF x = k THEN v ELSE dict[x]) \in Seq(Octet)
  BY Zenon DEF MapInv, StringMap
<1>6. dict' \in [DOMAIN dict \cup {k} -> Seq(Octet)]
  BY <1>2, <1>5, Zenon
<1>7. DOMAIN dict' \subseteq Strings
  BY <1>3, <1>4, Zenon DEF MapInv, StringMap
<1>8. StringMap(dict')
  BY <1>3, <1>6, <1>7, Zenon DEF StringMap
<1>9. IsFiniteSet(DOMAIN dict')
  <2> DEFINE D == DOMAIN dict
  <2>1. IsFiniteSet(D)
    BY Zenon DEF MapInv
  <2> HIDE DEF D
  <2>2. IsFiniteSet(D \cup {k})
    BY <2>1, FS_AddElement, Zenon
  <2> QED
    BY <1>3, <2>2, Zenon DEF D
<1>10. DOMAIN dict' \subseteq DOMAIN meant'
  BY <1>3, Zenon DEF MapInv
<1>11. ASSUME NEW x \in DOMAIN dict' PROVE Stored(meant'[x], dict'[x])
  <2>1. CASE x = k
    <3>1. dict'[x] = v /\ meant'[x] = as
      BY <1>2, <2>1, Zenon
    <3> QED
      BY <3>1, Zenon
  <2>2. CASE x # k
    <3>1. x \in DOMAIN dict /\ x \in DOMAIN meant
      BY <1>3, <2>2, Zenon DEF MapInv
    <3>2. dict'[x] = dict[x] /\ meant'[x] = meant[x]
      BY <1>2, <2>2, <3>1, Zenon
    <3> QED
      BY <3>1, <3>2, Zenon DEF MapInv
  <2> QED
    BY <2>1, <2>2, Zenon
<1> QED
  BY <1>8, <1>9, <1>10, <1>11, Zenon DEF MapInv

\* Loading a torn file keeps the invariant of the map: every key that is there
\* again has the value it was saved with.
LEMMA LoadDict ==
    ASSUME MapInv, TornFile, Load
    PROVE  MapInv'
<1> DEFINE ks == Sorted(DOMAIN dict)
<1>1. StringMap(dict) /\ ks \in Seq(DOMAIN dict)
  BY SortedSeq, Zenon DEF MapInv
<1>2. PICK e \in LineEnds : \E i \in 0 .. Len(ks) : Torn(file, dict, ks, e, i)
  BY Zenon DEF TornFile
<1>3. PICK i \in 0 .. Len(ks) : Torn(file, dict, ks, e, i)
  BY <1>2, Zenon
<1> HIDE DEF ks
<1> DEFINE js == SubSeq(ks, 1, i)
<1>4. from_bytes(file).ok /\ from_bytes(file).d = Kept(dict, js)
  BY <1>1, <1>3, TornLoads, Zenon
<1>5. js \in Seq(DOMAIN dict)
  BY <1>1, Shorter, Zenon
<1>6. dict' = Kept(dict, js) /\ meant' = [k \in DOMAIN meant \cap DOMAIN dict' |-> meant[k]]
  BY <1>4, Zenon DEF Load
<1> HIDE DEF js
<1>7. ToSet(js) \subseteq DOMAIN dict
  BY <1>5 DEF ToSet
<1>8. DOMAIN dict' = ToSet(js) \ {<<>>} /\ \A k \in ToSet(js) \ {<<>>} : dict'[k] = dict[k]
  BY <1>6, Zenon DEF Kept
<1>9. DOMAIN dict' \in SUBSET DOMAIN dict /\ \A k \in DOMAIN dict' : dict'[k] = dict[k]
  BY <1>7, <1>8, Zenon
<1>10. DOMAIN dict' \subseteq Strings /\ \A k \in DOMAIN dict' : dict'[k] \in Seq(Octet)
  BY <1>1, <1>9, Zenon DEF StringMap
<1>11. dict' \in [DOMAIN dict' -> Seq(Octet)]
  <2>1. dict' = [k \in DOMAIN dict' |-> dict'[k]]
    <3>1. dict' = [k \in ToSet(js) \ {<<>>} |-> dict[k]]
      BY <1>6, Zenon DEF Kept
    <3> QED
      BY <3>1, Zenon
  <2> QED
    BY <1>10, <2>1, Zenon
<1>12. StringMap(dict')
  BY <1>10, <1>11, Zenon DEF StringMap
<1>13. IsFiniteSet(DOMAIN dict')
  BY <1>9, FS_Subset, Zenon DEF MapInv
<1>14. DOMAIN dict' \subseteq DOMAIN meant
  BY <1>9, Zenon DEF MapInv
<1>15. DOMAIN meant' = DOMAIN dict' /\ \A k \in DOMAIN dict' : meant'[k] = meant[k]
  BY <1>6, <1>14, Zenon
<1>16. \A k \in DOMAIN dict' : Stored(meant'[k], dict'[k])
  BY <1>9, <1>15, Zenon DEF MapInv
<1> QED
  BY <1>12, <1>13, <1>15, <1>16, Zenon DEF MapInv

\* A line that write_to writes.
LEMMA LineIs ==
    ASSUME NEW d, StringMap(d), NEW k \in DOMAIN d
    PROVE  Line(k, d[k]) = LineEsc(d, <<10>>)[k]
<1>1. k \in Seq(Octet) /\ d[k] \in Seq(Octet)
  BY StringsAre, Zenon DEF StringMap
<1> DEFINE a == write_escaped(k)  b == write_escaped(d[k])
<1>2. a = Mapped(DEsc, k) /\ b = Mapped(DEsc, d[k])
  BY <1>1, WriteEscapedIs, Zenon
<1>3. a \in Seq(Octet) /\ b \in Seq(Octet)
  BY <1>1, <1>2, DMappedType, Zenon
<1>4. Line(k, d[k]) = a \o <<61>> \o b \o <<10>>
  BY Zenon DEF Line
<1>5. LineEsc(d, <<10>>)[k] = (a \o (<<61>> \o b)) \o <<10>>
  BY <1>2, Zenon DEF LineEsc, Body
<1> HIDE DEF a, b
<1>6. a \o <<61>> \o b = a \o (<<61>> \o b)
  <2>1. <<61>> \in Seq(Octet)
    BY NoEndIs
  <2> DEFINE c == <<61>>
  <2> HIDE DEF c
  <2>2. c \in Seq(Octet)
    BY <2>1, Zenon DEF c
  <2>3. (a \o c) \o b = a \o (c \o b)
    BY <1>3, <2>2, ConcatAssociative
  <2> QED
    BY <2>3, Zenon DEF c
<1> QED
  BY <1>4, <1>5, <1>6, Zenon

\* write_to replaces every key by its line.
LEMMA ToBytesIs ==
    ASSUME NEW d, StringMap(d), NEW ks, ks = Sorted(DOMAIN d), ks \in Seq(DOMAIN d)
    PROVE  to_bytes(d) = Mapped(LineEsc(d, <<10>>), ks)
<1>1. \A i \in DOMAIN ks : ks[i] \in DOMAIN d
  OBVIOUS
<1>2. \A i \in DOMAIN ks : LineEsc(d, <<10>>)[ks[i]] = Line(ks[i], d[ks[i]])
  BY <1>1, LineIs, Zenon
<1>3. [i \in DOMAIN ks |-> Line(ks[i], d[ks[i]])] = [i \in DOMAIN ks |-> LineEsc(d, <<10>>)[ks[i]]]
  BY <1>2, Zenon
<1> QED
  BY <1>3, Zenon DEF to_bytes, Mapped

\* Saving leaves a torn file.
LEMMA WriteDict ==
    ASSUME MapInv, write_to
    PROVE  TornFile'
<1> DEFINE ks == Sorted(DOMAIN dict)  m == Mapped(LineEsc(dict, <<10>>), ks)
<1>1. StringMap(dict) /\ ks \in Seq(DOMAIN dict)
  BY SortedSeq, Zenon DEF MapInv
<1>2. to_bytes(dict) = m
  BY <1>1, ToBytesIs, Zenon
<1>3. PICK n \in 0 .. Len(m) : file' = SubSeq(m, 1, n)
  BY <1>2, Zenon DEF write_to
<1>4. PICK i \in 0 .. Len(ks) : Torn(file', dict, ks, <<10>>, i)
  <2>1. CutTorn(dict, ks)
    BY <1>1, CutIsTorn, Zenon
  <2> QED
    BY <1>3, <2>1, Zenon DEF CutTorn
<1>5. dict' = dict
  BY Zenon DEF write_to
<1>6. <<10>> \in LineEnds
  BY Zenon DEF LineEnds
<1>7. Torn(file', dict', Sorted(DOMAIN dict'), <<10>>, i) /\ i \in 0 .. Len(Sorted(DOMAIN dict'))
  BY <1>4, <1>5, Zenon
<1> QED
  BY <1>6, <1>7, Zenon DEF TornFile

\* The editor leaves a torn file.
LEMMA CrLfDict ==
    ASSUME MapInv, TornFile, CrLf
    PROVE  TornFile'
<1> DEFINE ks == Sorted(DOMAIN dict)
<1>1. StringMap(dict) /\ ks \in Seq(DOMAIN dict)
  BY SortedSeq, Zenon DEF MapInv
<1>2. stage = "saved" /\ dict' = dict /\ file' = WithCr(file) /\ stage' = "edited"
  BY Zenon DEF CrLf, WithCr
<1>3. PICK i \in 0 .. Len(ks) : Torn(file, dict, ks, <<10>>, i)
  BY <1>2, Zenon DEF TornFile
<1>4. Torn(WithCr(file), dict, ks, <<13, 10>>, i)
  BY <1>1, <1>3, CrIsTorn, Zenon DEF Newline
<1>5. Torn(file', dict', Sorted(DOMAIN dict'), <<13, 10>>, i) /\ i \in 0 .. Len(Sorted(DOMAIN dict'))
  BY <1>2, <1>4, Zenon
<1>6. <<13, 10>> \in LineEnds
  BY Zenon DEF LineEnds
<1>7. stage' # "saved"
  BY <1>2
<1> QED
  BY <1>5, <1>6, <1>7, Zenon DEF TornFile

\* Setting a key does not touch the file.
LEMMA EditKeeps ==
    ASSUME NEW k, NEW v, NEW as, Insert(k, v, as)
    PROVE  stage' = "edit"
BY Zenon DEF Insert, dictVars

\* Each of the set operations keeps the invariant of the map.
LEMMA SetDict ==
    ASSUME MapInv, NEW k \in Keys,
           \/ \E v \in Values : set_str(k, v) \/ set_bytes(k, v)
           \/ \E n \in U64s : set_u64(k, n)
           \/ \E b \in BOOLEAN : set_bool(k, b)
    PROVE  MapInv' /\ stage' = "edit"
<1>1. ASSUME NEW v \in Values, Insert(k, v, [type |-> "bytes", v |-> v]) PROVE MapInv' /\ stage' = "edit"
  <2> DEFINE as == [type |-> "bytes", v |-> v]
  <2>1. Stored(as, v)
    BY DEF Stored
  <2>2. Insert(k, v, as)
    BY <1>1, Zenon
  <2>3. v \in Seq(Octet)
    BY SetTypes, Zenon
  <2> HIDE DEF as
  <2> QED
    BY <2>1, <2>2, <2>3, InsertDict, EditKeeps, Zenon
<1>2. ASSUME NEW n \in U64s, set_u64(k, n) PROVE MapInv' /\ stage' = "edit"
  <2> DEFINE as == [type |-> "u64", v |-> n]  s == to_vec_u64(n, TRUE)
  <2>1. as.type = "u64" /\ as.v = n
    OBVIOUS
  <2>2. n \in Word64
    BY SetTypes, Zenon
  <2>3. s \in Seq(Octet)
    <3>1. s \in Seq(HexText)
      BY <2>2, ShortReads, Zenon
    <3> HIDE DEF s
    <3> QED
      BY <3>1, HexTextPlain, Zenon
  <2>4. Insert(k, s, as)
    BY <1>2, Zenon DEF set_u64
  <2> HIDE DEF as
  <2>5. Stored(as, s)
    BY <2>1, <2>2, Zenon DEF Stored
  <2> QED
    BY <2>3, <2>4, <2>5, InsertDict, EditKeeps, Zenon
<1>3. ASSUME NEW b \in BOOLEAN, set_bool(k, b) PROVE MapInv' /\ stage' = "edit"
  <2> DEFINE as == [type |-> "bool", v |-> b]  s == IF b THEN <<49>> ELSE <<48>>
  <2>1. as.type = "bool" /\ as.v = b
    BY Zenon
  <2>2. s \in Seq(Octet)
    BY SetTypes, Zenon
  <2>3. Insert(k, s, as)
    BY <1>3, Zenon DEF set_bool
  <2> HIDE DEF as
  <2>4. Stored(as, s)
    BY <2>1, Zenon DEF Stored
  <2> HIDE DEF s
  <2> QED
    BY <2>2, <2>3, <2>4, InsertDict, EditKeeps, Zenon
<1> QED
  BY <1>1, <1>2, <1>3, Zenon DEF set_str, set_bytes

\* The invariant depends on the variables of the dictionary only.
LEMMA DictInvUnchanged ==
    ASSUME DictInv, UNCHANGED dictVars
    PROVE  DictInv'
<1>1. dict' = dict /\ meant' = meant /\ file' = file /\ stage' = stage
  BY DEF dictVars
<1> QED
  BY <1>1, Zenon DEF DictInv, MapInv, TornFile

\* One step per operation.
LEMMA DictStep ==
    ASSUME DictInv, DictNext
    PROVE  DictInv'
<1>1. CASE clear
  <2>1. dict' = Nothing /\ stage' = "edit"
    BY <1>1, Zenon DEF clear
  <2>2. DOMAIN dict' = {} /\ StringMap(dict') /\ IsFiniteSet(DOMAIN dict')
    BY <2>1, NothingIs, Zenon
  <2>3. MapInv'
    BY <2>2, Zenon DEF MapInv
  <2> QED
    BY <2>1, <2>3, Zenon DEF DictInv
<1>2. CASE write_to
  <2>1. MapInv
    BY Zenon DEF DictInv
  <2>2. TornFile'
    BY <1>2, <2>1, WriteDict, Zenon
  <2>3. dict' = dict /\ meant' = meant
    BY <1>2, Zenon DEF write_to
  <2>4. MapInv'
    BY <2>1, <2>3, Zenon DEF MapInv
  <2> QED
    BY <2>2, <2>4, Zenon DEF DictInv
<1>3. CASE CrLf
  <2>1. stage # "edit"
    BY <1>3 DEF CrLf
  <2>2. MapInv /\ TornFile
    BY <2>1, Zenon DEF DictInv
  <2>3. TornFile'
    BY <1>3, <2>2, CrLfDict, Zenon
  <2>4. dict' = dict /\ meant' = meant
    BY <1>3, Zenon DEF CrLf
  <2>5. MapInv'
    BY <2>2, <2>4, Zenon DEF MapInv
  <2> QED
    BY <2>3, <2>5, Zenon DEF DictInv
<1>4. CASE Load
  <2>1. MapInv /\ TornFile /\ stage' = "edit"
    BY <1>4, Zenon DEF DictInv, Load
  <2>2. MapInv'
    BY <1>4, <2>1, LoadDict, Zenon
  <2> QED
    BY <2>1, <2>2, Zenon DEF DictInv
<1>5. ASSUME NEW k \in Keys,
             \/ \E v \in Values : set_str(k, v) \/ set_bytes(k, v)
             \/ \E n \in U64s : set_u64(k, n)
             \/ \E b \in BOOLEAN : set_bool(k, b)
      PROVE  DictInv'
  <2>1. MapInv' /\ stage' = "edit"
    BY <1>5, SetDict, Zenon DEF DictInv
  <2> QED
    BY <2>1, Zenon DEF DictInv
<1> QED
  BY <1>1, <1>2, <1>3, <1>4, <1>5, Zenon DEF DictNext

\* The invariant is inductive.
LEMMA NextDict == DictInv /\ [Next]_vars => DictInv'
<1> SUFFICES ASSUME DictInv, [Next]_vars PROVE DictInv'
  OBVIOUS
<1>1. ASSUME UNCHANGED vars PROVE UNCHANGED dictVars
  BY <1>1 DEF vars
<1>2. CASE UNCHANGED vars
  BY <1>1, <1>2, DictInvUnchanged, Zenon
<1>3. CASE Next
  BY <1>1, <1>3, DictInvUnchanged, DictStep, Zenon DEF Next, Closed
<1> QED
  BY <1>2, <1>3, Zenon

\* What a value reads as.
LEMMA MapReads == MapInv => ReadsBack
<1> SUFFICES ASSUME MapInv, NEW k \in DOMAIN dict
             PROVE  /\ meant[k].type = "bytes" => get_bytes(k) = <<meant[k].v>>
                    /\ meant[k].type = "bool" => get_bool(k) = <<meant[k].v>>
                    /\ meant[k].type = "u64" =>
                         /\ get_u64(k) = IF meant[k].v = Zero THEN <<>> ELSE <<meant[k].v>>
                         /\ get_i64(k) = IF meant[k].v = Zero \/ meant[k].v[1] >= 8 THEN <<>>
                                         ELSE <<[neg |-> FALSE, n |-> meant[k].v]>>
  BY Zenon DEF ReadsBack
<1> DEFINE as == meant[k]  s == dict[k]  v == as.v
<1>1. Stored(as, s)
  BY Zenon DEF MapInv
<1>2. "bytes" # "bool" /\ "bytes" # "u64" /\ "bool" # "u64"
  OBVIOUS
<1>3. ASSUME as.type = "bytes" PROVE get_bytes(k) = <<v>>
  BY <1>1, <1>2, <1>3, Zenon DEF Stored, get_bytes
<1>4. ASSUME as.type = "bool" PROVE get_bool(k) = <<v>>
  <2>1. v \in BOOLEAN /\ s = IF v THEN <<49>> ELSE <<48>>
    BY <1>1, <1>2, <1>4, Zenon DEF Stored
  <2>2. get_bool(k) = <<s # <<>> /\ s[1] \in BOOL_TRUTH>>
    BY Zenon DEF get_bool
  <2> HIDE DEF s, v
  <2>3. CASE v
    <3>1. s = <<49>>
      BY <2>1, <2>3, Zenon
    <3>2. s # <<>> /\ s[1] \in BOOL_TRUTH
      BY <3>1 DEF BOOL_TRUTH
    <3>3. (s # <<>> /\ s[1] \in BOOL_TRUTH) = v
      BY <2>1, <2>3, <3>2, Zenon
    <3> QED
      BY <2>2, <3>3, Zenon
  <2>4. CASE ~v
    <3>1. s = <<48>>
      BY <2>1, <2>4, Zenon
    <3>2. ~(s[1] \in BOOL_TRUTH)
      BY <3>1 DEF BOOL_TRUTH
    <3>3. (s # <<>> /\ s[1] \in BOOL_TRUTH) = v
      BY <2>1, <2>4, <3>2, Zenon
    <3> QED
      BY <2>2, <3>3, Zenon
  <2> QED
    BY <2>3, <2>4, Zenon
<1>5. ASSUME as.type = "u64"
      PROVE  /\ get_u64(k) = IF v = Zero THEN <<>> ELSE <<v>>
             /\ get_i64(k) = IF v = Zero \/ v[1] >= 8 THEN <<>> ELSE <<[neg |-> FALSE, n |-> v]>>
  <2>1. v \in Word64 /\ s = to_vec_u64(v, TRUE)
    BY <1>1, <1>2, <1>5, Zenon DEF Stored
  <2>2. s \in Seq(HexText) /\ Radix16(s) = IF v = Zero THEN <<>> ELSE <<v>>
    BY <2>1, ShortReads, Zenon
  <2>3. Utf8(s) = TRUE /\ AfterPlus(s) = s /\ (Len(s) > 1 /\ s[1] = 45) = FALSE
    <3> HIDE DEF s
    <3> QED
      BY <2>2, HexTextPlain, Zenon
  <2>4. get_str(k) = <<s>>
    BY <2>3, Zenon DEF get_str
  <2>5. v[1] \in Int
    <3>1. 1 \in 1 .. 16 /\ \A x \in Digit : x \in Int
      BY DEF Digit
    <3> QED
      BY <2>1, <3>1, WordIsSeq, Zenon
  <2> HIDE DEF s, v
  <2>6. <<s>> # <<>> /\ <<s>>[1] = s /\ <<v>> # <<>> /\ <<v>>[1] = v
    OBVIOUS
  <2>7. get_u64(k) = IF v = Zero THEN <<>> ELSE <<v>>
    BY <2>2, <2>3, <2>4, <2>6, Zenon DEF get_u64
  <2> DEFINE minus == Len(s) > 1 /\ s[1] = 45  n == Radix16(s)
             fits == n[1][1] < 8 \/ (minus /\ n[1] = [Zero EXCEPT ![1] = 8])
  <2>8. get_i64(k) = IF n = <<>> \/ ~fits THEN <<>> ELSE <<[neg |-> minus /\ n[1] # Zero, n |-> n[1]]>>
    <3> DEFINE o == get_str(k)
    <3>1. o # <<>> /\ o[1] = s
      BY <2>4, <2>6, Zenon
    <3>2. (IF minus THEN Tail(s) ELSE AfterPlus(s)) = s
      BY <2>3, Zenon
    <3> HIDE DEF o
    <3> QED
      BY <3>1, <3>2, Zenon DEF get_i64, o
  <2>9. CASE v = Zero
    BY <2>2, <2>7, <2>8, <2>9, Zenon
  <2>10. CASE v # Zero
    <3>1. n = <<v>>
      BY <2>2, <2>10, Zenon
    <3>2. fits <=> v[1] < 8
      BY <2>3, <2>6, <3>1, Zenon
    <3>3. (minus /\ n[1] # Zero) = FALSE
      BY <2>3, Zenon
    <3> HIDE DEF fits, n, minus
    <3>4. v[1] >= 8 <=> ~(v[1] < 8)
      BY <2>5
    <3> QED
      BY <2>6, <2>7, <2>8, <2>10, <3>1, <3>2, <3>3, <3>4, Zenon
  <2> QED
    BY <2>9, <2>10, Zenon
<1> QED
  BY <1>3, <1>4, <1>5, Zenon

\* A map that stores what was meant can be written in hex and read again.
LEMMA MapHex == MapInv => HexInverts
<1> SUFFICES ASSUME MapInv, NEW k \in DOMAIN dict
             PROVE  /\ from_string(to_string(dict[k])) = dict[k]
                    /\ from_string(Separated(to_string(dict[k]))) = dict[k]
                    /\ meant[k].type = "u64" =>
                         LET n == meant[k].v
                             short == to_vec_u64(n, TRUE)
                         IN  /\ from_string_u64(to_vec_u64(n, FALSE)) = n
                             /\ from_string_u64(short) =
                                  IF Len(short) % 2 = 0 THEN n ELSE <<0>> \o Front(n)
  BY Zenon DEF HexInverts
<1>1. dict[k] \in Seq(Octet)
  BY Zenon DEF MapInv, StringMap
<1> DEFINE s == dict[k]  n == meant[k].v
<1> HIDE DEF s
<1>2. from_string(to_string(s)) = s /\ from_string(Separated(to_string(s))) = s
  BY <1>1, HexRoundTrip, Zenon DEF s
<1>3. ASSUME meant[k].type = "u64" PROVE n \in Word64
  <2>1. Stored(meant[k], dict[k])
    BY Zenon DEF MapInv
  <2>2. "bytes" # "u64" /\ "bool" # "u64"
    OBVIOUS
  <2> QED
    BY <1>3, <2>1, <2>2, Zenon DEF Stored
<1> HIDE DEF n
<1>4. ASSUME n \in Word64
      PROVE  /\ from_string_u64(to_vec_u64(n, FALSE)) = n
             /\ from_string_u64(to_vec_u64(n, TRUE)) =
                  IF Len(to_vec_u64(n, TRUE)) % 2 = 0 THEN n ELSE <<0>> \o Front(n)
  BY <1>4, FullWord, ShortWord
<1> QED
  BY <1>2, <1>3, <1>4, Zenon DEF s, n

\* A map of bytes can be escaped and unescaped.
LEMMA MapEscape == MapInv => EscapeInverts
<1> SUFFICES ASSUME MapInv, NEW k \in DOMAIN dict
             PROVE  LET text == escape(dict[k])
                    IN  /\ \A i \in DOMAIN text : text[i] \in 43 .. 126
                        /\ unescape(text) = dict[k]
                        /\ \A n \in DOMAIN text : IsPrefix(unescape(SubSeq(text, 1, n)), dict[k])
  BY Zenon DEF EscapeInverts
<1>1. dict[k] \in Seq(Octet)
  BY Zenon DEF MapInv, StringMap
<1> QED
  BY <1>1, EscapeRoundTrip, Zenon

\* A torn file loads its complete lines.
LEMMA DictLoads == DictInv => LoadsCompleteLines
<1> SUFFICES ASSUME MapInv, TornFile
             PROVE  /\ from_bytes(file).ok
                    /\ DOMAIN from_bytes(file).d = ToSet(SubSeq(Sorted(DOMAIN dict), 1, Lines)) \ {<<>>}
  BY Zenon DEF DictInv, LoadsCompleteLines
<1> DEFINE ks == Sorted(DOMAIN dict)
<1>1. StringMap(dict) /\ ks \in Seq(DOMAIN dict)
  BY SortedSeq, Zenon DEF MapInv
<1>2. PICK e \in LineEnds : \E i \in 0 .. Len(ks) : Torn(file, dict, ks, e, i)
  BY Zenon DEF TornFile
<1>3. PICK i \in 0 .. Len(ks) : Torn(file, dict, ks, e, i)
  BY <1>2, Zenon
<1> HIDE DEF ks
<1> DEFINE js == SubSeq(ks, 1, i)
<1>4. from_bytes(file).ok /\ from_bytes(file).d = Kept(dict, js)
  BY <1>1, <1>3, TornLoads, Zenon
<1>5. js \in Seq(DOMAIN dict)
  BY <1>1, Shorter, Zenon
<1>6. Len(Ended(file)) = i
  BY <1>1, <1>3, TornLines, SMT
<1>7. Lines = i
  BY <1>6, Zenon DEF Lines, Ended
<1>8. DOMAIN Kept(dict, js) = ToSet(js) \ {<<>>}
  BY <1>1, <1>5, KeptType, Zenon
<1> QED
  BY <1>4, <1>7, <1>8, Zenon DEF ks

\* The dictionary stores what the program meant, and a file that has been
\* saved, whole or torn, and perhaps been given other line ends, holds the
\* first lines of it and the beginning of the next: after any number of edits,
\* saves, crashes and loads, for any keys and values.
THEOREM DictInvariance == Spec => []DictInv
BY InitDict, NextDict, PTL DEF Spec

\* The get functions of Dictionary return what the program last set, also after
\* a save that was cut anywhere and a load; only a u64 of zero reads as None,
\* and one that is no i64 does when read as one. For all keys, byte strings and
\* words.
THEOREM DictionaryReadsBack == Spec => []ReadsBack
<1>1. DictInv => ReadsBack
  BY MapReads, Zenon DEF DictInv
<1> QED
  BY <1>1, DictInvariance, PTL

\* Dictionary::from_bytes accepts every file that write_to left, however short
\* it was cut, with either kind of line end, and finds the keys of exactly its
\* complete lines, the empty key excepted.
THEOREM DictionaryLoads == Spec => []LoadsCompleteLines
BY DictLoads, DictInvariance, PTL

\* hex::from_string undoes to_string on all byte strings, in any case and with
\* separators, and from_string_u64 undoes to_vec_u64 on all words, except that
\* an odd number of digits loses its last one.
THEOREM HexReadsBack == Spec => []HexInverts
<1>1. DictInv => HexInverts
  BY MapHex, Zenon DEF DictInv
<1> QED
  BY <1>1, DictInvariance, PTL

\* str::escape writes printable text that unescape decodes to the same bytes,
\* and cut anywhere to a beginning of them.
THEOREM EscapeReadsBack == Spec => []EscapeInverts
<1>1. DictInv => EscapeInverts
  BY MapEscape, Zenon DEF DictInv
<1> QED
  BY <1>1, DictInvariance, PTL
=============================================================================
