----------------------------- MODULE BufProofs -----------------------------
(***************************************************************************)
(* Proofs about Buf, for every pool, every capacity, every slice and every *)
(* count that callers pass in.                                             *)
(***************************************************************************)
EXTENDS Buf, IntegerLemmas, SequenceTheorems, TLAPS

Bytes == Byte \cup {Junk}
Contents == [Cells -> Bytes]
Outs == {"ok", "full", "panic"}

\* The second header word: that of a pooled buffer never changes, that of a
\* standalone Buf is its capacity.
Header(h, b, alive) ==
    /\ b \in Pooled => h = PooledFlag + PoolBufCap
    /\ b \notin Pooled => h \in Nat /\ IF alive THEN ValidCapacity(h) ELSE h = 0

HeaderInv == \A b \in Names : Header(hdr[b], b, b \in live)

\* Memory that is no Buf has length 0: a pooled buffer is cleared before it
\* goes back.
EmptyInv == \A b \in Names : b \notin live => len[b] = 0

\* The inductive invariant.
BufInv == TypeOK /\ HeaderInv /\ EmptyInv

-----------------------------------------------------------------------------
\* The flag is above every capacity.
LEMMA FlagFacts ==
    /\ PooledFlag \in Nat \ {0} /\ PooledFlag = MaxCapacity + 1
    /\ MaxCapacity \in Nat /\ PoolBufCap \in 1 .. MaxCapacity /\ ValidCapacity(PoolBufCap)
    /\ \A h \in 0 .. MaxCapacity : h % PooledFlag = h /\ ~(h >= PooledFlag)
    /\ (PooledFlag + PoolBufCap) % PooledFlag = PoolBufCap
<1>1. /\ PooledFlag \in Nat \ {0} /\ PooledFlag = MaxCapacity + 1
      /\ MaxCapacity \in Nat /\ PoolBufCap \in 1 .. MaxCapacity /\ ValidCapacity(PoolBufCap)
  BY BufAssumption DEF PooledFlag, ValidCapacity
<1> DEFINE f == PooledFlag
           M == MaxCapacity
           P == PoolBufCap
<1>2. f \in Nat \ {0} /\ f = M + 1 /\ M \in Nat /\ P \in 1 .. M
  BY <1>1
<1> HIDE DEF f, M, P
<1>3. ASSUME NEW h \in 0 .. M PROVE h % f = h /\ ~(h >= f)
  <2>1. h \in 0 .. (f - 1) /\ h \in Int /\ h = f * 0 + h /\ 0 \in Int
    BY <1>2
  <2>2. h % f = h
    BY <1>2, <2>1, ModUnique
  <2> QED
    BY <1>2, <2>2
<1>4. (f + P) % f = P
  <2>1. P \in 0 .. (f - 1) /\ f + P \in Int /\ f + P = f * 1 + P /\ 1 \in Int
    BY <1>2
  <2> QED
    BY <1>2, <2>1, ModUnique
<1> QED
  BY <1>1, <1>3, <1>4 DEF f, M, P

\* What a header says of a Buf.
HeaderSays(h, b, alive) ==
    /\ h \in 0 .. (PooledFlag + MaxCapacity)
    /\ h % PooledFlag = IF b \in Pooled THEN PoolBufCap ELSE h
    /\ h % PooledFlag \in 0 .. MaxCapacity
    /\ alive => ValidCapacity(h % PooledFlag) /\ h % PooledFlag \in 1 .. MaxCapacity
    /\ (h >= PooledFlag) <=> (b \in Pooled)

\* It says so for every Buf that can be.
LEMMA HeaderFacts ==
    ASSUME NEW b, NEW h, NEW alive, Header(h, b, alive)
    PROVE  HeaderSays(h, b, alive)
<1>1. CASE b \in Pooled
  <2>1. h = PooledFlag + PoolBufCap /\ h % PooledFlag = PoolBufCap
    BY <1>1, FlagFacts DEF Header
  <2> QED
    BY <1>1, <2>1, FlagFacts DEF HeaderSays
<1>2. CASE b \notin Pooled
  <2>1. h \in 0 .. MaxCapacity /\ (alive => ValidCapacity(h) /\ h \in 1 .. MaxCapacity)
    BY <1>2, FlagFacts DEF Header, ValidCapacity
  <2>2. h % PooledFlag = h /\ ~(h >= PooledFlag)
    BY <2>1, FlagFacts
  <2> QED
    BY <1>2, <2>1, <2>2, FlagFacts DEF HeaderSays
<1> QED
  BY <1>1, <1>2

\* Capacities and flags of the Bufs.
LEMMA CapacityFacts ==
    BufInv => \A b \in Names :
        /\ capacity(b) \in 0 .. MaxCapacity /\ len[b] \in 0 .. capacity(b)
        /\ b \in live => ValidCapacity(capacity(b)) /\ capacity(b) \in 1 .. MaxCapacity
        /\ pooled(b) <=> b \in Pooled
        /\ b \in Pooled => capacity(b) = PoolBufCap
        /\ hdr[b] \in Nat /\ mem[b] \in Contents
<1> SUFFICES ASSUME BufInv, NEW b \in Names
             PROVE  /\ capacity(b) \in 0 .. MaxCapacity /\ len[b] \in 0 .. capacity(b)
                    /\ b \in live => ValidCapacity(capacity(b)) /\ capacity(b) \in 1 .. MaxCapacity
                    /\ pooled(b) <=> b \in Pooled
                    /\ b \in Pooled => capacity(b) = PoolBufCap
                    /\ hdr[b] \in Nat /\ mem[b] \in Contents
  OBVIOUS
<1>1. Header(hdr[b], b, b \in live)
  BY DEF BufInv, HeaderInv
<1>2. /\ hdr[b] \in 0 .. (PooledFlag + MaxCapacity)
      /\ hdr[b] % PooledFlag = IF b \in Pooled THEN PoolBufCap ELSE hdr[b]
      /\ hdr[b] % PooledFlag \in 0 .. MaxCapacity
      /\ b \in live => ValidCapacity(hdr[b] % PooledFlag) /\ hdr[b] % PooledFlag \in 1 .. MaxCapacity
      /\ (hdr[b] >= PooledFlag) <=> (b \in Pooled)
  <2>1. HeaderSays(hdr[b], b, b \in live)
    BY <1>1, HeaderFacts, Zenon
  <2> QED
    BY <2>1 DEF HeaderSays
<1>3. capacity(b) = hdr[b] % PooledFlag /\ (pooled(b) <=> hdr[b] >= PooledFlag)
  BY DEF capacity, pooled
<1>4. len[b] \in 0 .. MaxCapacity /\ len[b] <= capacity(b) /\ mem[b] \in Contents
  BY DEF BufInv, TypeOK, Contents, Bytes
<1>5. len[b] \in 0 .. capacity(b)
  BY <1>2, <1>3, <1>4, FlagFacts
<1> QED
  BY <1>2, <1>3, <1>4, <1>5, FlagFacts

-----------------------------------------------------------------------------
\* The memory of one Buf changes, and whether it exists.
Stored(b, h, l, m) ==
    /\ len' = [len EXCEPT ![b] = l]
    /\ hdr' = [hdr EXCEPT ![b] = h]
    /\ mem' = [mem EXCEPT ![b] = m]
    /\ live' \ {b} = live \ {b} /\ live' \subseteq Names

\* That keeps the invariant if the new header fits the Buf and the new length
\* the new header.
LEMMA StoredInv ==
    ASSUME BufInv, NEW b \in Names, NEW h, NEW l, NEW m \in Contents, Stored(b, h, l, m),
           Header(h, b, b \in live'), l \in 0 .. (h % PooledFlag), b \notin live' => l = 0,
           out' \in Outs, overrun' \in BOOLEAN
    PROVE  BufInv'
<1>1. /\ hdr \in [Names -> 0 .. (PooledFlag + MaxCapacity)]
      /\ len \in [Names -> 0 .. MaxCapacity]
      /\ mem \in [Names -> Contents]
  BY DEF BufInv, TypeOK, Contents, Bytes
<1>2. /\ h \in 0 .. (PooledFlag + MaxCapacity) /\ h % PooledFlag \in 0 .. MaxCapacity
      /\ l \in 0 .. MaxCapacity /\ l <= h % PooledFlag
  <2>1. h \in 0 .. (PooledFlag + MaxCapacity) /\ h % PooledFlag \in 0 .. MaxCapacity
    <3>1. HeaderSays(h, b, b \in live')
      BY HeaderFacts, Zenon
    <3> QED
      BY <3>1, Zenon DEF HeaderSays
  <2> QED
    BY <2>1, FlagFacts
<1>3. /\ hdr' \in [Names -> 0 .. (PooledFlag + MaxCapacity)]
      /\ len' \in [Names -> 0 .. MaxCapacity]
      /\ mem' \in [Names -> Contents]
  BY <1>1, <1>2 DEF Stored
<1>4. hdr'[b] = h /\ len'[b] = l
  BY <1>1 DEF Stored
<1>5. \A x \in Names : x # b => hdr'[x] = hdr[x] /\ len'[x] = len[x] /\ (x \in live' <=> x \in live)
  BY <1>1 DEF Stored
<1>6. \A x \in Names : len'[x] <= hdr'[x] % PooledFlag
  <2>1. \A x \in Names : len[x] <= hdr[x] % PooledFlag
    BY DEF BufInv, TypeOK, capacity
  <2> QED
    BY <1>2, <1>4, <1>5, <2>1
<1>7. TypeOK'
  BY <1>3, <1>6 DEF TypeOK, Contents, Bytes, Stored, Outs, capacity
<1>8. HeaderInv'
  <2> SUFFICES ASSUME NEW x \in Names PROVE Header(hdr'[x], x, x \in live')
    BY DEF HeaderInv
  <2>1. CASE x = b
    BY <1>4, <2>1
  <2>2. CASE x # b
    <3>1. Header(hdr[x], x, x \in live)
      BY DEF BufInv, HeaderInv
    <3>2. hdr'[x] = hdr[x] /\ (x \in live') = (x \in live)
      BY <1>5, <2>2
    <3> QED
      BY <3>1, <3>2, Zenon
  <2> QED
    BY <2>1, <2>2
<1>9. EmptyInv'
  BY <1>4, <1>5 DEF BufInv, EmptyInv
<1> QED
  BY <1>7, <1>8, <1>9 DEF BufInv

\* Nothing but the report changes when an operation is refused.
LEMMA RefuseInv ==
    ASSUME BufInv, NEW reason \in Outs, Refuse(reason)
    PROVE  BufInv'
<1>1. /\ live' = live /\ hdr' = hdr /\ len' = len /\ mem' = mem /\ overrun' = overrun
      /\ out' \in Outs
  BY DEF Refuse
<1>2. TypeOK'
  BY <1>1 DEF BufInv, TypeOK, Outs, capacity
<1> QED
  BY <1>1, <1>2 DEF BufInv, HeaderInv, EmptyInv

\* Bytes that are filled in or copied over are bytes.
LEMMA WrittenBytes ==
    ASSUME NEW m \in Contents
    PROVE  /\ \A at, n \in Int, v \in Bytes : Filled(m, at, n, v) \in Contents
           /\ \A at \in Int, s \in Seq(Bytes) : Copied(m, at, s) \in Contents
<1>1. ASSUME NEW at \in Int, NEW n \in Int, NEW v \in Bytes PROVE Filled(m, at, n, v) \in Contents
  BY DEF Filled, Contents
<1>2. ASSUME NEW at \in Int, NEW s \in Seq(Bytes) PROVE Copied(m, at, s) \in Contents
  <2> SUFFICES ASSUME NEW i \in Cells
               PROVE  (IF i \in at .. (at + Len(s) - 1) THEN s[i - at + 1] ELSE m[i]) \in Bytes
    BY DEF Copied, Contents
  <2>1. i \in Int /\ Len(s) \in Nat
    BY FlagFacts DEF Cells
  <2>2. i \in at .. (at + Len(s) - 1) => i - at + 1 \in 1 .. Len(s)
    BY <2>1
  <2>3. m[i] \in Bytes
    BY DEF Contents
  <2> QED
    BY <2>2, <2>3
<1> QED
  BY <1>1, <1>2

\* What as_slice shows is bytes, as many as the length says.
LEMMA SliceType ==
    BufInv => \A b \in Names : as_slice(b) \in Seq(Bytes) /\ Len(as_slice(b)) = len[b]
<1> SUFFICES ASSUME BufInv, NEW b \in Names
             PROVE  as_slice(b) \in Seq(Bytes) /\ Len(as_slice(b)) = len[b]
  OBVIOUS
<1>1. /\ len[b] \in Nat /\ len[b] <= MaxCapacity /\ MaxCapacity \in Nat /\ mem[b] \in Contents
  BY FlagFacts DEF BufInv, TypeOK, Contents, Bytes, capacity
<1>2. \A i \in 1 .. len[b] : i - 1 \in Cells
  BY <1>1 DEF Cells
<1>3. as_slice(b) \in [1 .. len[b] -> Bytes]
  BY <1>1, <1>2 DEF as_slice, Contents
<1>4. as_slice(b) \in Seq(Bytes)
  BY <1>1, <1>3, SeqDef
<1> QED
  BY <1>1, <1>3, <1>4, LenProperties

-----------------------------------------------------------------------------
\* Slices and counts that callers pass in.
LEMMA CallerFacts ==
    /\ \A s \in Slices : s \in Seq(Byte) /\ s \in Seq(Bytes) /\ Len(s) \in Nat
    /\ \A n \in Counts \cup Positions : n \in Nat
    /\ <<>> \in Seq(Bytes) /\ Len(<<>>) = 0
    /\ Blank \in Contents /\ Byte \subseteq Bytes
<1>1. \A s \in Seq(Byte) : s \in Seq(Bytes)
  BY DEF Bytes
<1>2. \A s \in Slices : s \in Seq(Byte) /\ s \in Seq(Bytes) /\ Len(s) \in Nat
  BY <1>1, BufAssumption
<1>3. \A n \in Counts \cup Positions : n \in Nat
  BY BufAssumption
<1>4. Blank \in Contents
  BY DEF Blank, Contents, Bytes
<1> QED
  BY <1>2, <1>3, <1>4 DEF Bytes

\* A length rounded up to a multiple of Align is one that Buf::new accepts,
\* unless it is 0 or past the limit.
LEMMA Rounded ==
    ASSUME NEW n \in Nat
    PROVE  /\ RoundUp(n) \in Nat /\ RoundUp(n) >= n
           /\ n > 0 /\ RoundUp(n) <= MaxCapacity => ValidCapacity(RoundUp(n))
           /\ n = 0 => RoundUp(n) = 0
<1> DEFINE A == Align
           x == n + A - 1
           d == x \div A
           r == x % A
<1>1. A \in Nat \ {0}
  BY BufAssumption
<1>2. RoundUp(n) = d * A
  BY DEF RoundUp
<1> HIDE DEF A
<1>3. x \in Int /\ x >= n /\ x >= 0 /\ x = n + A - 1
  BY <1>1
<1> HIDE DEF x
<1>4. d \in Int /\ r \in 0 .. (A - 1) /\ x = A * d + r
  BY <1>1, <1>3, DivMod
<1> HIDE DEF d, r
<1>5. A * d \in Int /\ A * d = d * A /\ A * d >= n
  BY <1>1, <1>3, <1>4
<1>6. (A * d) % A = 0
  <2>1. A * d \in Int /\ 0 \in 0 .. (A - 1) /\ A * d = A * d + 0
    BY <1>1, <1>5
  <2> QED
    BY <1>1, <1>4, <2>1, ModUnique
<1>7. n = 0 => A * d = 0
  <2> SUFFICES ASSUME n = 0 PROVE A * d = 0
    OBVIOUS
  <2>1. x = A * 0 + (A - 1) /\ A - 1 \in 0 .. (A - 1) /\ 0 \in Int
    BY <1>1, <1>3
  <2>2. x \div A = 0
    BY <1>1, <1>3, <2>1, ModUnique
  <2> QED
    BY <1>1, <2>2 DEF d
<1> DEFINE u == A * d
<1>8. RoundUp(n) = u
  BY <1>2, <1>5
<1>9. u \in Int /\ u >= n /\ u % Align = 0 /\ (n = 0 => u = 0)
  BY <1>5, <1>6, <1>7 DEF A
<1> HIDE DEF u
<1> QED
  BY <1>8, <1>9, FlagFacts DEF ValidCapacity

\* Buf::new with an append that fits gives a standalone Buf.
LEMMA AllocateStores ==
    ASSUME BufInv, NEW b, NEW c \in Nat, NEW s, Allocate(b, c, s), ValidCapacity(c)
    PROVE  /\ b \in Names \ live /\ b \notin Pooled /\ live' = live \cup {b} /\ out' = "ok"
           /\ overrun' = overrun
           /\ Stored(b, c, Len(s), Copied(Blank, 0, s)) /\ Header(c, b, b \in live')
           /\ c % PooledFlag = c
<1>1. b \in Heap \ live /\ live' = live \cup {b} /\ out' = "ok" /\ overrun' = overrun
  BY DEF Allocate, Store
<1>2. b \in Names \ live /\ b \notin Pooled /\ live \subseteq Names
  BY <1>1, BufAssumption DEF Names, BufInv, TypeOK
<1>3. Stored(b, c, Len(s), Copied(Blank, 0, s))
  BY <1>1, <1>2 DEF Allocate, Store, Stored
<1>4. Header(c, b, b \in live')
  BY <1>1, <1>2 DEF Header
<1>5. c \in 0 .. MaxCapacity
  BY FlagFacts DEF ValidCapacity
<1> QED
  BY <1>1, <1>2, <1>3, <1>4, <1>5, FlagFacts

\* It keeps the invariant, or refuses.
LEMMA AllocateInv ==
    ASSUME BufInv, NEW b, NEW c \in Nat, NEW s \in Seq(Bytes), Allocate(b, c, s),
           ValidCapacity(c) => Len(s) <= c
    PROVE  BufInv'
<1>1. CASE ValidCapacity(c)
  <2>1. /\ b \in Names \ live /\ live' = live \cup {b} /\ out' = "ok" /\ overrun' = overrun
        /\ Stored(b, c, Len(s), Copied(Blank, 0, s)) /\ Header(c, b, b \in live')
        /\ c % PooledFlag = c
    BY <1>1, AllocateStores
  <2>2. Copied(Blank, 0, s) \in Contents
    BY CallerFacts, WrittenBytes
  <2>3. Len(s) \in 0 .. (c % PooledFlag)
    BY <1>1, <2>1
  <2>4. overrun' \in BOOLEAN /\ out' \in Outs /\ b \in live'
    BY <2>1 DEF BufInv, TypeOK, Outs
  <2> QED
    BY <2>1, <2>2, <2>3, <2>4, StoredInv
<1>2. CASE ~ValidCapacity(c)
  BY <1>2, RefuseInv DEF Allocate, Outs
<1> QED
  BY <1>1, <1>2

\* A pooled buffer that is taken has its header and length 0.
LEMMA TakenStores ==
    ASSUME BufInv, NEW b \in Pooled \ live, NEW s \in Seq(Bytes),
           live' = live \cup {b}, out' = "ok",
           Store(b, hdr[b], len[b] + Len(s), Copied(mem[b], len[b], s))
    PROVE  /\ b \in Names \ live /\ overrun' = overrun
           /\ Stored(b, hdr[b], Len(s), Copied(mem[b], 0, s))
           /\ Header(hdr[b], b, b \in live') /\ hdr[b] % PooledFlag = PoolBufCap
<1>1. b \in Names \ live /\ live \subseteq Names
  BY DEF Names, BufInv, TypeOK
<1>2. len[b] = 0
  BY <1>1 DEF BufInv, EmptyInv
<1>3. 0 + Len(s) = Len(s)
  OBVIOUS
<1>4. Stored(b, hdr[b], Len(s), Copied(mem[b], 0, s))
  BY <1>1, <1>2, <1>3 DEF Store, Stored
<1>5. Header(hdr[b], b, b \in live')
  BY <1>1 DEF BufInv, HeaderInv, Header
<1>6. hdr[b] % PooledFlag = PoolBufCap
  BY <1>1, CapacityFacts DEF capacity
<1> QED
  BY <1>1, <1>4, <1>5, <1>6 DEF Store

\* Pool::get with an append that fits keeps the invariant.
LEMMA GetInv ==
    ASSUME BufInv, NEW b, NEW s \in Seq(Bytes), get(b, s), Len(s) <= PoolBufCap
    PROVE  BufInv'
<1>1. CASE Allocate(b, PoolBufCap, s)
  BY <1>1, FlagFacts, AllocateInv
<1>2. CASE /\ b \in Pooled \ live
           /\ live' = live \cup {b}
           /\ Store(b, hdr[b], len[b] + Len(s), Copied(mem[b], len[b], s))
           /\ out' = "ok"
  <2>1. /\ b \in Names \ live /\ overrun' = overrun
        /\ Stored(b, hdr[b], Len(s), Copied(mem[b], 0, s))
        /\ Header(hdr[b], b, b \in live') /\ hdr[b] % PooledFlag = PoolBufCap
    BY <1>2, TakenStores
  <2>2. Copied(mem[b], 0, s) \in Contents
    BY <2>1, CapacityFacts, WrittenBytes
  <2>3. Len(s) \in 0 .. (hdr[b] % PooledFlag)
    BY <2>1, FlagFacts
  <2>4. overrun' \in BOOLEAN /\ out' \in Outs /\ b \in live'
    BY <1>2, <2>1 DEF BufInv, TypeOK, Outs
  <2> QED
    BY <2>1, <2>2, <2>3, <2>4, StoredInv
<1> QED
  BY <1>1, <1>2 DEF get

\* get_with_min_capacity with an append of no more than it asked for does too.
LEMMA MinCapacityInv ==
    ASSUME BufInv, NEW b, NEW n \in Nat, NEW s \in Seq(Bytes), MinCapacity(b, n, s), Len(s) <= n
    PROVE  BufInv'
<1>1. CASE PoolBufCap >= n
  <2>1. Len(s) <= PoolBufCap /\ get(b, s)
    BY <1>1, FlagFacts DEF MinCapacity
  <2> QED
    BY <2>1, GetInv
<1>2. CASE ~(PoolBufCap >= n)
  BY <1>2, AllocateInv DEF MinCapacity
<1> QED
  BY <1>1, <1>2

\* Every way to get a Buf keeps the invariant.
LEMMA CreateInv ==
    ASSUME BufInv, NEW b, Create(b)
    PROVE  BufInv'
<1>1. ASSUME NEW n \in Counts, new(b, n) PROVE BufInv'
  <2>1. n \in Nat /\ <<>> \in Seq(Bytes) /\ Len(<<>>) <= n
    BY CallerFacts
  <2> QED
    BY <1>1, <2>1, AllocateInv DEF new
<1>2. ASSUME NEW n \in Counts, get_with_min_capacity(b, n) PROVE BufInv'
  <2>1. n \in Nat /\ <<>> \in Seq(Bytes) /\ Len(<<>>) <= n
    BY CallerFacts
  <2> QED
    BY <1>2, <2>1, MinCapacityInv DEF get_with_min_capacity
<1>3. ASSUME NEW s \in Slices, create_from(b, s) PROVE BufInv'
  <2>1. s \in Seq(Bytes) /\ Len(s) \in Nat
    BY CallerFacts
  <2>2. RoundUp(Len(s)) \in Nat /\ Len(s) <= RoundUp(Len(s))
    BY <2>1, Rounded
  <2> QED
    BY <1>3, <2>1, <2>2, AllocateInv DEF create_from
<1>4. ASSUME NEW s \in Slices, pool_create_from(b, s) PROVE BufInv'
  <2>1. s \in Seq(Bytes) /\ Len(s) \in Nat /\ Len(s) <= Len(s)
    BY CallerFacts
  <2> QED
    BY <1>4, <2>1, MinCapacityInv DEF pool_create_from
<1>5. ASSUME NEW o \in live, clone(b, o) PROVE BufInv'
  <2>1. o \in Names
    BY DEF BufInv, TypeOK
  <2>2. capacity(o) \in Nat /\ len[o] <= capacity(o)
    BY <2>1, CapacityFacts
  <2>3. as_slice(o) \in Seq(Bytes) /\ Len(as_slice(o)) <= capacity(o)
    BY <2>1, <2>2, SliceType
  <2> QED
    BY <1>5, <2>2, <2>3, AllocateInv DEF clone
<1> QED
  BY <1>1, <1>2, <1>3, <1>4, <1>5 DEF Create

-----------------------------------------------------------------------------
\* A Buf whose length and bytes change keeps its header.
LEMMA WriteStores ==
    ASSUME BufInv, NEW b \in live, NEW l, NEW m, Write(b, l, m)
    PROVE  /\ b \in Names /\ live' = live /\ out' = "ok" /\ overrun' = overrun
           /\ Stored(b, hdr[b], l, m) /\ Header(hdr[b], b, b \in live')
           /\ hdr[b] % PooledFlag = capacity(b)
<1>1. b \in Names /\ live \subseteq Names
  BY DEF BufInv, TypeOK
<1>2. live' = live /\ out' = "ok" /\ overrun' = overrun
  BY DEF Write, Store
<1>3. Stored(b, hdr[b], l, m)
  BY <1>1, <1>2 DEF Write, Store, Stored
<1>4. Header(hdr[b], b, b \in live')
  BY <1>1, <1>2 DEF BufInv, HeaderInv
<1> QED
  BY <1>1, <1>2, <1>3, <1>4 DEF capacity

\* That keeps the invariant if the new length is within the capacity.
LEMMA WriteInv ==
    ASSUME BufInv, NEW b \in live, NEW l \in 0 .. capacity(b), NEW m \in Contents, Write(b, l, m)
    PROVE  BufInv'
<1>1. /\ b \in Names /\ live' = live /\ out' = "ok" /\ overrun' = overrun
      /\ Stored(b, hdr[b], l, m) /\ Header(hdr[b], b, b \in live')
      /\ hdr[b] % PooledFlag = capacity(b)
  BY WriteStores
<1>2. overrun' \in BOOLEAN /\ out' \in Outs /\ b \in live' /\ l \in 0 .. (hdr[b] % PooledFlag)
  BY <1>1 DEF BufInv, TypeOK, Outs
<1> QED
  BY <1>1, <1>2, StoredInv

\* Buf::drop leaves an empty pooled buffer or no standalone Buf.
LEMMA DropInv ==
    ASSUME BufInv, NEW b \in live, drop(b)
    PROVE  BufInv'
<1> DEFINE h == IF pooled(b) THEN hdr[b] ELSE 0
           m == IF pooled(b) THEN mem[b] ELSE Blank
<1>1. b \in Names /\ live \subseteq Names
  BY DEF BufInv, TypeOK
<1>2. live' = live \ {b} /\ out' = "ok" /\ overrun' = overrun
  BY DEF drop, Store
<1>3. Stored(b, h, 0, m)
  BY <1>1, <1>2 DEF drop, Store, Stored
<1>4. Header(h, b, b \in live')
  BY <1>1, <1>2, CapacityFacts DEF BufInv, HeaderInv, Header
<1>5. m \in Contents
  BY <1>1, CapacityFacts, CallerFacts
<1> HIDE DEF h, m
<1>6. 0 \in 0 .. (h % PooledFlag)
  <2>1. HeaderSays(h, b, b \in live')
    BY <1>4, HeaderFacts, Zenon
  <2> QED
    BY <2>1, FlagFacts DEF HeaderSays
<1>7. overrun' \in BOOLEAN /\ out' \in Outs
  BY <1>2 DEF BufInv, TypeOK, Outs
<1> QED
  BY <1>1, <1>3, <1>4, <1>5, <1>6, <1>7, StoredInv

\* Buf::repeat writes past the capacity only as far as the length wraps: the
\* header stays within it.
LEMMA RepeatInv ==
    ASSUME BufInv, NEW b \in live, NEW n \in Nat, NEW v \in Byte, repeat(b, n, v)
    PROVE  BufInv'
<1> DEFINE new_len == (len[b] + n) % UsizeValues
<1>1. b \in Names /\ live \subseteq Names
  BY DEF BufInv, TypeOK
<1>2. capacity(b) \in Nat /\ len[b] \in Nat /\ mem[b] \in Contents
  BY <1>1, CapacityFacts
<1>3. CASE new_len > capacity(b)
  BY <1>3, RefuseInv DEF repeat, Outs
<1>4. CASE ~(new_len > capacity(b))
  <2>1. new_len \in Nat
    <3>1. UsizeValues \in Nat \ {0}
      BY BufAssumption
    <3>2. len[b] + n \in Int
      BY <1>2
    <3> QED
      BY <3>1, <3>2, DivMod
  <2>2. new_len \in 0 .. (hdr[b] % PooledFlag)
    BY <1>2, <1>4, <2>1 DEF capacity
  <2>3. /\ live' = live /\ hdr' = hdr /\ out' = "ok"
        /\ len' = [len EXCEPT ![b] = new_len]
        /\ mem' = [mem EXCEPT ![b] = Filled(mem[b], len[b], n, v)]
        /\ overrun' = (overrun \/ len[b] + n > capacity(b))
    BY <1>4 DEF repeat
  <2>4. Filled(mem[b], len[b], n, v) \in Contents
    BY <1>2, WrittenBytes, CallerFacts
  <2>5. hdr' = [hdr EXCEPT ![b] = hdr[b]]
    BY <1>1, <2>3 DEF BufInv, TypeOK
  <2>6. Stored(b, hdr[b], new_len, Filled(mem[b], len[b], n, v))
    <3> HIDE DEF new_len
    <3> QED
      BY <1>1, <2>3, <2>5 DEF Stored
  <2>7. Header(hdr[b], b, b \in live')
    BY <1>1, <2>3 DEF BufInv, HeaderInv
  <2>8. overrun' \in BOOLEAN /\ out' \in Outs /\ b \in live'
    BY <2>3 DEF Outs
  <2> HIDE DEF new_len
  <2> QED
    BY <1>1, <2>2, <2>4, <2>6, <2>7, <2>8, StoredInv
<1> QED
  BY <1>3, <1>4

\* Every operation on a Buf keeps the invariant.
LEMMA UseInv ==
    ASSUME BufInv, NEW b \in live, Use(b)
    PROVE  BufInv'
<1>0. b \in Names
  BY DEF BufInv, TypeOK
<1>1. capacity(b) \in Nat /\ len[b] \in Nat /\ len[b] \in 0 .. capacity(b) /\ mem[b] \in Contents
  BY <1>0, CapacityFacts
<1>2. "full" \in Outs /\ "panic" \in Outs
  BY DEF Outs
<1>3. CASE clear(b)
  <2>1. 0 \in 0 .. capacity(b)
    BY <1>1
  <2> QED
    BY <1>1, <1>3, <2>1, WriteInv DEF clear
<1>4. ASSUME NEW s \in Slices, append(b, s) PROVE BufInv'
  <2>1. s \in Seq(Bytes) /\ Len(s) \in Nat
    BY CallerFacts
  <2>2. Copied(mem[b], len[b], s) \in Contents
    BY <1>1, <2>1, WrittenBytes
  <2>3. CASE len[b] + Len(s) <= capacity(b)
    <3>1. len[b] + Len(s) \in 0 .. capacity(b)
      BY <1>1, <2>1, <2>3
    <3> QED
      BY <1>4, <2>2, <2>3, <3>1, WriteInv DEF append
  <2>4. CASE ~(len[b] + Len(s) <= capacity(b))
    BY <1>2, <1>4, <2>4, RefuseInv DEF append
  <2> QED
    BY <2>3, <2>4
<1>5. ASSUME NEW v \in Byte, push(b, v) PROVE BufInv'
  <2>1. Filled(mem[b], len[b], 1, v) \in Contents
    BY <1>1, WrittenBytes, CallerFacts
  <2>2. CASE len[b] + 1 <= capacity(b)
    <3>1. len[b] + 1 \in 0 .. capacity(b)
      BY <1>1, <2>2
    <3> QED
      BY <1>5, <2>1, <2>2, <3>1, WriteInv DEF push
  <2>3. CASE ~(len[b] + 1 <= capacity(b))
    BY <1>2, <1>5, <2>3, RefuseInv DEF push
  <2> QED
    BY <2>2, <2>3
<1>6. ASSUME NEW n \in Counts, set_size(b, n) PROVE BufInv'
  <2>1. n \in 0 .. capacity(b)
    BY <1>1, <1>6, CallerFacts DEF set_size
  <2> QED
    BY <1>1, <1>6, <2>1, WriteInv DEF set_size
<1>7. ASSUME NEW n \in Counts, NEW v \in Byte, repeat(b, n, v) PROVE BufInv'
  BY <1>7, CallerFacts, RepeatInv
<1>8. ASSUME NEW n \in Counts, NEW v \in Byte, resize(b, n, v) PROVE BufInv'
  <2>1. n \in Nat /\ v \in Bytes
    BY CallerFacts
  <2>2. Grown(b, n, v) \in Contents
    BY <1>1, <2>1, WrittenBytes DEF Grown
  <2>3. CASE n <= capacity(b)
    <3>1. n \in 0 .. capacity(b)
      BY <1>1, <2>1, <2>3
    <3> QED
      BY <1>8, <2>2, <2>3, <3>1, WriteInv DEF resize
  <2>4. CASE ~(n <= capacity(b))
    BY <1>2, <1>8, <2>4, RefuseInv DEF resize
  <2> QED
    BY <2>3, <2>4
<1>9. ASSUME NEW n \in Counts, NEW v \in Byte, clear_and_resize(b, n, v) PROVE BufInv'
  <2>1. n \in Nat /\ v \in Bytes
    BY CallerFacts
  <2>2. Filled(mem[b], 0, n, v) \in Contents
    BY <1>1, <2>1, WrittenBytes
  <2>3. CASE n <= capacity(b)
    <3>1. n \in 0 .. capacity(b)
      BY <1>1, <2>1, <2>3
    <3> QED
      BY <1>9, <2>2, <2>3, <3>1, WriteInv DEF clear_and_resize
  <2>4. CASE ~(n <= capacity(b))
    BY <1>2, <1>9, <2>4, RefuseInv DEF clear_and_resize
  <2> QED
    BY <2>3, <2>4
<1>10. ASSUME NEW i \in Positions, NEW v \in Byte, index_mut(b, i, v) PROVE BufInv'
  <2>1. [mem[b] EXCEPT ![i] = v] \in Contents
    BY <1>1, CallerFacts DEF Contents
  <2>2. CASE i < len[b]
    BY <1>1, <1>10, <2>1, <2>2, WriteInv DEF index_mut
  <2>3. CASE ~(i < len[b])
    BY <1>2, <1>10, <2>3, RefuseInv DEF index_mut
  <2> QED
    BY <2>2, <2>3
<1>11. ASSUME NEW i \in Positions, NEW n \in Positions, NEW j \in Positions, copy_within(b, i, n, j)
       PROVE  BufInv'
  <2>1. i \in Nat /\ n \in Nat /\ j \in Nat
    BY CallerFacts
  <2>2. CASE i + n <= len[b] /\ j + n <= len[b]
    <3> DEFINE part == SubSeq(as_slice(b), i + 1, i + n)
    <3>1. as_slice(b) \in Seq(Bytes) /\ Len(as_slice(b)) = len[b]
      BY <1>0, SliceType
    <3>2. part \in Seq(Bytes)
      <4> DEFINE p == i + 1
                 q == i + n
      <4>1. p \in Int /\ q \in Int /\ \A k \in p .. q : as_slice(b)[k] \in Bytes
        BY <1>1, <2>1, <2>2, <3>1
      <4> HIDE DEF p, q
      <4>2. SubSeq(as_slice(b), p, q) \in Seq(Bytes)
        BY <4>1
      <4> QED
        BY <4>2 DEF p, q
    <3> HIDE DEF part
    <3>3. Copied(mem[b], j, part) \in Contents
      BY <1>1, <2>1, <3>2, WrittenBytes
    <3>4. Write(b, len[b], Copied(mem[b], j, part))
      BY <1>11, <2>2 DEF copy_within, part
    <3> QED
      BY <1>1, <3>3, <3>4, WriteInv
  <2>3. CASE ~(i + n <= len[b] /\ j + n <= len[b])
    BY <1>2, <1>11, <2>3, RefuseInv DEF copy_within
  <2> QED
    BY <2>2, <2>3
<1>12. CASE drop(b)
  BY <1>12, DropInv
<1> QED
  BY <1>3, <1>4, <1>5, <1>6, <1>7, <1>8, <1>9, <1>10, <1>11, <1>12 DEF Use

\* The pool's headers are set up once, and nothing exists at first.
LEMMA InitBufInv == Init => BufInv
<1> SUFFICES ASSUME Init PROVE BufInv
  OBVIOUS
<1>1. \A b \in Names : hdr[b] = IF b \in Pooled THEN PooledFlag + PoolBufCap ELSE 0
  BY DEF Init
<1>2. HeaderInv
  BY <1>1 DEF Init, HeaderInv, Header
<1>3. EmptyInv
  BY DEF Init, EmptyInv
<1>4. \A b \in Names : hdr[b] \in 0 .. (PooledFlag + MaxCapacity) /\ 0 <= hdr[b] % PooledFlag
  <2> SUFFICES ASSUME NEW b \in Names
               PROVE  hdr[b] \in 0 .. (PooledFlag + MaxCapacity) /\ 0 <= hdr[b] % PooledFlag
    OBVIOUS
  <2>1. HeaderSays(hdr[b], b, b \in live)
    BY <1>2, HeaderFacts, Zenon DEF HeaderInv
  <2> QED
    BY <2>1, FlagFacts DEF HeaderSays
<1>5. TypeOK
  <2>1. hdr \in [Names -> 0 .. (PooledFlag + MaxCapacity)]
    BY <1>4 DEF Init
  <2>2. mem \in [Names -> [Cells -> Byte \cup {Junk}]]
    BY DEF Init, Blank
  <2>3. len \in [Names -> 0 .. MaxCapacity] /\ \A b \in Names : len[b] <= capacity(b)
    BY <1>4, FlagFacts DEF Init, capacity
  <2> QED
    BY <2>1, <2>2, <2>3 DEF Init, TypeOK
<1> QED
  BY <1>2, <1>3, <1>5 DEF BufInv

\* Every step keeps the invariant.
LEMMA NextBufInv == BufInv /\ [Next]_vars => BufInv'
<1> SUFFICES ASSUME BufInv, [Next]_vars PROVE BufInv'
  OBVIOUS
<1>1. ASSUME NEW b \in Names \ live, Create(b) PROVE BufInv'
  BY <1>1, CreateInv
<1>2. ASSUME NEW b \in live, Use(b) PROVE BufInv'
  BY <1>2, UseInv
<1>3. CASE UNCHANGED vars
  <2>1. /\ live' = live /\ hdr' = hdr /\ len' = len /\ mem' = mem /\ overrun' = overrun
        /\ out' = out
    BY <1>3 DEF vars
  <2>2. TypeOK'
    BY <2>1 DEF BufInv, TypeOK, capacity
  <2> QED
    BY <2>1, <2>2 DEF BufInv, HeaderInv, EmptyInv
<1> QED
  BY <1>1, <1>2, <1>3 DEF Next

\* Headers tell where a Buf comes from, and memory that is no Buf is empty.
THEOREM BufInvariance == Spec => []BufInv
BY InitBufInv, NextBufInv, PTL DEF Spec

\* Words and bytes always have their types and no length ever exceeds its
\* capacity, whatever counts, slices and positions callers pass in, including
\* counts that make repeat's sum wrap.
THEOREM BufTypeCorrect == Spec => []TypeOK
<1>1. BufInv => TypeOK
  BY DEF BufInv
<1> QED
  BY <1>1, BufInvariance, PTL

\* The flag that Buf::drop decides by is set in the Bufs of the pool and in no
\* other, clones of pooled Bufs included.
THEOREM FlagIsOrigin == Spec => []FlagTellsOrigin
<1>1. BufInv => FlagTellsOrigin
  <2> SUFFICES ASSUME BufInv, NEW b \in live PROVE pooled(b) <=> b \in Pooled
    BY DEF FlagTellsOrigin
  <2>1. b \in Names
    BY DEF BufInv, TypeOK
  <2> QED
    BY <2>1, CapacityFacts
<1> QED
  BY <1>1, BufInvariance, PTL

-----------------------------------------------------------------------------
\* The first l bytes of memory m, as as_slice shows them.
Slice(m, l) == [i \in 1 .. l |-> m[i - 1]]

\* Bytes that are shown are a sequence.
LEMMA SliceSeq ==
    ASSUME NEW m \in Contents, NEW l \in 0 .. MaxCapacity
    PROVE  /\ Slice(m, l) \in Seq(Bytes) /\ Len(Slice(m, l)) = l
           /\ \A i \in 1 .. l : Slice(m, l)[i] = m[i - 1] /\ i - 1 \in Cells
<1>1. l \in Nat /\ l <= MaxCapacity /\ MaxCapacity \in Nat
  BY FlagFacts
<1>2. \A i \in 1 .. l : i - 1 \in Cells
  BY <1>1 DEF Cells
<1>3. Slice(m, l) \in [1 .. l -> Bytes]
  BY <1>2 DEF Slice, Contents
<1>4. Slice(m, l) \in Seq(Bytes)
  BY <1>1, <1>3, SeqDef
<1>5. \A i \in 1 .. l : Slice(m, l)[i] = m[i - 1]
  BY DEF Slice
<1> QED
  BY <1>1, <1>2, <1>3, <1>4, <1>5, LenProperties

\* A change of one Buf's memory, seen as a change of its byte vector.
LEMMA AbsStored ==
    ASSUME BufInv, NEW b \in Names, NEW h, NEW l, NEW m, Stored(b, h, l, m)
    PROVE  /\ sizes' = [sizes EXCEPT ![b] = IF b \in live' THEN h % PooledFlag ELSE 0]
           /\ texts' = [texts EXCEPT ![b] = IF b \in live' THEN Slice(m, l) ELSE <<>>]
<1>1. DOMAIN hdr = Names /\ DOMAIN len = Names /\ DOMAIN mem = Names
  BY DEF BufInv, TypeOK
<1>2. hdr'[b] = h /\ len'[b] = l /\ mem'[b] = m
  BY <1>1 DEF Stored
<1>3. \A x \in Names : x # b =>
        /\ hdr'[x] = hdr[x] /\ len'[x] = len[x] /\ mem'[x] = mem[x]
        /\ x \in live' <=> x \in live
  BY <1>1 DEF Stored
<1>4. /\ sizes = [x \in Names |-> IF x \in live THEN hdr[x] % PooledFlag ELSE 0]
      /\ texts = [x \in Names |-> IF x \in live THEN Slice(mem[x], len[x]) ELSE <<>>]
  BY DEF sizes, texts, capacity, as_slice, Slice
<1>5. /\ sizes' = [x \in Names |-> IF x \in live' THEN hdr'[x] % PooledFlag ELSE 0]
      /\ texts' = [x \in Names |-> IF x \in live' THEN Slice(mem'[x], len'[x]) ELSE <<>>]
  BY DEF sizes, texts, capacity, as_slice, Slice
<1>6. sizes' = [sizes EXCEPT ![b] = IF b \in live' THEN h % PooledFlag ELSE 0]
  BY <1>2, <1>3, <1>4, <1>5
<1>7. texts' = [texts EXCEPT ![b] = IF b \in live' THEN Slice(m, l) ELSE <<>>]
  BY <1>2, <1>3, <1>4, <1>5
<1> QED
  BY <1>6, <1>7

\* A refusal changes no byte vector.
LEMMA AbsRefused ==
    ASSUME NEW reason, Refuse(reason)
    PROVE  Abs!Refused(reason)
<1>1. live' = live /\ hdr' = hdr /\ len' = len /\ mem' = mem /\ out' = reason
  BY DEF Refuse
<1>2. sizes' = sizes /\ texts' = texts
  BY <1>1 DEF sizes, texts, capacity, as_slice
<1> QED
  BY <1>1, <1>2 DEF Abs!Refused

\* What the byte vectors show of a Buf, and of memory that is none.
LEMMA AbsFacts ==
    BufInv => \A b \in Names :
        /\ b \in live => /\ sizes[b] = capacity(b) /\ sizes[b] \in 1 .. MaxCapacity
                         /\ texts[b] = Slice(mem[b], len[b]) /\ Len(texts[b]) = len[b]
        /\ b \notin live => sizes[b] = 0 /\ texts[b] = <<>>
<1> SUFFICES ASSUME BufInv, NEW b \in Names
             PROVE  /\ b \in live => /\ sizes[b] = capacity(b) /\ sizes[b] \in 1 .. MaxCapacity
                                     /\ texts[b] = Slice(mem[b], len[b]) /\ Len(texts[b]) = len[b]
                    /\ b \notin live => sizes[b] = 0 /\ texts[b] = <<>>
  OBVIOUS
<1>1. /\ sizes[b] = IF b \in live THEN capacity(b) ELSE 0
      /\ texts[b] = IF b \in live THEN as_slice(b) ELSE <<>>
  BY DEF sizes, texts
<1>2. as_slice(b) = Slice(mem[b], len[b])
  BY DEF as_slice, Slice
<1> QED
  BY <1>1, <1>2, SliceType, CapacityFacts

\* Bytes copied to the front are what is shown.
LEMMA SliceCopiedFront ==
    ASSUME NEW m \in Contents, NEW s \in Seq(Bytes), Len(s) <= MaxCapacity
    PROVE  Slice(Copied(m, 0, s), Len(s)) = s
<1> DEFINE c == Copied(m, 0, s)
           l == Len(s)
<1>1. l \in 0 .. MaxCapacity /\ l \in Nat
  BY FlagFacts
<1>2. c \in Contents
  BY WrittenBytes
<1>3. /\ Slice(c, l) \in Seq(Bytes) /\ Len(Slice(c, l)) = l
      /\ \A i \in 1 .. l : Slice(c, l)[i] = c[i - 1] /\ i - 1 \in Cells
  BY <1>1, <1>2, SliceSeq
<1>4. ASSUME NEW i \in 1 .. l PROVE c[i - 1] = s[i]
  <2>1. i - 1 \in Cells /\ i - 1 \in 0 .. (0 + Len(s) - 1) /\ (i - 1) - 0 + 1 = i
    BY <1>1, <1>3
  <2> QED
    BY <2>1 DEF Copied
<1> DEFINE t == Slice(c, l)
<1>5. t \in Seq(Bytes) /\ Len(t) = Len(s) /\ \A i \in 1 .. Len(t) : t[i] = s[i]
  <2> HIDE DEF c
  <2> QED
    BY <1>3, <1>4
<1> HIDE DEF t
<1>6. t = s
  BY <1>5, SeqEqual
<1> QED
  BY <1>6 DEF t

\* A fresh vector of this size and these contents, from memory so stored.
LEMMA AbsCreate ==
    ASSUME BufInv, NEW b \in Names \ live, NEW h, NEW m \in Contents, NEW s \in Seq(Bytes),
           Stored(b, h, Len(s), Copied(m, 0, s)), live' = live \cup {b}, out' = "ok",
           h % PooledFlag \in 1 .. MaxCapacity, Len(s) <= h % PooledFlag
    PROVE  Abs!Create(b, h % PooledFlag, s)
<1>1. /\ sizes' = [sizes EXCEPT ![b] = h % PooledFlag]
      /\ texts' = [texts EXCEPT ![b] = Slice(Copied(m, 0, s), Len(s))]
  BY AbsStored
<1>2. Slice(Copied(m, 0, s), Len(s)) = s
  BY SliceCopiedFront, FlagFacts
<1>3. sizes[b] = 0
  BY AbsFacts
<1> DEFINE k == h % PooledFlag
<1>4. k > 0 /\ Len(s) <= k
  OBVIOUS
<1>5. sizes' = [sizes EXCEPT ![b] = k] /\ texts' = [texts EXCEPT ![b] = s]
  BY <1>1, <1>2, Zenon
<1> HIDE DEF k
<1>6. Abs!Create(b, k, s)
  BY <1>3, <1>4, <1>5 DEF Abs!Create
<1> QED
  BY <1>6 DEF k

\* Buf::new with an append creates the vector that was asked for.
LEMMA AllocateCreates ==
    ASSUME BufInv, NEW b, NEW c \in Nat, NEW s \in Seq(Bytes), Allocate(b, c, s), Len(s) <= c
    PROVE  IF ValidCapacity(c) THEN Abs!Create(b, c, s) ELSE Abs!Refused("panic")
<1>1. CASE ValidCapacity(c)
  <2>1. /\ b \in Names \ live /\ live' = live \cup {b} /\ out' = "ok"
        /\ Stored(b, c, Len(s), Copied(Blank, 0, s)) /\ c % PooledFlag = c
    BY <1>1, AllocateStores
  <2>2. c % PooledFlag \in 1 .. MaxCapacity /\ Len(s) <= c % PooledFlag
    BY <1>1, <2>1, FlagFacts DEF ValidCapacity
  <2>3. Abs!Create(b, c % PooledFlag, s)
    BY <2>1, <2>2, CallerFacts, AbsCreate
  <2> QED
    BY <1>1, <2>1, <2>3
<1>2. CASE ~ValidCapacity(c)
  <2>1. Refuse("panic")
    BY <1>2 DEF Allocate
  <2> QED
    BY <1>2, <2>1, AbsRefused
<1> QED
  BY <1>1, <1>2

\* Create of enough is CreateAtLeast.
LEMMA AtLeast ==
    ASSUME NEW b \in Names, NEW c \in Nat, NEW k \in Nat, k >= c, NEW s, Abs!Create(b, k, s)
    PROVE  Abs!CreateAtLeast(b, c, s)
<1>1. DOMAIN sizes = Names
  BY DEF sizes
<1>2. sizes'[b] = k
  BY <1>1 DEF Abs!Create
<1> QED
  BY <1>2 DEF Abs!CreateAtLeast

\* Pool::get with an append gives a vector of the pool's capacity, whether
\* there is a free buffer or not.
LEMMA GetCreates ==
    ASSUME BufInv, NEW b, NEW s \in Seq(Bytes), get(b, s), Len(s) <= PoolBufCap
    PROVE  b \in Names /\ Abs!Create(b, PoolBufCap, s)
<1>1. CASE Allocate(b, PoolBufCap, s)
  <2>1. b \in Names
    BY <1>1 DEF Allocate, Names
  <2> QED
    BY <1>1, <2>1, FlagFacts, AllocateCreates
<1>2. CASE /\ b \in Pooled \ live
           /\ live' = live \cup {b}
           /\ Store(b, hdr[b], len[b] + Len(s), Copied(mem[b], len[b], s))
           /\ out' = "ok"
  <2>1. /\ b \in Names \ live
        /\ Stored(b, hdr[b], Len(s), Copied(mem[b], 0, s))
        /\ hdr[b] % PooledFlag = PoolBufCap
    BY <1>2, TakenStores
  <2>2. mem[b] \in Contents
    BY <2>1, CapacityFacts
  <2>3. Abs!Create(b, hdr[b] % PooledFlag, s)
    BY <1>2, <2>1, <2>2, FlagFacts, AbsCreate
  <2> QED
    BY <2>1, <2>3
<1> QED
  BY <1>1, <1>2 DEF get

\* get_with_min_capacity with an append gives at least what it was asked for,
\* and refuses only what the pool's buffers are too small for and no Buf can
\* have.
LEMMA MinCapacityCreates ==
    ASSUME BufInv, NEW b, NEW n \in Nat, NEW s \in Seq(Bytes), MinCapacity(b, n, s), Len(s) <= n
    PROVE  IF Servable(n) THEN Abs!CreateAtLeast(b, n, s) ELSE Abs!Refused("panic")
<1>0. PoolBufCap \in Nat
  BY FlagFacts
<1>1. CASE PoolBufCap >= n
  <2>1. Len(s) <= PoolBufCap /\ get(b, s)
    BY <1>0, <1>1 DEF MinCapacity
  <2>2. b \in Names /\ Abs!Create(b, PoolBufCap, s)
    BY <2>1, GetCreates
  <2>3. Abs!CreateAtLeast(b, n, s)
    BY <1>0, <1>1, <2>2, AtLeast
  <2>4. Servable(n)
    BY <1>0, <1>1 DEF Servable
  <2> QED
    BY <2>3, <2>4
<1>2. CASE ~(PoolBufCap >= n)
  <2>1. Allocate(b, n, s) /\ n > PoolBufCap
    BY <1>0, <1>2 DEF MinCapacity
  <2>2. b \in Names
    BY <2>1 DEF Allocate, Names
  <2>3. IF ValidCapacity(n) THEN Abs!Create(b, n, s) ELSE Abs!Refused("panic")
    BY <2>1, AllocateCreates
  <2>4. n >= n
    OBVIOUS
  <2>5. Abs!Create(b, n, s) => Abs!CreateAtLeast(b, n, s)
    BY <2>2, <2>4, AtLeast
  <2>6. Servable(n) <=> ValidCapacity(n)
    BY <1>0, <2>1 DEF Servable
  <2> QED
    BY <2>3, <2>5, <2>6
<1> QED
  BY <1>1, <1>2

\* Whoever had the memory before, every way to get a Buf gives one that holds
\* what was asked for and no more, and panics over a capacity that a Buf cannot
\* have and over no other.
THEOREM BirthsRefine == Spec => BirthsImplement
<1> DEFINE Births ==
      \A b \in Names \ live :
         /\ \A n \in Counts :
              /\ new(b, n) => IF ValidCapacity(n) THEN Abs!Create(b, n, <<>>)
                                                  ELSE Abs!Refused("panic")
              /\ get_with_min_capacity(b, n) =>
                   IF Servable(n) THEN Abs!CreateAtLeast(b, n, <<>>) ELSE Abs!Refused("panic")
         /\ \A s \in Slices :
              /\ create_from(b, s) =>
                   IF s # <<>> /\ RoundUp(Len(s)) <= MaxCapacity
                   THEN Abs!CreateAtLeast(b, Len(s), s) ELSE Abs!Refused("panic")
              /\ pool_create_from(b, s) =>
                   IF Servable(Len(s)) THEN Abs!CreateAtLeast(b, Len(s), s) ELSE Abs!Refused("panic")
         /\ \A o \in live : clone(b, o) => Abs!Create(b, capacity(o), as_slice(o))
<1>1. BufInv => Births
  <2> SUFFICES ASSUME BufInv, NEW b \in Names \ live
               PROVE  /\ \A n \in Counts :
                           /\ new(b, n) => IF ValidCapacity(n) THEN Abs!Create(b, n, <<>>)
                                                               ELSE Abs!Refused("panic")
                           /\ get_with_min_capacity(b, n) =>
                                IF Servable(n) THEN Abs!CreateAtLeast(b, n, <<>>) ELSE Abs!Refused("panic")
                      /\ \A s \in Slices :
                           /\ create_from(b, s) =>
                                IF s # <<>> /\ RoundUp(Len(s)) <= MaxCapacity
                                THEN Abs!CreateAtLeast(b, Len(s), s) ELSE Abs!Refused("panic")
                           /\ pool_create_from(b, s) =>
                                IF Servable(Len(s)) THEN Abs!CreateAtLeast(b, Len(s), s) ELSE Abs!Refused("panic")
                      /\ \A o \in live : clone(b, o) => Abs!Create(b, capacity(o), as_slice(o))
    BY DEF Births
  <2>1. ASSUME NEW n \in Counts, new(b, n)
        PROVE  IF ValidCapacity(n) THEN Abs!Create(b, n, <<>>) ELSE Abs!Refused("panic")
    <3>1. n \in Nat /\ <<>> \in Seq(Bytes) /\ Len(<<>>) <= n
      BY CallerFacts
    <3> QED
      BY <2>1, <3>1, AllocateCreates DEF new
  <2>2. ASSUME NEW n \in Counts, get_with_min_capacity(b, n)
        PROVE  IF Servable(n) THEN Abs!CreateAtLeast(b, n, <<>>) ELSE Abs!Refused("panic")
    <3>1. n \in Nat /\ <<>> \in Seq(Bytes) /\ Len(<<>>) <= n
      BY CallerFacts
    <3> QED
      BY <2>2, <3>1, MinCapacityCreates DEF get_with_min_capacity
  <2>3. ASSUME NEW s \in Slices, create_from(b, s)
        PROVE  IF s # <<>> /\ RoundUp(Len(s)) <= MaxCapacity
               THEN Abs!CreateAtLeast(b, Len(s), s) ELSE Abs!Refused("panic")
    <3>1. s \in Seq(Bytes) /\ Len(s) \in Nat
      BY CallerFacts
    <3>2. /\ RoundUp(Len(s)) \in Nat /\ RoundUp(Len(s)) >= Len(s)
          /\ Len(s) > 0 /\ RoundUp(Len(s)) <= MaxCapacity => ValidCapacity(RoundUp(Len(s)))
      BY <3>1, Rounded
    <3> DEFINE c == RoundUp(Len(s))
    <3>3. Allocate(b, c, s) /\ c \in Nat /\ c >= Len(s) /\ Len(s) <= c
      BY <2>3, <3>1, <3>2 DEF create_from
    <3>4. ValidCapacity(c) <=> s # <<>> /\ c <= MaxCapacity
      <4>1. s # <<>> => Len(s) > 0
        BY <3>1
      <4>2. s = <<>> => c = 0
        BY BufAssumption DEF RoundUp
      <4>3. ValidCapacity(c) => c # 0 /\ c <= MaxCapacity
        BY DEF ValidCapacity
      <4> QED
        BY <3>2, <4>1, <4>2, <4>3
    <3> HIDE DEF c
    <3>5. IF ValidCapacity(c) THEN Abs!Create(b, c, s) ELSE Abs!Refused("panic")
      BY <3>1, <3>3, AllocateCreates
    <3>6. Abs!Create(b, c, s) => Abs!CreateAtLeast(b, Len(s), s)
      BY <3>1, <3>3, AtLeast
    <3> QED
      BY <3>4, <3>5, <3>6 DEF c
  <2>4. ASSUME NEW s \in Slices, pool_create_from(b, s)
        PROVE  IF Servable(Len(s)) THEN Abs!CreateAtLeast(b, Len(s), s) ELSE Abs!Refused("panic")
    <3>1. s \in Seq(Bytes) /\ Len(s) \in Nat /\ Len(s) <= Len(s)
      BY CallerFacts
    <3> QED
      BY <2>4, <3>1, MinCapacityCreates DEF pool_create_from
  <2>5. ASSUME NEW o \in live, clone(b, o)
        PROVE  Abs!Create(b, capacity(o), as_slice(o))
    <3>1. o \in Names
      BY DEF BufInv, TypeOK
    <3>2. capacity(o) \in Nat /\ len[o] <= capacity(o) /\ ValidCapacity(capacity(o))
      BY <3>1, CapacityFacts
    <3>3. as_slice(o) \in Seq(Bytes) /\ Len(as_slice(o)) <= capacity(o)
      BY <3>1, <3>2, SliceType
    <3> QED
      BY <2>5, <3>2, <3>3, AllocateCreates DEF clone
  <2> QED
    BY <2>1, <2>2, <2>3, <2>4, <2>5
<1>2. BufInv /\ [Next]_vars => [Births]_vars
  <2> HIDE DEF Births
  <2> QED
    BY <1>1
<1> QED
  BY <1>2, BufInvariance, PTL DEF Spec, BirthsImplement

-----------------------------------------------------------------------------
\* A write within one Buf, seen as a change of its byte vector.
LEMMA WriteBecomes ==
    ASSUME BufInv, NEW b \in live, NEW l, NEW m, Write(b, l, m)
    PROVE  Abs!Become(b, Slice(m, l))
<1>1. /\ b \in Names /\ live' = live /\ out' = "ok"
      /\ Stored(b, hdr[b], l, m) /\ hdr[b] % PooledFlag = capacity(b)
  BY WriteStores
<1>2. /\ sizes' = [sizes EXCEPT ![b] = capacity(b)]
      /\ texts' = [texts EXCEPT ![b] = Slice(m, l)]
  BY <1>1, AbsStored
<1>3. sizes[b] = capacity(b) /\ sizes[b] # 0
  BY <1>1, AbsFacts
<1>4. sizes' = sizes
  BY <1>2, <1>3 DEF sizes
<1> QED
  BY <1>1, <1>2, <1>3, <1>4 DEF Abs!Become

\* n times v.
LEMMA CopiesSeq ==
    ASSUME NEW n \in Nat, NEW v \in Bytes
    PROVE  /\ Abs!Copies(n, v) \in Seq(Bytes) /\ Len(Abs!Copies(n, v)) = n
           /\ \A i \in 1 .. n : Abs!Copies(n, v)[i] = v
<1>1. Abs!Copies(n, v) \in [1 .. n -> Bytes] /\ \A i \in 1 .. n : Abs!Copies(n, v)[i] = v
  BY DEF Abs!Copies
<1>2. Abs!Copies(n, v) \in Seq(Bytes)
  BY <1>1, SeqDef
<1> QED
  BY <1>1, <1>2, LenProperties

\* Filling with v is copying n times v.
LEMMA FilledIsCopied ==
    ASSUME NEW m, NEW at \in Nat, NEW n \in Nat, NEW v \in Bytes
    PROVE  Filled(m, at, n, v) = Copied(m, at, Abs!Copies(n, v))
<1> DEFINE s == Abs!Copies(n, v)
<1>1. Len(s) = n /\ \A i \in 1 .. n : s[i] = v
  BY CopiesSeq
<1> HIDE DEF s
<1>2. ASSUME NEW i \in Cells
      PROVE  (IF i \in at .. (at + n - 1) THEN v ELSE m[i]) =
             (IF i \in at .. (at + Len(s) - 1) THEN s[i - at + 1] ELSE m[i])
  <2>1. i \in Int
    BY FlagFacts DEF Cells
  <2>2. i \in at .. (at + n - 1) => i - at + 1 \in 1 .. n
    BY <2>1
  <2> QED
    BY <1>1, <2>2
<1>3. Filled(m, at, n, v) = Copied(m, at, s)
  BY <1>2 DEF Filled, Copied
<1> QED
  BY <1>3 DEF s

\* Bytes copied behind those that are shown are shown behind them.
LEMMA SliceCopied ==
    ASSUME NEW m \in Contents, NEW at \in Nat, NEW s \in Seq(Bytes), at + Len(s) <= MaxCapacity
    PROVE  Slice(Copied(m, at, s), at + Len(s)) = Slice(m, at) \o s
<1> DEFINE c == Copied(m, at, s)
           n == Len(s)
           l == at + n
           t == Slice(c, l)
           u == Slice(m, at)
           w == u \o s
<1>1. n \in Nat /\ l \in 0 .. MaxCapacity /\ l \in Nat /\ at \in 0 .. MaxCapacity
  BY FlagFacts
<1>2. c \in Contents
  BY WrittenBytes
<1>3. /\ t \in Seq(Bytes) /\ Len(t) = l
      /\ \A i \in 1 .. l : t[i] = c[i - 1] /\ i - 1 \in Cells
  <2> HIDE DEF c, l
  <2> QED
    BY <1>1, <1>2, SliceSeq
<1>4. /\ u \in Seq(Bytes) /\ Len(u) = at
      /\ \A i \in 1 .. at : u[i] = m[i - 1]
  BY <1>1, SliceSeq
<1> HIDE DEF t, u
<1>5. /\ w \in Seq(Bytes) /\ Len(w) = at + n
      /\ \A i \in 1 .. (at + n) : w[i] = IF i <= at THEN u[i] ELSE s[i - at]
  BY <1>1, <1>4, ConcatProperties
<1> HIDE DEF w
<1>6. ASSUME NEW i \in 1 .. l PROVE t[i] = w[i]
  <2>1. /\ i - 1 \in Cells /\ t[i] = c[i - 1] /\ i \in Int
        /\ w[i] = IF i <= at THEN u[i] ELSE s[i - at]
    BY <1>3, <1>5
  <2>2. c[i - 1] = IF i - 1 \in at .. (at + n - 1) THEN s[(i - 1) - at + 1] ELSE m[i - 1]
    BY <2>1 DEF Copied
  <2>3. CASE i <= at
    <3>1. i \in 1 .. at /\ ~(i - 1 \in at .. (at + n - 1))
      BY <1>1, <2>1, <2>3
    <3> QED
      BY <1>4, <2>1, <2>2, <2>3, <3>1
  <2>4. CASE ~(i <= at)
    <3>1. i - 1 \in at .. (at + n - 1) /\ (i - 1) - at + 1 = i - at
      BY <1>1, <2>1, <2>4
    <3> QED
      BY <2>1, <2>2, <2>4, <3>1
  <2> QED
    BY <2>3, <2>4
<1>7. t = w
  <2>1. Len(t) = Len(w) /\ \A i \in 1 .. Len(t) : t[i] = w[i]
    BY <1>3, <1>5, <1>6
  <2> QED
    BY <1>3, <1>5, <2>1, SeqEqual
<1> QED
  BY <1>7 DEF t, u, w

\* Fewer bytes shown are a prefix.
LEMMA SlicePrefix ==
    ASSUME NEW m \in Contents, NEW l \in 0 .. MaxCapacity, NEW n \in 0 .. l
    PROVE  Slice(m, n) = SubSeq(Slice(m, l), 1, n)
<1> DEFINE t == Slice(m, n)
           u == Slice(m, l)
           w == SubSeq(u, 1, n)
<1>1. n \in 0 .. MaxCapacity /\ n \in Nat /\ l \in Nat
  BY FlagFacts
<1>2. t \in Seq(Bytes) /\ Len(t) = n /\ \A i \in 1 .. n : t[i] = m[i - 1]
  BY <1>1, SliceSeq
<1>3. u \in Seq(Bytes) /\ Len(u) = l /\ \A i \in 1 .. l : u[i] = m[i - 1]
  BY SliceSeq
<1> HIDE DEF t, u
<1>4. w \in Seq(Bytes) /\ Len(w) = n /\ \A i \in 1 .. n : w[i] = u[i]
  BY <1>1, <1>3
<1> HIDE DEF w
<1>5. Len(t) = Len(w) /\ \A i \in 1 .. Len(t) : t[i] = w[i]
  <2>1. \A i \in 1 .. n : i \in 1 .. l
    BY <1>1
  <2> QED
    BY <1>2, <1>3, <1>4, <2>1
<1>6. t = w
  BY <1>2, <1>4, <1>5, SeqEqual
<1> QED
  BY <1>6 DEF t, u, w

\* A Buf as the abstract operations see it.
LEMMA UserFacts ==
    ASSUME BufInv, NEW b \in live
    PROVE  /\ b \in Names /\ sizes[b] = capacity(b) /\ capacity(b) \in 1 .. MaxCapacity
           /\ texts[b] = Slice(mem[b], len[b]) /\ Len(texts[b]) = len[b]
           /\ len[b] \in Nat /\ len[b] <= capacity(b) /\ len[b] \in 0 .. MaxCapacity
           /\ mem[b] \in Contents
<1>1. b \in Names
  BY DEF BufInv, TypeOK
<1>2. capacity(b) \in 1 .. MaxCapacity /\ len[b] \in 0 .. capacity(b) /\ mem[b] \in Contents
  BY <1>1, CapacityFacts
<1> QED
  BY <1>1, <1>2, AbsFacts, FlagFacts

\* append, push and repeat: all of it, or nothing.
LEMMA Extends ==
    ASSUME BufInv, NEW b \in live, NEW s \in Seq(Bytes),
           IF len[b] + Len(s) <= capacity(b)
           THEN Write(b, len[b] + Len(s), Copied(mem[b], len[b], s))
           ELSE Refuse("full")
    PROVE  Abs!Extend(b, s)
<1>1. /\ sizes[b] = capacity(b) /\ capacity(b) \in 1 .. MaxCapacity
      /\ texts[b] = Slice(mem[b], len[b]) /\ Len(texts[b]) = len[b]
      /\ len[b] \in Nat /\ mem[b] \in Contents
  BY UserFacts
<1>2. CASE len[b] + Len(s) <= capacity(b)
  <2>1. Abs!Become(b, Slice(Copied(mem[b], len[b], s), len[b] + Len(s)))
    BY <1>2, WriteBecomes
  <2>2. len[b] + Len(s) <= MaxCapacity
    BY <1>1, <1>2, FlagFacts
  <2>3. Slice(Copied(mem[b], len[b], s), len[b] + Len(s)) = texts[b] \o s
    BY <1>1, <2>2, SliceCopied
  <2>4. Abs!Become(b, texts[b] \o s)
    BY <2>1, <2>3, Zenon
  <2> QED
    BY <1>1, <1>2, <2>4 DEF Abs!Extend
<1>3. CASE ~(len[b] + Len(s) <= capacity(b))
  BY <1>1, <1>3, AbsRefused DEF Abs!Extend
<1> QED
  BY <1>2, <1>3

\* The parts of copy_within, byte by byte.
LEMMA Moves ==
    ASSUME BufInv, NEW b \in live, NEW i \in Nat, NEW n \in Nat, NEW j \in Nat,
           copy_within(b, i, n, j)
    PROVE  Abs!Move(b, i, n, j)
<1> DEFINE l == len[b]
           m == mem[b]
           x == texts[b]
<1>1. /\ b \in Names /\ x = Slice(m, l) /\ Len(x) = l /\ l \in Nat /\ l \in 0 .. MaxCapacity
      /\ m \in Contents
  BY UserFacts
<1>2. as_slice(b) = x
  BY <1>1 DEF as_slice, Slice
<1>3. CASE ~(i + n <= l /\ j + n <= l)
  <2>1. Abs!Refused("panic")
    BY <1>3, AbsRefused DEF copy_within
  <2>2. i + n > Len(x) \/ j + n > Len(x)
    BY <1>1, <1>3
  <2> QED
    BY <2>1, <2>2 DEF Abs!Move
<1>4. CASE i + n <= l /\ j + n <= l
  <2> DEFINE p == SubSeq(x, i + 1, i + n)
             c == Copied(m, j, p)
             y == [k \in 1 .. Len(x) |-> IF k \in j + 1 .. j + n THEN x[k - j + i] ELSE x[k]]
  <2>1. Write(b, l, c)
    BY <1>2, <1>4 DEF copy_within
  <2>2. /\ x \in Seq(Bytes)
        /\ \A k \in 1 .. l : x[k] = m[k - 1] /\ k - 1 \in Cells
    BY <1>1, SliceSeq
  <2> HIDE DEF l, m, x
  <2>3. p \in Seq(Bytes) /\ Len(p) = n /\ \A k \in 1 .. n : p[k] = x[i + k]
    <3> DEFINE e == i + 1
               f == i + n
    <3>1. e \in Int /\ f \in Int /\ \A k \in e .. f : x[k] \in Bytes
      BY <1>1, <1>4, <2>2
    <3>2. (IF e <= f THEN f - e + 1 ELSE 0) = n /\ f - e + 1 = n /\ \A k \in 1 .. n : e + k - 1 = i + k
      BY <1>1
    <3> HIDE DEF e, f
    <3>3. /\ SubSeq(x, e, f) \in Seq(Bytes)
          /\ Len(SubSeq(x, e, f)) = IF e <= f THEN f - e + 1 ELSE 0
          /\ \A k \in 1 .. (f - e + 1) : SubSeq(x, e, f)[k] = x[e + k - 1]
      BY <3>1
    <3>4. SubSeq(x, e, f) = p
      BY DEF e, f
    <3> QED
      BY <3>2, <3>3, <3>4
  <2> HIDE DEF p
  <2>4. c \in Contents
    BY <1>1, <2>3, WrittenBytes
  <2>5. /\ Slice(c, l) \in Seq(Bytes) /\ Len(Slice(c, l)) = l
        /\ \A k \in 1 .. l : Slice(c, l)[k] = c[k - 1]
    <3> HIDE DEF c
    <3> QED
      BY <1>1, <2>4, SliceSeq
  <2>6. ASSUME NEW k \in 1 .. l
        PROVE  c[k - 1] = IF k \in j + 1 .. j + n THEN x[k - j + i] ELSE x[k]
    <3>1. k - 1 \in Cells /\ x[k] = m[k - 1] /\ k \in Int
      BY <2>2
    <3>2. c[k - 1] = IF k - 1 \in j .. (j + n - 1) THEN p[(k - 1) - j + 1] ELSE m[k - 1]
      BY <2>3, <3>1 DEF Copied
    <3>3. (k - 1 \in j .. (j + n - 1)) <=> (k \in j + 1 .. j + n)
      BY <3>1
    <3>4. k \in j + 1 .. j + n => p[(k - 1) - j + 1] = x[k - j + i]
      <4> SUFFICES ASSUME k \in j + 1 .. j + n PROVE p[(k - 1) - j + 1] = x[k - j + i]
        OBVIOUS
      <4> DEFINE g == (k - 1) - j + 1
      <4>1. g \in 1 .. n /\ i + g = k - j + i
        BY <3>1
      <4> HIDE DEF g
      <4>2. p[g] = x[i + g]
        BY <2>3, <4>1
      <4> QED
        BY <4>1, <4>2 DEF g
    <3> HIDE DEF c
    <3> QED
      BY <3>1, <3>2, <3>3, <3>4
  <2> HIDE DEF c
  <2>7. y \in Seq(Bytes) /\ Len(y) = l
    <3>1. y \in [1 .. l -> Bytes]
      <4>1. \A k \in 1 .. l : c[k - 1] \in Bytes
        BY <2>2, <2>4 DEF Contents
      <4> QED
        BY <1>1, <2>6, <4>1
    <3> HIDE DEF y
    <3>2. y \in Seq(Bytes)
      BY <1>1, <3>1, SeqDef
    <3> QED
      BY <1>1, <3>1, <3>2, LenProperties
  <2>8. \A k \in 1 .. l : y[k] = c[k - 1]
    BY <1>1, <2>6
  <2>9. Slice(c, l) = y
    <3> DEFINE t == Slice(c, l)
    <3>1. t \in Seq(Bytes) /\ Len(t) = Len(y) /\ \A k \in 1 .. Len(t) : t[k] = y[k]
      <4> HIDE DEF y
      <4> QED
        BY <2>5, <2>7, <2>8
    <3> HIDE DEF t, y
    <3>2. t = y
      BY <2>7, <3>1, SeqEqual
    <3> QED
      BY <3>2 DEF t
  <2>10. Abs!Become(b, y)
    <3>1. Abs!Become(b, Slice(c, l))
      BY <2>1, WriteBecomes DEF l
    <3> HIDE DEF y
    <3> QED
      BY <2>9, <3>1, Zenon
  <2>11. ~(i + n > Len(x) \/ j + n > Len(x))
    BY <1>1, <1>4
  <2> QED
    BY <2>10, <2>11 DEF Abs!Move, x
<1> QED
  BY <1>3, <1>4

\* Buf::drop ends one Buf and touches no other.
LEMMA Drops ==
    ASSUME BufInv, NEW b \in live, drop(b)
    PROVE  Abs!Destroy(b)
<1> DEFINE h == IF pooled(b) THEN hdr[b] ELSE 0
           m == IF pooled(b) THEN mem[b] ELSE Blank
<1>1. b \in Names /\ live \subseteq Names /\ sizes[b] # 0
  BY UserFacts DEF BufInv, TypeOK
<1>2. live' = live \ {b} /\ out' = "ok"
  BY DEF drop
<1>3. Stored(b, h, 0, m)
  BY <1>1, <1>2 DEF drop, Store, Stored
<1> HIDE DEF h, m
<1>4. /\ sizes' = [sizes EXCEPT ![b] = IF b \in live' THEN h % PooledFlag ELSE 0]
      /\ texts' = [texts EXCEPT ![b] = IF b \in live' THEN Slice(m, 0) ELSE <<>>]
  BY <1>1, <1>3, AbsStored
<1>5. b \notin live'
  BY <1>2
<1> QED
  BY <1>1, <1>2, <1>4, <1>5 DEF Abs!Destroy

\* Buf::clear shows nothing.
LEMMA Clears ==
    ASSUME BufInv, NEW b \in live, clear(b)
    PROVE  Abs!Become(b, <<>>)
<1>1. mem[b] \in Contents /\ 0 \in 0 .. MaxCapacity
  BY UserFacts, FlagFacts
<1>2. Slice(mem[b], 0) \in Seq(Bytes) /\ Len(Slice(mem[b], 0)) = 0
  BY <1>1, SliceSeq
<1>3. Slice(mem[b], 0) = <<>>
  BY <1>2
<1>4. Abs!Become(b, Slice(mem[b], 0))
  BY WriteBecomes DEF clear
<1> QED
  BY <1>3, <1>4, Zenon

\* Buf::push appends one byte.
LEMMA Pushes ==
    ASSUME BufInv, NEW b \in live, NEW v \in Byte, push(b, v)
    PROVE  Abs!Extend(b, <<v>>)
<1> DEFINE s == Abs!Copies(1, v)
<1>1. v \in Bytes /\ len[b] \in Nat
  BY UserFacts, CallerFacts
<1>2. s \in Seq(Bytes) /\ Len(s) = 1 /\ \A i \in 1 .. 1 : s[i] = v
  BY <1>1, CopiesSeq
<1>3. Filled(mem[b], len[b], 1, v) = Copied(mem[b], len[b], s)
  BY <1>1, FilledIsCopied
<1> HIDE DEF s
<1>4. s = <<v>>
  <2> DEFINE q == <<v>>
  <2>1. q \in Seq(Bytes) /\ Len(q) = 1 /\ q[1] = v
    BY <1>1
  <2> HIDE DEF q
  <2>2. Len(s) = Len(q) /\ \A i \in 1 .. Len(s) : s[i] = q[i]
    BY <1>2, <2>1
  <2>3. s = q
    BY <1>2, <2>1, <2>2, SeqEqual
  <2> QED
    BY <2>3 DEF q
<1>5. IF len[b] + Len(s) <= capacity(b)
      THEN Write(b, len[b] + Len(s), Copied(mem[b], len[b], s))
      ELSE Refuse("full")
  BY <1>2, <1>3 DEF push
<1>6. Abs!Extend(b, s)
  BY <1>2, <1>5, Extends
<1> QED
  BY <1>4, <1>6, Zenon

\* Buf::set_size that uncovers nothing shows a prefix.
LEMMA SetsSize ==
    ASSUME BufInv, NEW b \in live, NEW n \in Nat, set_size(b, n)
    PROVE  Abs!Resize(b, n, Junk)
<1>1. /\ sizes[b] = capacity(b) /\ capacity(b) \in 1 .. MaxCapacity
      /\ texts[b] = Slice(mem[b], len[b]) /\ Len(texts[b]) = len[b]
      /\ len[b] \in Nat /\ len[b] <= capacity(b) /\ len[b] \in 0 .. MaxCapacity
      /\ mem[b] \in Contents
  BY UserFacts
<1>2. n <= len[b] /\ Write(b, n, mem[b])
  BY DEF set_size
<1>3. n \in 0 .. len[b] /\ ~(n > sizes[b]) /\ n <= Len(texts[b])
  BY <1>1, <1>2
<1>4. Slice(mem[b], n) = SubSeq(texts[b], 1, n)
  BY <1>1, <1>3, SlicePrefix
<1>5. Abs!Become(b, Slice(mem[b], n))
  BY <1>2, WriteBecomes
<1>6. Abs!Become(b, SubSeq(texts[b], 1, n))
  BY <1>4, <1>5, Zenon
<1> QED
  BY <1>3, <1>6 DEF Abs!Resize

\* Buf::repeat appends n copies, as long as its sum does not wrap.
LEMMA Repeats ==
    ASSUME BufInv, NEW b \in live, NEW n \in Nat, NEW v \in Byte, repeat(b, n, v),
           n + MaxCapacity < UsizeValues
    PROVE  Abs!Extend(b, Abs!Copies(n, v))
<1> DEFINE s == Abs!Copies(n, v)
           l == len[b]
           u == UsizeValues
<1>1. /\ b \in Names /\ sizes[b] = capacity(b) /\ capacity(b) \in 1 .. MaxCapacity
      /\ texts[b] = Slice(mem[b], l) /\ Len(texts[b]) = l
      /\ l \in Nat /\ l <= capacity(b) /\ mem[b] \in Contents
  BY UserFacts
<1>2. v \in Bytes
  BY CallerFacts
<1>3. s \in Seq(Bytes) /\ Len(s) = n
  BY <1>2, CopiesSeq
<1>4. Filled(mem[b], l, n, v) = Copied(mem[b], l, s)
  BY <1>1, <1>2, FilledIsCopied
<1>5. (l + n) % u = l + n
  <2> DEFINE x == l + n
             M == MaxCapacity
  <2>1. u \in Nat /\ M \in Nat /\ l \in Nat /\ l <= M /\ n + M < u
    <3> DEFINE e == capacity(b)
    <3>1. u \in Nat /\ M \in Nat
      BY BufAssumption
    <3>2. e \in 1 .. M /\ l \in Nat /\ l <= e /\ n + M < u
      BY <1>1
    <3> HIDE DEF u, M, e, l
    <3> QED
      BY <3>1, <3>2
  <2> HIDE DEF u, M, l
  <2>2. u \in Nat \ {0} /\ x \in 0 .. (u - 1) /\ x \in Int
    BY <2>1
  <2> HIDE DEF x
  <2>3. x % u = x
    <3>1. x = u * 0 + x /\ 0 \in Int
      BY <2>2
    <3> QED
      BY <2>2, <3>1, ModUnique
  <2> QED
    BY <2>3 DEF x
<1> HIDE DEF s
<1>6. CASE l + n <= capacity(b)
  <2>1. /\ live' = live /\ hdr' = hdr /\ out' = "ok"
        /\ len' = [len EXCEPT ![b] = l + n]
        /\ mem' = [mem EXCEPT ![b] = Filled(mem[b], l, n, v)]
        /\ overrun' = (overrun \/ l + n > capacity(b))
    <3>1. ~((l + n) % u > capacity(b))
      BY <1>1, <1>5, <1>6
    <3> QED
      BY <1>5, <3>1 DEF repeat
  <2>2. overrun' = overrun
    <3>1. ~(l + n > capacity(b))
      BY <1>1, <1>6
    <3>2. overrun \in BOOLEAN
      BY DEF BufInv, TypeOK
    <3> QED
      BY <2>1, <3>1, <3>2
  <2>3. hdr' = [hdr EXCEPT ![b] = hdr[b]]
    BY <1>1, <2>1 DEF BufInv, TypeOK
  <2>4. Write(b, l + Len(s), Copied(mem[b], l, s))
    BY <1>3, <1>4, <2>1, <2>2, <2>3 DEF Write, Store
  <2> QED
    BY <1>3, <1>6, <2>4, Extends DEF s
<1>7. CASE ~(l + n <= capacity(b))
  <2>1. (l + n) % u > capacity(b)
    BY <1>1, <1>5, <1>7
  <2>2. Refuse("full")
    BY <2>1 DEF repeat
  <2> QED
    BY <1>3, <1>7, <2>2, Extends DEF s
<1> QED
  BY <1>6, <1>7

\* Buf::resize cuts off, or appends copies.
LEMMA Resizes ==
    ASSUME BufInv, NEW b \in live, NEW n \in Nat, NEW v \in Byte, resize(b, n, v)
    PROVE  Abs!Resize(b, n, v)
<1> DEFINE l == len[b]
           m == mem[b]
<1>1. /\ sizes[b] = capacity(b) /\ capacity(b) \in 1 .. MaxCapacity
      /\ texts[b] = Slice(m, l) /\ Len(texts[b]) = l
      /\ l \in Nat /\ l <= capacity(b) /\ l \in 0 .. MaxCapacity /\ m \in Contents
  BY UserFacts
<1>2. CASE n > capacity(b)
  <2>1. Abs!Refused("panic")
    BY <1>1, <1>2, AbsRefused DEF resize
  <2> QED
    BY <1>1, <1>2, <2>1 DEF Abs!Resize
<1>3. CASE n <= capacity(b) /\ n <= l
  <2>1. Grown(b, n, v) = m \/ (n = l /\ Grown(b, n, v) = Filled(m, l, 0, v))
    BY <1>1, <1>3 DEF Grown
  <2>2. Filled(m, l, 0, v) = m
    <3>1. ASSUME NEW i \in Cells PROVE ~(i \in l .. (l + 0 - 1))
      <4>1. i \in Int /\ l \in Nat
        BY <1>1, FlagFacts DEF Cells
      <4> HIDE DEF l
      <4> QED
        BY <4>1
    <3> QED
      BY <1>1, <3>1 DEF Filled, Contents
  <2>3. Write(b, n, m)
    BY <1>3, <2>1, <2>2 DEF resize
  <2>4. n \in 0 .. l /\ ~(n > sizes[b]) /\ n <= Len(texts[b])
    BY <1>1, <1>3
  <2>5. Slice(m, n) = SubSeq(texts[b], 1, n)
    BY <1>1, <2>4, SlicePrefix
  <2>6. Abs!Become(b, Slice(m, n))
    BY <2>3, WriteBecomes
  <2>7. Abs!Become(b, SubSeq(texts[b], 1, n))
    BY <2>5, <2>6, Zenon
  <2> QED
    BY <2>4, <2>7 DEF Abs!Resize
<1>4. CASE n <= capacity(b) /\ n > l
  <2> DEFINE k == n - l
             s == Abs!Copies(k, v)
  <2>1. k \in Nat /\ l + k = n /\ v \in Bytes
    BY <1>1, <1>4, CallerFacts
  <2>2. Grown(b, n, v) = Filled(m, l, k, v)
    BY <1>1, <1>4 DEF Grown
  <2> HIDE DEF k
  <2>3. s \in Seq(Bytes) /\ Len(s) = k
    BY <2>1, CopiesSeq
  <2>4. Filled(m, l, k, v) = Copied(m, l, s)
    BY <1>1, <2>1, FilledIsCopied
  <2> HIDE DEF s
  <2>5. l + Len(s) = n /\ l + Len(s) <= MaxCapacity
    <3> DEFINE M == MaxCapacity
               e == capacity(b)
    <3>1. M \in Nat /\ e \in 1 .. M /\ n <= e
      BY <1>1, <1>4, FlagFacts
    <3> HIDE DEF M, e, l
    <3>2. n <= M
      BY <3>1
    <3> QED
      BY <2>1, <2>3, <3>2 DEF M
  <2>6. Slice(Copied(m, l, s), n) = texts[b] \o s
    BY <1>1, <2>3, <2>5, SliceCopied
  <2>7. Write(b, n, Copied(m, l, s))
    BY <1>4, <2>2, <2>4 DEF resize
  <2>8. Abs!Become(b, Slice(Copied(m, l, s), n))
    BY <2>7, WriteBecomes
  <2>9. Abs!Become(b, texts[b] \o s)
    BY <2>6, <2>8, Zenon
  <2>10. ~(n > sizes[b]) /\ ~(n <= Len(texts[b])) /\ n - Len(texts[b]) = k
    BY <1>1, <1>4 DEF k
  <2> QED
    BY <2>9, <2>10 DEF Abs!Resize, s
<1>5. n > capacity(b) \/ (n <= capacity(b) /\ n <= l) \/ (n <= capacity(b) /\ n > l)
  BY <1>1
<1> QED
  BY <1>2, <1>3, <1>4, <1>5

\* Buf::clear_and_resize leaves nothing but copies.
LEMMA Resets ==
    ASSUME BufInv, NEW b \in live, NEW n \in Nat, NEW v \in Byte, clear_and_resize(b, n, v)
    PROVE  Abs!Reset(b, n, v)
<1> DEFINE m == mem[b]
           s == Abs!Copies(n, v)
<1>1. sizes[b] = capacity(b) /\ capacity(b) \in 1 .. MaxCapacity /\ m \in Contents
  BY UserFacts
<1>2. CASE ~(n <= capacity(b))
  <2>1. Abs!Refused("panic")
    BY <1>2, AbsRefused DEF clear_and_resize
  <2>2. n > sizes[b]
    BY <1>1, <1>2
  <2> QED
    BY <2>1, <2>2 DEF Abs!Reset
<1>3. CASE n <= capacity(b)
  <2>1. v \in Bytes /\ n <= MaxCapacity /\ 0 \in Nat /\ ~(n > sizes[b])
    BY <1>1, <1>3, CallerFacts, FlagFacts
  <2>2. s \in Seq(Bytes) /\ Len(s) = n
    BY <2>1, CopiesSeq
  <2>3. Filled(m, 0, n, v) = Copied(m, 0, s)
    BY <2>1, FilledIsCopied
  <2> HIDE DEF s
  <2>4. Slice(Copied(m, 0, s), n) = s
    BY <1>1, <2>1, <2>2, SliceCopiedFront
  <2>5. Abs!Become(b, Slice(Copied(m, 0, s), n))
    BY <1>3, <2>3, WriteBecomes DEF clear_and_resize
  <2>6. Abs!Become(b, s)
    BY <2>4, <2>5, Zenon
  <2> QED
    BY <2>1, <2>6 DEF Abs!Reset, s
<1> QED
  BY <1>2, <1>3

\* A store through IndexMut changes one byte that is shown.
LEMMA Puts ==
    ASSUME BufInv, NEW b \in live, NEW i \in Nat, NEW v \in Byte, index_mut(b, i, v)
    PROVE  Abs!Put(b, i, v)
<1> DEFINE l == len[b]
           m == mem[b]
           x == texts[b]
<1>1. /\ x = Slice(m, l) /\ Len(x) = l /\ l \in Nat /\ l \in 0 .. MaxCapacity /\ m \in Contents
  BY UserFacts
<1>2. CASE ~(i < l)
  <2>1. Abs!Refused("panic")
    BY <1>2, AbsRefused DEF index_mut
  <2>2. i >= Len(x)
    BY <1>1, <1>2
  <2> QED
    BY <2>1, <2>2 DEF Abs!Put
<1>3. CASE i < l
  <2> DEFINE c == [m EXCEPT ![i] = v]
             y == [x EXCEPT ![i + 1] = v]
             t == Slice(c, l)
  <2>1. Write(b, l, c)
    BY <1>3 DEF index_mut
  <2>2. Abs!Become(b, t)
    BY <2>1, WriteBecomes
  <2>3. x \in Seq(Bytes) /\ \A k \in 1 .. l : x[k] = m[k - 1] /\ k - 1 \in Cells
    BY <1>1, SliceSeq
  <2> HIDE DEF l, m, x
  <2>4. v \in Bytes /\ DOMAIN m = Cells
    BY <1>1, CallerFacts DEF Contents
  <2>5. c \in Contents /\ \A k \in Cells : c[k] = IF k = i THEN v ELSE m[k]
    BY <1>1, <2>4 DEF Contents
  <2> HIDE DEF c
  <2>6. t \in Seq(Bytes) /\ Len(t) = l /\ \A k \in 1 .. l : t[k] = c[k - 1]
    BY <1>1, <2>5, SliceSeq
  <2> HIDE DEF t
  <2>7. i + 1 \in 1 .. Len(x)
    BY <1>1, <1>3
  <2>8. /\ y \in Seq(Bytes) /\ Len(y) = Len(x)
        /\ \A k \in 1 .. Len(x) : y[k] = IF k = i + 1 THEN v ELSE x[k]
    <3> DEFINE p == i + 1
    <3> HIDE DEF p
    <3>1. p \in 1 .. Len(x)
      BY <2>7 DEF p
    <3>2. /\ [x EXCEPT ![p] = v] \in Seq(Bytes) /\ Len([x EXCEPT ![p] = v]) = Len(x)
          /\ \A k \in 1 .. Len(x) : [x EXCEPT ![p] = v][k] = IF k = p THEN v ELSE x[k]
      BY <2>3, <2>4, <3>1, ExceptSeq
    <3> QED
      BY <3>2 DEF p
  <2> HIDE DEF y
  <2>9. ASSUME NEW k \in 1 .. l PROVE t[k] = y[k]
    <3>1. k \in Int /\ k - 1 \in Cells /\ x[k] = m[k - 1] /\ (k - 1 = i <=> k = i + 1)
      BY <2>3
    <3>2. t[k] = IF k - 1 = i THEN v ELSE m[k - 1]
      BY <2>5, <2>6, <3>1
    <3> QED
      BY <1>1, <2>8, <3>1, <3>2
  <2>10. t = y
    <3>1. Len(t) = Len(y) /\ \A k \in 1 .. Len(t) : t[k] = y[k]
      BY <1>1, <2>6, <2>8, <2>9
    <3> QED
      BY <2>6, <2>8, <3>1, SeqEqual
  <2>11. Abs!Become(b, y)
    BY <2>2, <2>10, Zenon
  <2>12. ~(i >= Len(x))
    BY <1>1, <1>3
  <2> QED
    BY <2>11, <2>12 DEF Abs!Put, x, y
<1> QED
  BY <1>2, <1>3

\* Every operation on a Buf does to the byte vectors what BoundedVecs says, for
\* every Buf, slice, count and position, if no count makes the sum that repeat
\* checks wrap; buf_repeat_overflow shows what happens if one does.
THEOREM UsesRefine ==
    ASSUME \A n \in Counts : n + MaxCapacity < UsizeValues
    PROVE  Spec => UsesImplement
<1> DEFINE Uses(b) ==
      /\ drop(b) => Abs!Destroy(b)
      /\ clear(b) => Abs!Become(b, <<>>)
      /\ \A s \in Slices : append(b, s) => Abs!Extend(b, s)
      /\ \A v \in Byte : push(b, v) => Abs!Extend(b, <<v>>)
      /\ \A n \in Counts : set_size(b, n) => Abs!Resize(b, n, Junk)
      /\ \A n \in Counts, v \in Byte :
           /\ repeat(b, n, v) => Abs!Extend(b, Abs!Copies(n, v))
           /\ resize(b, n, v) => Abs!Resize(b, n, v)
           /\ clear_and_resize(b, n, v) => Abs!Reset(b, n, v)
      /\ \A i, n, j \in Positions : copy_within(b, i, n, j) => Abs!Move(b, i, n, j)
      /\ \A i \in Positions, v \in Byte : index_mut(b, i, v) => Abs!Put(b, i, v)
<1>1. ASSUME BufInv, NEW b \in live PROVE Uses(b)
  <2>1. (drop(b) => Abs!Destroy(b)) /\ (clear(b) => Abs!Become(b, <<>>))
    BY <1>1, Drops, Clears
  <2>2. ASSUME NEW s \in Slices, append(b, s) PROVE Abs!Extend(b, s)
    BY <1>1, <2>2, CallerFacts, Extends DEF append
  <2>3. ASSUME NEW v \in Byte, push(b, v) PROVE Abs!Extend(b, <<v>>)
    BY <1>1, <2>3, Pushes
  <2>4. ASSUME NEW n \in Counts, set_size(b, n) PROVE Abs!Resize(b, n, Junk)
    BY <1>1, <2>4, CallerFacts, SetsSize
  <2>5. ASSUME NEW n \in Counts, NEW v \in Byte
        PROVE  /\ repeat(b, n, v) => Abs!Extend(b, Abs!Copies(n, v))
               /\ resize(b, n, v) => Abs!Resize(b, n, v)
               /\ clear_and_resize(b, n, v) => Abs!Reset(b, n, v)
    <3>1. n \in Nat /\ n + MaxCapacity < UsizeValues
      BY CallerFacts
    <3> QED
      BY <1>1, <3>1, Repeats, Resizes, Resets
  <2>6. ASSUME NEW i \in Positions, NEW n \in Positions, NEW j \in Positions,
               copy_within(b, i, n, j)
        PROVE  Abs!Move(b, i, n, j)
    <3>1. i \in Nat /\ n \in Nat /\ j \in Nat
      BY CallerFacts
    <3> QED
      BY <1>1, <2>6, <3>1, Moves
  <2>7. ASSUME NEW i \in Positions, NEW v \in Byte, index_mut(b, i, v) PROVE Abs!Put(b, i, v)
    <3>1. i \in Nat
      BY CallerFacts
    <3> QED
      BY <1>1, <2>7, <3>1, Puts
  <2> QED
    BY <2>1, <2>2, <2>3, <2>4, <2>5, <2>6, <2>7
<1>2. BufInv /\ [Next]_vars => [\A b \in live : Uses(b)]_vars
  <2> HIDE DEF Uses
  <2> QED
    BY <1>1
<1> QED
  BY <1>2, BufInvariance, PTL DEF Spec, UsesImplement
=============================================================================
