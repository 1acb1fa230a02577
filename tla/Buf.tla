-------------------------------- MODULE Buf --------------------------------
(***************************************************************************)
(* The memory of Bufs (buf.rs): a length word, a capacity word whose top   *)
(* bit marks a pooled Buf, and the bytes.  Pooled memory keeps its bytes   *)
(* from one tenant to the next; fresh memory is uninitialised.  Every      *)
(* operation needs &mut self, so operations on one Buf do not overlap and  *)
(* each is one step; BufPool models the threads.                           *)
(***************************************************************************)
EXTENDS Integers, Sequences

CONSTANTS
    Pooled,       \* buffers of the pool
    Heap,         \* addresses for standalone Bufs
    PoolBufCap,   \* buf_capacity of Pool::new
    Align,        \* the 8 that capacities are multiples of
    MaxCapacity,  \* Buf::MAX_CAPACITY
    UsizeValues,  \* the number of values of a usize
    Byte,
    Junk,         \* an uninitialised byte
    Slices,       \* slices that callers pass in
    Counts,       \* lengths that callers pass in
    Positions     \* indices and range bounds that callers pass in

Names == Pooled \cup Heap
Cells == 0 .. (MaxCapacity - 1)

\* BUF_HDR_CAPACITY_POOLED_FLAG, the bit above MAX_CAPACITY.
PooledFlag == MaxCapacity + 1

\* The capacities that Buf::new and Pool::new accept.
ValidCapacity(c) == c <= MaxCapacity /\ c > 0 /\ c % Align = 0

ASSUME BufAssumption ==
    /\ Pooled \cap Heap = {}
    /\ Align \in Nat \ {0} /\ MaxCapacity \in Nat /\ UsizeValues \in Nat
    /\ 2 * MaxCapacity < UsizeValues
    /\ PoolBufCap \in Nat /\ ValidCapacity(PoolBufCap)
    /\ Junk \notin Byte
    /\ Slices \subseteq Seq(Byte) /\ \A s \in Slices : 2 * Len(s) < UsizeValues
    /\ Counts \cup Positions \subseteq 0 .. (UsizeValues - 1)

VARIABLES
    live,    \* the Bufs that exist
    hdr,     \* the second word of each header
    len,     \* the first word of each header
    mem,     \* the bytes; those from the capacity on belong to someone else
    out,     \* what the last operation reported: "ok", "full" (false, Err) or "panic"
    overrun  \* bytes beyond the capacity have been written

vars == <<live, hdr, len, mem, out, overrun>>

capacity(b) == hdr[b] % PooledFlag
pooled(b) == hdr[b] >= PooledFlag
as_slice(b) == [i \in 1 .. len[b] |-> mem[b][i - 1]]

\* write_bytes and copy_nonoverlapping.
Filled(m, at, n, v) == [i \in Cells |-> IF i \in at .. (at + n - 1) THEN v ELSE m[i]]
Copied(m, at, s) ==
    [i \in Cells |-> IF i \in at .. (at + Len(s) - 1) THEN s[i - at + 1] ELSE m[i]]

Blank == [i \in Cells |-> Junk]

\* Pool::new: pooled headers are set up once, the bytes are not touched.
Init ==
    /\ live = {}
    /\ hdr = [b \in Names |-> IF b \in Pooled THEN PooledFlag + PoolBufCap ELSE 0]
    /\ len = [b \in Names |-> 0]
    /\ mem = [b \in Names |-> Blank]
    /\ out = "ok"
    /\ overrun = FALSE

Refuse(reason) == out' = reason /\ UNCHANGED <<live, hdr, len, mem, overrun>>

\* The header words and the bytes of b become these.
Store(b, h, l, m) ==
    /\ len' = [len EXCEPT ![b] = l]
    /\ hdr' = [hdr EXCEPT ![b] = h]
    /\ mem' = [mem EXCEPT ![b] = m]
    /\ UNCHANGED overrun

-----------------------------------------------------------------------------
\* Buf::new followed by the append of s that create_from and clone do.
Allocate(b, c, s) ==
    /\ b \in Heap \ live
    /\ IF ValidCapacity(c)
       THEN /\ live' = live \cup {b}
            /\ Store(b, c, Len(s), Copied(Blank, 0, s))
            /\ out' = "ok"
       ELSE Refuse("panic")

new(b, c) == Allocate(b, c, <<>>)

\* (buffer.len() + 7) / 8 * 8
RoundUp(n) == ((n + Align - 1) \div Align) * Align

create_from(b, s) == Allocate(b, RoundUp(Len(s)), s)

\* The clone is standalone: the flag is not part of the capacity.
clone_flagged(b, o) ==
    /\ b \in Heap \ live
    /\ live' = live \cup {b}
    /\ Store(b, hdr[o], len[o], Copied(Blank, 0, as_slice(o)))
    /\ out' = "ok"
clone(b, o) == Allocate(b, capacity(o), as_slice(o))

\* Pool::get, then the append that Pool::create_from does: a free pooled
\* buffer if there is one, a standalone Buf of the same capacity otherwise.
\* Only the length word and the appended bytes of a pooled buffer change.
get(b, s) ==
    \/ /\ b \in Pooled \ live
       /\ live' = live \cup {b}
       /\ Store(b, hdr[b], len[b] + Len(s), Copied(mem[b], len[b], s))
       /\ out' = "ok"
    \/ /\ Pooled \subseteq live
       /\ Allocate(b, PoolBufCap, s)

\* Pool::get_with_min_capacity, then the same append.
MinCapacity(b, n, s) == IF PoolBufCap >= n THEN get(b, s) ELSE Allocate(b, n, s)

get_with_min_capacity(b, n) == MinCapacity(b, n, <<>>)
pool_create_from(b, s) == MinCapacity(b, Len(s), s)

\* Buf::drop: a pooled Buf is cleared and goes back with its bytes in place,
\* the memory of a standalone one goes back to the allocator.
drop_uncleared(b) ==
    /\ live' = live \ {b}
    /\ IF pooled(b) THEN Store(b, hdr[b], len[b], mem[b]) ELSE Store(b, 0, 0, Blank)
    /\ out' = "ok"
drop(b) ==
    /\ live' = live \ {b}
    /\ IF pooled(b) THEN Store(b, hdr[b], 0, mem[b]) ELSE Store(b, 0, 0, Blank)
    /\ out' = "ok"

-----------------------------------------------------------------------------
Write(b, l, m) == out' = "ok" /\ UNCHANGED live /\ Store(b, hdr[b], l, m)

\* Buf::append, and Write::write, which reports the same.
append(b, s) ==
    LET new_len == len[b] + Len(s)
    IN  IF new_len <= capacity(b) THEN Write(b, new_len, Copied(mem[b], len[b], s))
                                  ELSE Refuse("full")

push_past(b, v) ==
    IF len[b] <= capacity(b) THEN Write(b, len[b] + 1, Filled(mem[b], len[b], 1, v))
                             ELSE Refuse("full")
push(b, v) ==
    LET new_len == len[b] + 1
    IN  IF new_len <= capacity(b) THEN Write(b, new_len, Filled(mem[b], len[b], 1, v))
                                  ELSE Refuse("full")

\* Buf::repeat.  The sum wraps in a release build; the write does not.
repeat(b, n, v) ==
    LET new_len == (len[b] + n) % UsizeValues
    IN  IF new_len > capacity(b) THEN Refuse("full")
        ELSE /\ len' = [len EXCEPT ![b] = new_len]
             /\ mem' = [mem EXCEPT ![b] = Filled(@, len[b], n, v)]
             /\ overrun' = (overrun \/ len[b] + n > capacity(b))
             /\ out' = "ok"
             /\ UNCHANGED <<live, hdr>>

\* Buf::resize writes the new bytes only.
Grown_Unwritten(b, n, v) == mem[b]
Grown(b, n, v) ==
    IF n >= len[b] THEN Filled(mem[b], len[b], n - len[b], v) ELSE mem[b]
resize(b, n, v) ==
    IF n <= capacity(b) THEN Write(b, n, Grown(b, n, v)) ELSE Refuse("panic")

clear_and_resize(b, n, v) ==
    IF n <= capacity(b) THEN Write(b, n, Filled(mem[b], 0, n, v)) ELSE Refuse("panic")

clear(b) == Write(b, 0, mem[b])

\* Buf::set_size is unsafe: the caller answers for the bytes it uncovers.
\* Callers that uncover none are modelled.
set_size(b, n) == n <= len[b] /\ Write(b, n, mem[b])

\* copy_within on as_mut(), a slice of len bytes: memmove, or a panic if
\* either range leaves the slice.
copy_within(b, i, n, j) ==
    IF i + n <= len[b] /\ j + n <= len[b]
    THEN Write(b, len[b], Copied(mem[b], j, SubSeq(as_slice(b), i + 1, i + n)))
    ELSE Refuse("panic")

\* A store through IndexMut or as_mut().
index_mut(b, i, v) ==
    IF i < len[b] THEN Write(b, len[b], [mem[b] EXCEPT ![i] = v]) ELSE Refuse("panic")

-----------------------------------------------------------------------------
Create(b) ==
    \/ \E n \in Counts : new(b, n) \/ get_with_min_capacity(b, n)
    \/ \E s \in Slices : create_from(b, s) \/ pool_create_from(b, s)
    \/ \E o \in live : clone(b, o)

Use(b) ==
    \/ drop(b)
    \/ clear(b)
    \/ \E s \in Slices : append(b, s)
    \/ \E v \in Byte : push(b, v)
    \/ \E n \in Counts : set_size(b, n)
    \/ \E n \in Counts, v \in Byte :
         repeat(b, n, v) \/ resize(b, n, v) \/ clear_and_resize(b, n, v)
    \/ \E i \in Positions, v \in Byte : index_mut(b, i, v)
    \/ \E i, n, j \in Positions : copy_within(b, i, n, j)

\* Nothing is said about a program that has written out of bounds.
Next ==
    /\ ~overrun
    /\ (\E b \in Names \ live : Create(b)) \/ (\E b \in live : Use(b))

Spec == Init /\ [][Next]_vars

-----------------------------------------------------------------------------
\* Every word and byte keeps its type, and no length exceeds its capacity:
\* as_ref() builds a slice from the length without looking at the capacity.
TypeOK ==
    /\ live \subseteq Names
    /\ hdr \in [Names -> 0 .. (PooledFlag + MaxCapacity)]
    /\ len \in [Names -> 0 .. MaxCapacity]
    /\ mem \in [Names -> [Cells -> Byte \cup {Junk}]]
    /\ out \in {"ok", "full", "panic"}
    /\ overrun \in BOOLEAN
    /\ \A b \in Names : len[b] <= capacity(b)

\* A Buf with the pooled flag lies in the pool and no other does, so that
\* Buf::drop never pushes a standalone Buf or deallocates pooled memory.
FlagTellsOrigin == \A b \in live : pooled(b) <=> b \in Pooled

\* Bufs as byte vectors: what as_slice() shows.
sizes == [b \in Names |-> IF b \in live THEN capacity(b) ELSE 0]
texts == [b \in Names |-> IF b \in live THEN as_slice(b) ELSE <<>>]
Abs == INSTANCE BoundedVecs WITH size <- sizes, text <- texts

\* What the pool can serve: what fits its buffers, and any capacity that a Buf
\* can have.
Servable(n) == n <= PoolBufCap \/ ValidCapacity(n)

\* Every way to get a Buf gives one that holds what was asked for and no more,
\* whoever had its memory before, and panics over a capacity that a Buf cannot
\* have and over no other.
BirthsImplement ==
    [][\A b \in Names \ live :
         /\ \A n \in Counts :
              /\ new(b, n) => IF ValidCapacity(n) THEN Abs!Create(b, n, <<>>)
                                                  ELSE Abs!Refused("panic")
              /\ get_with_min_capacity(b, n) =>
                   IF Servable(n) THEN Abs!CreateAtLeast(b, n, <<>>)
                                  ELSE Abs!Refused("panic")
         /\ \A s \in Slices :
              /\ create_from(b, s) =>
                   IF s # <<>> /\ RoundUp(Len(s)) <= MaxCapacity
                   THEN Abs!CreateAtLeast(b, Len(s), s) ELSE Abs!Refused("panic")
              /\ pool_create_from(b, s) =>
                   IF Servable(Len(s)) THEN Abs!CreateAtLeast(b, Len(s), s)
                                       ELSE Abs!Refused("panic")
         /\ \A o \in live : clone(b, o) => Abs!Create(b, capacity(o), as_slice(o))]_vars

\* Every operation on a Buf does to the byte vectors what BoundedVecs says: none
\* shows a byte of an earlier tenant or an uninitialised one, loses part of
\* what it was given, writes outside the Buf, or changes another one.
UsesImplement ==
    [][\A b \in live :
         /\ drop(b) => Abs!Destroy(b)
         /\ clear(b) => Abs!Become(b, <<>>)
         /\ \A s \in Slices : append(b, s) => Abs!Extend(b, s)
         /\ \A v \in Byte : push(b, v) => Abs!Extend(b, <<v>>)
         /\ \A n \in Counts : set_size(b, n) => Abs!Resize(b, n, Junk)
         /\ \A n \in Counts, v \in Byte :
              /\ repeat(b, n, v) => Abs!Extend(b, Abs!Copies(n, v))
              /\ resize(b, n, v) => Abs!Resize(b, n, v)
              /\ clear_and_resize(b, n, v) => Abs!Reset(b, n, v)
         /\ \A i, n, j \in Positions : copy_within(b, i, n, j) => Abs!Move(b, i, n, j)
         /\ \A i \in Positions, v \in Byte : index_mut(b, i, v) => Abs!Put(b, i, v)]_vars

\* repeat's comment: true on success, false if the capacity is exceeded.
RepeatWithinCapacity == ~overrun

\* get_with_min_capacity's comment: a buffer from the pool, or a direct
\* allocation if min_capacity is larger than the pool's buffers.
MinCapacityServed ==
    [][\A b \in Names \ live, n \in Counts :
         get_with_min_capacity(b, n) /\ n <= MaxCapacity => out' = "ok"]_vars
=============================================================================
