# A TLA+ verification of common-utils

`common-utils` is a crate of small Rust utilities: pooled buffers, fixed-size
containers, codecs, an IP address type, a monotonic clock. Much of it manages
memory by hand with `unsafe`, some of it is shared between threads, and the rest
is arithmetic with edges. This directory holds TLA+ models of the parts where
correctness is hard to test, TLC configurations that check them on small
instances, and TLAPS proofs of every safety property that a passing run checks, for
instances of any size.

Paths such as `buf.rs` are relative to `src/` in the repository.
`PROJECT.json` maps every definition to the lines it models and lists the runs,
the hazards they are aimed at and the disagreements found.

## Inventory

| part | state | operations | what is hard | what makes it correct |
|---|---|---|---|---|
| **Pool and Buf ownership** (`buf.rs`) | one allocation: a Mutex around a free-list cursor and a "dropped" flag, the slots, the buffers | `Pool::new`, `get`, `pool_remaining`, `get_with_min_capacity`, `Pool::drop`, `Buf::new`, `Buf::drop`, sending Bufs | threads, poisoning, who frees last, deallocation after unlock | one owner per buffer, no access after deallocation, deallocation exactly once and eventually |
| **Buf contents** (`buf.rs`) | length word, capacity word with a flag bit, bytes | `append`, `push`, `repeat`, `resize`, `clear_and_resize`, `set_size`, `clear`, `copy_within`, indexing, `clone`, `create_from` | pooled memory is never wiped; sizes near their limits | what is visible is what was written since the Buf was got |
| **RingBuffer** (`ringbuffer.rs`) | C slots, a wrapping counter of adds | `add`, `clear`, `iter`, `drop` | the counter stands for fill, order and position at once; element drops that panic | the last C elements in order, each dropped once |
| **ArrayVec** (`arrayvec.rs`) | size, C slots | `push`, `try_push`, `push_slice`, `pop`, `clear`, `sort`, `Write`, conversions, serde | elements are moved in and out of uninitialised slots; errors in mid-loop | a bounded vector; every element leaves once |
| **Monotonic clock** (`lib.rs`) | `RwLock<Option<Instant>>` | `ms_monotonic` | the first calls race | results never decrease across threads; calls return |
| **parallelism** (`lib.rs`) | a `static mut` word | `parallelism` | nothing synchronises the first calls | never 0; final once the race is over |
| **alloc_array_with, abort wait** (`lib.rs`) | – | | a generator that panics; a signal | |
| **IntervalGate** (`gate.rs`) | time of the last pass | `gate` | times that are old when the gate sees them; subtraction at the sentinel | no more passes than the rate; the first caller passes |
| **MappedReadGuard** (`sync.rs`) | a pointer and the guard it was derived from | `map`, `maybe_map`, `deref` | the pointer must not outlive the lock | no write while the reference lives |
| **Varint** (`varint.rs`) | – | `encode`, `decode`, `read`, `write` | over-long encodings, shifts past the width | decode inverts encode; both readers agree |
| **Hex** (`hex.rs`) | – | strings of bytes and of u64 | zero, odd lengths | parsing inverts printing |
| **Dictionary, str** (`dictionary.rs`, `str.rs`) | a sorted map | typed get and set, `to_bytes`, `from_bytes`, escaping | escapes, empty keys, missing line ends | parsing inverts printing |
| **InetAddress** (`inetaddress.rs`) | a C union by address family | constructors, accessors, `scope`, `is_within`, order, hash, codecs | byte order, prefixes at 0, 8k and full width, agreement of Eq, Ord and Hash | the documented classifications; codecs invert |
| **io** (`io.rs`) | files | `read_limit`, `write_all_multi` | the file changes between check and read; partial writes | no more than the limit; all bytes in order |
| **blob, tofrombytes, memory, immortal, cast, error, exitcode, base64** | – | conversions, casts, constants | | no control worth a model |

Interactions: `Pool::get` falls back on `Buf::new`; `Buf::drop` reaches back into
the `PoolInner` that its memory lies in, whose lifetime is therefore shared by the
`Pool` and all its Bufs. `Dictionary` uses hex and str; `ArrayVec<u8>` prints
through hex; `IntervalGate` is fed by the clock and starts at
`NEVER_HAPPENED_TICKS`. Everything else stands alone.

## Modules

| module | models | abstract specification |
|---|---|---|
| `BufPool` | threads on a Pool and its Bufs, the Mutex, reclamation | `PoolAbs` |
| `Buf` | headers and bytes of Bufs under every operation | `BoundedVecs` |
| `ArrayVec` | size and slots under every operation, charges for the elements | `BoundedVecs` |
| `RingBuffer` | slots, counter, element drops that panic | `BoundedFifo` |
| `MonotonicClock` | threads in `ms_monotonic`, the RwLock, the system's clock | |
| `GatedClock` | an `IntervalGate` shared by threads, composed with `MonotonicClock` | |
| `Hex`, `Str`, `Varint` | the codecs, as operators | |
| `Dictionary` | the sorted map, its typed setters and getters, the file format; uses `Hex` | |
| `Codecs` | `Dictionary` with a file that may be torn, and a varint stream that may be cut; properties of all codecs | |
| `InetAddress` | one address in memory under every constructor, setter and codec, and a stream of addresses | |
| `BufPoolProofs`, `BufProofs`, `ArrayVecProofs`, `RingBufferProofs`, `ClockProofs`, `CodecsProofs`, `InetAddressProofs` | the theorems about `BufPool`, `Buf`, `ArrayVec`, `RingBuffer`, `MonotonicClock` and `GatedClock`, `Codecs` with `Dictionary`, `Hex`, `Str` and `Varint`, `InetAddress` | |
| `IntegerLemmas` | division, remainders and wrapping sums, used by the proofs | |
| `MCBuf`, `MCArrayVec`, `MCCodecs`, `MCInetAddress` | input sets and symmetries for TLC | |

A definition whose name has a suffix after an underscore, such as `Stored_Never`
next to `Stored`, is a faulty variant that the specification does not use:
`PROJECT.json` lists, for every property, the variant it must reject.

### BufPool

Pooled buffers are the numbers `0 .. PoolCapacity - 1`; `slots[i]` is the i-th
pointer of the array between `pool_start` and `pool_end`, and `cursor` is `pool.0`
counted in slots. `dropped` is `pool.1`. `lock` and `poisoned` are the Mutex.
`own[t]` are the Bufs thread `t` owns, and `dropping[t]` the Buf it is inside
`Buf::drop` with. A call is cut where another thread can run: before the Mutex,
under it, at its release, and between release and deallocation:

| code | actions |
|---|---|
| `Pool::get` | `GetCall`, `GetLock`, then `GetPooled` or `GetStandalone` or `GetOutOfMemory`, `GetReturn` |
| `pool_remaining` | `RemainingCall`, `RemainingLock`, `RemainingReturn` |
| `Buf::drop` (pooled) | `DropPooled` (clears the length), `DropLock`, `DropPush`, then `DropReturn` or `LastUnlock`, `Dealloc` |
| `Buf::drop` (standalone) | `DropStandalone` |
| `Pool::drop` | `CloseCall`, `CloseLock`, `CloseBody`, `CloseReturn` |
| `Buf::new`, `clone`, `create_from` | `NewBuf`, `NewBufPanic` |
| `lock().unwrap()` on a poisoned Mutex | `LockPoisoned` |

Allocation failure under the Mutex poisons it. A thread that panics unwinds: it
may still drop Bufs and the Pool, and a second panic while it does aborts the
process. Rust's borrow rules appear as two guards: a call through `&Pool` needs a
Pool that exists, and `Pool::drop` needs that no such call is running
(`Unshared`; the mutant without it shows that reclamation depends on it).
`get_with_min_capacity` is `get` or `Buf::new`, by the size asked for.

### Buf

One action per operation, named as in the source; `&mut self` makes each a single
step. `hdr` is the capacity word with the pooled flag as its top bit, and `mem` the
bytes, uninitialised (`Junk`) in fresh memory and left as they were in pooled
memory. The sum in `repeat` is taken modulo `UsizeValues`, as in a build without
overflow checks. `set_size` is `unsafe`; only callers that uncover no byte are
modelled.

### ArrayVec, RingBuffer

Again one action per operation. ArrayVec keeps a count, per ArrayVec and value, of
what has been moved or cloned in and not yet dropped or moved out; RingBuffer keeps the set of
objects it must still drop, and its elements may be `Fragile`: their drop panics.
`add` over a fragile element keeps the ring sound, but not in order: the assignment
has already put the new element in the slot when the panic unwinds it, the counter has
not moved, and so the newest element stands in the oldest place, against "FIFO order" in
the comment of `iter`. `BoundedFifo` has no such step; `ImplementsFifo` names it as the
exception (`Misplaced`). A `clear` that is unwound by such
a panic leaves the counter over slots that have been dropped, and the next `clear`
would drop them again; the ghost `torn` marks that state, the ring's life ends
there, and the properties speak of rings that are not torn. In ArrayVec, elements
and clones that panic are not modelled, and neither are comparison and hashing.

### MonotonicClock

`ms_monotonic` in eight steps, from `Call` to `FastReturn` or `SlowReturn`. `floor`
and `high` are history variables: the largest result returned when the call began,
and so far. `Instant` ticks are finer than milliseconds, so that the truncation of
`as_millis` takes part.

### GatedClock

Threads compute `gate.gate(ms_monotonic())` on one gate that they share under a lock
of their own. Taking the time and asking the gate are separate steps, so the times
reach the gate late and out of order. The subtraction is that of an i64 of reduced
width (`I64Values`), with `NEVER_HAPPENED_TICKS` at half of its minimum as in the
code. `opened` counts the passes and is only there to be compared with the clock.

### Hex, Str, Varint, Dictionary, Codecs

Byte strings are sequences of byte values; the ones that take part are few, and
contain what the formats treat specially. `Hex` and `Dictionary` keep
u64 values as sixteen hexadecimal digits, most significant first, since TLC's
integers are too short. `Varint` works at a reduced width (`WordBits`, `GroupBits`)
that keeps what matters of 64 and 7: the width is not a multiple of the group, so
the last group is only partly used and its shift reaches past the word.

`Dictionary` has one action per setter, `clear`, `write_to`, which may stop
anywhere (a crash while saving), and `from_bytes`, whose parser is a recursive
function: the state after each position of the text (in key, in value, after a
backslash) from the state before it. `unescape` in `Str` is written in the same way,
and `escape`, `write_escaped` and the filters for hex digits as the concatenation of
what each character becomes, so that both can be proved about. Between
saving and loading, the file may also get other line ends. `Codecs` adds a stream
onto which varints are written, from which they are read, and which may end early;
it may also hold the bytes of some other sender, canonical or not.

### InetAddress

An address is its memory: family, port octets in network order, and the octets of
the IPv4 and of the IPv6 member, which lie at different places in the C union while
family and port are shared. `LittleEndian` says how native loads
read octets, so that a missing `from_be` shows. `Dangling` stands for a hazard of
its own: `get_s6_addr` returns a reference into a local copy, and a read through it
finds the copy or whatever has replaced it. Conversions to std::net types and
`is_within` therefore give sets of results. In the run `inet`, `Dangling` holds octets
that are not the address's, and `ConversionsInvert` and `WithinCountsBits` say what is
true all the same: the results are exactly those for the octets as they were read
(`AsRead`). That these are the octets of the address, nothing in the language promises.
The two violated runs leave `Dangling` empty, so that what they show is
not owed to it. std's parsing and printing of IPs is
taken as a bijection on the octets, and text is abstracted to what `from_str` tells
apart: empty, no IP, an IP with no, a wrong or a good port.

## Runs

| run | instance | checks |
|---|---|---|
| `pool` | 3 threads, 2 pooled, 1 standalone | all safety properties of BufPool, the inductive invariant, that BufPool implements PoolAbs, and that a pool dropped with buffers out is freed |
| `pool_abandoned` | 1 thread, 1 pooled | *violated*: a pool dropped with all buffers home is never freed |
| `buf_contents` | 1 pooled, 1 standalone, capacities 2 and 4 below a limit of 5, slices up to 2 bytes and some too long for any Buf | every operation against BoundedVecs |
| `buf_repeat_overflow` | the same, with a count near the top of usize | *violated*: `repeat` writes past the capacity and reports success |
| `pool_min_capacity` | the same | *violated*: `get_with_min_capacity` panics for a size not divisible by the alignment |
| `arrayvec_contents` | 2 ArrayVecs of 2 slots, 2 values, inputs up to 3 | every operation against BoundedVecs; nothing leaked or dropped twice |
| `ring_fifo` | 3 slots, 5 elements, 2 of them fragile, 11 adds between clears | RingBuffer implements BoundedFifo, but for an `add` over an element that panics; it shows what it owns, drops once |
| `clock` | 3 threads, 2 of them on a gate, 6 instants, 2 ticks per millisecond | results never go back, calls return, inductive invariant; the gate keeps its rate and passes its first caller |
| `codecs` | 3 keys, 5 values, 5 u64s, words of 5 bits in groups of 2, 2 varints in flight | dictionaries, varints, hex and escapes read back what was written, and of torn input what was complete |
| `inet` | 26 IPs, 2 ports, 18 prefix lengths, 2 addresses in flight, little-endian, one other value behind `get_s6_addr`'s reference | canonical memory; Eq, Ord, Hash and key agree; stream, text and std types invert; prefix tests and scope table |
| `inet_within` | the same with 1 in flight and nothing else behind that reference | *violated*: bits beyond the bit count are not ignored at 0 and at whole octets |
| `inet_scope` | the same as `inet_within` | *violated*: IPv4 scope looks at the last octet (IPv6 scope errs too, see below) |

Why the bounds suffice. In `pool` three threads are enough for a buffer to
be on its way home with one, held by another, and the Pool dropped by a third; two
pooled buffers distinguish the first, a middle and the last position of the
cursor, and a heap of one is exhausted, so that allocation fails under the Mutex.
The theorems below remove these bounds. No symmetry is used, since the run also
checks liveness. In `buf_contents` a pooled buffer is
filled, dropped and reused, and every operation meets the empty, the partly filled
and the full Buf; the alignment is 2 so that sizes of both kinds exist below the
limit, and the limit is, like 0x7fffffff in the code, not itself a multiple of it, so
that a slice can fit the header and not fit once its length has been rounded up:
`create_from` must refuse it. In `ring_fifo`, 11 adds pass three times over the
three slots; `MaxAdds` stays below `UsizeValues` (`BelowTheWrap`), because at the wrap of the counter a full ring reads as
empty (2^32 adds on a 32-bit target; nothing in the repository says a ring must
bear them, so this is listed as a hazard only). In `clock`,
three threads can all find no start time before any sets it, results 0, 1 and 2
are told apart, and two pollers suffice for the gate to see times in the wrong order.

In `codecs` the keys and values hold every character that is escaped, next to the
letters it is escaped to, and the empty string, and a key has a character of two bytes; the u64s include zero, odd and even
numbers of digits, and one that is no i64. The dictionary's file and the varint
stream are independent, and only one of them is in use at a time, which keeps the product of the two out of the state
space. In `inet` the IPs lie inside and just outside the ranges that `scope` knows
and differ pairwise in one octet or bit; the port 258 has different octets, so that
byte order shows; the prefix lengths are those around 0, octets, and the full width.

What passes says what the code does where it differs from a simpler claim:
`BirthsImplement` lets `get_with_min_capacity` and `Pool::create_from`, which do not round
the size up, panic over every size above the pool's that is no capacity of a Buf (the
finding of `pool_min_capacity`), and over no other; `ImplementsFifo` excepts an `add` that is unwound (`Misplaced`) and ends with a torn
ring; `ConversionsInvert` and `WithinCountsBits` speak of IPv6 octets as they were read;
`ReadsBack` excepts a u64 of zero, which `set_u64` stores as the empty string and
`get_u64` refuses; `LoadsCompleteLines` excepts the empty key, which is written
and not loaded; `WithinCountsBits` excepts the prefix lengths that `inet_within`
shows; `ScopeTable` takes IPv4 octets in the order that `inet_scope` shows
the code does not, and IPv6 addresses in fe80::/10 without the rest of the second octet,
which the test for fe80::1 skips (`Seen`), so that fe81::1 is a loopback address to the
code and link-local to its comments; `DecodeAgreesWithRead` excepts words that do not end within the
largest encoding, which `decode` refuses and `read` folds into a word.

The violated runs are disagreements between the code and its comments, listed
with both lines under `findings`. `buf_repeat_overflow` concerns an unusual input;
the others are met in plain use: a Pool that outlives its Bufs is leaked,
`get_with_min_capacity` and `Pool::create_from` panic for most sizes above the
pool's, prefix tests and scope misjudge common ranges on common machines.

## Fairness

`pool` assumes that a thread inside a call keeps running (`WF` on each
thread's `Step`) and that the program eventually drops each pooled Buf it holds
(`SF` on the drop of each buffer: strong, because the owner may be busy in other
calls, or the Buf may be moved, between any two chances). Neither is a promise of
the library: the first is the scheduler's, the second the meaning of "buffers are
returned". Nothing is assumed about which waiting thread the Mutex lets in.

`clock` assumes that a thread inside a call keeps running, and models std's RwLock
on Linux, in which new readers do not overtake a writer that waits. A lock that
lets them through could keep one of the first callers waiting for as long as other
threads keep reading; std leaves this policy open. `CallsReturn` is checked under
`GateFairSpec`, whose weak fairness is per thread over the steps of the clock call
and of the gate that follows it. The other runs check safety only and assume no fairness.

## What is proved

All theorems hold for every value of the constants that the assumptions admit. The
assumptions are in the modules that declare the constants, and TLC evaluates them on
every run. They say that constants have their types, and three things more: a ring
takes fewer adds between clears than a usize has values (`BelowTheWrap`), the clock
stays below a quarter of an i64's values (`GateAssumption`; 2^62 ms in the code), and
a slice's length is less than half of a usize (`BufAssumption`; Rust promises it).
Where a theorem needs more, its statement says so.

**BufPool.** `Invariance` (the inductive invariant `IndInv`), and from it
`TypeCorrect`, `BuffersExclusive`, `AssertHolds`, `SafeReclamation`,
`RemainingCorrect`, `FreshBufsEmpty`, `ReclaimableOnceDropped`, the action property
`FreedOnce` (no step touches memory that has been deallocated), and `Refinement`
(BufPool implements PoolAbs).

None of the safety properties is inductive. That nobody is in the pool when it is
deallocated depends on where each buffer is: if every slot of a dropped pool is
taken, no buffer can be out. `IndInv` therefore adds exclusive ownership (a buffer
is on the free list once, or owned once, or on its way home once), `LockInv` (who
is inside), `DroppingInv` (which Bufs are on their way home), `CloseInv` (the Pool
is dropped once, after its last call), `ReclaimInv` (one thread reclaims, with all
buffers home), and `AllAccountedFor` (nothing is lost while the Mutex is healthy).
The central lemma, `FullList`, is the pigeonhole argument: distinct entries in as
many slots as there are buffers are all the buffers. From it, a thread in
`Buf::drop` finds a free slot, which is the code's `assert_ne!`, and the thread that
fills the last slot of a dropped pool is the last one with any business there.
`FlagNeverPoisoned` is needed because a poisoned Mutex loses buffers: only `get`
can poison it, and no `get` runs after the Pool has been dropped.

**Buf.** `BufTypeCorrect` (no length ever exceeds its capacity, even when the sum in
`repeat` wraps), `FlagIsOrigin`, `BirthsRefine` and `UsesRefine` (every way to get a
Buf, and every operation on one, does what BoundedVecs says; a birth panics over a size
that is no capacity of a Buf, and over no other). `UsesRefine` supposes
that no count makes the sum in `repeat` wrap; `buf_repeat_overflow` shows what happens
otherwise. The invariant `BufInv` adds to the types that a header is the flag and the
pool's capacity in pooled memory and a valid capacity elsewhere (`HeaderInv`), and that
memory which is no Buf has length 0 (`EmptyInv`): `Pool::get` does not reset the
length, so a Buf is born empty only because it died cleared.

**ArrayVec.** `VecTypeCorrect`, `ChargesSettled` (what an ArrayVec must still drop is
what it shows, on every error path) and `VecUsesRefine`. The two invariants are
inductive together: the charge of a `pop` matches only because the slot below the size
is initialised. Charges count occurrences, so the proofs rest on lemmas about the
number of positions at which a value stands. For `sort` the model gives the sorted
slice by counting: a value belongs at position i when fewer than i elements are
below it and at least i are not above it; the lemmas show that exactly one value does
and that every value belongs at as many positions as it had. `VecUsesRefine` excludes
capacity 0, because BoundedVecs takes size 0 for a vector that does not exist.

**RingBuffer.** `TypeCorrect`, `Ownership`, `DropsOnce` `Refinement` (at every
capacity each step of the ring is one of BoundedFifo, or an `add` over an element that
panics) and `FifoWithoutPanics` (a ring of elements that do not panic implements
BoundedFifo, without exception). The counter is fill level, position and
order at once; `IndInv` says that it is never ahead of the adds (`CountInv`, so it does
not wrap), and that filled slots hold distinct elements, exactly the owned ones
(`SlotInv`). Without distinctness, dropping the element that an `add` pushes out could
drop one that another slot still shows. The refinement compares the window of slots that
the iterator walks before and after the step; `IntegerLemmas` has the facts about
remainders that make it slide by one.

**MonotonicClock, GatedClock.** `ClockInvariance` and `NeverGoesBack`: whoever measures
does so from the one start time in the cell, no result exceeds the time since then, and
the truncation to milliseconds is monotone (`MillisMonotone`). `NeverGoesBackGated`: the
composition keeps that. `RateIsLimited` and `FirstPasses`, for any number of threads
and times that reach the gate in any order: `GateInv` adds that no thread has a time the
clock has not shown (`TimesInv`), and that the gate holds the last time it passed, at or
after the (n-1)th multiple of FREQ when it has opened n times (`OpenInv`). With the
clock below a quarter of the range, no difference overflows, and the sentinel is at
least FREQ away from every time.

**Varints in Codecs.** `VarintsReadBack` and `VarintDecodersAgree`, for every width of
words and groups. The invariant `StreamInv` says that the stream is the encodings of
the unread words one behind the other (there is a function that gives where each ends),
the last perhaps cut off, or bytes of a foreign sender to which nothing is added.
The encoding's length is the number of groups up to the highest bit that is set,
and the last byte is the first without the continuation bit: a reader therefore stops
exactly at the end of a word, whatever lies behind it.

**Text formats in Codecs.** `DictionaryLoads`, `DictionaryReadsBack`, `HexReadsBack` and
`EscapeReadsBack`, for any keys in UTF-8, values and u64s, of any length. The inductive invariant
is `DictInv`. `MapInv`: every key is UTF-8 (which `from_bytes` tests and a `String` guarantees) and holds the bytes that its last setter
stored (`Stored`). `TornFile`: a saved file is the complete lines of the first i keys
in order, followed by a beginning of the next line, with one of the two line ends. Neither
property is inductive: what a key reads as after a `Load` depends on what the file holds,
and what the file holds after `CrLf` on where its lines end.

What the parsers compute is an induction over the text. It is done with sets: the
positions up to which a statement holds are a set of numbers, and if it were not all of
them the complement would have a least element (`LeastElement`, from the well-foundedness
of <, then `Upwards` and `SeqInduct`). The parsers are runs of a step function (`After`),
and running on after a concatenation is running twice; the printers are
concatenations of what each character becomes (`Mapped`). A parser inverts a printer when its
step undoes one character's image, whatever state it is in. Of a line that is cut off,
the parser has put nothing into the map: it has met no line end, since every line end in a
key or value is escaped. That `write_to` has an order to write in at all (`Sorted` is a CHOOSE)
follows because `Precedes` is a total order and the number of keys up to a key is a bijection
with 1 .. n.

**InetAddress.** `InetTypeCorrect`, `AlwaysCanonical`, `WireInverts`, `IdentityAgrees`,
`ConversionsRoundTrip` and `WithinComparesPrefix`,
for any IPs, ports and texts, in either byte order, and whatever octets are read through
what `get_s6_addr` returns; the last two are about those octets (`ReadsAs`). `InetInv` says that the address is proper, that is nil or
built from an IP and a port with every other octet zero, and that the stream is the
bytes of the unread addresses, which are proper too. `Canonical` alone is not
inductive: what reading gives depends on what the stream holds. `IdentityAgrees`
takes the lexicographic order of octets as the order of numbers (`CompareConcat`,
`RankOrder`). `WithinComparesPrefix` identifies an octet with its bits (`OctetIsBits`), and
a shift of the word, or whole octets and a shift of the next, with a prefix of them
(`Shifts`, `SameOctets`). `ScopeClassifies` shows that the masks, shifts and loops of
`scope` give every address the class of the first range it is in, for all 2^32 and 2^128 of
them: each row of the tables becomes a condition on octets (`Table4`, `Hits`, `Table6`, `Hits6`),
and the cases of the code are compared with the rows by first octet. The attempt to prove it
showed that the property as first stated was false, at fe81::1, which the run had not
tried; it now does.

Only model-checked is liveness (`EventuallyFreed`, `CallsReturn`), which is out of the
prover's reach, as is everything about ENABLED.

Writing the proofs changed the models in a few places. The limit of a Buf's capacity is
not a multiple of the alignment in the code, and the run now has a limit of that kind. The
assumptions named above became explicit. Charges for the elements are kept per ArrayVec:
a sum over all of them would not have noticed an element that one drops for another.
The text formats were folds and filters of library operators, which the prover does not
expand; they are now recursive functions and concatenations. `ScopeTable` got its exception.

## Not modelled

* `parallelism`: each call makes one load of a word and, if it is 0, one store of a
  number that is not 0, so nobody is told 0. Whether racing first callers get the
  same number is up to `available_parallelism`; the comment there relies on it.
* `MappedReadGuard`: a lock guard and a pointer that the compiler moves and drops
  together, also when the closure of `maybe_map` gives `None` or panics. What remains
  is the contract of std's RwLock, and whether the platform lets another thread
  release it, which the `Send` implementation relies on.
* `wait_for_process_abort`: a loop over an external signal iterator, with no state.
* `alloc_array`, `alloc_array_with`: one allocation and a loop of writes. A generator
  that panics leaks what has been written, which is safe.
* `io.rs`: `read_limit` takes the length from the metadata and then reads exactly so
  many bytes, so a file that shrinks in between gives an error and one that is
  rewritten may give a mixture. What other programs do to the file decides, and no
  line promises anything; `write_all_multi` is a loop over `write_all`.
* `blob.rs`, `tofrombytes.rs`, `memory.rs`, `cast.rs`, `immortal.rs`, `error.rs`,
  `exitcode.rs`: conversions, casts, constants and types, with no state and no
  control beyond an assertion on a length.
* `base64.rs`: calls an external crate.
* `Dictionary::to_string`, `Debug` and serde's text forms elsewhere: display only.
* The Windows and BSD layouts of the socket structures.
* ArrayVec elements that panic in `clone` or `drop`, and comparison of ArrayVecs.

## Plan

1. Done: all containers, the pool, the clock and its gate, the codecs and the addresses
   modelled and checked; every safety property that a passing run checks proved.
2. Left: ArrayVec with elements that panic in `clone` or `drop`; the lemmas on counting, on
   laid-out streams and on induction over sequences are stated where they are used, and
   those that two modules need belong in one place.
