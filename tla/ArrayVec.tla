------------------------------ MODULE ArrayVec ------------------------------
(***************************************************************************)
(* ArrayVec<T, C> (arrayvec.rs): a size and C slots that are initialised   *)
(* below the size.  Slots are written, read out and dropped by hand, so    *)
(* the model also counts the values that ArrayVecs answer for: a value is  *)
(* charged when it is moved or cloned in and discharged when it is dropped *)
(* in place or moved out.                                                  *)
(***************************************************************************)
EXTENDS Integers, Sequences, SequencesExt, FiniteSets, FiniteSetsExt

CONSTANTS
    C,       \* the const parameter of the type
    Vecs,    \* ArrayVecs of the program
    Values,  \* values of T, ordered
    Uninit,  \* an uninitialised slot
    Inputs   \* slices, Vecs, arrays and serialised sequences passed in

ASSUME VecAssumption ==
    /\ C \in Nat
    /\ Values \subseteq Int
    /\ Uninit \notin Values
    /\ Inputs \subseteq Seq(Values)

VARIABLES
    alive,    \* the ArrayVecs that exist
    s,        \* the size of each
    a,        \* the slots of each
    charged,  \* how often each value is charged to each of them
    got,      \* what the last pop moved out, or Uninit
    out       \* "ok", "full" (an error) or "panic"

vars == <<alive, s, a, charged, got, out>>

\* The elements in the first n slots: what as_ref() shows, and what clear() and
\* Drop drop in place, of an ArrayVec of size n.
Slice(slots, n) == [i \in 1 .. n |-> slots[i - 1]]

as_ref(v) == Slice(a[v], s[v])

\* How often x occurs in a sequence.
Times(x, seq) == Cardinality({i \in DOMAIN seq : seq[i] = x})

\* The charges after v has dropped (or moved out) these and taken those in.
Recharged(v, gone, new) ==
    [charged EXCEPT ![v] = [x \in Values |-> @[x] - Times(x, gone) + Times(x, new)]]

\* Slots from position at on are written with seq.
Written(slots, at, seq) ==
    [i \in 0 .. (C - 1) |-> IF i \in at .. (at + Len(seq) - 1) THEN seq[i - at + 1]
                                                              ELSE slots[i]]

Blank == [i \in 0 .. (C - 1) |-> Uninit]

Init ==
    /\ alive = {}
    /\ s = [v \in Vecs |-> 0]
    /\ a = [v \in Vecs |-> Blank]
    /\ charged = [v \in Vecs |-> [x \in Values |-> 0]]
    /\ got = Uninit
    /\ out = "ok"

Unchanged == UNCHANGED <<alive, s, a, charged, got>>
Refuse(reason) == out' = reason /\ Unchanged

-----------------------------------------------------------------------------
\* A new ArrayVec that holds seq, one element pushed after the other.
Born(v, seq) ==
    /\ alive' = alive \cup {v}
    /\ s' = [s EXCEPT ![v] = Len(seq)]
    /\ a' = [a EXCEPT ![v] = Written(Blank, 0, seq)]
    /\ charged' = Recharged(v, <<>>, seq)
    /\ out' = "ok"
    /\ UNCHANGED got

new(v) == Born(v, <<>>)
clone(v, w) == Born(v, as_ref(w))

\* From<[T; S]> decides by the length before it pushes anything.
from(v, seq) == IF Len(seq) <= C THEN Born(v, seq) ELSE Refuse("panic")

\* An ArrayVec that built has been pushed into is not returned: its Drop goes
\* over the slots below the size it has reached.
Abandon(v, built) ==
    LET slots == Written(Blank, 0, built)
    IN  /\ charged' = Recharged(v, Slice(slots, Len(built)), built)
        /\ out' = "full"
        /\ UNCHANGED <<alive, s, a, got>>

\* TryFrom pushes until one does not fit.
try_from_leaking(v, seq) ==
    IF Len(seq) <= C THEN Born(v, seq)
    ELSE /\ charged' = Recharged(v, <<>>, SubSeq(seq, 1, C))
         /\ out' = "full"
         /\ UNCHANGED <<alive, s, a, got>>
try_from(v, seq) == IF Len(seq) <= C THEN Born(v, seq) ELSE Abandon(v, SubSeq(seq, 1, C))

\* Deserialize: the source yields seq and then ends, or fails.
visit_seq(v, seq, fails) ==
    IF Len(seq) <= C /\ ~fails THEN Born(v, seq)
    ELSE Abandon(v, SubSeq(seq, 1, Min({Len(seq), C})))

-----------------------------------------------------------------------------
\* seq is written behind the elements.
Pushed(v, seq) ==
    /\ s' = [s EXCEPT ![v] = @ + Len(seq)]
    /\ a' = [a EXCEPT ![v] = Written(@, s[v], seq)]
    /\ charged' = Recharged(v, <<>>, seq)
    /\ UNCHANGED <<alive, got>>

push(v, x) == IF s[v] < C THEN Pushed(v, <<x>>) /\ out' = "ok" ELSE Refuse("panic")
try_push_unwritten(v, x) ==
    /\ s[v] < C
    /\ s' = [s EXCEPT ![v] = @ + 1]
    /\ charged' = Recharged(v, <<>>, <<x>>)
    /\ out' = "ok"
    /\ UNCHANGED <<alive, a, got>>
try_push(v, x) == IF s[v] < C THEN Pushed(v, <<x>>) /\ out' = "ok" ELSE Refuse("full")
push_slice(v, seq) ==
    IF s[v] + Len(seq) <= C THEN Pushed(v, seq) /\ out' = "ok" ELSE Refuse("panic")

\* Write::write pushes until one does not fit, and keeps what it has pushed.
Fitting(v, seq) == SubSeq(seq, 1, Min({Len(seq), C - s[v]}))
write(v, seq) ==
    /\ Pushed(v, Fitting(v, seq))
    /\ out' = IF Len(seq) <= C - s[v] THEN "ok" ELSE "full"

\* pop reads the last element out of its slot, which is not cleared.
pop_keeping(v) ==
    /\ got' = IF s[v] = 0 THEN Uninit ELSE a[v][s[v] - 1]
    /\ out' = "ok"
    /\ UNCHANGED <<alive, s, a, charged>>
pop(v) ==
    IF s[v] = 0 THEN got' = Uninit /\ out' = "ok" /\ UNCHANGED <<alive, s, a, charged>>
    ELSE LET x == a[v][s[v] - 1]
         IN  /\ s' = [s EXCEPT ![v] = @ - 1]
             /\ got' = x
             /\ charged' = Recharged(v, <<x>>, <<>>)
             /\ out' = "ok"
             /\ UNCHANGED <<alive, a>>

\* clear drops the elements in place and leaves the slots as they are.
clear(v) ==
    /\ charged' = Recharged(v, as_ref(v), <<>>)
    /\ s' = [s EXCEPT ![v] = 0]
    /\ out' = "ok"
    /\ UNCHANGED <<alive, a, got>>

drop(v) ==
    /\ alive' = alive \ {v}
    /\ charged' = Recharged(v, as_ref(v), <<>>)
    /\ s' = [s EXCEPT ![v] = 0]
    /\ a' = [a EXCEPT ![v] = Blank]
    /\ out' = "ok"
    /\ UNCHANGED got

\* An assignment through iter_mut or as_mut drops the old element.
assign(v, i, x) ==
    /\ i < s[v]
    /\ a' = [a EXCEPT ![v][i] = x]
    /\ charged' = Recharged(v, <<a[v][i]>>, <<x>>)
    /\ out' = "ok"
    /\ UNCHANGED <<alive, s, got>>

\* sort and sort_unstable on as_mut(): the i-th element is the least value
\* that has i elements up to it.
SortedSlice(seq) ==
    [i \in DOMAIN seq |->
       Min({x \in Values : Cardinality({k \in DOMAIN seq : seq[k] <= x}) >= i})]
sort(v) ==
    /\ a' = [a EXCEPT ![v] = Written(@, 0, SortedSlice(as_ref(v)))]
    /\ out' = "ok"
    /\ UNCHANGED <<alive, s, charged, got>>

-----------------------------------------------------------------------------
Create(v) ==
    \/ new(v)
    \/ \E w \in alive : clone(v, w)
    \/ \E seq \in Inputs : from(v, seq) \/ try_from(v, seq)
    \/ \E seq \in Inputs, fails \in BOOLEAN : visit_seq(v, seq, fails)

Use(v) ==
    \/ pop(v) \/ clear(v) \/ drop(v) \/ sort(v)
    \/ \E x \in Values : push(v, x) \/ try_push(v, x)
    \/ \E x \in Values, i \in 0 .. (C - 1) : assign(v, i, x)
    \/ \E seq \in Inputs : push_slice(v, seq) \/ write(v, seq)

Next == (\E v \in Vecs \ alive : Create(v)) \/ (\E v \in alive : Use(v))

Spec == Init /\ [][Next]_vars

-----------------------------------------------------------------------------
\* Sizes and slots keep their types, and every slot below the size is
\* initialised: as_ref() and pop() read them without a check.
TypeOK ==
    /\ alive \subseteq Vecs
    /\ s \in [Vecs -> 0 .. C]
    /\ a \in [Vecs -> [0 .. (C - 1) -> Values \cup {Uninit}]]
    /\ charged \in [Vecs -> [Values -> Int]]
    /\ got \in Values \cup {Uninit}
    /\ out \in {"ok", "full", "panic"}
    /\ \A v \in Vecs : \A i \in 0 .. (s[v] - 1) : a[v][i] # Uninit

\* ArrayVecs as vectors of C elements: what as_ref() shows.
sizes == [v \in Vecs |-> IF v \in alive THEN C ELSE 0]
texts == [v \in Vecs |-> IF v \in alive THEN as_ref(v) ELSE <<>>]

\* Every value moved or cloned into an ArrayVec is still in it, or has been
\* dropped or moved out exactly once, on the error paths too.
NothingLeakedOrDroppedTwice ==
    \A v \in Vecs, x \in Values : charged[v][x] = Times(x, texts[v])

Abs == INSTANCE BoundedVecs WITH Names <- Vecs, size <- sizes, text <- texts

\* All of seq, or a panic.
ExtendOrPanic(v, seq) ==
    IF s[v] + Len(seq) <= C THEN Abs!Become(v, as_ref(v) \o seq) ELSE Abs!Refused("panic")

\* What write leaves behind: as long a prefix of seq as there is room for, and
\* "ok" only if that is all of it.
ExtendByPrefix(v, seq) ==
    \E n \in 0 .. Len(seq) :
       /\ texts' = [texts EXCEPT ![v] = @ \o SubSeq(seq, 1, n)]
       /\ s'[v] = C \/ n = Len(seq)
       /\ out' = IF n = Len(seq) THEN "ok" ELSE "full"
       /\ UNCHANGED sizes

\* The same elements in ascending order.
SortedInPlace(v) ==
    /\ Abs!Become(v, texts'[v])
    /\ IsSorted(texts'[v], <=)
    /\ \A x \in Values : Times(x, texts'[v]) = Times(x, texts[v])

\* Every operation does to the vectors what BoundedVecs says: slots above the
\* size, which keep the bits of elements popped, cleared or moved out of them,
\* never show, a value that does not fit changes nothing (write excepted,
\* which keeps what fitted), and other ArrayVecs are not touched.
UsesImplement ==
    [][/\ \A v \in Vecs \ alive :
            /\ new(v) => Abs!Create(v, C, <<>>)
            /\ \A w \in alive : clone(v, w) => Abs!Create(v, C, as_ref(w))
            /\ \A seq \in Inputs :
                 /\ from(v, seq) => IF Len(seq) <= C THEN Abs!Create(v, C, seq)
                                                     ELSE Abs!Refused("panic")
                 /\ try_from(v, seq) => IF Len(seq) <= C THEN Abs!Create(v, C, seq)
                                                         ELSE Abs!Refused("full")
                 /\ \A fails \in BOOLEAN : visit_seq(v, seq, fails) =>
                      IF Len(seq) <= C /\ ~fails THEN Abs!Create(v, C, seq)
                                                ELSE Abs!Refused("full")
       /\ \A v \in alive :
            /\ clear(v) => Abs!Become(v, <<>>)
            /\ drop(v) => Abs!Destroy(v)
            /\ sort(v) => SortedInPlace(v)
            /\ pop(v) => IF s[v] = 0 THEN Abs!Refused("ok") /\ got' = Uninit
                         ELSE Abs!Become(v, Front(as_ref(v))) /\ got' = Last(as_ref(v))
            /\ \A x \in Values : push(v, x) => ExtendOrPanic(v, <<x>>)
            /\ \A x \in Values : try_push(v, x) => Abs!Extend(v, <<x>>)
            /\ \A x \in Values, i \in 0 .. (C - 1) : assign(v, i, x) => Abs!Put(v, i, x)
            /\ \A seq \in Inputs : push_slice(v, seq) => ExtendOrPanic(v, seq)
            /\ \A seq \in Inputs : write(v, seq) => ExtendByPrefix(v, seq)]_vars
=============================================================================
