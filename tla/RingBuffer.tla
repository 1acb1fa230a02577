----------------------------- MODULE RingBuffer -----------------------------
(***************************************************************************)
(* RingBuffer<T, C> (ringbuffer.rs): C uninitialised slots and a counter p *)
(* of all the elements ever added, from which slots, size and order are    *)
(* computed.  Elements are objects that the buffer must drop once each;    *)
(* dropping one may panic.                                                 *)
(***************************************************************************)
EXTENDS Integers, Sequences, FiniteSets

CONSTANTS
    C,            \* the const parameter of the type
    UsizeValues,  \* the number of values of a usize
    MaxAdds,      \* bound: adds since the last clear
    Elements,     \* objects the program can add
    Fragile,      \* those whose Drop panics
    Uninit        \* an uninitialised slot

ASSUME RingAssumption ==
    /\ C \in Nat \ {0}
    /\ UsizeValues \in Nat /\ UsizeValues > C
    /\ Fragile \subseteq Elements
    /\ Uninit \notin Elements

\* Fewer adds between two clears than a usize has values, so that p does not
\* come round to 0.
ASSUME BelowTheWrap == MaxAdds \in Nat /\ MaxAdds < UsizeValues

Index == 0 .. (C - 1)

VARIABLES
    a,       \* the slots
    p,       \* the counter
    adds,    \* adds since the last clear
    held,    \* objects moved into the buffer and not dropped yet
    double,  \* an object has been dropped twice
    alive,   \* the RingBuffer exists
    torn     \* a clear has been unwound by an object whose drop panicked

vars == <<a, p, adds, held, double, alive, torn>>

Least(m, n) == IF m < n THEN m ELSE n

\* C.min(self.p)
Filled == Least(C, p)

\* RingBufferIterator: s elements from counter p - s on, both wrapping.
iter_FromSlot0 == [k \in 1 .. Filled |-> a[k - 1]]
iter ==
    [k \in 1 .. Filled |-> a[((p - Filled + k - 1) % UsizeValues) % C]]

Init ==
    /\ a = [i \in Index |-> Uninit]
    /\ p = 0
    /\ adds = 0
    /\ held = {}
    /\ double = FALSE
    /\ alive = TRUE
    /\ torn = FALSE

\* Dropping these objects.
Release(objects, incoming) ==
    /\ held' = (held \ objects) \cup incoming
    /\ double' = (double \/ ~(objects \subseteq held))

Advance_Twice == p + 2
Advance == (p + 1) % UsizeValues

\* add: a slot not used yet is written, a used one is assigned, which drops
\* the object in it.
AddFirst(o) ==
    /\ p < C
    /\ a' = [a EXCEPT ![p] = o]
    /\ p' = Advance
    /\ Release({}, {o})

\* If that drop panics the assignment still happens, but the counter stays.
AddOver_DropFirst(o) ==
    LET slot == p % C
        panic == a[slot] \in Fragile
    IN  /\ p >= C
        /\ a' = IF panic THEN a ELSE [a EXCEPT ![slot] = o]
        /\ p' = IF panic THEN p ELSE Advance
        /\ Release({a[slot]}, IF panic THEN {} ELSE {o})
AddOver(o) ==
    LET slot == p % C
    IN  /\ p >= C
        /\ a' = [a EXCEPT ![slot] = o]
        /\ p' = IF a[slot] \in Fragile THEN p ELSE Advance
        /\ Release({a[slot]}, {o})

add(o) ==
    /\ alive
    /\ adds < MaxAdds
    /\ o \notin held
    /\ AddFirst(o) \/ AddOver(o)
    /\ adds' = adds + 1
    /\ UNCHANGED <<alive, torn>>

\* The slots clear drops: all filled ones, or those up to the first whose
\* drop panics.
Dropped == {i \in Index : i < Filled /\ \A j \in 0 .. (i - 1) : a[j] \notin Fragile}
Panics == \E i \in Dropped : a[i] \in Fragile

\* clear: the counter is reset after the last drop.
clear_KeepsCounter ==
    /\ alive
    /\ Release({a[i] : i \in Dropped}, {})
    /\ UNCHANGED <<a, p, adds, alive, torn>>
clear ==
    /\ alive
    /\ Release({a[i] : i \in Dropped}, {})
    /\ p' = IF Panics THEN p ELSE 0
    /\ adds' = IF Panics THEN adds ELSE 0
    /\ torn' = (torn \/ Panics)
    /\ UNCHANGED <<a, alive>>

\* Drop for RingBuffer clears; the slots are gone afterwards.
drop ==
    /\ alive
    /\ alive' = FALSE
    /\ Release({a[i] : i \in Dropped}, {})
    /\ p' = 0
    /\ adds' = 0
    /\ a' = [i \in Index |-> Uninit]
    /\ torn' = (torn \/ Panics)

\* RingBuffer::new, after an earlier one is gone.
new ==
    /\ ~alive
    /\ alive' = TRUE
    /\ UNCHANGED <<a, p, adds, held, double, torn>>

Next == clear \/ drop \/ new \/ \E o \in Elements : add(o)

Spec == Init /\ [][Next]_vars

-----------------------------------------------------------------------------
\* The slots hold objects or nothing, and the counter is a usize.
TypeOK ==
    /\ a \in [Index -> Elements \cup {Uninit}]
    /\ p \in 0 .. (UsizeValues - 1)
    /\ adds \in 0 .. MaxAdds
    /\ held \subseteq Elements
    /\ {double, alive, torn} \subseteq BOOLEAN

\* The iterator never reads an uninitialised slot or an object that has been
\* dropped, and every object the buffer owns is one it would drop in clear:
\* also after an add whose pushed-out object panicked in its drop, which must
\* leave the new object owned.  Only a clear unwound by such a panic ends it.
OwnsWhatItShows ==
    ~torn => /\ held = {iter[k] : k \in DOMAIN iter}
             /\ Cardinality(held) = Filled

\* No object is dropped twice, unless a drop panicked inside clear.
DroppedOnce == double => torn

Abs == INSTANCE BoundedFifo WITH Size <- C, window <- iter, owned <- held

\* What no FIFO does: an add that pushes out an object whose drop panics puts
\* the new object in its place and unwinds before the counter moves.
Misplaced(o) ==
    /\ Len(iter) = C /\ Head(iter) \in Fragile
    /\ o \notin held
    /\ iter' = <<o>> \o Tail(iter)
    /\ held' = (held \ {Head(iter)}) \cup {o}

\* RingBuffer is a FIFO of the last C elements, oldest first, whatever the
\* sequence of adds and clears and wherever the counter stands, as long as no
\* drop panics.  If one does inside add, all that goes wrong is the order: the
\* newest element is then the first that iter gives and the next to be pushed
\* out, against "FIFO order" in iter's comment, and the later steps go on from
\* there until the next clear.  Nothing is said once a clear is unwound.
ImplementsFifo ==
    Abs!Init /\ [][torn' \/ Abs!Next \/ \E o \in Elements : Misplaced(o)]_<<iter, held>>
=============================================================================
