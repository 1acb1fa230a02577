-------------------------- MODULE RingBufferProofs --------------------------
(***************************************************************************)
(* Proofs about RingBuffer, for every capacity, element type and number of *)
(* adds between two clears that the counter can hold.                      *)
(***************************************************************************)
EXTENDS RingBuffer, IntegerLemmas, FiniteSetTheorems, SequenceTheorems, TLAPS

\* Slots that hold an element.
Live == 0 .. (Filled - 1)

\* The counter never gets ahead of the adds, so it never wraps.
CountInv == p <= adds

\* Filled slots hold elements, different ones in different slots; they are the
\* objects the buffer owns, and none has been dropped twice.
SlotInv ==
    /\ \A i \in Live : a[i] \in Elements
    /\ ~torn => /\ \A i, j \in Live : a[i] = a[j] => i = j
                /\ held = {a[i] : i \in Live}
                /\ ~double

\* The inductive invariant behind OwnsWhatItShows and ImplementsFifo.
IndInv == TypeOK /\ CountInv /\ SlotInv

-----------------------------------------------------------------------------
\* The filled slots are slots.
LEMMA LiveSlots ==
    ASSUME TypeOK
    PROVE  /\ Filled \in 0 .. C /\ Filled <= p
           /\ Live \subseteq Index
           /\ p < C => Filled = p
           /\ p >= C => Filled = C /\ Live = Index
BY RingAssumption DEF RingAssumption, TypeOK, Filled, Least, Live, Index

\* An add leaves the counter below its limit.
LEMMA AdvanceCounts ==
    ASSUME TypeOK, CountInv, adds < MaxAdds
    PROVE  Advance = p + 1 /\ p + 1 \in 0 .. (UsizeValues - 1)
<1>1. p + 1 \in Nat /\ p + 1 < UsizeValues
  BY RingAssumption, BelowTheWrap DEF RingAssumption, BelowTheWrap, TypeOK, CountInv
<1>2. (p + 1) % UsizeValues = p + 1
  BY <1>1, RingAssumption DEF RingAssumption
<1> QED
  BY <1>1, <1>2, RingAssumption DEF Advance, RingAssumption

\* The slot the iterator reads for its k-th element.
Slot(k) == IF p < C THEN k - 1 ELSE (p - C + k - 1) % C

\* The iterator's wrapping arithmetic comes to that.
LEMMA IterReads ==
    ASSUME TypeOK
    PROVE  /\ iter = [k \in 1 .. Filled |-> a[Slot(k)]]
           /\ \A k \in 1 .. Filled : Slot(k) \in Live
<1> USE RingAssumption DEF RingAssumption
<1>1. ASSUME NEW k \in 1 .. Filled
      PROVE  /\ ((p - Filled + k - 1) % UsizeValues) % C = Slot(k)
             /\ Slot(k) \in Live
  <2>1. /\ p - Filled + k - 1 \in Nat /\ p - Filled + k - 1 < UsizeValues
        /\ UsizeValues \in Nat \ {0} /\ C \in Nat \ {0} /\ p \in Nat
    BY LiveSlots DEF TypeOK
  <2>2. (p - Filled + k - 1) % UsizeValues = p - Filled + k - 1
    BY <2>1
  <2>3. CASE p < C
    <3>1. p - Filled + k - 1 = k - 1 /\ k - 1 \in Nat /\ k - 1 < C /\ Filled = p
      BY <2>1, <2>3, LiveSlots
    <3>2. (k - 1) % C = k - 1
      BY <3>1
    <3>3. ((p - Filled + k - 1) % UsizeValues) % C = k - 1
      BY <2>2, <3>1, <3>2
    <3> QED
      BY <2>1, <2>3, <3>1, <3>3 DEF Slot, Live
  <2>4. CASE p >= C
    <3>1. Filled = C /\ Live = 0 .. (C - 1)
      BY <2>4, LiveSlots DEF Index
    <3>2. (p - C + k - 1) % C \in 0 .. (C - 1)
      BY <2>1, <3>1, DivMod
    <3> QED
      BY <2>2, <2>4, <2>1, <3>1, <3>2 DEF Slot
  <2> QED
    BY <2>1, <2>3, <2>4
<1> QED
  BY <1>1, Zenon DEF iter

\* The slots of a full buffer, counted on from the one that is next to be
\* written, which holds the oldest element.
LEMMA SlotFromOldest ==
    ASSUME TypeOK, p >= C, NEW k \in 1 .. C
    PROVE  /\ p % C \in Index
           /\ Slot(k) = IF (p % C) + (k - 1) < C THEN (p % C) + (k - 1)
                                                ELSE (p % C) + (k - 1) - C
<1>1. /\ C \in Nat \ {0} /\ p - C \in Nat /\ p - C \in Int /\ C \in 0 .. C
      /\ k - 1 \in 0 .. C /\ p \in Int /\ (p - C) + C = p
      /\ p - C + k - 1 = (p - C) + (k - 1)
  BY RingAssumption DEF RingAssumption, TypeOK
<1>2. (p - C) % C \in 0 .. (C - 1) /\ p % C \in 0 .. (C - 1)
  BY <1>1, DivMod
<1>3. ((p - C) + C) % C = (p - C) % C
  BY <1>1, ModTurn
<1>4. p % C = (p - C) % C
  BY <1>1, <1>3
<1>5. ((p - C) + (k - 1)) % C =
        IF ((p - C) % C) + (k - 1) < C THEN ((p - C) % C) + (k - 1)
                                       ELSE ((p - C) % C) + (k - 1) - C
  BY <1>1, ModStep
<1>6. Slot(k) = ((p - C) + (k - 1)) % C
  BY <1>1 DEF Slot, TypeOK
<1> QED
  BY <1>2, <1>4, <1>5, <1>6 DEF Index

\* The iterator visits every filled slot.
LEMMA SlotOnto ==
    ASSUME TypeOK, NEW i \in Live
    PROVE  \E k \in 1 .. Filled : Slot(k) = i
<1>1. CASE p < C
  <2>1. i + 1 \in 1 .. Filled /\ Slot(i + 1) = i
    BY <1>1, LiveSlots, RingAssumption DEF Live, Slot, RingAssumption, TypeOK
  <2> QED
    BY <2>1
<1>2. CASE p >= C
  <2> DEFINE r == p % C
             k == IF i >= r THEN i - r + 1 ELSE i - r + C + 1
  <2>1. /\ C \in Nat \ {0} /\ C \in 1 .. C /\ Filled = C /\ i \in 0 .. (C - 1)
    BY <1>2, LiveSlots, RingAssumption DEF Index, RingAssumption, TypeOK
  <2>2. r \in 0 .. (C - 1)
    BY <1>2, <2>1, SlotFromOldest DEF Index
  <2>3. Slot(k) = IF r + (k - 1) < C THEN r + (k - 1) ELSE r + (k - 1) - C
    <3>1. k \in 1 .. C
      BY <2>1, <2>2
    <3> QED
      BY <3>1, <1>2, SlotFromOldest
  <2> HIDE DEF r
  <2>4. k \in 1 .. C /\ Slot(k) = i
    BY <2>1, <2>2, <2>3
  <2> QED
    BY <2>1, <2>4
<1> QED
  BY <1>1, <1>2, RingAssumption DEF TypeOK, RingAssumption

\* clear stops at the first fragile element, so when nothing panics there was
\* none and it has dropped them all.
LEMMA DropsAll ==
    ASSUME TypeOK, ~Panics
    PROVE  Dropped = Live
<1> DEFINE T == {i \in Live : a[i] \in Fragile}
<1>1. /\ Live \subseteq Index /\ Live \subseteq Nat /\ Filled \in Nat
      /\ \A i \in Index : i \in Live <=> i < Filled
      /\ \A i \in Live : \A j \in 0 .. (i - 1) : j \in Live
  BY LiveSlots, RingAssumption DEF Live, Index, RingAssumption
<1>2. T = {}
  <2> SUFFICES ASSUME T # {} PROVE FALSE
    OBVIOUS
  <2>1. PICK i \in T : \A j \in T : i <= j
    <3>1. T \subseteq Nat
      BY <1>1
    <3> QED
      BY <3>1, LeastElement
  <2>2. \A j \in 0 .. (i - 1) : a[j] \notin Fragile
    <3> SUFFICES ASSUME NEW j \in 0 .. (i - 1), a[j] \in Fragile PROVE FALSE
      OBVIOUS
    <3>1. j \in T /\ i \in Nat
      BY <1>1
    <3> QED
      BY <2>1, <3>1
  <2>3. i \in Dropped
    BY <1>1, <2>2 DEF Dropped
  <2> QED
    BY <2>3 DEF Panics
<1> QED
  BY <1>1, <1>2 DEF Dropped

\* Every slot clear drops is a filled one.
LEMMA DropsLive ==
    ASSUME TypeOK
    PROVE  Dropped \subseteq Live
BY LiveSlots, RingAssumption DEF Dropped, Live, Index, RingAssumption

-----------------------------------------------------------------------------
\* new() meets the invariant.
LEMMA InitInv == Init => IndInv
<1> SUFFICES ASSUME Init PROVE IndInv
  OBVIOUS
<1>1. Filled = 0 /\ Live = {}
  BY RingAssumption DEF Init, Filled, Least, Live, RingAssumption
<1>2. TypeOK
  <2>1. 0 \in 0 .. (UsizeValues - 1) /\ 0 \in 0 .. MaxAdds
    BY RingAssumption, BelowTheWrap DEF RingAssumption, BelowTheWrap
  <2> QED
    BY <2>1 DEF Init, TypeOK
<1>3. CountInv /\ SlotInv
  BY <1>1 DEF Init, CountInv, SlotInv
<1> QED
  BY <1>2, <1>3 DEF IndInv

\* An element added to a slot not used yet.
LEMMA AddFirstInv ==
    ASSUME IndInv, NEW o \in Elements, add(o), AddFirst(o)
    PROVE  /\ IndInv'
           /\ Filled' = Filled + 1 /\ Filled = p /\ p < C
           /\ p' = p + 1 /\ \A i \in Live : a'[i] = a[i]
<1> USE DEF IndInv
<1>1. p' = p + 1 /\ p + 1 \in 0 .. (UsizeValues - 1)
  BY AdvanceCounts DEF add, AddFirst
<1>2. /\ p < C /\ a' = [a EXCEPT ![p] = o] /\ p \in Index
      /\ C \in Nat /\ p \in Nat /\ UNCHANGED <<alive, torn>>
  BY RingAssumption DEF add, AddFirst, RingAssumption, Index, TypeOK
<1>3. held' = held \cup {o} /\ double' = double /\ o \notin held /\ adds' = adds + 1
  BY DEF add, AddFirst, Release, TypeOK
<1>4. /\ Filled = p /\ Filled' = p + 1
      /\ Live' = Live \cup {p} /\ p \notin Live /\ Live \subseteq Index
  BY <1>1, <1>2 DEF Filled, Least, Live, Index
<1>5. TypeOK'
  BY <1>1, <1>2, <1>3, BelowTheWrap DEF TypeOK, add, BelowTheWrap
<1>6. CountInv'
  BY <1>1, <1>2, <1>3 DEF CountInv, TypeOK
<1>7. \A i \in Live : a'[i] = a[i]
  BY <1>2, <1>4 DEF TypeOK
<1>8. a'[p] = o
  BY <1>2 DEF TypeOK
<1>9. SlotInv'
  <2>1. \A i \in Live' : a'[i] \in Elements
    BY <1>4, <1>7, <1>8 DEF SlotInv
  <2>2. ASSUME ~torn
        PROVE  /\ \A i, j \in Live' : a'[i] = a'[j] => i = j
               /\ held' = {a'[i] : i \in Live'}
               /\ ~double'
    BY <2>2, <1>3, <1>4, <1>7, <1>8 DEF SlotInv
  <2> QED
    BY <2>1, <2>2, <1>2 DEF SlotInv
<1> QED
  BY <1>1, <1>2, <1>4, <1>5, <1>6, <1>7, <1>9

\* An element added over the oldest one, whether dropping that one panics or
\* not.
LEMMA AddOverInv ==
    ASSUME IndInv, NEW o \in Elements, add(o), AddOver(o)
    PROVE  /\ IndInv'
           /\ Filled = C /\ Filled' = C /\ p >= C /\ p' >= C
           /\ p' = IF a[p % C] \in Fragile THEN p ELSE p + 1
           /\ p % C \in Index
           /\ a' = [a EXCEPT ![p % C] = o]
           /\ held' = (held \ {a[p % C]}) \cup {o}
<1> USE DEF IndInv
<1> DEFINE slot == p % C
<1>1. p' = (IF a[slot] \in Fragile THEN p ELSE p + 1) /\ p + 1 \in 0 .. (UsizeValues - 1)
  BY AdvanceCounts DEF add, AddOver
<1>2. /\ p >= C /\ p' >= C /\ p \in Nat /\ C \in Nat \ {0} /\ p' \in 0 .. (UsizeValues - 1)
      /\ p' <= p + 1
  <2>1. p >= C /\ p \in 0 .. (UsizeValues - 1) /\ C \in Nat \ {0} /\ UsizeValues \in Nat
    BY RingAssumption DEF AddOver, TypeOK, RingAssumption
  <2> QED
    BY <1>1, <2>1
<1>3. slot \in Index
  <2>1. p \in Int /\ C \in Nat \ {0}
    BY <1>2
  <2>2. p % C \in 0 .. (C - 1)
    BY <2>1, DivMod
  <2> QED
    BY <2>2 DEF Index
<1>4. /\ a' = [a EXCEPT ![slot] = o]
      /\ held' = (held \ {a[slot]}) \cup {o}
      /\ double' = (double \/ ~({a[slot]} \subseteq held))
      /\ o \notin held /\ adds' = adds + 1 /\ adds < MaxAdds /\ UNCHANGED <<alive, torn>>
  BY DEF add, AddOver, Release
<1> HIDE DEF slot
<1>5. Filled = C /\ Filled' = C /\ Live = Index /\ Live' = Index
  BY <1>2 DEF Filled, Least, Live, Index
<1>6. TypeOK'
  BY <1>2, <1>3, <1>4, BelowTheWrap DEF TypeOK, BelowTheWrap
<1>7. CountInv'
  BY <1>2, <1>4 DEF CountInv, TypeOK
<1>8. a'[slot] = o /\ \A i \in Index : i # slot => a'[i] = a[i]
  BY <1>3, <1>4 DEF TypeOK
<1>9. SlotInv'
  <2>1. \A i \in Live' : a'[i] \in Elements
    BY <1>5, <1>8 DEF SlotInv
  <2>2. ASSUME ~torn
        PROVE  /\ \A i, j \in Live' : a'[i] = a'[j] => i = j
               /\ held' = {a'[i] : i \in Live'}
               /\ ~double'
    <3>1. a[slot] \in held /\ \A i \in Index : a[i] \in held /\ (a[i] = a[slot] => i = slot)
      BY <2>2, <1>3, <1>5 DEF SlotInv
    <3>2. \A i, j \in Live' : a'[i] = a'[j] => i = j
      BY <2>2, <3>1, <1>4, <1>5, <1>8 DEF SlotInv
    <3>3. held' = {a'[i] : i \in Live'}
      <4>1. \A x : x \in held <=> \E i \in Index : x = a[i]
        BY <2>2, <1>5 DEF SlotInv
      <4>2. \A x : x \in held' <=> \E i \in Index : x = a'[i]
        BY <4>1, <3>1, <1>3, <1>4, <1>8
      <4> QED
        BY <4>2, <1>5
    <3>4. ~double'
      BY <2>2, <3>1, <1>4 DEF SlotInv
    <3> QED
      BY <3>2, <3>3, <3>4
  <2> QED
    BY <2>1, <2>2, <1>4 DEF SlotInv
<1> QED
  BY <1>1, <1>2, <1>3, <1>4, <1>5, <1>6, <1>7, <1>9 DEF slot

\* What dropping the filled slots leaves behind.
LEMMA ReleaseDropped ==
    ASSUME IndInv, Release({a[i] : i \in Dropped}, {})
    PROVE  /\ held' \subseteq held /\ held' \subseteq Elements /\ double' \in BOOLEAN
           /\ ~torn => ~double'
           /\ ~torn /\ ~Panics => held' = {}
<1>1. Dropped \subseteq Live
  BY DropsLive DEF IndInv
<1>2. ~Panics => Dropped = Live
  BY DropsAll DEF IndInv
<1> QED
  BY <1>1, <1>2 DEF Release, IndInv, TypeOK, SlotInv

\* A buffer that is cleared or gone has no filled slots.
LEMMA EmptyInv ==
    ASSUME IndInv, p' = 0, adds' = 0, Release({a[i] : i \in Dropped}, {}),
           torn' = (torn \/ Panics), alive' \in BOOLEAN,
           a' \in [Index -> Elements \cup {Uninit}]
    PROVE  IndInv'
<1>1. Filled' = 0 /\ Live' = {}
  BY RingAssumption DEF Filled, Least, Live, RingAssumption
<1>2. 0 \in 0 .. (UsizeValues - 1) /\ 0 \in 0 .. MaxAdds
  BY RingAssumption, BelowTheWrap DEF RingAssumption, BelowTheWrap
<1>3. /\ held' \subseteq Elements /\ double' \in BOOLEAN
      /\ ~torn => ~double'
      /\ ~torn /\ ~Panics => held' = {}
  BY ReleaseDropped
<1>4. torn' \in BOOLEAN
  BY DEF IndInv, TypeOK
<1>5. TypeOK'
  BY <1>2, <1>3, <1>4 DEF TypeOK
<1>6. SlotInv'
  BY <1>1, <1>3 DEF SlotInv
<1>7. CountInv'
  BY DEF CountInv
<1> QED
  BY <1>5, <1>6, <1>7 DEF IndInv

\* A clear that is unwound leaves the slots and the counter as they were.
LEMMA TornInv ==
    ASSUME IndInv, Panics, UNCHANGED <<a, p, adds, alive>>, torn' = TRUE,
           Release({a[i] : i \in Dropped}, {})
    PROVE  IndInv'
<1>1. held' \subseteq Elements /\ double' \in BOOLEAN
  BY ReleaseDropped
<1>2. Live' = Live
  BY DEF Live, Filled
<1> QED
  BY <1>1, <1>2 DEF IndInv, TypeOK, CountInv, SlotInv

\* Every operation keeps the invariant.
LEMMA NextInv == IndInv /\ [Next]_vars => IndInv'
<1> SUFFICES ASSUME IndInv, [Next]_vars PROVE IndInv'
  OBVIOUS
<1>1. ASSUME NEW o \in Elements, add(o) PROVE IndInv'
  <2>1. AddFirst(o) \/ AddOver(o)
    BY <1>1 DEF add
  <2> QED
    BY <1>1, <2>1, AddFirstInv, AddOverInv
<1>2. CASE clear
  <2>1. CASE Panics
    <3>1. UNCHANGED <<a, p, adds, alive>> /\ torn' = TRUE
      BY <1>2, <2>1 DEF clear
    <3>2. Release({a[i] : i \in Dropped}, {})
      BY <1>2 DEF clear
    <3> QED
      BY <2>1, <3>1, <3>2, TornInv
  <2>2. CASE ~Panics
    <3>1. /\ p' = 0 /\ adds' = 0 /\ torn' = (torn \/ Panics) /\ UNCHANGED <<a, alive>>
          /\ Release({a[i] : i \in Dropped}, {})
      BY <1>2, <2>2 DEF clear
    <3>2. alive' \in BOOLEAN /\ a' \in [Index -> Elements \cup {Uninit}]
      BY <3>1 DEF IndInv, TypeOK
    <3> QED
      BY <3>1, <3>2, EmptyInv
  <2> QED
    BY <2>1, <2>2
<1>3. CASE drop
  <2>1. /\ p' = 0 /\ adds' = 0 /\ torn' = (torn \/ Panics)
        /\ Release({a[i] : i \in Dropped}, {})
        /\ alive' \in BOOLEAN /\ a' \in [Index -> Elements \cup {Uninit}]
    BY <1>3 DEF drop
  <2> QED
    BY <2>1, EmptyInv
<1>4. CASE new
  <2>1. Live' = Live
    BY <1>4 DEF new, Live, Filled
  <2> QED
    BY <1>4, <2>1 DEF new, IndInv, TypeOK, CountInv, SlotInv
<1>5. CASE UNCHANGED vars
  <2>1. Live' = Live
    BY <1>5 DEF vars, Live, Filled
  <2> QED
    BY <1>5, <2>1 DEF vars, IndInv, TypeOK, CountInv, SlotInv
<1> QED
  BY <1>1, <1>2, <1>3, <1>4, <1>5 DEF Next

\* The inductive invariant holds in every state that add, clear, drop and new
\* can reach.
THEOREM Invariance == Spec => []IndInv
BY InitInv, NextInv, PTL DEF Spec

\* Slots and counter keep their types: p is a usize.
THEOREM TypeCorrect == Spec => []TypeOK
<1>1. IndInv => TypeOK
  BY DEF IndInv
<1> QED
  BY <1>1, Invariance, PTL

\* The iterator shows the contents of the filled slots.
LEMMA IterShows ==
    ASSUME TypeOK
    PROVE  {iter[k] : k \in DOMAIN iter} = {a[i] : i \in Live}
<1>1. /\ iter = [k \in 1 .. Filled |-> a[Slot(k)]]
      /\ \A k \in 1 .. Filled : Slot(k) \in Live
  BY IterReads
<1>2. DOMAIN iter = 1 .. Filled /\ \A k \in 1 .. Filled : iter[k] = a[Slot(k)]
  BY <1>1
<1>3. \A i \in Live : \E k \in 1 .. Filled : Slot(k) = i
  BY SlotOnto
<1> QED
  BY <1>1, <1>2, <1>3

\* The buffer owns exactly the elements its iterator shows and its clear would
\* drop, and as many of them as it has filled slots: also after an add whose
\* pushed-out element panicked in its drop.
THEOREM Ownership == Spec => []OwnsWhatItShows
<1>1. ASSUME IndInv PROVE OwnsWhatItShows
  <2> SUFFICES ASSUME ~torn
               PROVE  held = {iter[k] : k \in DOMAIN iter} /\ Cardinality(held) = Filled
    BY DEF OwnsWhatItShows
  <2> USE <1>1 DEF IndInv
  <2>1. held = {a[i] : i \in Live} /\ \A i, j \in Live : a[i] = a[j] => i = j
    BY DEF SlotInv
  <2>2. held = {iter[k] : k \in DOMAIN iter}
    BY <2>1, IterShows
  <2>3. Filled \in Nat
    BY LiveSlots, RingAssumption DEF RingAssumption
  <2>4. IsFiniteSet(Live) /\ Cardinality(Live) = Filled
    <3>1. 0 \in Int /\ Filled - 1 \in Int
      BY <2>3
    <3>2. /\ IsFiniteSet(Live)
          /\ Cardinality(Live) = IF 0 > Filled - 1 THEN 0 ELSE (Filled - 1) - 0 + 1
      BY <3>1, FS_Interval DEF Live
    <3> QED
      BY <2>3, <3>2
  <2>5. ExistsBijection(Live, held)
    <3> DEFINE f == [i \in Live |-> a[i]]
    <3>1. f \in Bijection(Live, held)
      BY <2>1 DEF Bijection, Injection, IsInjective, Surjection
    <3> QED
      BY <3>1 DEF ExistsBijection
  <2>6. Cardinality(held) = Cardinality(Live)
    BY <2>4, <2>5, FS_Bijection
  <2> QED
    BY <2>2, <2>4, <2>6
<1> QED
  BY <1>1, Invariance, PTL

\* clear, drop and the overwriting add drop no element twice, unless a drop
\* panicked inside clear.
THEOREM DropsOnce == Spec => []DroppedOnce
<1>1. IndInv => DroppedOnce
  BY DEF IndInv, SlotInv, DroppedOnce
<1> QED
  BY <1>1, Invariance, PTL

-----------------------------------------------------------------------------
\* The iterator's elements as a sequence.
WindowInv ==
    /\ iter \in Seq(Elements)
    /\ Len(iter) = Filled
    /\ \A k \in 1 .. Filled : iter[k] = a[Slot(k)]

\* In an intact state it is the contents of the slots in the order of adding.
LEMMA Window == IndInv => WindowInv
<1> SUFFICES ASSUME IndInv PROVE WindowInv
  OBVIOUS
<1>1. /\ iter = [k \in 1 .. Filled |-> a[Slot(k)]]
      /\ \A k \in 1 .. Filled : Slot(k) \in Live
  BY IterReads DEF IndInv
<1>2. Filled \in Nat
  BY LiveSlots, RingAssumption DEF IndInv, RingAssumption
<1>3. iter \in [1 .. Filled -> Elements]
  BY <1>1 DEF IndInv, SlotInv
<1>4. iter \in Seq(Elements)
  BY <1>2, <1>3, SeqDef
<1>5. Len(iter) = Filled
  BY <1>2, <1>3, <1>4, LenProperties
<1> QED
  BY <1>1, <1>4, <1>5 DEF WindowInv

\* The same in the state after a step.
LEMMA WindowNext == IndInv' => WindowInv'
BY Window, PTL

\* An empty buffer shows nothing.
LEMMA EmptyWindow ==
    ASSUME IndInv', p' = 0
    PROVE  iter' = << >>
<1>1. Filled' = 0
  BY RingAssumption DEF Filled, Least, RingAssumption
<1> QED
  BY <1>1, WindowNext DEF WindowInv

\* The first C elements are appended.
LEMMA AddFirstAppends ==
    ASSUME IndInv, NEW o \in Elements, add(o), AddFirst(o)
    PROVE  iter' = Append(iter, o) /\ Len(iter) # C
<1>1. /\ IndInv' /\ Filled' = Filled + 1 /\ Filled = p /\ p < C
      /\ p' = p + 1 /\ \A i \in Live : a'[i] = a[i]
  BY AddFirstInv
<1>2. WindowInv /\ WindowInv' /\ Filled \in Nat /\ C \in Nat
  BY <1>1, Window, WindowNext, LiveSlots, RingAssumption DEF IndInv, RingAssumption
<1>3. \A k \in 1 .. Filled : iter'[k] = iter[k]
  <2> SUFFICES ASSUME NEW k \in 1 .. Filled PROVE iter'[k] = iter[k]
    OBVIOUS
  <2>1. k \in 1 .. Filled' /\ k - 1 \in Live
    BY <1>1, <1>2 DEF Live
  <2>2. iter'[k] = a'[Slot(k)'] /\ iter[k] = a[Slot(k)]
    BY <1>2, <2>1 DEF WindowInv
  <2>3. Slot(k) = k - 1
    BY <1>1 DEF Slot
  <2>4. Slot(k)' = k - 1
    BY <1>1, <1>2 DEF Slot
  <2> QED
    BY <1>1, <2>1, <2>2, <2>3, <2>4
<1>4. iter'[Filled + 1] = o
  <2> SUFFICES ASSUME NEW k \in Nat, k = Filled + 1 PROVE iter'[k] = o
    BY <1>2
  <2>1. k \in 1 .. Filled' /\ p \in Index
    BY <1>1, <1>2 DEF Index
  <2>2. iter'[k] = a'[Slot(k)']
    BY <1>2, <2>1 DEF WindowInv
  <2>3. Slot(k)' = k - 1
    BY <1>1, <1>2 DEF Slot
  <2>4. a'[p] = o /\ k - 1 = p
    BY <1>1, <1>2, <2>1 DEF AddFirst, IndInv, TypeOK
  <2> QED
    BY <2>2, <2>3, <2>4
<1> QED
  BY <1>1, <1>2, <1>3, <1>4 DEF WindowInv

\* Adding to a full buffer writes the slot of the oldest element, and no other.
LEMMA OldestSlot ==
    ASSUME TypeOK, p >= C, NEW k \in 1 .. C
    PROVE  Slot(k) = p % C <=> k = 1
<1>1. /\ C \in Nat \ {0} /\ p % C \in 0 .. (C - 1)
      /\ Slot(k) = IF (p % C) + (k - 1) < C THEN (p % C) + (k - 1)
                                            ELSE (p % C) + (k - 1) - C
  BY SlotFromOldest, RingAssumption DEF RingAssumption, Index
<1> DEFINE r == p % C
<1>2. r \in 0 .. (C - 1) /\ Slot(k) = IF r + (k - 1) < C THEN r + (k - 1) ELSE r + (k - 1) - C
  BY <1>1
<1> HIDE DEF r
<1>3. Slot(k) = r <=> k = 1
  BY <1>1, <1>2
<1> QED
  BY <1>3 DEF r

\* The window after an add to a full buffer: moved on by one, with the new
\* element last; or, when dropping the oldest element panicked, the same with
\* the new element in its place.
LEMMA AddOverMoves ==
    ASSUME IndInv, NEW o \in Elements, add(o), AddOver(o)
    PROVE  /\ Len(iter) = C /\ Head(iter) = a[p % C]
           /\ a[p % C] \notin Fragile => iter' = Append(Tail(iter), o)
           /\ a[p % C] \in Fragile => iter' = <<o>> \o Tail(iter)
           /\ held' = (held \ {Head(iter)}) \cup {o}
<1>1. /\ IndInv' /\ Filled = C /\ Filled' = C /\ p >= C /\ p' >= C
      /\ p' = IF a[p % C] \in Fragile THEN p ELSE p + 1
      /\ p % C \in Index /\ a' = [a EXCEPT ![p % C] = o]
      /\ held' = (held \ {a[p % C]}) \cup {o}
  BY AddOverInv
<1>2. WindowInv /\ WindowInv' /\ C \in Nat \ {0} /\ p \in Nat
  BY <1>1, Window, WindowNext, RingAssumption DEF IndInv, TypeOK, RingAssumption
<1>3. \A k \in 1 .. C : /\ iter[k] = a[Slot(k)] /\ iter'[k] = a'[Slot(k)']
                        /\ Slot(k) \in Index
                        /\ Slot(k) = p % C <=> k = 1
  BY <1>1, <1>2, OldestSlot, IterReads, LiveSlots DEF WindowInv, IndInv
<1>4. Len(iter) = C /\ iter \in Seq(Elements) /\ iter # << >>
  BY <1>1, <1>2 DEF WindowInv
<1>4a. Len(iter') = C /\ iter' \in Seq(Elements)
  BY <1>1, <1>2 DEF WindowInv
<1>5. a'[p % C] = o /\ \A i \in Index : i # p % C => a'[i] = a[i]
  BY <1>1 DEF IndInv, TypeOK
<1>6. 1 \in 1 .. C /\ Head(iter) = iter[1] /\ Head(iter) = a[p % C]
  BY <1>2, <1>3, <1>4
<1>7. ASSUME a[p % C] \in Fragile PROVE iter' = <<o>> \o Tail(iter)
  <2>1. p' = p
    BY <1>1, <1>7
  <2>2. \A k \in 1 .. C : Slot(k)' = Slot(k)
    BY <2>1 DEF Slot
  <2>3. \A k \in 1 .. C : iter'[k] = IF k = 1 THEN o ELSE iter[k]
    BY <2>2, <1>3, <1>5
  <2>4. /\ Tail(iter) \in Seq(Elements) /\ Len(Tail(iter)) = C - 1
        /\ \A k \in 1 .. (C - 1) : Tail(iter)[k] = iter[k + 1]
    BY <1>4, <1>2
  <2>5. /\ <<o>> \in Seq(Elements) /\ Len(<<o>>) = 1 /\ <<o>>[1] = o
    OBVIOUS
  <2>6. /\ <<o>> \o Tail(iter) \in Seq(Elements)
        /\ Len(<<o>> \o Tail(iter)) = C
        /\ \A k \in 1 .. C : (<<o>> \o Tail(iter))[k] = IF k <= 1 THEN o ELSE Tail(iter)[k - 1]
    BY <2>4, <2>5, <1>2, ConcatProperties
  <2>7. \A k \in 1 .. C : iter'[k] = (<<o>> \o Tail(iter))[k]
    BY <2>3, <2>4, <2>6, <1>2
  <2> QED
    BY <2>6, <2>7, <1>4a, SeqEqual
<1>8. ASSUME a[p % C] \notin Fragile PROVE iter' = Append(Tail(iter), o)
  <2>1. p' = p + 1
    BY <1>1, <1>8
  <2>2. \A k \in 1 .. (C - 1) : Slot(k)' = Slot(k + 1)
    BY <2>1, <1>1, <1>2 DEF Slot
  <2>3. ASSUME NEW k \in 1 .. C, k = C PROVE Slot(k)' = p % C
    <3>1. p + 1 - C + k - 1 = p
      BY <1>2, <2>3
    <3> QED
      BY <3>1, <2>1, <1>1, <1>2 DEF Slot
  <2>4. \A k \in 1 .. (C - 1) : iter'[k] = iter[k + 1]
    <3> SUFFICES ASSUME NEW k \in 1 .. (C - 1) PROVE iter'[k] = iter[k + 1]
      OBVIOUS
    <3>1. k \in 1 .. C /\ k + 1 \in 1 .. C /\ k + 1 # 1
      BY <1>2
    <3> QED
      BY <3>1, <2>2, <1>3, <1>5
  <2>5. iter'[C] = o
    <3>1. C \in 1 .. C
      BY <1>2
    <3> QED
      BY <3>1, <2>3, <1>3, <1>5
  <2>6. /\ Tail(iter) \in Seq(Elements) /\ Len(Tail(iter)) = C - 1
        /\ \A k \in 1 .. (C - 1) : Tail(iter)[k] = iter[k + 1]
    BY <1>4, <1>2
  <2>7. /\ Append(Tail(iter), o) \in Seq(Elements) /\ Len(Append(Tail(iter), o)) = C
        /\ \A k \in 1 .. (C - 1) : Append(Tail(iter), o)[k] = Tail(iter)[k]
        /\ Append(Tail(iter), o)[C] = o
    BY <2>6, <1>2, AppendProperties
  <2>8. \A k \in 1 .. C : iter'[k] = Append(Tail(iter), o)[k]
    BY <2>4, <2>5, <2>6, <2>7, <1>2
  <2> QED
    BY <2>7, <2>8, <1>4a, SeqEqual
<1> QED
  BY <1>1, <1>4, <1>6, <1>7, <1>8

\* RingBuffer implements the FIFO of the last C elements, oldest first: add
\* appends or pushes the oldest out, clear and drop empty it.  The exceptions
\* are an add whose pushed-out element panics in its drop, which leaves the
\* newest element at the head, and all that follows a clear that is unwound.
THEOREM Refinement == Spec => ImplementsFifo
<1>1. Init => Abs!Init
  <2> SUFFICES ASSUME Init PROVE Abs!Init
    OBVIOUS
  <2>1. IndInv /\ p = 0 /\ held = {}
    BY InitInv DEF Init
  <2>2. Filled = 0
    BY <2>1, RingAssumption DEF Filled, Least, RingAssumption
  <2>3. iter = << >>
    BY <2>1, <2>2, Window DEF WindowInv
  <2> QED
    BY <2>1, <2>3 DEF Abs!Init
<1>2. IndInv /\ [Next]_vars =>
        [torn' \/ Abs!Next \/ \E o \in Elements : Misplaced(o)]_<<iter, held>>
  <2> SUFFICES ASSUME IndInv, [Next]_vars, ~torn'
               PROVE  \/ Abs!Next \/ \E o \in Elements : Misplaced(o)
                      \/ UNCHANGED <<iter, held>>
    OBVIOUS
  <2>1. IndInv'
    BY NextInv
  <2>2. ASSUME NEW o \in Elements, add(o) PROVE Abs!Next \/ Misplaced(o)
    <3>1. o \notin held
      BY <2>2 DEF add
    <3>2. CASE AddFirst(o)
      <4>1. iter' = Append(iter, o) /\ Len(iter) # C
        BY <2>2, <3>2, AddFirstAppends
      <4>2. held' = held \cup {o}
        BY <3>2 DEF AddFirst, Release
      <4>3. Abs!Add(o)
        BY <3>1, <4>1, <4>2 DEF Abs!Add
      <4> QED
        BY <4>3 DEF Abs!Next
    <3>3. CASE AddOver(o)
      <4>1. /\ Len(iter) = C /\ Head(iter) = a[p % C]
            /\ a[p % C] \notin Fragile => iter' = Append(Tail(iter), o)
            /\ a[p % C] \in Fragile => iter' = <<o>> \o Tail(iter)
            /\ held' = (held \ {Head(iter)}) \cup {o}
        BY <2>2, <3>3, AddOverMoves
      <4>2. Abs!Add(o) \/ Misplaced(o)
        BY <3>1, <4>1 DEF Abs!Add, Misplaced
      <4> QED
        BY <4>2 DEF Abs!Next
    <3> QED
      BY <2>2, <3>2, <3>3 DEF add
  <2>3. ASSUME clear \/ drop PROVE Abs!Next
    <3>1. /\ ~Panics /\ ~torn /\ p' = 0 /\ Release({a[i] : i \in Dropped}, {})
      BY <2>3 DEF clear, drop, IndInv, TypeOK
    <3>2. held' = {}
      BY <3>1, ReleaseDropped
    <3>3. iter' = << >>
      BY <2>1, <3>1, EmptyWindow
    <3> QED
      BY <3>2, <3>3 DEF Abs!Clear, Abs!Next
  <2>4. ASSUME new \/ UNCHANGED vars PROVE UNCHANGED <<iter, held>>
    <3>1. UNCHANGED <<a, p, held>>
      BY <2>4 DEF new, vars
    <3> QED
      BY <3>1 DEF iter, Filled
  <2> QED
    BY <2>2, <2>3, <2>4 DEF Next
<1> QED
  BY <1>1, <1>2, Invariance, PTL DEF Spec, ImplementsFifo

\* A RingBuffer of elements whose drop does not panic is the FIFO of the last
\* C elements, at every step and without exception.
THEOREM FifoWithoutPanics ==
    ASSUME Fragile = {}
    PROVE  Spec => Abs!Spec
<1>1. Init => ~torn
  BY DEF Init
<1>2. ~torn /\ [Next]_vars => ~torn'
  <2>1. ~Panics
    BY DEF Panics
  <2> QED
    BY <2>1, Zenon DEF Next, add, clear, drop, new, vars
<1>3. ~torn' /\ [torn' \/ Abs!Next \/ \E o \in Elements : Misplaced(o)]_<<iter, held>>
        => [Abs!Next]_<<iter, held>>
  <2>1. \A o : ~Misplaced(o)
    BY DEF Misplaced
  <2> QED
    BY <2>1, Zenon
<1>4. Spec => []~torn
  BY <1>1, <1>2, PTL DEF Spec
<1> QED
  BY <1>3, <1>4, Refinement, PTL DEF ImplementsFifo, Abs!Spec, Abs!absVars
=============================================================================
