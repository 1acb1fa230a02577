--------------------------- MODULE ArrayVecProofs ---------------------------
(***************************************************************************)
(* Proofs about ArrayVec, for every capacity, any number of ArrayVecs and  *)
(* any values and inputs.                                                  *)
(***************************************************************************)
EXTENDS ArrayVec, IntegerLemmas, FiniteSetTheorems, SequenceTheorems, TLAPS

\* The positions at which x occurs.
At(x, seq) == {i \in DOMAIN seq : seq[i] = x}

\* Every set of positions is finite.
LEMMA PositionsFinite ==
    ASSUME NEW n \in Nat, NEW T, T \subseteq 1 .. n
    PROVE  IsFiniteSet(T) /\ Cardinality(T) \in Nat /\ Cardinality(T) <= n
<1>1. IsFiniteSet(1 .. n) /\ Cardinality(1 .. n) = n
  BY FS_Interval
<1>2. IsFiniteSet(T) /\ Cardinality(T) <= Cardinality(1 .. n)
  BY <1>1, FS_Subset
<1> QED
  BY <1>1, <1>2, FS_CardinalityType

\* Counting is counting positions.
LEMMA TimesType ==
    ASSUME NEW S, NEW seq \in Seq(S), NEW x
    PROVE  /\ At(x, seq) \subseteq 1 .. Len(seq) /\ IsFiniteSet(At(x, seq))
           /\ Times(x, seq) = Cardinality(At(x, seq)) /\ Times(x, seq) \in Nat
<1>1. At(x, seq) \subseteq 1 .. Len(seq) /\ Len(seq) \in Nat
  BY DEF At
<1>2. Times(x, seq) = Cardinality(At(x, seq))
  BY DEF Times, At
<1> QED
  BY <1>1, <1>2, PositionsFinite

\* Nothing occurs in the empty sequence.
LEMMA TimesEmpty ==
    ASSUME NEW x
    PROVE  Times(x, <<>>) = 0
<1>1. At(x, <<>>) = {}
  BY DEF At
<1>2. Cardinality(At(x, <<>>)) = 0
  BY <1>1, FS_EmptySet
<1> QED
  BY <1>2 DEF Times, At

\* One value occurs once in the sequence of itself.
LEMMA TimesOne ==
    ASSUME NEW x, NEW y
    PROVE  Times(x, <<y>>) = IF x = y THEN 1 ELSE 0
<1>1. At(x, <<y>>) = IF x = y THEN {1} ELSE {}
  BY DEF At
<1>2. Cardinality(At(x, <<y>>)) = IF x = y THEN 1 ELSE 0
  BY <1>1, FS_EmptySet, FS_Singleton
<1> QED
  BY <1>2 DEF Times, At

\* Cardinalities of disjoint sets add up.
LEMMA DisjointUnion ==
    ASSUME NEW A, NEW B, IsFiniteSet(A), IsFiniteSet(B), A \cap B = {}
    PROVE  Cardinality(A \cup B) = Cardinality(A) + Cardinality(B)
<1>1. Cardinality(A \cup B) = Cardinality(A) + Cardinality(B) - Cardinality(A \cap B)
  BY FS_Union
<1>2. Cardinality(A \cap B) = 0
  BY FS_EmptySet
<1>3. Cardinality(A) \in Nat /\ Cardinality(B) \in Nat
  BY FS_CardinalityType
<1> QED
  BY <1>1, <1>2, <1>3

\* Positions moved by m are as many.
LEMMA Shifted ==
    ASSUME NEW n \in Nat, NEW m \in Nat, NEW T, T \subseteq 1 .. n
    PROVE  /\ IsFiniteSet({i + m : i \in T})
           /\ Cardinality({i + m : i \in T}) = Cardinality(T)
<1> DEFINE U == {i + m : i \in T}
           f == [i \in T |-> i + m]
<1>1. IsFiniteSet(T)
  BY PositionsFinite
<1>2. f \in [T -> U] /\ \A u \in U : \E i \in T : f[i] = u
  OBVIOUS
<1>3. \A i, j \in T : f[i] = f[j] => i = j
  <2> SUFFICES ASSUME NEW i \in T, NEW j \in T, i + m = j + m PROVE i = j
    OBVIOUS
  <2>1. i \in Int /\ j \in Int
    OBVIOUS
  <2> QED
    BY <2>1
<1>4. f \in Bijection(T, U)
  <2> HIDE DEF f, U
  <2> QED
    BY <1>2, <1>3 DEF Bijection, Injection, IsInjective, Surjection
<1> HIDE DEF f, U
<1>5. ExistsBijection(T, U)
  BY <1>4 DEF ExistsBijection
<1>6. IsFiniteSet(U) /\ Cardinality(U) = Cardinality(T)
  BY <1>1, <1>5, FS_Bijection
<1> QED
  BY <1>6 DEF U

\* What occurs in a concatenation occurs in either part.
LEMMA TimesConcat ==
    ASSUME NEW S, NEW p \in Seq(S), NEW q \in Seq(S), NEW x
    PROVE  Times(x, p \o q) = Times(x, p) + Times(x, q)
<1> DEFINE w == p \o q
           m == Len(p)
           n == Len(q)
           A == At(x, p)
           B == At(x, q)
           D == {i + m : i \in B}
<1>1. m \in Nat /\ n \in Nat /\ w \in Seq(S) /\ Len(w) = m + n
  BY ConcatProperties
<1>2. \A i \in 1 .. (m + n) : w[i] = IF i <= m THEN p[i] ELSE q[i - m]
  BY ConcatProperties
<1>3. /\ A \subseteq 1 .. m /\ IsFiniteSet(A) /\ Times(x, p) = Cardinality(A)
      /\ B \subseteq 1 .. n /\ Times(x, q) = Cardinality(B)
      /\ Times(x, w) = Cardinality(At(x, w)) /\ At(x, w) \subseteq 1 .. (m + n)
  <2> HIDE DEF w
  <2> QED
    BY <1>1, TimesType
<1>4. DOMAIN w = 1 .. (m + n) /\ DOMAIN p = 1 .. m /\ DOMAIN q = 1 .. n
  BY <1>1
<1> HIDE DEF w, m, n
<1>5. At(x, w) = A \cup D
  <2>1. ASSUME NEW i \in At(x, w) PROVE i \in A \cup D
    <3>1. i \in 1 .. (m + n) /\ w[i] = x
      BY <1>4, <2>1 DEF At
    <3>2. CASE i <= m
      <4>1. i \in 1 .. m /\ p[i] = x
        BY <1>1, <1>2, <3>1, <3>2
      <4> QED
        BY <1>4, <4>1 DEF At
    <3>3. CASE ~(i <= m)
      <4>1. i - m \in 1 .. n /\ q[i - m] = x /\ i = (i - m) + m
        BY <1>1, <1>2, <3>1, <3>3
      <4>2. i - m \in B
        BY <1>4, <4>1 DEF At
      <4> QED
        BY <4>1, <4>2
    <3> QED
      BY <3>2, <3>3
  <2>2. ASSUME NEW i \in A PROVE i \in At(x, w)
    <3>1. i \in 1 .. m /\ p[i] = x
      BY <1>4 DEF At
    <3>2. i \in 1 .. (m + n) /\ w[i] = x
      BY <1>1, <1>2, <3>1
    <3> QED
      BY <1>4, <3>2 DEF At
  <2>3. ASSUME NEW j \in B PROVE j + m \in At(x, w)
    <3>1. j \in 1 .. n /\ q[j] = x
      BY <1>4 DEF At
    <3>2. j + m \in 1 .. (m + n) /\ ~(j + m <= m) /\ (j + m) - m = j
      BY <1>1, <3>1
    <3>3. w[j + m] = x
      BY <1>2, <3>1, <3>2
    <3> QED
      BY <1>4, <3>2, <3>3 DEF At
  <2> QED
    BY <2>1, <2>2, <2>3
<1>6. IsFiniteSet(D) /\ Cardinality(D) = Cardinality(B)
  BY <1>1, <1>3, Shifted
<1>7. A \cap D = {}
  <2> SUFFICES ASSUME NEW i \in B, i + m \in A PROVE FALSE
    OBVIOUS
  <2>1. i \in 1 .. n /\ i + m \in 1 .. m
    BY <1>3
  <2> QED
    BY <1>1, <2>1
<1> HIDE DEF A, B, D
<1>8. Cardinality(A \cup D) = Cardinality(A) + Cardinality(D)
  BY <1>3, <1>6, <1>7, DisjointUnion
<1> QED
  BY <1>3, <1>5, <1>6, <1>8 DEF w

\* How often x occurs after y has replaced the i-th element.
Replaced(x, t, i, y) ==
    Times(x, [t EXCEPT ![i] = y]) = Times(x, t) - Times(x, <<t[i]>>) + Times(x, <<y>>)

\* An element that is replaced occurs once less, its replacement once more.
LEMMA TimesPut ==
    ASSUME NEW S, NEW t \in Seq(S), NEW i \in 1 .. Len(t), NEW y \in S, NEW x
    PROVE  Replaced(x, t, i, y)
<1> DEFINE u == [t EXCEPT ![i] = y]
           A == {k \in 1 .. Len(t) : k # i /\ t[k] = x}
<1>1. /\ u \in Seq(S) /\ Len(u) = Len(t)
      /\ \A k \in 1 .. Len(t) : u[k] = IF k = i THEN y ELSE t[k]
  BY ExceptSeq
<1>2. DOMAIN t = 1 .. Len(t) /\ DOMAIN u = 1 .. Len(t) /\ Len(t) \in Nat
  BY <1>1
<1> HIDE DEF u
<1>3. At(x, t) = IF t[i] = x THEN A \cup {i} ELSE A
  BY <1>2 DEF At
<1>4. At(x, u) = IF y = x THEN A \cup {i} ELSE A
  BY <1>1, <1>2 DEF At
<1>5. A \subseteq 1 .. Len(t) /\ i \notin A
  OBVIOUS
<1> HIDE DEF A
<1>6. IsFiniteSet(A) /\ Cardinality(A) \in Nat /\ Cardinality(A \cup {i}) = Cardinality(A) + 1
  <2>1. IsFiniteSet(A) /\ Cardinality(A) \in Nat
    BY <1>2, <1>5, PositionsFinite
  <2> QED
    BY <1>5, <2>1, FS_AddElement
<1>7. Times(x, t) = Cardinality(At(x, t)) /\ Times(x, u) = Cardinality(At(x, u))
  BY DEF Times, At
<1>8. Times(x, <<t[i]>>) = IF x = t[i] THEN 1 ELSE 0
  BY TimesOne
<1>9. Times(x, <<y>>) = IF x = y THEN 1 ELSE 0
  BY TimesOne
<1> DEFINE c == Cardinality(A)
<1>10. Times(x, t) = (IF t[i] = x THEN c + 1 ELSE c) /\ c \in Nat
  BY <1>3, <1>6, <1>7
<1>11. Times(x, u) = (IF y = x THEN c + 1 ELSE c)
  BY <1>4, <1>6, <1>7
<1> HIDE DEF c
<1>12. Times(x, u) = Times(x, t) - Times(x, <<t[i]>>) + Times(x, <<y>>)
  BY <1>8, <1>9, <1>10, <1>11
<1> QED
  BY <1>12 DEF u, Replaced

-----------------------------------------------------------------------------
\* The positions of the elements up to x, and of those below it.
UpTo(x, seq) == {k \in DOMAIN seq : seq[k] <= x}
Below(x, seq) == {k \in DOMAIN seq : seq[k] < x}

\* Both are finite, and there are no more of them than there are elements.
LEMMA CountsType ==
    ASSUME NEW seq \in Seq(Values), NEW x
    PROVE  /\ UpTo(x, seq) \subseteq 1 .. Len(seq) /\ IsFiniteSet(UpTo(x, seq))
           /\ Cardinality(UpTo(x, seq)) \in 0 .. Len(seq)
           /\ Below(x, seq) \subseteq 1 .. Len(seq) /\ IsFiniteSet(Below(x, seq))
           /\ Cardinality(Below(x, seq)) \in 0 .. Len(seq)
<1>1. Len(seq) \in Nat /\ UpTo(x, seq) \subseteq 1 .. Len(seq) /\ Below(x, seq) \subseteq 1 .. Len(seq)
  BY DEF UpTo, Below
<1>2. /\ IsFiniteSet(UpTo(x, seq)) /\ Cardinality(UpTo(x, seq)) \in Nat
      /\ Cardinality(UpTo(x, seq)) <= Len(seq)
  BY <1>1, PositionsFinite
<1>3. /\ IsFiniteSet(Below(x, seq)) /\ Cardinality(Below(x, seq)) \in Nat
      /\ Cardinality(Below(x, seq)) <= Len(seq)
  BY <1>1, PositionsFinite
<1> QED
  BY <1>1, <1>2, <1>3

\* The elements of a sequence of values are integers.
LEMMA ElementsInt ==
    ASSUME NEW seq \in Seq(Values)
    PROVE  /\ DOMAIN seq = 1 .. Len(seq) /\ Len(seq) \in Nat
           /\ \A k \in 1 .. Len(seq) : seq[k] \in Values /\ seq[k] \in Int
<1>1. \A y \in Values : y \in Int
  BY VecAssumption
<1>2. DOMAIN seq = 1 .. Len(seq) /\ Len(seq) \in Nat
  BY LenProperties
<1>3. \A k \in 1 .. Len(seq) : seq[k] \in Values
  BY ElementOfSeq
<1> QED
  BY <1>1, <1>2, <1>3, Zenon

\* Fewer elements are up to x than up to a greater element.
LEMMA UpToGrows ==
    ASSUME NEW seq \in Seq(Values), NEW x \in Int, NEW j \in 1 .. Len(seq), x < seq[j]
    PROVE  Cardinality(UpTo(x, seq)) < Cardinality(UpTo(seq[j], seq))
<1> DEFINE A == UpTo(x, seq)
           B == UpTo(seq[j], seq)
<1>1. /\ DOMAIN seq = 1 .. Len(seq) /\ \A k \in 1 .. Len(seq) : seq[k] \in Int
  BY ElementsInt
<1>2. A \subseteq B /\ j \in B /\ j \notin A
  BY <1>1 DEF UpTo
<1>3. IsFiniteSet(B) /\ Cardinality(A) \in Nat /\ Cardinality(B) \in Nat
  BY CountsType
<1> HIDE DEF A, B
<1>4. Cardinality(A) <= Cardinality(B) /\ Cardinality(A) # Cardinality(B)
  BY <1>2, <1>3, FS_Subset
<1>5. Cardinality(A) < Cardinality(B)
  BY <1>3, <1>4
<1> QED
  BY <1>5 DEF A, B

\* Any elements that there are have a greatest.
LEMMA Greatest ==
    ASSUME NEW seq \in Seq(Values), NEW K, K \subseteq 1 .. Len(seq), K # {}
    PROVE  \E k \in K : \A j \in K : seq[j] <= seq[k]
<1> DEFINE n == Len(seq)
           rank(k) == Cardinality(UpTo(seq[k], seq))
           T == {n - rank(k) : k \in K}
<1>1. n \in Nat /\ \A k \in 1 .. n : seq[k] \in Int /\ rank(k) \in 0 .. n
  BY ElementsInt, CountsType
<1>2. ASSUME NEW k \in 1 .. n, NEW j \in 1 .. n, seq[k] < seq[j] PROVE rank(k) < rank(j)
  BY <1>1, <1>2, UpToGrows
<1> HIDE DEF rank, n
<1>3. T \subseteq Nat /\ T # {}
  <2>1. ASSUME NEW k \in K PROVE n - rank(k) \in Nat
    <3>1. k \in 1 .. n
      BY DEF n
    <3>2. rank(k) \in 0 .. n
      BY <1>1, <3>1
    <3> QED
      BY <1>1, <3>2
  <2> QED
    BY <2>1
<1>4. PICK d \in T : \A e \in T : d <= e
  <2> HIDE DEF T
  <2> QED
    BY <1>3, LeastElement
<1>5. PICK k \in K : d = n - rank(k)
  OBVIOUS
<1>6. ASSUME NEW j \in K PROVE seq[j] <= seq[k]
  <2>1. j \in 1 .. n /\ k \in 1 .. n
    BY DEF n
  <2>2. rank(j) \in 0 .. n /\ rank(k) \in 0 .. n /\ seq[j] \in Int /\ seq[k] \in Int
    BY <1>1, <2>1
  <2>3. n - rank(k) <= n - rank(j)
    BY <1>4, <1>5
  <2>4. ~(rank(k) < rank(j))
    BY <1>1, <2>2, <2>3
  <2>5. ~(seq[k] < seq[j])
    BY <1>2, <2>1, <2>4
  <2> QED
    BY <2>2, <2>5
<1> QED
  BY <1>6

\* The elements below x, if any, are those up to the greatest of them.
LEMMA BelowIsUpTo ==
    ASSUME NEW seq \in Seq(Values), NEW x \in Int, Below(x, seq) # {}
    PROVE  \E j \in 1 .. Len(seq) : seq[j] < x /\ UpTo(seq[j], seq) = Below(x, seq)
<1>1. DOMAIN seq = 1 .. Len(seq) /\ \A k \in 1 .. Len(seq) : seq[k] \in Int
  BY ElementsInt
<1>2. Below(x, seq) \subseteq 1 .. Len(seq)
  BY CountsType
<1>3. PICK j \in Below(x, seq) : \A k \in Below(x, seq) : seq[k] <= seq[j]
  BY <1>2, Greatest
<1>4. j \in 1 .. Len(seq) /\ seq[j] < x
  BY <1>1 DEF Below
<1>5. UpTo(seq[j], seq) = Below(x, seq)
  <2>1. ASSUME NEW k \in UpTo(seq[j], seq) PROVE k \in Below(x, seq)
    <3>1. k \in 1 .. Len(seq) /\ seq[k] <= seq[j]
      BY <1>1 DEF UpTo
    <3>2. seq[k] \in Int /\ seq[j] \in Int
      BY <1>1, <1>4, <3>1
    <3>3. seq[k] < x
      BY <1>4, <3>1, <3>2
    <3> QED
      BY <1>1, <3>1, <3>3 DEF Below
  <2>2. ASSUME NEW k \in Below(x, seq) PROVE k \in UpTo(seq[j], seq)
    <3>1. k \in DOMAIN seq /\ seq[k] <= seq[j]
      BY <1>3 DEF Below
    <3> QED
      BY <3>1 DEF UpTo
  <2> QED
    BY <2>1, <2>2
<1> QED
  BY <1>4, <1>5

\* x belongs at position i of the sorted sequence: fewer than i elements are
\* below it, and at least i are up to it.
Belongs(x, i, seq) == Cardinality(Below(x, seq)) < i /\ i <= Cardinality(UpTo(x, seq))

\* Some element belongs at each position.
LEMMA SomeBelongs ==
    ASSUME NEW seq \in Seq(Values), NEW i \in 1 .. Len(seq)
    PROVE  \E k \in 1 .. Len(seq) : Belongs(seq[k], i, seq)
<1> DEFINE n == Len(seq)
           rank(k) == Cardinality(UpTo(seq[k], seq))
           T == {rank(k) : k \in {k \in 1 .. n : i <= rank(k)}}
<1>1. /\ n \in Nat /\ DOMAIN seq = 1 .. n
      /\ \A k \in 1 .. n : seq[k] \in Int /\ rank(k) \in 0 .. n
  BY ElementsInt, CountsType
<1>2. T \subseteq Nat
  <2> HIDE DEF rank, n
  <2> QED
    BY <1>1
<1>3. T # {}
  <2>1. 1 .. n # {}
    BY <1>1
  <2>2. PICK g \in 1 .. n : \A j \in 1 .. n : seq[j] <= seq[g]
    BY <2>1, Greatest
  <2>3. UpTo(seq[g], seq) = 1 .. n
    BY <1>1, <2>2 DEF UpTo
  <2>4. rank(g) = n
    BY <1>1, <2>3, FS_Interval
  <2> HIDE DEF rank
  <2>5. i <= rank(g)
    BY <1>1, <2>4
  <2> QED
    BY <2>5
<1>4. PICK d \in T : \A e \in T : d <= e
  <2> HIDE DEF T
  <2> QED
    BY <1>2, <1>3, LeastElement
<1>5. PICK k \in 1 .. n : i <= rank(k) /\ d = rank(k)
  OBVIOUS
<1>6. Cardinality(Below(seq[k], seq)) < i
  <2> SUFFICES ASSUME ~(Cardinality(Below(seq[k], seq)) < i) PROVE FALSE
    OBVIOUS
  <2>1. Cardinality(Below(seq[k], seq)) \in Nat /\ seq[k] \in Int
    BY <1>1, <1>5, CountsType
  <2>2. Below(seq[k], seq) # {}
    <3>1. Cardinality(Below(seq[k], seq)) # 0
      BY <2>1
    <3> QED
      BY <3>1, FS_EmptySet
  <2>3. PICK j \in 1 .. n : seq[j] < seq[k] /\ UpTo(seq[j], seq) = Below(seq[k], seq)
    BY <2>1, <2>2, BelowIsUpTo
  <2>4. i <= rank(j)
    BY <1>1, <2>1, <2>3
  <2>5. rank(j) < rank(k)
    BY <1>1, <1>5, <2>3, UpToGrows
  <2> HIDE DEF rank
  <2>6. rank(j) \in T
    BY <2>4
  <2>7. rank(k) <= rank(j) /\ rank(j) \in Int /\ rank(k) \in Int
    BY <1>1, <1>4, <1>5, <2>6
  <2> QED
    BY <2>5, <2>7
<1> QED
  BY <1>5, <1>6 DEF Belongs

\* The values with at least i elements up to them.
Candidates(i, seq) == {x \in Values : Cardinality(UpTo(x, seq)) >= i}

\* The value that belongs at position i is the least of them.
LEMMA BelongsLeast ==
    ASSUME NEW seq \in Seq(Values), NEW i \in 1 .. Len(seq), NEW x \in Values, Belongs(x, i, seq)
    PROVE  x \in Candidates(i, seq) /\ \A y \in Candidates(i, seq) : x <= y
<1>0. x \in Int /\ \A y \in Values : y \in Int
  BY VecAssumption
<1>1. x \in Candidates(i, seq)
  <2>1. Cardinality(UpTo(x, seq)) \in Int
    BY CountsType
  <2>2. Cardinality(UpTo(x, seq)) >= i
    BY <2>1 DEF Belongs
  <2> QED
    BY <2>2 DEF Candidates
<1>2. ASSUME NEW y \in Candidates(i, seq), ~(x <= y) PROVE FALSE
  <2>1. y \in Int /\ y < x /\ Cardinality(UpTo(y, seq)) >= i
    BY <1>0, <1>2 DEF Candidates
  <2>2. UpTo(y, seq) \subseteq Below(x, seq)
    BY <1>0, <2>1, ElementsInt DEF UpTo, Below
  <2>3. IsFiniteSet(Below(x, seq)) /\ Cardinality(Below(x, seq)) \in Int
    BY CountsType
  <2>4. Cardinality(UpTo(y, seq)) <= Cardinality(Below(x, seq)) /\ Cardinality(UpTo(y, seq)) \in Int
    BY <2>2, <2>3, FS_Subset, CountsType
  <2> QED
    BY <2>1, <2>3, <2>4 DEF Belongs
<1> QED
  BY <1>1, <1>2

\* sort puts at each position the one value that belongs there.
LEMMA SortedBelongs ==
    ASSUME NEW seq \in Seq(Values)
    PROVE  /\ SortedSlice(seq) \in Seq(Values) /\ Len(SortedSlice(seq)) = Len(seq)
           /\ \A i \in 1 .. Len(seq), x \in Values :
                SortedSlice(seq)[i] = x <=> Belongs(x, i, seq)
<1> DEFINE t == SortedSlice(seq)
           n == Len(seq)
<1>1. n \in Nat /\ DOMAIN seq = 1 .. n /\ \A k \in 1 .. n : seq[k] \in Values
  BY ElementsInt
<1>2. t = [i \in 1 .. n |-> Min(Candidates(i, seq))]
  BY <1>1 DEF SortedSlice, Candidates, UpTo
<1> HIDE DEF t
<1>3. ASSUME NEW i \in 1 .. n, NEW x \in Values, Belongs(x, i, seq) PROVE t[i] = x
  <2>1. x \in Candidates(i, seq) /\ \A y \in Candidates(i, seq) : x <= y
    BY <1>3, BelongsLeast
  <2>2. \A y \in Candidates(i, seq) : y \in Int
    BY VecAssumption DEF Candidates
  <2> DEFINE Q == Candidates(i, seq)
             m == Min(Q)
  <2> HIDE DEF Q
  <2>3. m \in Q /\ \A y \in Q : m <= y
    BY <2>1 DEF Min, Q
  <2>4. m = x
    <3>1. m <= x /\ x <= m /\ m \in Int /\ x \in Int
      BY <2>1, <2>2, <2>3 DEF Q
    <3> HIDE DEF m
    <3> QED
      BY <3>1
  <2> QED
    BY <1>2, <2>4 DEF Q
<1>4. ASSUME NEW i \in 1 .. n PROVE t[i] \in Values /\ Belongs(t[i], i, seq)
  <2>1. PICK k \in 1 .. n : Belongs(seq[k], i, seq)
    BY SomeBelongs
  <2>2. seq[k] \in Values
    BY <1>1
  <2>3. t[i] = seq[k]
    BY <1>3, <2>1, <2>2
  <2> QED
    BY <2>1, <2>2, <2>3
<1>5. t \in [1 .. n -> Values]
  BY <1>2, <1>4
<1>6. t \in Seq(Values)
  BY <1>1, <1>5, SeqDef
<1>7. Len(t) = n
  BY <1>1, <1>5, <1>6, LenProperties
<1> QED
  BY <1>3, <1>4, <1>6, <1>7 DEF t

\* sort orders the elements.
LEMMA SortOrders ==
    ASSUME NEW seq \in Seq(Values), NEW i \in 1 .. Len(seq), NEW j \in 1 .. Len(seq), i < j
    PROVE  SortedSlice(seq)[i] <= SortedSlice(seq)[j]
<1> DEFINE t == SortedSlice(seq)
<1>1. t[i] \in Values /\ t[j] \in Values
  BY SortedBelongs
<1>2. Belongs(t[i], i, seq) /\ Belongs(t[j], j, seq)
  BY <1>1, SortedBelongs
<1> HIDE DEF t
<1>3. t[j] \in Candidates(i, seq)
  <2>1. Cardinality(UpTo(t[j], seq)) \in Int
    BY CountsType
  <2>2. Cardinality(UpTo(t[j], seq)) >= i
    BY <1>2, <2>1 DEF Belongs
  <2> QED
    BY <1>1, <2>2 DEF Candidates
<1>4. t[i] <= t[j]
  BY <1>1, <1>2, <1>3, BelongsLeast
<1> QED
  BY <1>4 DEF t

\* sort keeps the elements, each as often as it was there.
LEMMA SortKeeps ==
    ASSUME NEW seq \in Seq(Values), NEW x \in Values
    PROVE  Times(x, SortedSlice(seq)) = Times(x, seq)
<1> DEFINE t == SortedSlice(seq)
           n == Len(seq)
           lo == Cardinality(Below(x, seq))
           hi == Cardinality(UpTo(x, seq))
<1>1. /\ n \in Nat /\ t \in Seq(Values) /\ Len(t) = n
      /\ \A i \in 1 .. n : t[i] = x <=> Belongs(x, i, seq)
  BY SortedBelongs
<1>2. lo \in 0 .. n /\ hi \in 0 .. n
  BY CountsType
<1>3. UpTo(x, seq) = Below(x, seq) \cup At(x, seq) /\ Below(x, seq) \cap At(x, seq) = {}
  <2>1. x \in Int
    BY VecAssumption
  <2> QED
    BY <2>1, ElementsInt DEF UpTo, Below, At
<1>4. IsFiniteSet(At(x, seq)) /\ Times(x, seq) = Cardinality(At(x, seq)) /\ Times(x, seq) \in Nat
  BY TimesType
<1>5. hi = lo + Times(x, seq)
  <2>1. IsFiniteSet(Below(x, seq))
    BY CountsType
  <2> QED
    BY <1>3, <1>4, <2>1, DisjointUnion
<1> HIDE DEF t
<1>6. At(x, t) = (lo + 1) .. hi
  <2>1. DOMAIN t = 1 .. n
    BY <1>1
  <2>2. \A i \in 1 .. n : Belongs(x, i, seq) <=> lo < i /\ i <= hi
    BY DEF Belongs
  <2> HIDE DEF lo, hi, n
  <2>3. \A i : i \in 1 .. n /\ lo < i /\ i <= hi <=> i \in (lo + 1) .. hi
    BY <1>1, <1>2
  <2> QED
    BY <1>1, <2>1, <2>2, <2>3 DEF At
<1>7. Cardinality(At(x, t)) = hi - lo
  <2> HIDE DEF lo, hi
  <2>1. lo + 1 \in Int /\ hi \in Int /\ lo \in Int /\ hi >= lo
    BY <1>1, <1>2, <1>4, <1>5
  <2> DEFINE b == lo + 1
  <2> HIDE DEF b
  <2>2. Cardinality(b .. hi) = IF b > hi THEN 0 ELSE hi - b + 1
    BY <2>1, FS_Interval DEF b
  <2> QED
    BY <1>6, <2>1, <2>2 DEF b
<1>8. Times(x, t) = Cardinality(At(x, t))
  BY DEF Times, At
<1> HIDE DEF lo, hi
<1>9. Times(x, t) = Times(x, seq)
  BY <1>2, <1>4, <1>5, <1>7, <1>8
<1> QED
  BY <1>9 DEF t

-----------------------------------------------------------------------------
Slots == [0 .. (C - 1) -> Values \cup {Uninit}]
Outs == {"ok", "full", "panic"}

\* The first l slots hold values.
Holds(m, l) == m \in Slots /\ l \in 0 .. C /\ \A i \in 0 .. (l - 1) : m[i] \in Values

\* The inductive invariant: slots below the size are initialised, and an
\* ArrayVec is charged with what it shows.
VecInv == TypeOK /\ NothingLeakedOrDroppedTwice

\* Slots that hold values show them.
LEMMA SliceSeq ==
    ASSUME NEW m, NEW l, Holds(m, l)
    PROVE  /\ Slice(m, l) \in Seq(Values) /\ Len(Slice(m, l)) = l /\ l \in Nat
           /\ \A i \in 1 .. l : Slice(m, l)[i] = m[i - 1]
<1>1. l \in Nat
  BY VecAssumption DEF Holds
<1>2. \A i \in 1 .. l : i - 1 \in 0 .. (l - 1)
  BY <1>1
<1>3. Slice(m, l) \in [1 .. l -> Values] /\ \A i \in 1 .. l : Slice(m, l)[i] = m[i - 1]
  BY <1>2 DEF Slice, Holds
<1>4. Slice(m, l) \in Seq(Values)
  BY <1>1, <1>3, SeqDef
<1> QED
  BY <1>1, <1>3, <1>4, LenProperties

\* What is written behind the elements is shown behind them.
LEMMA SliceWritten ==
    ASSUME NEW m, NEW at, Holds(m, at), NEW seq \in Seq(Values), at + Len(seq) <= C
    PROVE  /\ Holds(Written(m, at, seq), at + Len(seq))
           /\ Slice(Written(m, at, seq), at + Len(seq)) = Slice(m, at) \o seq
<1> DEFINE c == Written(m, at, seq)
           n == Len(seq)
           l == at + n
           t == Slice(c, l)
           u == Slice(m, at)
           w == u \o seq
<1>1. C \in Nat /\ n \in Nat /\ at \in Nat /\ l \in Nat /\ l \in 0 .. C /\ l <= C /\ m \in Slots
  BY VecAssumption DEF Holds
<1>2. \A k \in 1 .. n : seq[k] \in Values
  BY ElementOfSeq
<1>3. ASSUME NEW i \in 0 .. (C - 1)
      PROVE  /\ c[i] = IF i \in at .. (at + n - 1) THEN seq[i - at + 1] ELSE m[i]
             /\ i \in at .. (at + n - 1) => i - at + 1 \in 1 .. n
             /\ m[i] \in Values \cup {Uninit}
  <2>1. c[i] = IF i \in at .. (at + n - 1) THEN seq[i - at + 1] ELSE m[i]
    BY DEF Written
  <2>2. i \in at .. (at + n - 1) => i - at + 1 \in 1 .. n
    <3> HIDE DEF n
    <3> QED
      BY <1>1
  <2>3. m[i] \in Values \cup {Uninit}
    BY <1>1 DEF Slots
  <2> QED
    BY <2>1, <2>2, <2>3, Zenon
<1>4. c \in Slots
  <2>1. \A i \in 0 .. (C - 1) : c[i] \in Values \cup {Uninit}
    BY <1>2, <1>3
  <2>2. c = [i \in 0 .. (C - 1) |-> c[i]]
    BY DEF Written
  <2> HIDE DEF c
  <2> QED
    BY <2>1, <2>2 DEF Slots
<1> HIDE DEF c, n
<1>5. ASSUME NEW i \in 0 .. (l - 1) PROVE c[i] \in Values
  <2>1. i \in 0 .. (C - 1) /\ i \in Int
    BY <1>1
  <2>2. CASE i \in at .. (at + n - 1)
    BY <1>2, <1>3, <2>1, <2>2
  <2>3. CASE i \notin at .. (at + n - 1)
    <3>1. i \in 0 .. (at - 1)
      BY <1>1, <2>1, <2>3
    <3> QED
      BY <1>3, <2>1, <2>3, <3>1 DEF Holds
  <2> QED
    BY <2>2, <2>3
<1>6. Holds(c, l)
  BY <1>1, <1>4, <1>5 DEF Holds
<1>7. t \in Seq(Values) /\ Len(t) = l /\ \A i \in 1 .. l : t[i] = c[i - 1]
  <2> HIDE DEF l
  <2> QED
    BY <1>6, SliceSeq
<1>8. u \in Seq(Values) /\ Len(u) = at /\ \A i \in 1 .. at : u[i] = m[i - 1]
  BY SliceSeq
<1> HIDE DEF t, u
<1>9. /\ w \in Seq(Values) /\ Len(w) = at + n
      /\ \A i \in 1 .. (at + n) : w[i] = IF i <= at THEN u[i] ELSE seq[i - at]
  BY <1>1, <1>8, ConcatProperties DEF n
<1> HIDE DEF w
<1>10. ASSUME NEW i \in 1 .. l PROVE t[i] = w[i]
  <2>1. /\ i - 1 \in 0 .. (C - 1) /\ t[i] = c[i - 1] /\ i \in Int
        /\ w[i] = IF i <= at THEN u[i] ELSE seq[i - at]
    BY <1>1, <1>7, <1>9
  <2>2. c[i - 1] = IF i - 1 \in at .. (at + n - 1) THEN seq[(i - 1) - at + 1] ELSE m[i - 1]
    BY <1>3, <2>1
  <2>3. CASE i <= at
    <3>1. i \in 1 .. at /\ ~(i - 1 \in at .. (at + n - 1))
      BY <1>1, <2>1, <2>3
    <3> QED
      BY <1>8, <2>1, <2>2, <2>3, <3>1
  <2>4. CASE ~(i <= at)
    <3>1. i - 1 \in at .. (at + n - 1) /\ (i - 1) - at + 1 = i - at
      BY <1>1, <2>1, <2>4
    <3> QED
      BY <2>1, <2>2, <2>4, <3>1
  <2> QED
    BY <2>3, <2>4
<1>11. t = w
  <2>1. Len(t) = Len(w) /\ \A i \in 1 .. Len(t) : t[i] = w[i]
    BY <1>7, <1>9, <1>10
  <2> QED
    BY <1>7, <1>9, <2>1, SeqEqual
<1> QED
  BY <1>6, <1>11 DEF c, n, t, u, w

\* What is written from the first slot on is shown.
LEMMA SliceWrittenFront ==
    ASSUME NEW m \in Slots, NEW seq \in Seq(Values), Len(seq) <= C
    PROVE  Holds(Written(m, 0, seq), Len(seq)) /\ Slice(Written(m, 0, seq), Len(seq)) = seq
<1>1. Len(seq) \in Nat /\ C \in Nat
  BY VecAssumption
<1>2. Holds(m, 0) /\ 0 + Len(seq) = Len(seq) /\ 0 + Len(seq) <= C
  BY <1>1 DEF Holds
<1>3. Slice(m, 0) = <<>>
  <2>1. Slice(m, 0) \in Seq(Values) /\ Len(Slice(m, 0)) = 0
    BY <1>2, SliceSeq
  <2> QED
    BY <2>1
<1>4. /\ Holds(Written(m, 0, seq), 0 + Len(seq))
      /\ Slice(Written(m, 0, seq), 0 + Len(seq)) = Slice(m, 0) \o seq
  BY <1>2, SliceWritten
<1>5. <<>> \o seq = seq
  OBVIOUS
<1> QED
  BY <1>2, <1>3, <1>4, <1>5, Zenon

-----------------------------------------------------------------------------
\* What the invariant says of each ArrayVec.
LEMMA VecFacts ==
    ASSUME VecInv, NEW v \in Vecs
    PROVE  /\ Holds(a[v], s[v]) /\ as_ref(v) = Slice(a[v], s[v])
           /\ texts[v] = (IF v \in alive THEN Slice(a[v], s[v]) ELSE <<>>)
           /\ texts[v] \in Seq(Values) /\ sizes[v] = (IF v \in alive THEN C ELSE 0)
           /\ \A x \in Values : charged[v][x] = Times(x, texts[v])
<1>1. /\ a[v] \in Slots /\ s[v] \in 0 .. C
      /\ \A i \in 0 .. (s[v] - 1) : a[v][i] # Uninit
  BY DEF VecInv, TypeOK, Slots
<1>2. \A i \in 0 .. (s[v] - 1) : i \in 0 .. (C - 1)
  BY <1>1, VecAssumption
<1>3. Holds(a[v], s[v])
  BY <1>1, <1>2 DEF Holds, Slots
<1>4. as_ref(v) = Slice(a[v], s[v])
  BY DEF as_ref, Slice
<1>5. Slice(a[v], s[v]) \in Seq(Values)
  BY <1>3, SliceSeq
<1>6. texts[v] = (IF v \in alive THEN Slice(a[v], s[v]) ELSE <<>>)
  BY DEF texts, as_ref, Slice
<1>7. texts[v] \in Seq(Values)
  BY <1>5, <1>6
<1>8. \A x \in Values : charged[v][x] = Times(x, texts[v])
  BY DEF VecInv, NothingLeakedOrDroppedTwice
<1>9. sizes[v] = (IF v \in alive THEN C ELSE 0)
  BY DEF sizes
<1> QED
  BY <1>3, <1>4, <1>6, <1>7, <1>8, <1>9

\* The size, the slots and the charges of one ArrayVec change, and whether it
\* exists.
Stored(v, l, m, q) ==
    /\ s' = [s EXCEPT ![v] = l]
    /\ a' = [a EXCEPT ![v] = m]
    /\ charged' = [charged EXCEPT ![v] = q]
    /\ alive' \ {v} = alive \ {v} /\ alive' \subseteq Vecs

\* The vector of that ArrayVec becomes t, of c elements, and no other changes.
Settled(v, t, c) ==
    /\ VecInv'
    /\ texts' = [texts EXCEPT ![v] = t]
    /\ sizes' = [sizes EXCEPT ![v] = c]

\* That is so if it is charged with t.
LEMMA StoredSettles ==
    ASSUME VecInv, NEW v \in Vecs, NEW l, NEW m, Holds(m, l), NEW q \in [Values -> Int],
           Stored(v, l, m, q), NEW t, t = (IF v \in alive' THEN Slice(m, l) ELSE <<>>),
           \A x \in Values : q[x] = Times(x, t),
           got' \in Values \cup {Uninit}, out' \in Outs
    PROVE  Settled(v, t, IF v \in alive' THEN C ELSE 0)
<1>1. /\ s \in [Vecs -> 0 .. C] /\ a \in [Vecs -> Slots] /\ charged \in [Vecs -> [Values -> Int]]
      /\ \A w \in Vecs : \A i \in 0 .. (s[w] - 1) : a[w][i] # Uninit
  BY DEF VecInv, TypeOK, Slots
<1>2. /\ s' \in [Vecs -> 0 .. C] /\ a' \in [Vecs -> Slots] /\ charged' \in [Vecs -> [Values -> Int]]
      /\ s'[v] = l /\ a'[v] = m /\ charged'[v] = q
  BY <1>1 DEF Stored, Holds
<1>3. \A w \in Vecs : w # v =>
        /\ s'[w] = s[w] /\ a'[w] = a[w] /\ charged'[w] = charged[w]
        /\ w \in alive' <=> w \in alive
  BY <1>1 DEF Stored
<1>4. \A w \in Vecs : \A i \in 0 .. (s'[w] - 1) : a'[w][i] # Uninit
  <2> SUFFICES ASSUME NEW w \in Vecs PROVE \A i \in 0 .. (s'[w] - 1) : a'[w][i] # Uninit
    OBVIOUS
  <2>1. CASE w = v
    BY <1>2, <2>1, VecAssumption DEF Holds
  <2>2. CASE w # v
    BY <1>1, <1>3, <2>2
  <2> QED
    BY <2>1, <2>2
<1>5. TypeOK'
  BY <1>2, <1>4 DEF TypeOK, Stored, Slots, Outs
<1>6. /\ texts'[v] = t
      /\ \A w \in Vecs : w # v => texts'[w] = texts[w]
  BY <1>2, <1>3 DEF texts, as_ref, Slice
<1>7. texts' = [texts EXCEPT ![v] = t]
  <2>1. /\ texts = [w \in Vecs |-> texts[w]] /\ texts' = [w \in Vecs |-> texts'[w]]
    BY DEF texts, as_ref
  <2> QED
    BY <1>6, <2>1
<1>8. sizes' = [sizes EXCEPT ![v] = IF v \in alive' THEN C ELSE 0]
  BY <1>3 DEF sizes
<1>9. NothingLeakedOrDroppedTwice'
  <2> SUFFICES ASSUME NEW w \in Vecs, NEW x \in Values PROVE charged'[w][x] = Times(x, texts'[w])
    BY DEF NothingLeakedOrDroppedTwice, Times
  <2>1. CASE w = v
    BY <1>2, <1>6, <2>1
  <2>2. CASE w # v
    <3>1. charged[w][x] = Times(x, texts[w])
      BY DEF VecInv, NothingLeakedOrDroppedTwice
    <3>2. charged'[w] = charged[w] /\ texts'[w] = texts[w]
      BY <1>3, <1>6, <2>2
    <3> QED
      BY <3>1, <3>2
  <2> QED
    BY <2>1, <2>2
<1> QED
  BY <1>5, <1>7, <1>8, <1>9 DEF Settled, VecInv

\* After gone and taken, v is charged with t.
ChargedWith(v, gone, taken, t) ==
    \E q \in [Values -> Int] :
       /\ Recharged(v, gone, taken) = [charged EXCEPT ![v] = q]
       /\ \A x \in Values : q[x] = Times(x, t)

\* It is, if what is gone and taken makes the difference to what it showed.
LEMMA Charges ==
    ASSUME VecInv, NEW v \in Vecs, NEW t \in Seq(Values),
           NEW gone \in Seq(Values), NEW taken \in Seq(Values),
           \A x \in Values : Times(x, t) = Times(x, texts[v]) - Times(x, gone) + Times(x, taken)
    PROVE  ChargedWith(v, gone, taken, t)
<1> DEFINE q == [x \in Values |-> charged[v][x] - Times(x, gone) + Times(x, taken)]
<1>1. \A x \in Values : charged[v][x] = Times(x, texts[v])
  BY VecFacts
<1>2. \A x \in Values : q[x] = Times(x, t)
  BY <1>1
<1>3. \A x \in Values : Times(x, t) \in Int
  BY TimesType
<1>4. q \in [Values -> Int]
  BY <1>2, <1>3
<1>5. Recharged(v, gone, taken) = [charged EXCEPT ![v] = q]
  BY DEF Recharged, VecInv, TypeOK
<1> QED
  BY <1>2, <1>4, <1>5 DEF ChargedWith

-----------------------------------------------------------------------------
\* No vector changes.
Kept == VecInv' /\ texts' = texts /\ sizes' = sizes

\* An operation that leaves size, slots and charges alone keeps all vectors.
LEMMA StillKept ==
    ASSUME VecInv, UNCHANGED <<alive, s, a, charged>>,
           got' \in Values \cup {Uninit}, out' \in Outs
    PROVE  Kept
<1>1. alive' = alive /\ s' = s /\ a' = a /\ charged' = charged
  OBVIOUS
<1>2. texts' = texts /\ sizes' = sizes
  BY <1>1 DEF texts, sizes, as_ref
<1>3. TypeOK'
  BY <1>1 DEF VecInv, TypeOK, Outs
<1>4. NothingLeakedOrDroppedTwice'
  BY <1>1, <1>2 DEF VecInv, NothingLeakedOrDroppedTwice, Times
<1> QED
  BY <1>2, <1>3, <1>4 DEF Kept, VecInv

\* An operation that is refused does.
LEMMA Refuses ==
    ASSUME VecInv, NEW reason \in Outs, Refuse(reason)
    PROVE  Kept /\ out' = reason
<1>1. got \in Values \cup {Uninit}
  BY DEF VecInv, TypeOK
<1>2. UNCHANGED <<alive, s, a, charged>> /\ got' = got /\ out' = reason
  BY DEF Refuse, Unchanged
<1> QED
  BY <1>1, <1>2, StillKept

\* So does one that drops what it has built.
LEMMA Abandons ==
    ASSUME VecInv, NEW v \in Vecs, NEW built \in Seq(Values), Len(built) <= C, Abandon(v, built)
    PROVE  Kept /\ out' = "full"
<1>1. /\ got \in Values \cup {Uninit} /\ charged \in [Vecs -> [Values -> Int]]
  BY DEF VecInv, TypeOK
<1>2. UNCHANGED <<alive, s, a, got>> /\ out' = "full" /\ charged' = Recharged(v, built, built)
  <2>1. Blank \in Slots
    BY DEF Blank, Slots
  <2>2. Slice(Written(Blank, 0, built), Len(built)) = built
    BY <2>1, SliceWrittenFront
  <2>3. /\ UNCHANGED <<alive, s, a, got>> /\ out' = "full"
        /\ charged' = Recharged(v, Slice(Written(Blank, 0, built), Len(built)), built)
    BY Zenon DEF Abandon
  <2> QED
    BY <2>2, <2>3, Zenon
<1>3. \A x \in Values : Times(x, built) \in Int /\ charged[v][x] \in Int
  BY <1>1, TimesType
<1>4. [x \in Values |-> charged[v][x] - Times(x, built) + Times(x, built)] = charged[v]
  <2>1. \A x \in Values : charged[v][x] - Times(x, built) + Times(x, built) = charged[v][x]
    BY <1>3
  <2>2. charged[v] \in [Values -> Int]
    BY <1>1
  <2> QED
    BY <2>1, <2>2
<1>5. Recharged(v, built, built) = charged
  <2>1. Recharged(v, built, built) =
          [charged EXCEPT ![v] =
             [x \in Values |-> charged[v][x] - Times(x, built) + Times(x, built)]]
    BY <1>1 DEF Recharged
  <2> QED
    BY <1>1, <1>4, <2>1
<1>6. "full" \in Outs
  BY DEF Outs
<1> QED
  BY <1>1, <1>2, <1>5, <1>6, StillKept

\* The empty sequence of values.
Empty == <<>>

\* It is one, and nothing occurs in it.
LEMMA NothingInEmpty == Empty \in Seq(Values) /\ Len(Empty) = 0 /\ \A x \in Values : Times(x, Empty) = 0
<1>1. Empty \in Seq(Values) /\ Len(Empty) = 0
  BY DEF Empty
<1>2. \A x \in Values : Times(x, Empty) = 0
  BY TimesEmpty, Zenon DEF Empty
<1> QED
  BY <1>1, <1>2

\* A new ArrayVec holds what was pushed into it and is charged with that.
LEMMA Births ==
    ASSUME VecInv, NEW v \in Vecs \ alive, NEW seq \in Seq(Values), Len(seq) <= C, Born(v, seq)
    PROVE  Settled(v, seq, C) /\ out' = "ok"
<1> DEFINE m == Written(Blank, 0, seq)
           l == Len(seq)
<1>1. /\ alive' = alive \cup {v} /\ s' = [s EXCEPT ![v] = l] /\ a' = [a EXCEPT ![v] = m]
      /\ charged' = Recharged(v, Empty, seq) /\ out' = "ok" /\ got' = got
  BY DEF Born, Empty
<1>2. alive \subseteq Vecs /\ got \in Values \cup {Uninit} /\ out' \in Outs
  BY <1>1 DEF VecInv, TypeOK, Outs
<1>3. Blank \in Slots
  BY DEF Blank, Slots
<1>4. Holds(m, l) /\ Slice(m, l) = seq
  BY <1>3, SliceWrittenFront
<1> HIDE DEF m, l
<1>5. texts[v] = Empty
  BY VecFacts DEF Empty
<1>6. \A x \in Values : Times(x, seq) = Times(x, texts[v]) - Times(x, Empty) + Times(x, seq)
  <2>1. \A x \in Values : Times(x, seq) \in Int
    BY TimesType
  <2> QED
    BY <1>5, <2>1, NothingInEmpty
<1>7. PICK q \in [Values -> Int] :
         /\ Recharged(v, Empty, seq) = [charged EXCEPT ![v] = q]
         /\ \A x \in Values : q[x] = Times(x, seq)
  <2>1. ChargedWith(v, Empty, seq, seq)
    BY <1>6, NothingInEmpty, Charges
  <2> QED
    BY <2>1 DEF ChargedWith
<1>8. Stored(v, l, m, q) /\ v \in alive'
  BY <1>1, <1>2, <1>7 DEF Stored
<1>9. seq = (IF v \in alive' THEN Slice(m, l) ELSE <<>>)
  BY <1>4, <1>8
<1>10. Settled(v, seq, IF v \in alive' THEN C ELSE 0)
  BY <1>1, <1>2, <1>4, <1>7, <1>8, <1>9, StoredSettles
<1> QED
  BY <1>1, <1>8, <1>10

\* An ArrayVec that still exists and shows t is charged with t.
LEMMA LivesOn ==
    ASSUME VecInv, NEW v \in alive, NEW l, NEW m, Holds(m, l),
           NEW gone \in Seq(Values), NEW taken \in Seq(Values),
           \A x \in Values :
              Times(x, Slice(m, l)) = Times(x, texts[v]) - Times(x, gone) + Times(x, taken),
           s' = [s EXCEPT ![v] = l], a' = [a EXCEPT ![v] = m],
           charged' = Recharged(v, gone, taken), alive' = alive,
           got' \in Values \cup {Uninit}, out' \in Outs
    PROVE  Settled(v, Slice(m, l), C)
<1>1. alive \subseteq Vecs /\ v \in Vecs /\ v \in alive'
  BY DEF VecInv, TypeOK
<1> DEFINE t == Slice(m, l)
<1>2. t \in Seq(Values)
  BY SliceSeq
<1> HIDE DEF t
<1>3. PICK q \in [Values -> Int] :
         /\ Recharged(v, gone, taken) = [charged EXCEPT ![v] = q]
         /\ \A x \in Values : q[x] = Times(x, t)
  <2>1. ChargedWith(v, gone, taken, t)
    BY <1>1, <1>2, Charges DEF t
  <2> QED
    BY <2>1 DEF ChargedWith
<1>4. Stored(v, l, m, q)
  BY <1>1, <1>3 DEF Stored
<1>5. t = (IF v \in alive' THEN Slice(m, l) ELSE <<>>)
  BY <1>1 DEF t
<1>6. Settled(v, t, IF v \in alive' THEN C ELSE 0)
  BY <1>1, <1>3, <1>4, <1>5, StoredSettles
<1> QED
  BY <1>1, <1>6 DEF t

\* What is pushed comes behind what was there.
LEMMA Pushes ==
    ASSUME VecInv, NEW v \in alive, NEW seq \in Seq(Values), s[v] + Len(seq) <= C,
           Pushed(v, seq), out' \in Outs
    PROVE  Settled(v, texts[v] \o seq, C)
<1>1. alive \subseteq Vecs /\ v \in Vecs /\ got \in Values \cup {Uninit}
  BY DEF VecInv, TypeOK
<1> DEFINE l == s[v] + Len(seq)
           m == Written(a[v], s[v], seq)
           t == texts[v] \o seq
<1>2. /\ s' = [s EXCEPT ![v] = l] /\ a' = [a EXCEPT ![v] = m] /\ got' = got /\ alive' = alive
      /\ charged' = Recharged(v, Empty, seq)
  BY <1>1 DEF Pushed, Empty
<1>3. Holds(a[v], s[v]) /\ texts[v] = Slice(a[v], s[v]) /\ texts[v] \in Seq(Values)
  BY <1>1, VecFacts
<1>4. Holds(m, l) /\ Slice(m, l) = t
  <2> DEFINE k == s[v]
             z == a[v]
  <2> HIDE DEF k, z
  <2>1. Holds(z, k) /\ k + Len(seq) <= C
    BY <1>3 DEF k, z
  <2>2. /\ Holds(Written(z, k, seq), k + Len(seq))
        /\ Slice(Written(z, k, seq), k + Len(seq)) = Slice(z, k) \o seq
    BY <2>1, SliceWritten
  <2> QED
    BY <1>3, <2>2 DEF k, z
<1>5. \A x \in Values : Times(x, t) = Times(x, texts[v]) - Times(x, Empty) + Times(x, seq)
  <2> SUFFICES ASSUME NEW x \in Values
               PROVE  Times(x, t) = Times(x, texts[v]) - Times(x, Empty) + Times(x, seq)
    OBVIOUS
  <2>1. Times(x, t) = Times(x, texts[v]) + Times(x, seq)
    BY <1>3, TimesConcat
  <2>2. Times(x, texts[v]) \in Int /\ Times(x, seq) \in Int /\ Times(x, Empty) = 0
    BY <1>3, TimesType, NothingInEmpty
  <2> HIDE DEF t
  <2> QED
    BY <2>1, <2>2
<1> HIDE DEF l, m, t
<1>6. Settled(v, Slice(m, l), C)
  BY <1>1, <1>2, <1>4, <1>5, NothingInEmpty, LivesOn
<1> QED
  BY <1>4, <1>6 DEF t

\* Dropping everything settles all charges.
LEMMA AllGone ==
    ASSUME VecInv, NEW v \in alive
    PROVE  /\ v \in Vecs /\ as_ref(v) = texts[v] /\ texts[v] \in Seq(Values)
           /\ \A x \in Values : Times(x, Empty) = Times(x, texts[v]) - Times(x, texts[v]) + Times(x, Empty)
<1>1. v \in Vecs
  BY DEF VecInv, TypeOK
<1>2. as_ref(v) = texts[v] /\ texts[v] \in Seq(Values)
  BY <1>1, VecFacts
<1>3. \A x \in Values : Times(x, texts[v]) \in Int
  BY <1>2, TimesType
<1> QED
  BY <1>1, <1>2, <1>3, NothingInEmpty

\* No slots show nothing.
LEMMA NoSlots ==
    ASSUME NEW m \in Slots
    PROVE  Holds(m, 0) /\ Slice(m, 0) = Empty
<1>1. Holds(m, 0)
  BY VecAssumption DEF Holds
<1>2. Slice(m, 0) \in Seq(Values) /\ Len(Slice(m, 0)) = 0
  BY <1>1, SliceSeq
<1> QED
  BY <1>1, <1>2 DEF Empty

\* clear leaves an empty ArrayVec, charged with nothing.
LEMMA Clears ==
    ASSUME VecInv, NEW v \in alive, clear(v)
    PROVE  Settled(v, <<>>, C) /\ out' = "ok"
<1>1. /\ v \in Vecs /\ as_ref(v) = texts[v] /\ texts[v] \in Seq(Values)
      /\ \A x \in Values : Times(x, Empty) = Times(x, texts[v]) - Times(x, texts[v]) + Times(x, Empty)
  BY AllGone
<1>2. /\ charged' = Recharged(v, texts[v], Empty) /\ s' = [s EXCEPT ![v] = 0] /\ out' = "ok"
      /\ alive' = alive /\ a' = a /\ got' = got
  BY <1>1 DEF clear, Empty
<1>3. a[v] \in Slots /\ a' = [a EXCEPT ![v] = a[v]] /\ got' \in Values \cup {Uninit} /\ out' \in Outs
  BY <1>1, <1>2 DEF VecInv, TypeOK, Slots, Outs
<1>4. Holds(a[v], 0) /\ Slice(a[v], 0) = Empty
  BY <1>3, NoSlots
<1>5. Settled(v, Slice(a[v], 0), C)
  BY <1>1, <1>2, <1>3, <1>4, NothingInEmpty, LivesOn
<1> QED
  BY <1>2, <1>4, <1>5 DEF Empty

\* drop leaves no ArrayVec, charged with nothing.
LEMMA Drops ==
    ASSUME VecInv, NEW v \in alive, drop(v)
    PROVE  Settled(v, <<>>, 0) /\ out' = "ok"
<1>1. /\ v \in Vecs /\ as_ref(v) = texts[v] /\ texts[v] \in Seq(Values)
      /\ \A x \in Values : Times(x, Empty) = Times(x, texts[v]) - Times(x, texts[v]) + Times(x, Empty)
  BY AllGone
<1>2. /\ charged' = Recharged(v, texts[v], Empty) /\ s' = [s EXCEPT ![v] = 0] /\ out' = "ok"
      /\ alive' = alive \ {v} /\ a' = [a EXCEPT ![v] = Blank] /\ got' = got
  BY <1>1 DEF drop, Empty
<1>3. Blank \in Slots /\ got' \in Values \cup {Uninit} /\ out' \in Outs
  BY <1>2 DEF VecInv, TypeOK, Blank, Slots, Outs
<1>4. Holds(Blank, 0)
  BY <1>3, NoSlots
<1>5. PICK q \in [Values -> Int] :
         /\ Recharged(v, texts[v], Empty) = [charged EXCEPT ![v] = q]
         /\ \A x \in Values : q[x] = Times(x, Empty)
  <2>1. ChargedWith(v, texts[v], Empty, Empty)
    BY <1>1, NothingInEmpty, Charges
  <2> QED
    BY <2>1 DEF ChargedWith
<1>6. Stored(v, 0, Blank, q) /\ v \notin alive'
  BY <1>2, <1>5 DEF Stored, VecInv, TypeOK
<1>7. Empty = (IF v \in alive' THEN Slice(Blank, 0) ELSE <<>>)
  BY <1>6 DEF Empty
<1>8. Settled(v, Empty, IF v \in alive' THEN C ELSE 0)
  BY <1>1, <1>3, <1>4, <1>5, <1>6, <1>7, StoredSettles
<1> QED
  BY <1>2, <1>6, <1>8 DEF Empty

\* A vector that is not empty is what comes before its last element, and that.
LEMMA FrontLast ==
    ASSUME NEW m, NEW l, Holds(m, l), l # 0
    PROVE  /\ Holds(m, l - 1) /\ m[l - 1] \in Values
           /\ Slice(m, l - 1) = Front(Slice(m, l)) /\ m[l - 1] = Last(Slice(m, l))
           /\ Slice(m, l) = Slice(m, l - 1) \o <<m[l - 1]>>
<1> DEFINE t == Slice(m, l)
           k == l - 1
           u == Slice(m, k)
           y == m[k]
           w == u \o <<y>>
<1>1. l \in Nat /\ k \in Nat /\ l = k + 1 /\ k \in 0 .. (l - 1) /\ k \in 0 .. C
  BY VecAssumption DEF Holds
<1> HIDE DEF k
<1>2. Holds(m, k) /\ y \in Values
  BY <1>1 DEF Holds
<1>3. t \in Seq(Values) /\ Len(t) = l /\ \A i \in 1 .. l : t[i] = m[i - 1]
  BY SliceSeq
<1>4. u \in Seq(Values) /\ Len(u) = k /\ \A i \in 1 .. k : u[i] = m[i - 1]
  BY <1>2, SliceSeq
<1>5. (k + 1) - 1 = k
  BY <1>1
<1>6. t[l] = y
  <2>1. l \in 1 .. l /\ l - 1 = k
    BY <1>1
  <2> QED
    BY <1>3, <2>1
<1> HIDE DEF t, u, y
<1>7. /\ w \in Seq(Values) /\ Len(w) = l
      /\ \A i \in 1 .. l : w[i] = IF i <= k THEN u[i] ELSE y
  <2> DEFINE o == <<y>>
  <2>1. o \in Seq(Values) /\ Len(o) = 1 /\ o[1] = y
    BY <1>2
  <2> HIDE DEF o
  <2>2. /\ u \o o \in Seq(Values) /\ Len(u \o o) = k + 1
        /\ \A i \in 1 .. (k + 1) : (u \o o)[i] = IF i <= k THEN u[i] ELSE o[i - k]
    <3>1. u \in Seq(Values) /\ Len(u) = k
      BY <1>4
    <3>2. o \in Seq(Values) /\ Len(o) = 1
      BY <2>1
    <3>3. u \o o \in Seq(Values)
      BY <3>1, <3>2, ConcatProperties, Zenon
    <3>4. Len(u \o o) = Len(u) + Len(o)
      BY <3>1, <3>2, ConcatProperties, Zenon
    <3>5. \A i \in 1 .. (Len(u) + Len(o)) : (u \o o)[i] = IF i <= Len(u) THEN u[i] ELSE o[i - Len(u)]
      BY <3>1, <3>2, ConcatProperties, Zenon
    <3> QED
      BY <3>1, <3>2, <3>3, <3>4, <3>5
  <2>3. \A i \in 1 .. (k + 1) : ~(i <= k) => i - k = 1
    BY <1>1
  <2>4. w = u \o o
    BY DEF o
  <2> HIDE DEF w
  <2> QED
    BY <1>1, <2>1, <2>2, <2>3, <2>4
<1> HIDE DEF w
<1>8. t = w
  <2>1. \A i \in 1 .. l : t[i] = w[i]
    <3> SUFFICES ASSUME NEW i \in 1 .. l PROVE t[i] = w[i]
      OBVIOUS
    <3>1. CASE i <= k
      <4>1. i \in 1 .. k
        BY <1>1, <3>1
      <4> QED
        BY <1>3, <1>4, <1>7, <3>1, <4>1
    <3>2. CASE ~(i <= k)
      <4>1. i = l
        BY <1>1, <3>2
      <4> QED
        BY <1>6, <1>7, <3>2, <4>1
    <3> QED
      BY <3>1, <3>2
  <2> QED
    BY <1>3, <1>7, <2>1, SeqEqual
<1>9. u = Front(t)
  <2> DEFINE f == SubSeq(t, 1, k)
  <2>1. Front(t) = f
    <3>1. Len(t) - 1 = k
      BY <1>1, <1>3
    <3> QED
      BY <3>1 DEF Front
  <2>2. k <= Len(t)
    BY <1>1, <1>3
  <2>3. f \in Seq(Values) /\ Len(f) = k /\ \A i \in 1 .. k : f[i] = t[i]
    BY <1>1, <1>3, <2>2
  <2> HIDE DEF f
  <2>4. \A i \in 1 .. k : i \in 1 .. l
    BY <1>1
  <2>5. Len(u) = Len(f) /\ \A i \in 1 .. Len(u) : u[i] = f[i]
    BY <1>3, <1>4, <2>3, <2>4
  <2>6. u = f
    BY <1>4, <2>3, <2>5, SeqEqual
  <2> QED
    BY <2>1, <2>6
<1>10. y = Last(t)
  BY <1>3, <1>6 DEF Last
<1> QED
  BY <1>2, <1>8, <1>9, <1>10 DEF t, u, y, w, k

\* pop moves the last element out.
LEMMA Pops ==
    ASSUME VecInv, NEW v \in alive, pop(v), s[v] # 0
    PROVE  Settled(v, Front(texts[v]), C) /\ got' = Last(texts[v]) /\ out' = "ok"
<1> DEFINE l == s[v]
           m == a[v]
           k == l - 1
           y == m[k]
<1>1. v \in Vecs
  BY DEF VecInv, TypeOK
<1>2. Holds(m, l) /\ texts[v] = Slice(m, l) /\ texts[v] \in Seq(Values)
  BY <1>1, VecFacts
<1>3. /\ s' = [s EXCEPT ![v] = k] /\ got' = y /\ charged' = Recharged(v, <<y>>, <<>>) /\ out' = "ok"
      /\ alive' = alive /\ a' = a
  BY DEF pop
<1>4. a' = [a EXCEPT ![v] = m] /\ out' \in Outs
  BY <1>1, <1>3 DEF VecInv, TypeOK, Outs
<1>5. l # 0
  OBVIOUS
<1> HIDE DEF l, m
<1>6. /\ Holds(m, k) /\ y \in Values
      /\ Slice(m, k) = Front(texts[v]) /\ y = Last(texts[v])
      /\ texts[v] = Slice(m, k) \o <<y>>
  BY <1>2, <1>5, FrontLast
<1> HIDE DEF k, y
<1> DEFINE u == Slice(m, k)
           o == <<y>>
<1>7. u \in Seq(Values) /\ o \in Seq(Values)
  BY <1>6, SliceSeq
<1>8. texts[v] = u \o o /\ charged' = Recharged(v, o, Empty)
  BY <1>3, <1>6 DEF Empty
<1> HIDE DEF u, o
<1>9. \A x \in Values : Times(x, u) = Times(x, texts[v]) - Times(x, o) + Times(x, Empty)
  <2> SUFFICES ASSUME NEW x \in Values
               PROVE  Times(x, u) = Times(x, texts[v]) - Times(x, o) + Times(x, Empty)
    OBVIOUS
  <2>1. Times(x, texts[v]) = Times(x, u) + Times(x, o)
    BY <1>7, <1>8, TimesConcat
  <2>2. Times(x, u) \in Int /\ Times(x, o) \in Int /\ Times(x, Empty) = 0
    BY <1>7, TimesType, NothingInEmpty
  <2> QED
    BY <2>1, <2>2
<1>10. Settled(v, Slice(m, k), C)
  BY <1>3, <1>4, <1>6, <1>7, <1>8, <1>9, NothingInEmpty, LivesOn DEF u
<1> QED
  BY <1>3, <1>6, <1>10

\* pop of an empty ArrayVec gives nothing.
LEMMA PopsNothing ==
    ASSUME VecInv, NEW v \in alive, pop(v), s[v] = 0
    PROVE  Kept /\ got' = Uninit /\ out' = "ok"
<1>1. got' = Uninit /\ out' = "ok" /\ UNCHANGED <<alive, s, a, charged>>
  BY DEF pop
<1> QED
  BY <1>1, StillKept DEF Outs

\* An assignment replaces one element.
LEMMA Assigns ==
    ASSUME VecInv, NEW v \in alive, NEW i \in 0 .. (C - 1), NEW x \in Values, assign(v, i, x)
    PROVE  Settled(v, [texts[v] EXCEPT ![i + 1] = x], C) /\ i < Len(texts[v]) /\ out' = "ok"
<1> DEFINE l == s[v]
           m == a[v]
           c == [m EXCEPT ![i] = x]
           p == i + 1
           t == texts[v]
           y == [t EXCEPT ![p] = x]
           u == Slice(c, l)
<1>1. v \in Vecs
  BY DEF VecInv, TypeOK
<1>2. Holds(m, l) /\ t = Slice(m, l)
  BY <1>1, VecFacts
<1>3. /\ i < l /\ alive' = alive /\ s' = s /\ got' = got /\ out' = "ok"
      /\ charged' = Recharged(v, <<m[i]>>, <<x>>) /\ a' = [a EXCEPT ![v] = c]
  BY <1>1 DEF assign, VecInv, TypeOK
<1>4. s' = [s EXCEPT ![v] = l] /\ out' \in Outs /\ got' \in Values \cup {Uninit}
  BY <1>1, <1>3 DEF VecInv, TypeOK, Outs
<1> HIDE DEF l, m, t
<1>5. t \in Seq(Values) /\ Len(t) = l /\ l \in Nat /\ \A k \in 1 .. l : t[k] = m[k - 1]
  BY <1>2, SliceSeq
<1>6. C \in Nat /\ i \in Nat /\ p \in 1 .. Len(t) /\ p - 1 = i /\ l <= C
  BY <1>2, <1>3, <1>5, VecAssumption DEF Holds
<1>7. t[p] = m[i] /\ m[i] \in Values
  BY <1>5, <1>6
<1>8. c \in Slots /\ \A k \in 0 .. (C - 1) : c[k] = IF k = i THEN x ELSE m[k]
  BY <1>2 DEF Holds, Slots
<1> HIDE DEF c
<1>9. Holds(c, l)
  <2>1. \A k \in 0 .. (l - 1) : k \in 0 .. (C - 1)
    BY <1>5, <1>6
  <2> QED
    BY <1>2, <1>8, <2>1 DEF Holds
<1>10. u \in Seq(Values) /\ Len(u) = l /\ \A k \in 1 .. l : u[k] = c[k - 1]
  BY <1>9, SliceSeq
<1> HIDE DEF u, p
<1>11. /\ y \in Seq(Values) /\ Len(y) = Len(t)
       /\ \A k \in 1 .. Len(t) : y[k] = IF k = p THEN x ELSE t[k]
  BY <1>5, <1>6, ExceptSeq
<1> HIDE DEF y
<1>12. u = y
  <2>1. ASSUME NEW k \in 1 .. l PROVE u[k] = y[k]
    <3>1. k - 1 \in 0 .. (C - 1) /\ (k - 1 = i <=> k = p)
      BY <1>5, <1>6
    <3>2. u[k] = IF k - 1 = i THEN x ELSE m[k - 1]
      BY <1>8, <1>10, <3>1
    <3> QED
      BY <1>5, <1>11, <3>1, <3>2
  <2>2. Len(u) = Len(y) /\ \A k \in 1 .. Len(u) : u[k] = y[k]
    BY <1>5, <1>10, <1>11, <2>1
  <2> QED
    BY <1>10, <1>11, <2>2, SeqEqual
<1> DEFINE g == <<m[i]>>
           n == <<x>>
<1>13. g \in Seq(Values) /\ n \in Seq(Values) /\ g = <<t[p]>>
  BY <1>7
<1>14. \A z \in Values : Times(z, y) = Times(z, t) - Times(z, <<t[p]>>) + Times(z, n)
  <2>1. \A z \in Values : Replaced(z, t, p, x)
    BY <1>5, <1>6, TimesPut
  <2> QED
    BY <2>1 DEF Replaced, y
<1> HIDE DEF g, n
<1>15. \A z \in Values : Times(z, u) = Times(z, texts[v]) - Times(z, g) + Times(z, n)
  <2>1. \A z \in Values : Times(z, <<t[p]>>) = Times(z, g)
    BY <1>13, Zenon
  <2> QED
    BY <1>12, <1>14, <2>1 DEF t
<1>16. charged' = Recharged(v, g, n)
  BY <1>3 DEF g, n
<1>17. Settled(v, Slice(c, l), C)
  BY <1>3, <1>4, <1>9, <1>13, <1>15, <1>16, LivesOn DEF u
<1> QED
  BY <1>3, <1>5, <1>12, <1>17 DEF u, y, p, t

\* sort replaces the elements by the sorted ones and owes nothing for it.
LEMMA Sorts ==
    ASSUME VecInv, NEW v \in alive, sort(v)
    PROVE  Settled(v, SortedSlice(texts[v]), C) /\ texts[v] \in Seq(Values) /\ out' = "ok"
<1> DEFINE l == s[v]
           m == a[v]
           t == texts[v]
           z == SortedSlice(t)
           c == Written(m, 0, z)
<1>1. v \in Vecs
  BY DEF VecInv, TypeOK
<1>2. Holds(m, l) /\ t = Slice(m, l) /\ as_ref(v) = t
  BY <1>1, VecFacts
<1>3. /\ a' = [a EXCEPT ![v] = c] /\ out' = "ok" /\ alive' = alive /\ s' = s
      /\ charged' = charged /\ got' = got
  BY <1>1, <1>2 DEF sort
<1>4. s' = [s EXCEPT ![v] = l] /\ out' \in Outs /\ got' \in Values \cup {Uninit}
  BY <1>1, <1>3 DEF VecInv, TypeOK, Outs
<1> HIDE DEF l, m, t
<1>5. t \in Seq(Values) /\ Len(t) = l /\ l <= C /\ m \in Slots
  <2>1. t \in Seq(Values) /\ Len(t) = l
    BY <1>2, SliceSeq
  <2> QED
    BY <1>2, <2>1, VecAssumption DEF Holds
<1>6. z \in Seq(Values) /\ Len(z) = l
  BY <1>5, SortedBelongs
<1>7. \A x \in Values : Times(x, z) = Times(x, t)
  BY <1>5, SortKeeps
<1> HIDE DEF z
<1>8. Holds(c, l) /\ Slice(c, l) = z
  BY <1>5, <1>6, SliceWrittenFront
<1> HIDE DEF c
<1> DEFINE q == charged[v]
<1>9. q \in [Values -> Int] /\ charged' = [charged EXCEPT ![v] = q] /\ alive \subseteq Vecs
  BY <1>1, <1>3 DEF VecInv, TypeOK
<1>10. \A x \in Values : q[x] = Times(x, z)
  BY <1>1, <1>7, VecFacts DEF t
<1> HIDE DEF q
<1>11. Stored(v, l, c, q) /\ v \in alive'
  BY <1>3, <1>4, <1>9 DEF Stored
<1>12. z = (IF v \in alive' THEN Slice(c, l) ELSE <<>>)
  BY <1>8, <1>11
<1>13. Settled(v, z, IF v \in alive' THEN C ELSE 0)
  BY <1>1, <1>4, <1>8, <1>9, <1>10, <1>11, <1>12, StoredSettles
<1> QED
  BY <1>3, <1>5, <1>11, <1>13 DEF z, t

\* The smaller of two numbers.
LEMMA MinTwo ==
    ASSUME NEW p \in Int, NEW q \in Int
    PROVE  Min({p, q}) = IF p <= q THEN p ELSE q
<1> DEFINE Q == {p, q}
           m == Min(Q)
<1>1. \E x \in Q : \A y \in Q : x <= y
  OBVIOUS
<1>2. m \in Q /\ \A y \in Q : m <= y
  <2> HIDE DEF Q
  <2> QED
    BY <1>1 DEF Min
<1> HIDE DEF m
<1>3. m = IF p <= q THEN p ELSE q
  BY <1>2
<1> QED
  BY <1>3 DEF m

\* A prefix of an input.
LEMMA Prefix ==
    ASSUME NEW seq \in Seq(Values), NEW n \in 0 .. Len(seq)
    PROVE  SubSeq(seq, 1, n) \in Seq(Values) /\ Len(SubSeq(seq, 1, n)) = n
OBVIOUS

\* write keeps a prefix, cut only where the ArrayVec is full.
LEMMA Writes ==
    ASSUME VecInv, NEW v \in alive, NEW seq \in Seq(Values), write(v, seq)
    PROVE  \E n \in 0 .. Len(seq) :
              /\ Settled(v, texts[v] \o SubSeq(seq, 1, n), C)
              /\ s'[v] = C \/ n = Len(seq)
              /\ out' = IF n = Len(seq) THEN "ok" ELSE "full"
<1> DEFINE L == Len(seq)
           k == s[v]
           n == Min({L, C - k})
           f == SubSeq(seq, 1, n)
<1>1. v \in Vecs /\ s \in [Vecs -> 0 .. C] /\ C \in Nat
  BY VecAssumption DEF VecInv, TypeOK
<1>2. L \in Nat /\ k \in 0 .. C /\ C - k \in Int
  BY <1>1
<1>3. Pushed(v, f) /\ out' = IF L <= C - k THEN "ok" ELSE "full"
  BY DEF write, Fitting
<1> HIDE DEF L, k
<1>4. n = IF L <= C - k THEN L ELSE C - k
  BY <1>2, MinTwo
<1> HIDE DEF n
<1>5. n \in 0 .. L /\ k + n <= C /\ (L <= C - k <=> n = L) /\ (n # L => k + n = C)
  BY <1>1, <1>2, <1>4
<1>6. f \in Seq(Values) /\ Len(f) = n
  BY <1>5, Prefix DEF L
<1> HIDE DEF f
<1>7. out' \in Outs /\ out' = IF n = L THEN "ok" ELSE "full"
  BY <1>3, <1>5 DEF Outs
<1>8. s[v] + Len(f) <= C
  BY <1>5, <1>6 DEF k
<1>9. Settled(v, texts[v] \o f, C)
  BY <1>3, <1>6, <1>7, <1>8, Pushes
<1>10. s'[v] = k + n
  BY <1>1, <1>3, <1>6 DEF Pushed, k
<1> QED
  BY <1>5, <1>7, <1>9, <1>10 DEF f, L

-----------------------------------------------------------------------------
\* The sequences that callers pass in.
LEMMA InputSeq == \A seq \in Inputs : seq \in Seq(Values) /\ Len(seq) \in Nat
<1>1. \A seq \in Inputs : seq \in Seq(Values)
  BY VecAssumption
<1> QED
  BY <1>1

\* What is moved out of a source that is too long, or fails.
LEMMA Built ==
    ASSUME NEW seq \in Seq(Values)
    PROVE  /\ SubSeq(seq, 1, Min({Len(seq), C})) \in Seq(Values)
           /\ Len(SubSeq(seq, 1, Min({Len(seq), C}))) <= C
           /\ ~(Len(seq) <= C) => /\ SubSeq(seq, 1, C) \in Seq(Values)
                                  /\ Len(SubSeq(seq, 1, C)) <= C
<1> DEFINE n == Min({Len(seq), C})
<1>1. C \in Nat /\ Len(seq) \in Nat
  BY VecAssumption
<1>2. n = IF Len(seq) <= C THEN Len(seq) ELSE C
  BY <1>1, MinTwo
<1> HIDE DEF n
<1>3. n \in 0 .. Len(seq)
  BY <1>1, <1>2
<1>4. SubSeq(seq, 1, n) \in Seq(Values) /\ Len(SubSeq(seq, 1, n)) <= C
  BY <1>1, <1>2, <1>3, Prefix
<1>5. ~(Len(seq) <= C) => C \in 0 .. Len(seq)
  BY <1>1
<1>6. ~(Len(seq) <= C) => SubSeq(seq, 1, C) \in Seq(Values) /\ Len(SubSeq(seq, 1, C)) <= C
  BY <1>1, <1>5, Prefix
<1> QED
  BY <1>4, <1>6 DEF n

\* A constructor gives an ArrayVec with all of seq or, if that does not fit,
\* none.
Made(v, seq, fits, reason) ==
    IF fits THEN Settled(v, seq, C) /\ out' = "ok" ELSE Kept /\ out' = reason

\* new, clone, from, try_from and deserialisation are such constructors.
LEMMA Makes ==
    ASSUME VecInv, NEW v \in Vecs \ alive
    PROVE  /\ new(v) => Made(v, <<>>, TRUE, "ok")
           /\ \A w \in alive : clone(v, w) => Made(v, as_ref(w), TRUE, "ok")
           /\ \A seq \in Inputs :
                /\ from(v, seq) => Made(v, seq, Len(seq) <= C, "panic")
                /\ try_from(v, seq) => Made(v, seq, Len(seq) <= C, "full")
                /\ \A fails \in BOOLEAN :
                     visit_seq(v, seq, fails) => Made(v, seq, Len(seq) <= C /\ ~fails, "full")
<1>1. ASSUME new(v) PROVE Made(v, <<>>, TRUE, "ok")
  <2>1. Empty \in Seq(Values) /\ Len(Empty) <= C /\ Born(v, Empty)
    BY <1>1, NothingInEmpty, VecAssumption DEF new, Empty
  <2>2. Settled(v, Empty, C) /\ out' = "ok"
    BY <2>1, Births
  <2> QED
    BY <2>2 DEF Made, Empty
<1>2. ASSUME NEW w \in alive, clone(v, w) PROVE Made(v, as_ref(w), TRUE, "ok")
  <2>1. w \in Vecs
    BY DEF VecInv, TypeOK
  <2>2. Holds(a[w], s[w]) /\ as_ref(w) = Slice(a[w], s[w])
    BY <2>1, VecFacts
  <2>3. as_ref(w) \in Seq(Values) /\ Len(as_ref(w)) = s[w]
    BY <2>2, SliceSeq
  <2>4. s[w] <= C
    BY <2>2, VecAssumption DEF Holds
  <2>5. Born(v, as_ref(w)) /\ Len(as_ref(w)) <= C
    BY <1>2, <2>3, <2>4 DEF clone
  <2>6. Settled(v, as_ref(w), C) /\ out' = "ok"
    BY <2>3, <2>5, Births
  <2> QED
    BY <2>6 DEF Made
<1>3. ASSUME NEW seq \in Inputs
      PROVE  /\ from(v, seq) => Made(v, seq, Len(seq) <= C, "panic")
             /\ try_from(v, seq) => Made(v, seq, Len(seq) <= C, "full")
             /\ \A fails \in BOOLEAN :
                  visit_seq(v, seq, fails) => Made(v, seq, Len(seq) <= C /\ ~fails, "full")
  <2>1. seq \in Seq(Values)
    BY InputSeq
  <2>2. /\ SubSeq(seq, 1, Min({Len(seq), C})) \in Seq(Values)
        /\ Len(SubSeq(seq, 1, Min({Len(seq), C}))) <= C
        /\ ~(Len(seq) <= C) => /\ SubSeq(seq, 1, C) \in Seq(Values)
                               /\ Len(SubSeq(seq, 1, C)) <= C
    BY <2>1, Built
  <2>3. Len(seq) <= C /\ Born(v, seq) => Settled(v, seq, C) /\ out' = "ok"
    BY <2>1, Births
  <2>4. Refuse("panic") => Kept /\ out' = "panic"
    BY Refuses DEF Outs
  <2>5. \A built \in Seq(Values) : Len(built) <= C /\ Abandon(v, built) => Kept /\ out' = "full"
    BY Abandons
  <2>6. from(v, seq) => Made(v, seq, Len(seq) <= C, "panic")
    BY <2>3, <2>4 DEF from, Made
  <2>7. try_from(v, seq) => Made(v, seq, Len(seq) <= C, "full")
    BY <2>2, <2>3, <2>5 DEF try_from, Made
  <2>8. ASSUME NEW fails \in BOOLEAN, visit_seq(v, seq, fails)
        PROVE  Made(v, seq, Len(seq) <= C /\ ~fails, "full")
    BY <2>2, <2>3, <2>5, <2>8 DEF visit_seq, Made
  <2> QED
    BY <2>6, <2>7, <2>8
<1> QED
  BY <1>1, <1>2, <1>3

\* Pushing gives an ArrayVec with all of seq behind what was there or, if that
\* does not fit, none of it.
Extended(v, seq, reason) ==
    IF s[v] + Len(seq) <= C THEN Settled(v, texts[v] \o seq, C) /\ out' = "ok"
    ELSE Kept /\ out' = reason

\* push, try_push and push_slice do.
LEMMA Extends ==
    ASSUME VecInv, NEW v \in alive
    PROVE  /\ \A x \in Values : /\ push(v, x) => Extended(v, <<x>>, "panic")
                                /\ try_push(v, x) => Extended(v, <<x>>, "full")
           /\ \A seq \in Inputs : push_slice(v, seq) => Extended(v, seq, "panic")
<1>0. "ok" \in Outs /\ "full" \in Outs /\ "panic" \in Outs
  BY DEF Outs
<1>1. s[v] \in Nat /\ C \in Nat
  BY VecAssumption DEF VecInv, TypeOK
<1>2. ASSUME NEW x \in Values, NEW reason \in Outs,
             IF s[v] < C THEN Pushed(v, <<x>>) /\ out' = "ok" ELSE Refuse(reason)
      PROVE  Extended(v, <<x>>, reason)
  <2> DEFINE o == <<x>>
  <2>1. o \in Seq(Values) /\ Len(o) = 1
    OBVIOUS
  <2> HIDE DEF o
  <2>2. s[v] < C <=> s[v] + Len(o) <= C
    BY <1>1, <2>1
  <2>3. CASE s[v] < C
    <3>1. Pushed(v, o) /\ out' = "ok"
      BY <1>2, <2>3 DEF o
    <3>2. Settled(v, texts[v] \o o, C)
      BY <1>0, <2>1, <2>2, <2>3, <3>1, Pushes
    <3> QED
      BY <2>2, <2>3, <3>1, <3>2 DEF Extended, o
  <2>4. CASE ~(s[v] < C)
    <3>1. Kept /\ out' = reason
      BY <1>2, <2>4, Refuses
    <3> QED
      BY <2>2, <2>4, <3>1 DEF Extended, o
  <2> QED
    BY <2>3, <2>4
<1>3. ASSUME NEW seq \in Inputs, push_slice(v, seq) PROVE Extended(v, seq, "panic")
  <2>1. seq \in Seq(Values)
    BY InputSeq
  <2>2. CASE s[v] + Len(seq) <= C
    <3>1. Pushed(v, seq) /\ out' = "ok"
      BY <1>3, <2>2 DEF push_slice
    <3> QED
      BY <1>0, <2>1, <2>2, <3>1, Pushes DEF Extended
  <2>3. CASE ~(s[v] + Len(seq) <= C)
    BY <1>0, <1>3, <2>3, Refuses DEF push_slice, Extended
  <2> QED
    BY <2>2, <2>3
<1>4. ASSUME NEW x \in Values
      PROVE  /\ push(v, x) => Extended(v, <<x>>, "panic")
             /\ try_push(v, x) => Extended(v, <<x>>, "full")
  <2>1. push(v, x) => Extended(v, <<x>>, "panic")
    BY <1>0, <1>2 DEF push
  <2>2. try_push(v, x) => Extended(v, <<x>>, "full")
    BY <1>0, <1>2 DEF try_push
  <2> QED
    BY <2>1, <2>2
<1> QED
  BY <1>3, <1>4

-----------------------------------------------------------------------------
\* No ArrayVec exists at first, and none is charged.
LEMMA InitVecInv == Init => VecInv
<1> SUFFICES ASSUME Init PROVE VecInv
  OBVIOUS
<1>1. /\ alive = {} /\ s = [v \in Vecs |-> 0] /\ a = [v \in Vecs |-> Blank]
      /\ charged = [v \in Vecs |-> [x \in Values |-> 0]] /\ got = Uninit /\ out = "ok"
  BY DEF Init
<1>2. TypeOK
  <2>1. \A i \in 0 .. (0 - 1) : FALSE
    OBVIOUS
  <2>2. Blank \in [0 .. (C - 1) -> Values \cup {Uninit}]
    BY DEF Blank
  <2>3. 0 \in 0 .. C
    BY VecAssumption
  <2>4. \A v \in Vecs : \A i \in 0 .. (s[v] - 1) : a[v][i] # Uninit
    BY <1>1, <2>1
  <2> QED
    BY <1>1, <2>2, <2>3, <2>4 DEF TypeOK
<1>3. ASSUME NEW v \in Vecs, NEW x \in Values PROVE charged[v][x] = Times(x, texts[v])
  <2>1. texts[v] = Empty /\ charged[v][x] = 0
    BY <1>1 DEF texts, as_ref, Empty
  <2> QED
    BY <2>1, NothingInEmpty
<1> QED
  BY <1>2, <1>3 DEF VecInv, NothingLeakedOrDroppedTwice

\* Every operation keeps the invariant.
LEMMA NextVecInv == VecInv /\ [Next]_vars => VecInv'
<1> SUFFICES ASSUME VecInv, [Next]_vars PROVE VecInv'
  OBVIOUS
<1>1. ASSUME NEW v \in Vecs \ alive, Create(v) PROVE VecInv'
  <2>1. \A seq, fits, reason : Made(v, seq, fits, reason) => VecInv'
    BY DEF Made, Settled, Kept
  <2>2. CASE new(v)
    BY <2>1, <2>2, Makes
  <2>3. CASE \E w \in alive : clone(v, w)
    BY <2>1, <2>3, Makes
  <2>4. CASE \E seq \in Inputs : from(v, seq) \/ try_from(v, seq)
    BY <2>1, <2>4, Makes
  <2>5. CASE \E seq \in Inputs, fails \in BOOLEAN : visit_seq(v, seq, fails)
    <3>1. PICK seq \in Inputs, fails \in BOOLEAN : visit_seq(v, seq, fails)
      BY <2>5
    <3>2. Made(v, seq, Len(seq) <= C /\ ~fails, "full")
      BY <3>1, Makes
    <3> QED
      BY <3>2 DEF Made, Settled, Kept
  <2> QED
    BY <1>1, <2>2, <2>3, <2>4, <2>5 DEF Create
<1>2. ASSUME NEW v \in alive, Use(v) PROVE VecInv'
  <2>1. CASE pop(v)
    BY <2>1, Pops, PopsNothing DEF Settled, Kept
  <2>2. CASE clear(v)
    BY <2>2, Clears DEF Settled
  <2>3. CASE drop(v)
    BY <2>3, Drops DEF Settled
  <2>4. CASE sort(v)
    BY <2>4, Sorts DEF Settled
  <2>5. CASE \E x \in Values : push(v, x) \/ try_push(v, x)
    BY <2>5, Extends DEF Extended, Settled, Kept
  <2>6. CASE \E x \in Values, i \in 0 .. (C - 1) : assign(v, i, x)
    BY <2>6, Assigns DEF Settled
  <2>7. CASE \E seq \in Inputs : push_slice(v, seq) \/ write(v, seq)
    <3>1. PICK seq \in Inputs : push_slice(v, seq) \/ write(v, seq)
      BY <2>7
    <3>2. CASE push_slice(v, seq)
      BY <3>2, Extends DEF Extended, Settled, Kept
    <3>3. CASE write(v, seq)
      <4>1. seq \in Seq(Values)
        BY InputSeq
      <4> QED
        BY <3>3, <4>1, Writes DEF Settled
    <3> QED
      BY <3>1, <3>2, <3>3
  <2> QED
    BY <1>2, <2>1, <2>2, <2>3, <2>4, <2>5, <2>6, <2>7 DEF Use
<1>3. CASE UNCHANGED vars
  <2>1. UNCHANGED <<alive, s, a, charged>> /\ got' = got /\ out' = out
    BY <1>3 DEF vars
  <2>2. got \in Values \cup {Uninit} /\ out \in Outs
    BY DEF VecInv, TypeOK, Outs
  <2> QED
    BY <2>1, <2>2, StillKept DEF Kept
<1> QED
  BY <1>1, <1>2, <1>3 DEF Next

\* Slots below the size are always initialised, and each ArrayVec is charged
\* with exactly what it shows: as_ref() and pop() (arrayvec.rs), which read
\* slots without a check, only meet values that are owed exactly once.
THEOREM VecInvariance == Spec => []VecInv
BY InitVecInv, NextVecInv, PTL DEF Spec

\* Sizes and slots keep their types, and every slot below the size is
\* initialised when as_ref() and pop() read it.
THEOREM VecTypeCorrect == Spec => []TypeOK
<1>1. VecInv => TypeOK
  BY DEF VecInv
<1> QED
  BY <1>1, VecInvariance, PTL

\* Every value moved or cloned into an ArrayVec is still in it, or has been
\* dropped or moved out exactly once: by pop, clear, drop, an assignment, and
\* the error paths of try_from and of deserialisation.
THEOREM ChargesSettled == Spec => []NothingLeakedOrDroppedTwice
<1>1. VecInv => NothingLeakedOrDroppedTwice
  BY DEF VecInv
<1> QED
  BY <1>1, VecInvariance, PTL

-----------------------------------------------------------------------------
\* In the terms of BoundedVecs: an operation that leaves all vectors alone
\* refuses, one that settles a new ArrayVec creates a vector, and one that
\* settles an existing ArrayVec gives its vector new contents or destroys it.
LEMMA AbsSteps ==
    ASSUME VecInv, C # 0, NEW v \in Vecs
    PROVE  /\ \A reason : Kept /\ out' = reason => Abs!Refused(reason)
           /\ \A t : v \notin alive /\ Len(t) <= C /\ Settled(v, t, C) /\ out' = "ok"
                       => Abs!Create(v, C, t)
           /\ \A t : v \in alive /\ Settled(v, t, C) /\ out' = "ok" => Abs!Become(v, t)
           /\ v \in alive /\ Settled(v, <<>>, 0) /\ out' = "ok" => Abs!Destroy(v)
<1>1. C \in Nat /\ C > 0
  BY VecAssumption
<1>2. sizes[v] = (IF v \in alive THEN C ELSE 0) /\ sizes \in [Vecs -> {0, C}]
  BY DEF sizes
<1>3. ASSUME NEW reason, Kept, out' = reason PROVE Abs!Refused(reason)
  BY <1>3 DEF Kept, Abs!Refused
<1>4. ASSUME NEW t, v \notin alive, Len(t) <= C, Settled(v, t, C), out' = "ok"
      PROVE  Abs!Create(v, C, t)
  BY <1>1, <1>2, <1>4 DEF Settled, Abs!Create
<1>5. ASSUME NEW t, v \in alive, Settled(v, t, C), out' = "ok" PROVE Abs!Become(v, t)
  <2>1. [sizes EXCEPT ![v] = C] = sizes
    BY <1>2, <1>5
  <2> QED
    BY <1>1, <1>2, <1>5, <2>1 DEF Settled, Abs!Become
<1>6. ASSUME v \in alive, Settled(v, <<>>, 0), out' = "ok" PROVE Abs!Destroy(v)
  BY <1>1, <1>2, <1>6 DEF Settled, Abs!Destroy
<1> QED
  BY <1>3, <1>4, <1>5, <1>6

\* What an existing ArrayVec shows, in terms of its size.
LEMMA Shows ==
    ASSUME VecInv, NEW v \in alive
    PROVE  /\ v \in Vecs /\ as_ref(v) = texts[v] /\ texts[v] \in Seq(Values)
           /\ Len(texts[v]) = s[v] /\ sizes[v] = C /\ s[v] \in 0 .. C
<1>1. v \in Vecs
  BY DEF VecInv, TypeOK
<1>2. /\ Holds(a[v], s[v]) /\ as_ref(v) = Slice(a[v], s[v]) /\ texts[v] = Slice(a[v], s[v])
      /\ sizes[v] = C /\ texts[v] \in Seq(Values)
  BY <1>1, VecFacts
<1>3. Len(Slice(a[v], s[v])) = s[v]
  BY <1>2, SliceSeq
<1> QED
  BY <1>1, <1>2, <1>3 DEF Holds

\* sort leaves the same elements in ascending order.
LEMMA SortsInPlace ==
    ASSUME VecInv, C # 0, NEW v \in alive, sort(v)
    PROVE  SortedInPlace(v)
<1> DEFINE t == texts[v]
           z == SortedSlice(t)
<1>1. v \in Vecs /\ t \in Seq(Values) /\ Settled(v, z, C) /\ out' = "ok"
  BY Sorts, Shows
<1>2. texts' = [texts EXCEPT ![v] = z] /\ DOMAIN texts = Vecs
  <2>1. DOMAIN texts = Vecs
    BY DEF texts, as_ref
  <2> QED
    BY <1>1, <2>1 DEF Settled
<1>3. texts'[v] = z
  <2> HIDE DEF z
  <2> QED
    BY <1>1, <1>2
<1>4. Len(z) = Len(t) /\ \A i, j \in 1 .. Len(t) : i < j => z[i] <= z[j]
  BY <1>1, SortedBelongs, SortOrders
<1>5. \A x \in Values : Times(x, z) = Times(x, t)
  BY <1>1, SortKeeps
<1>6. Abs!Become(v, z)
  BY <1>1, AbsSteps
<1> HIDE DEF z
<1>7. \A i, j \in 1 .. Len(z) : i < j => z[i] <= z[j]
  BY <1>4
<1>8. Abs!Become(v, texts'[v]) /\ \A x \in Values : Times(x, texts'[v]) = Times(x, texts[v])
  BY <1>3, <1>5, <1>6, Zenon
<1>9. \A i, j \in 1 .. Len(texts'[v]) : i < j => texts'[v][i] <= texts'[v][j]
  BY <1>3, <1>7, Zenon
<1> QED
  BY <1>8, <1>9 DEF SortedInPlace, IsSorted

\* write leaves a prefix behind.
LEMMA WritesPrefix ==
    ASSUME VecInv, NEW v \in alive, NEW seq \in Inputs, write(v, seq)
    PROVE  ExtendByPrefix(v, seq)
<1>1. seq \in Seq(Values)
  BY InputSeq
<1>2. PICK n \in 0 .. Len(seq) :
         /\ Settled(v, texts[v] \o SubSeq(seq, 1, n), C)
         /\ s'[v] = C \/ n = Len(seq)
         /\ out' = IF n = Len(seq) THEN "ok" ELSE "full"
  BY <1>1, Writes
<1> DEFINE f == SubSeq(seq, 1, n)
<1>3. v \in Vecs /\ sizes[v] = C /\ DOMAIN texts = Vecs
  BY Shows DEF texts, as_ref
<1>4. /\ texts' = [texts EXCEPT ![v] = texts[v] \o f] /\ sizes' = [sizes EXCEPT ![v] = C]
  BY <1>2 DEF Settled
<1>5. sizes' = sizes
  <2>1. [sizes EXCEPT ![v] = C] = sizes
    BY <1>3 DEF sizes
  <2> QED
    BY <1>4, <2>1
<1> HIDE DEF f
<1>6. texts' = [texts EXCEPT ![v] = @ \o f]
  BY <1>4
<1> QED
  BY <1>2, <1>5, <1>6 DEF ExtendByPrefix, f

\* Every operation of every ArrayVec does what BoundedVecs says: it shows
\* exactly what was put in, refuses what does not fit without a change, sorts
\* in place, and touches no other ArrayVec.  (A capacity of 0 is left out only
\* because BoundedVecs takes size 0 for a vector that does not exist.)
THEOREM VecUsesRefine ==
    ASSUME C # 0
    PROVE  Spec => UsesImplement
<1> DEFINE Makings(v) ==
      /\ new(v) => Abs!Create(v, C, <<>>)
      /\ \A w \in alive : clone(v, w) => Abs!Create(v, C, as_ref(w))
      /\ \A seq \in Inputs :
           /\ from(v, seq) => IF Len(seq) <= C THEN Abs!Create(v, C, seq)
                                               ELSE Abs!Refused("panic")
           /\ try_from(v, seq) => IF Len(seq) <= C THEN Abs!Create(v, C, seq)
                                                   ELSE Abs!Refused("full")
           /\ \A fails \in BOOLEAN : visit_seq(v, seq, fails) =>
                IF Len(seq) <= C /\ ~fails THEN Abs!Create(v, C, seq)
                                          ELSE Abs!Refused("full")
           Uses(v) ==
      /\ clear(v) => Abs!Become(v, <<>>)
      /\ drop(v) => Abs!Destroy(v)
      /\ sort(v) => SortedInPlace(v)
      /\ pop(v) => IF s[v] = 0 THEN Abs!Refused("ok") /\ got' = Uninit
                   ELSE Abs!Become(v, Front(as_ref(v))) /\ got' = Last(as_ref(v))
      /\ \A x \in Values : push(v, x) => ExtendOrPanic(v, <<x>>)
      /\ \A x \in Values : try_push(v, x) => Abs!Extend(v, <<x>>)
      /\ \A x \in Values, i \in 0 .. (C - 1) : assign(v, i, x) => Abs!Put(v, i, x)
      /\ \A seq \in Inputs : push_slice(v, seq) => ExtendOrPanic(v, seq)
      /\ \A seq \in Inputs : write(v, seq) => ExtendByPrefix(v, seq)
<1>1. ASSUME VecInv, NEW v \in Vecs \ alive PROVE Makings(v)
  <2>1. ASSUME NEW seq, NEW fits, NEW reason, Made(v, seq, fits, reason), fits => Len(seq) <= C
        PROVE  IF fits THEN Abs!Create(v, C, seq) ELSE Abs!Refused(reason)
    BY <1>1, <2>1, AbsSteps DEF Made
  <2>2. ASSUME new(v) PROVE Abs!Create(v, C, <<>>)
    <3>1. Made(v, Empty, TRUE, "ok")
      BY <1>1, <2>2, Makes DEF Empty
    <3>2. Len(Empty) <= C
      BY NothingInEmpty, VecAssumption
    <3>3. Abs!Create(v, C, Empty)
      BY <2>1, <3>1, <3>2
    <3> QED
      BY <3>3 DEF Empty
  <2>3. ASSUME NEW w \in alive, clone(v, w) PROVE Abs!Create(v, C, as_ref(w))
    <3>1. Made(v, as_ref(w), TRUE, "ok")
      BY <1>1, <2>3, Makes
    <3>2. Len(as_ref(w)) <= C
      <4>1. as_ref(w) = texts[w] /\ Len(texts[w]) = s[w] /\ s[w] \in 0 .. C
        BY <1>1, Shows
      <4> QED
        BY <4>1, VecAssumption
    <3> QED
      BY <2>1, <3>1, <3>2
  <2>4. ASSUME NEW seq \in Inputs, from(v, seq)
        PROVE  IF Len(seq) <= C THEN Abs!Create(v, C, seq) ELSE Abs!Refused("panic")
    <3>1. Made(v, seq, Len(seq) <= C, "panic")
      BY <1>1, <2>4, Makes
    <3> QED
      BY <1>1, <3>1, AbsSteps DEF Made
  <2>5. ASSUME NEW seq \in Inputs, try_from(v, seq)
        PROVE  IF Len(seq) <= C THEN Abs!Create(v, C, seq) ELSE Abs!Refused("full")
    <3>1. Made(v, seq, Len(seq) <= C, "full")
      BY <1>1, <2>5, Makes
    <3> QED
      BY <1>1, <3>1, AbsSteps DEF Made
  <2>6. ASSUME NEW seq \in Inputs, NEW fails \in BOOLEAN, visit_seq(v, seq, fails)
        PROVE  IF Len(seq) <= C /\ ~fails THEN Abs!Create(v, C, seq) ELSE Abs!Refused("full")
    <3>1. Made(v, seq, Len(seq) <= C /\ ~fails, "full")
      BY <1>1, <2>6, Makes
    <3> QED
      BY <1>1, <3>1, AbsSteps DEF Made
  <2> QED
    BY <2>2, <2>3, <2>4, <2>5, <2>6
<1>2. ASSUME VecInv, NEW v \in alive PROVE Uses(v)
  <2>1. /\ v \in Vecs /\ as_ref(v) = texts[v] /\ Len(texts[v]) = s[v] /\ sizes[v] = C
        /\ s[v] \in Nat
    <3>1. s[v] \in 0 .. C /\ C \in Nat
      BY <1>2, Shows, VecAssumption
    <3> QED
      BY <1>2, <3>1, Shows
  <2>2. /\ \A reason : Kept /\ out' = reason => Abs!Refused(reason)
        /\ \A t : Settled(v, t, C) /\ out' = "ok" => Abs!Become(v, t)
        /\ Settled(v, <<>>, 0) /\ out' = "ok" => Abs!Destroy(v)
    BY <1>2, <2>1, AbsSteps
  <2>3. (clear(v) => Abs!Become(v, <<>>)) /\ (drop(v) => Abs!Destroy(v))
    BY <1>2, <2>2, Clears, Drops
  <2>4. sort(v) => SortedInPlace(v)
    BY <1>2, SortsInPlace
  <2>5. ASSUME pop(v)
        PROVE  IF s[v] = 0 THEN Abs!Refused("ok") /\ got' = Uninit
               ELSE Abs!Become(v, Front(as_ref(v))) /\ got' = Last(as_ref(v))
    <3>1. CASE s[v] = 0
      BY <1>2, <2>2, <2>5, <3>1, PopsNothing
    <3>2. CASE s[v] # 0
      <4>1. Settled(v, Front(texts[v]), C) /\ got' = Last(texts[v]) /\ out' = "ok"
        BY <1>2, <2>5, <3>2, Pops
      <4> QED
        BY <2>1, <2>2, <3>2, <4>1
    <3> QED
      BY <3>1, <3>2
  <2>6. ASSUME NEW seq, Extended(v, seq, "panic") PROVE ExtendOrPanic(v, seq)
    BY <2>1, <2>2, <2>6 DEF Extended, ExtendOrPanic
  <2>7. ASSUME NEW seq, Extended(v, seq, "full") PROVE Abs!Extend(v, seq)
    BY <2>1, <2>2, <2>7 DEF Extended, Abs!Extend
  <2>8. ASSUME NEW x \in Values, NEW i \in 0 .. (C - 1), assign(v, i, x) PROVE Abs!Put(v, i, x)
    <3>1. Settled(v, [texts[v] EXCEPT ![i + 1] = x], C) /\ i < Len(texts[v]) /\ out' = "ok"
      BY <1>2, <2>8, Assigns
    <3>2. ~(i >= Len(texts[v]))
      BY <2>1, <3>1
    <3> QED
      BY <2>2, <3>1, <3>2 DEF Abs!Put
  <2>9. \A seq \in Inputs : write(v, seq) => ExtendByPrefix(v, seq)
    BY <1>2, WritesPrefix
  <2>10. \A x \in Values : push(v, x) => ExtendOrPanic(v, <<x>>)
    BY <1>2, <2>6, Extends
  <2>11. \A x \in Values : try_push(v, x) => Abs!Extend(v, <<x>>)
    BY <1>2, <2>7, Extends
  <2>12. \A seq \in Inputs : push_slice(v, seq) => ExtendOrPanic(v, seq)
    BY <1>2, <2>6, Extends
  <2> QED
    BY <2>3, <2>4, <2>5, <2>8, <2>9, <2>10, <2>11, <2>12
<1>3. VecInv /\ [Next]_vars =>
        [(\A v \in Vecs \ alive : Makings(v)) /\ (\A v \in alive : Uses(v))]_vars
  <2> HIDE DEF Makings, Uses
  <2> QED
    BY <1>1, <1>2
<1> QED
  BY <1>3, VecInvariance, PTL DEF Spec, UsesImplement
=============================================================================
