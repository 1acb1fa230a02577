--------------------------- MODULE IntegerLemmas ---------------------------
(***************************************************************************)
(* Facts about integers that the provers do not find by themselves:        *)
(* quotients and remainders by a divisor that is a parameter, and          *)
(* induction.                                                              *)
(***************************************************************************)
EXTENDS Integers, WellFoundedInduction, TLAPS

\* Quotient and remainder, as % and / of an unsigned integer give them.
LEMMA DivMod ==
    ASSUME NEW x \in Int, NEW n \in Nat \ {0}
    PROVE  x \div n \in Int /\ x % n \in 0 .. (n - 1) /\ x = n * (x \div n) + (x % n)
OBVIOUS

\* A multiple of n other than 0 is at least as far from 0 as n.
LEMMA MulBound ==
    ASSUME NEW n \in Nat \ {0}, NEW d \in Int
    PROVE  /\ n * d \in Int
           /\ d >= 1 => n * d >= n
           /\ d <= -1 => n * d <= -n
OBVIOUS

\* Multiplication distributes.
LEMMA MulDiff ==
    ASSUME NEW n \in Int, NEW d \in Int, NEW e \in Int
    PROVE  n * (d - e) = n * d - n * e
OBVIOUS

\* There is one quotient and one remainder.
LEMMA ModUnique ==
    ASSUME NEW x \in Int, NEW n \in Nat \ {0}, NEW d \in Int, NEW r \in 0 .. (n - 1),
           x = n * d + r
    PROVE  x % n = r /\ x \div n = d
<1> DEFINE e == x \div n
           s == x % n
<1>1. e \in Int /\ s \in 0 .. (n-1) /\ x = n * e + s
  BY DivMod
<1>2. n * (d - e) = s - r
  <2>1. n * d \in Int /\ n * e \in Int /\ n * (d - e) = n * d - n * e
    BY <1>1, MulDiff, MulBound
  <2> HIDE DEF e, s
  <2> QED
    BY <2>1, <1>1
<1>3. d = e
  <2>1. d - e \in Int
    BY <1>1
  <2>2. /\ d - e >= 1 => n * (d - e) >= n
        /\ d - e <= -1 => n * (d - e) <= -n
    BY <2>1, MulBound
  <2>3. s - r < n /\ s - r > -n
    BY <1>1
  <2> HIDE DEF e, s
  <2> QED
    BY <2>1, <2>2, <2>3, <1>2, <1>1
<1> HIDE DEF e, s
<1>4. s = r
  BY <1>1, <1>2, <1>3
<1> QED
  BY <1>3, <1>4 DEF e, s

\* The remainder after going on by at most n: it comes round once.
LEMMA ModStep ==
    ASSUME NEW x \in Nat, NEW n \in Nat \ {0}, NEW j \in 0 .. n
    PROVE  (x + j) % n = IF (x % n) + j < n THEN (x % n) + j ELSE (x % n) + j - n
<1> DEFINE e == x \div n
           r == x % n
<1>1. e \in Int /\ r \in 0 .. (n-1) /\ x = n * e + r
  BY DivMod
<1>2. n * e \in Int /\ e + 1 \in Int /\ n * (e + 1) = n * e + n
  BY <1>1, MulBound
<1> HIDE DEF e, r
<1>3. CASE r + j < n
  <2>1. r + j \in 0 .. (n - 1) /\ x + j \in Int /\ x + j = n * e + (r + j)
    BY <1>1, <1>2, <1>3
  <2>2. (x + j) % n = r + j
    BY <2>1, <1>1, ModUnique
  <2> QED
    BY <2>2, <1>3 DEF r
<1>4. CASE ~(r + j < n)
  <2>1. r + j - n \in 0 .. (n - 1) /\ x + j \in Int /\ x + j = n * (e + 1) + (r + j - n)
    BY <1>1, <1>2, <1>4
  <2>2. (x + j) % n = r + j - n
    BY <2>1, <1>2, ModUnique
  <2> QED
    BY <2>2, <1>4 DEF r
<1> QED
  BY <1>3, <1>4

\* A whole turn comes back to where it began.
LEMMA ModTurn ==
    ASSUME NEW x \in Nat, NEW n \in Nat \ {0}
    PROVE  (x + n) % n = x % n
<1> DEFINE r == x % n
<1>1. r \in 0 .. (n - 1)
  BY DivMod
<1>2. (x + n) % n = IF r + n < n THEN r + n ELSE r + n - n
  <2>1. n \in 0 .. n
    OBVIOUS
  <2> QED
    BY <2>1, ModStep
<1> HIDE DEF r
<1>3. (x + n) % n = r
  BY <1>1, <1>2
<1> QED
  BY <1>3 DEF r

\* A set of naturals that is not empty has a least element, which is how the
\* proofs argue by induction.
LEMMA LeastElement ==
    ASSUME NEW T, T \subseteq Nat, T # {}
    PROVE  \E x \in T : \A y \in T : x <= y
<1> DEFINE R == OpToRel(<, Nat)
<1>1. IsWellFoundedOn(R, Nat)
  BY NatLessThanWellFounded, Zenon
<1>2. \A x, y \in Nat : x < y => <<x, y>> \in R
  BY DEF OpToRel
<1> HIDE DEF R
<1>3. PICK x \in T : \A y \in T : ~(<<y, x>> \in R)
  BY <1>1, WFMin
<1>4. ASSUME NEW y \in T PROVE x <= y
  <2>1. x \in Nat /\ y \in Nat /\ ~(<<y, x>> \in R)
    BY <1>3
  <2>2. ~(y < x)
    BY <2>1, <1>2
  <2> QED
    BY <2>1, <2>2
<1> QED
  BY <1>3, <1>4
=============================================================================
