-------------------------------- MODULE Numbers --------------------------------
(***************************************************************************)
(* What the proofs of several modules need to know of numbers: induction   *)
(* as a step at which something is lost, least elements, passes over an    *)
(* interval, powers of two and the bits of a number.                       *)
(***************************************************************************)
EXTENDS Integers, FiniteSets, FiniteSetTheorems, TLAPS

-----------------------------------------------------------------------------
(* Finite sets.                                                            *)

\* A set that is not empty has an element of least rank: the elements of lower rank are
\* fewest for it, and there are none.
LEMMA HasLeast ==
  ASSUME NEW S, IsFiniteSet(S), S # {}, NEW r, \A x \in S : r[x] \in Int
  PROVE  \E x \in S : \A y \in S : r[x] <= r[y]
<1> DEFINE Lower(x) == {y \in S : r[y] < r[x]}
           All == {Lower(x) : x \in S}
<1>1. IsWellFoundedOn(StrictSubsetOrdering(S), FiniteSubsetsOf(S))
  BY FS_StrictSubsetOrderingWellFounded
<1>2. All \subseteq FiniteSubsetsOf(S) /\ All # {}
  <2>1. \A T \in SUBSET S : IsFiniteSet(T)
    BY FS_Subset
  <2> QED
    BY <2>1 DEF FiniteSubsetsOf
<1>3. PICK L \in All : \A M \in All : ~(<<M, L>> \in StrictSubsetOrdering(S))
  <2> HIDE DEF All
  <2> QED
    BY <1>1, <1>2, WFMin
<1>4. PICK x \in S : L = Lower(x)
  OBVIOUS
<1>5. ASSUME NEW y \in S, r[y] < r[x] PROVE FALSE
  <2>1. Lower(y) \subseteq Lower(x) /\ y \in Lower(x) /\ y \notin Lower(y)
    BY <1>5
  <2>2. Lower(y) \subseteq S /\ Lower(x) \subseteq S /\ Lower(y) # Lower(x)
    BY <2>1
  <2>3. <<Lower(y), L>> \in StrictSubsetOrdering(S)
    BY <1>4, <2>1, <2>2 DEF StrictSubsetOrdering
  <2> QED
    BY <1>3, <2>3
<1> QED
  BY <1>5

\* A set of numbers that is finite has a greatest one.
LEMMA HasTop ==
  ASSUME NEW S, IsFiniteSet(S), S # {}, S \subseteq Nat
  PROVE  \E x \in S : \A y \in S : y <= x
<1> DEFINE Higher(x) == {y \in S : y > x}
           All == {Higher(x) : x \in S}
<1>1. IsWellFoundedOn(StrictSubsetOrdering(S), FiniteSubsetsOf(S))
  BY FS_StrictSubsetOrderingWellFounded
<1>2. All \subseteq FiniteSubsetsOf(S) /\ All # {}
  <2>1. \A T \in SUBSET S : IsFiniteSet(T)
    BY FS_Subset
  <2> QED
    BY <2>1 DEF FiniteSubsetsOf
<1>3. PICK L \in All : \A M \in All : ~(<<M, L>> \in StrictSubsetOrdering(S))
  <2> HIDE DEF All
  <2> QED
    BY <1>1, <1>2, WFMin
<1>4. PICK x \in S : L = Higher(x)
  OBVIOUS
<1>5. ASSUME NEW y \in S, y > x PROVE FALSE
  <2>1. Higher(y) \subseteq Higher(x) /\ y \in Higher(x) /\ y \notin Higher(y)
    <3>1. x \in Nat /\ y \in Nat /\ ~(y > y)
      OBVIOUS
    <3>2. \A z \in S : z > y => z > x
      BY <1>5, <3>1
    <3> QED
      BY <1>5, <3>1, <3>2
  <2>2. Higher(y) \subseteq S /\ Higher(x) \subseteq S /\ Higher(y) # Higher(x)
    BY <2>1
  <2>3. <<Higher(y), L>> \in StrictSubsetOrdering(S)
    BY <1>4, <2>1, <2>2 DEF StrictSubsetOrdering
  <2> QED
    BY <1>3, <2>3
<1>6. \A y \in S : y <= x
  BY <1>5
<1> QED
  BY <1>6

\* A set of positions that is not empty has a first one.
LEMMA HasFirst ==
  ASSUME NEW S, NEW n \in Nat, S \subseteq 1 .. n, S # {}
  PROVE  \E i \in S : \A j \in S : i <= j
<1>1. PICK r : r = [i \in S |-> i]
  OBVIOUS
<1>2. IsFiniteSet(1 .. n)
  BY FS_Interval
<1>3. IsFiniteSet(S)
  BY <1>2, FS_Subset
<1>4. \A i \in S : r[i] \in Int
  BY <1>1
<1>5. \E i \in S : \A j \in S : r[i] <= r[j]
  BY <1>3, <1>4, HasLeast
<1> QED
  BY <1>1, <1>5

\* Where something is lost on the way, there is a step that loses it.
LEMMA FirstLost ==
  ASSUME NEW T, NEW i \in Nat, NEW k \in Nat, i < k, i \in T, k \notin T
  PROVE  \E m \in i + 1..k : m - 1 \in T /\ m \notin T
<1> DEFINE Way == i + 1..k
           All == {i + 1..m : m \in Way \ T}
<1>0. IsFiniteSet(Way)
  BY FS_Interval
<1>1. IsWellFoundedOn(StrictSubsetOrdering(Way), FiniteSubsetsOf(Way))
  <2> HIDE DEF Way
  <2> QED
    BY <1>0, FS_StrictSubsetOrderingWellFounded
<1>2. All \subseteq FiniteSubsetsOf(Way) /\ All # {}
  <2>1. \A M \in SUBSET Way : IsFiniteSet(M)
    <3> HIDE DEF Way
    <3> QED
      BY <1>0, FS_Subset
  <2>2. \A m \in Way : i + 1..m \subseteq Way
    OBVIOUS
  <2>3. k \in Way \ T
    OBVIOUS
  <2> HIDE DEF Way
  <2> QED
    BY <2>1, <2>2, <2>3 DEF FiniteSubsetsOf
<1>3. PICK L \in All : \A M \in All : ~(<<M, L>> \in StrictSubsetOrdering(Way))
  <2> HIDE DEF All, Way
  <2> QED
    BY <1>1, <1>2, WFMin
<1>4. PICK m \in Way \ T : L = i + 1..m
  OBVIOUS
<1>5. ASSUME m - 1 \notin T PROVE FALSE
  <2>1. m \in Nat /\ m # i + 1 /\ m - 1 \in Way \ T
    BY <1>5
  <2>2. i + 1..m - 1 \in All
    BY <2>1
  <2>3. i + 1..m - 1 \subseteq i + 1..m /\ m \in i + 1..m /\ m \notin i + 1..m - 1 /\ i + 1..m \subseteq Way
    BY <2>1
  <2>4. <<i + 1..m - 1, L>> \in StrictSubsetOrdering(Way)
    <3> DEFINE a == i + 1..m - 1
               b == i + 1..m
    <3>1. a \subseteq b /\ a # b /\ b \subseteq Way
      BY <2>3
    <3> HIDE DEF a, b, Way
    <3>2. <<a, b>> \in StrictSubsetOrdering(Way)
      BY <3>1 DEF StrictSubsetOrdering
    <3> QED
      BY <3>2, <1>4 DEF a, b
  <2> QED
    BY <1>3, <2>2, <2>4
<1> QED
  BY <1>5


-----------------------------------------------------------------------------
(* Passes.                                                                 *)

\* Where the numbers of a set begin with 0 and go on one by one, they come as far as n.
LEMMA HoldsTo ==
  ASSUME NEW T, NEW n \in Nat, 0 \in T, \A k \in 1..n : k - 1 \in T => k \in T
  PROVE  n \in T
<1> SUFFICES ASSUME n \notin T PROVE FALSE
  OBVIOUS
<1>1. 0 < n
  OBVIOUS
<1>2. PICK m \in 0 + 1..n : m - 1 \in T /\ m \notin T
  BY <1>1, FirstLost
<1>3. m \in 1..n
  OBVIOUS
<1> QED
  BY <1>2, <1>3

\* A step of a pass over the first n numbers makes one value of the one before, and a pass is
\* the values from b.
PassStep(next, S, n)    == next \in [(1..n) \X S -> S]
PassOf(f, next, S, b, n) == f \in [0..n -> S] /\ \A k \in 0..n : f[k] = IF k = 0 THEN b ELSE next[<<k, f[k - 1]>>]

\* A pass exists as a function.
LEMMA PassExists ==
  ASSUME NEW S, NEW b \in S, NEW n \in Nat, NEW next, PassStep(next, S, n)
  PROVE  \E f : PassOf(f, next, S, b, n)
<1>0. next \in [(1..n) \X S -> S]
  BY DEF PassStep
<1> DEFINE Is(f, m) == f \in [0..m -> S] /\ \A k \in 0..m : f[k] = IF k = 0 THEN b ELSE next[<<k, f[k - 1]>>]
<1>1. PICK T : T = {m \in Nat : \E f : Is(f, m)}
  OBVIOUS
<1>2. 0 \in T
  <2>1. PICK f : f = [k \in 0..0 |-> b]
    OBVIOUS
  <2>2. Is(f, 0)
    BY <2>1
  <2> HIDE DEF Is
  <2> QED
    BY <1>1, <2>2
<1>3. n \in T
  <2> SUFFICES ASSUME n \notin T PROVE FALSE
    OBVIOUS
  <2>1. 0 < n
    BY <1>2
  <2>2. PICK m \in 0 + 1..n : m - 1 \in T /\ m \notin T
    BY <1>2, <2>1, FirstLost
  <2>3. PICK f : Is(f, m - 1)
    BY <1>1, <2>2
  <2>4. m \in Nat /\ m - 1 \in 0..m - 1 /\ m \in 1..n /\ \A k \in 0..m : k # 0 => k - 1 \in 0..m - 1
    OBVIOUS
  <2>5. PICK g : g = [k \in 0..m |-> IF k = m THEN next[<<m, f[m - 1]>>] ELSE f[k]]
    OBVIOUS
  <2>6. next[<<m, f[m - 1]>>] \in S
    BY <1>0, <2>3, <2>4
  <2>7. \A k \in 0..m - 1 : g[k] = f[k] /\ k \in 0..m
    BY <2>4, <2>5
  <2>8. \A k \in 0..m : k = m \/ k \in 0..m - 1
    BY <2>4
  <2>9. g \in [0..m -> S]
    BY <2>3, <2>5, <2>6, <2>8
  <2>10. ASSUME NEW k \in 0..m PROVE g[k] = IF k = 0 THEN b ELSE next[<<k, g[k - 1]>>]
    <3>1. CASE k = m
      <4>1. k # 0 /\ g[k - 1] = f[k - 1] /\ g[k] = next[<<m, f[m - 1]>>]
        BY <2>4, <2>5, <2>7, <3>1
      <4> QED
        BY <3>1, <4>1
    <3>2. CASE k \in 0..m - 1
      <4>1. f[k] = IF k = 0 THEN b ELSE next[<<k, f[k - 1]>>]
        BY <2>3, <3>2
      <4>2. g[k] = f[k] /\ (k # 0 => k - 1 \in 0..m - 1)
        BY <2>4, <2>7, <3>2
      <4>3. k # 0 => g[k - 1] = f[k - 1]
        BY <2>7, <4>2
      <4> QED
        BY <4>1, <4>2, <4>3
    <3> QED
      BY <2>8, <3>1, <3>2
  <2>11. Is(g, m)
    BY <2>9, <2>10
  <2> HIDE DEF Is
  <2> QED
    BY <1>1, <2>2, <2>4, <2>11
<1> HIDE DEF Is
<1>4. PICK f : Is(f, n)
  BY <1>1, <1>3
<1> QED
  BY <1>4 DEF Is, PassOf

-----------------------------------------------------------------------------
(* Powers of two, and the bits of a number.                                *)

\* Each power of two is twice the one before: there are as many sets without the last number
\* as with it.
LEMMA TwoToNext ==
  ASSUME NEW k \in Nat
  PROVE  2^k \in Nat \ {0} /\ 2^(k + 1) = 2 * 2^k
<1>1. \A n \in Nat : /\ IsFiniteSet(SUBSET (1..n)) /\ Cardinality(SUBSET (1..n)) = 2^n
                     /\ Cardinality(SUBSET (1..n)) \in Nat \ {0}
  <2> SUFFICES ASSUME NEW n \in Nat
               PROVE  /\ IsFiniteSet(SUBSET (1..n)) /\ Cardinality(SUBSET (1..n)) = 2^n
                      /\ Cardinality(SUBSET (1..n)) \in Nat \ {0}
    OBVIOUS
  <2>1. IsFiniteSet(1..n) /\ Cardinality(1..n) = n
    BY FS_Interval
  <2>2. IsFiniteSet(SUBSET (1..n)) /\ Cardinality(SUBSET (1..n)) = 2^n
    BY <2>1, FS_SUBSET
  <2>3. Cardinality(SUBSET (1..n)) \in Nat
    BY <2>2, FS_CardinalityType
  <2>4. Cardinality(SUBSET (1..n)) # 0
    BY <2>2, FS_EmptySet
  <2> QED
    BY <2>2, <2>3, <2>4
<1> DEFINE A == SUBSET (1..k)
           B == {s \cup {k + 1} : s \in A}
           All == SUBSET (1..k + 1)
<1>2. k + 1 \notin 1..k /\ 1..k + 1 = (1..k) \cup {k + 1} /\ 1..k \subseteq 1..k + 1
  OBVIOUS
<1>3. \A s \in A : k + 1 \notin s
  BY <1>2
<1>4. All = A \cup B
  <2>1. A \cup B \subseteq All
    BY <1>2
  <2>2. ASSUME NEW s \in All PROVE s \in A \cup B
    <3>1. s \ {k + 1} \in A
      BY <1>2
    <3>2. k + 1 \in s => s = (s \ {k + 1}) \cup {k + 1}
      OBVIOUS
    <3>3. k + 1 \notin s => s = s \ {k + 1}
      OBVIOUS
    <3> QED
      BY <3>1, <3>2, <3>3
  <2> QED
    BY <2>1, <2>2
<1>5. A \cap B = {}
  BY <1>3
<1>6. ExistsBijection(A, B)
  <2>1. PICK f : f = [s \in A |-> s \cup {k + 1}]
    OBVIOUS
  <2>2. f \in [A -> B] /\ \A b \in B : \E s \in A : f[s] = b
    BY <2>1
  <2>3. \A s, t \in A : f[s] = f[t] => s = t
    <3> SUFFICES ASSUME NEW s \in A, NEW t \in A, f[s] = f[t] PROVE s = t
      OBVIOUS
    <3>1. s \cup {k + 1} = t \cup {k + 1} /\ k + 1 \notin s /\ k + 1 \notin t
      BY <1>3, <2>1
    <3> QED
      BY <3>1
  <2> HIDE DEF A, B
  <2> QED
    BY <2>2, <2>3 DEF ExistsBijection, Bijection, Injection, Surjection, IsInjective
<1>7. IsFiniteSet(A)
  BY <1>1
<1>8. Cardinality(All) = 2 * Cardinality(A)
  <2>1. A \cap B = {} /\ All = A \cup B
    BY <1>4, <1>5
  <2> HIDE DEF A, B, All
  <2>2. IsFiniteSet(B) /\ Cardinality(B) = Cardinality(A)
    BY <1>6, <1>7, FS_Bijection
  <2>3. Cardinality(A \cup B) = Cardinality(A) + Cardinality(B) - Cardinality(A \cap B)
    BY <1>7, <2>2, FS_Union
  <2>4. Cardinality(A \cap B) = 0
    BY <2>1, FS_EmptySet
  <2>5. Cardinality(A) \in Nat
    BY <1>7, FS_CardinalityType
  <2> QED
    BY <2>1, <2>2, <2>3, <2>4, <2>5
<1> QED
  <2>1. Cardinality(A) = 2^k /\ Cardinality(A) \in Nat \ {0}
    BY <1>1
  <2>2. Cardinality(All) = 2^(k + 1)
    BY <1>1
  <2> QED
    BY <1>8, <2>1, <2>2

\* The first power of two.
LEMMA TwoToZero == 2^0 = 1
<1>1. IsFiniteSet({}) /\ Cardinality({}) = 0
  BY FS_EmptySet
<1>2. Cardinality(SUBSET {}) = 2^0
  BY <1>1, FS_SUBSET
<1>3. SUBSET {} = {{}} /\ Cardinality({{}}) = 1
  BY FS_Singleton
<1> QED
  BY <1>2, <1>3

\* What division by a number makes of another.
LEMMA Quotient ==
  ASSUME NEW n \in Nat, NEW d \in Nat \ {0}
  PROVE  /\ n \div d \in Nat /\ d * (n \div d) <= n /\ n < d * (n \div d) + d
         /\ \A q \in Nat : d * q <= n /\ n < d * q + d => n \div d = q
OBVIOUS

\* Dividing by the next power of two is dividing by two once more; the remainder is the bit.
LEMMA HalfAgain ==
  ASSUME NEW n \in Nat, NEW k \in Nat
  PROVE  /\ n \div 2^k \in Nat /\ (n \div 2^k) % 2 \in {0, 1}
         /\ n \div 2^k = (2 * (n \div 2^(k + 1))) + ((n \div 2^k) % 2)
<1>1. PICK d \in Nat \ {0} : d = 2^k /\ 2 * d = 2^(k + 1)
  BY TwoToNext
<1>2. PICK q \in Nat : q = n \div d /\ d * q <= n /\ n < d * q + d
  BY Quotient
<1>3. PICK h \in Nat, b \in {0, 1} : q = 2 * h + b /\ b = q % 2
  BY <1>2
<1>4. n \div (2 * d) = h
  <2>1. 2 * d \in Nat \ {0}
    OBVIOUS
  <2>2. (2 * d) * h <= n /\ n < (2 * d) * h + 2 * d
    <3>1. d * q = (2 * d) * h + d * b
      BY <1>3
    <3>2. d * b >= 0 /\ d * b <= d
      BY <1>3
    <3> QED
      BY <1>2, <3>1, <3>2
  <2> QED
    BY <2>1, <2>2, Quotient
<1>5. n \div 2^k = q /\ n \div 2^(k + 1) = h
  BY <1>1, <1>2, <1>4
<1> QED
  BY <1>2, <1>3, <1>5

\* A higher power of two is no smaller.
LEMMA TwoToGrows ==
  ASSUME NEW i \in Nat, NEW k \in Nat, i <= k
  PROVE  2^i <= 2^k
<1> SUFFICES ASSUME ~ (2^i <= 2^k) PROVE FALSE
  OBVIOUS
<1>1. PICK T : T = {j \in Nat : 2^i <= 2^j}
  OBVIOUS
<1>2. 2^i \in Nat \ {0} /\ i # k
  BY TwoToNext
<1>3. i \in T /\ k \notin T /\ i < k
  BY <1>1, <1>2
<1>4. PICK m \in i + 1..k : m - 1 \in T /\ m \notin T
  BY <1>3, FirstLost
<1>5. m \in Nat /\ m - 1 \in Nat /\ m - 1 + 1 = m
  OBVIOUS
<1>6. 2^m = 2 * 2^(m - 1) /\ 2^(m - 1) \in Nat \ {0}
  BY <1>5, TwoToNext
<1>7. 2^i <= 2^(m - 1) /\ ~ (2^i <= 2^m)
  BY <1>1, <1>4, <1>5
<1> QED
  BY <1>2, <1>6, <1>7

\* A power of two is the product of two.
LEMMA TwoToSum ==
  ASSUME NEW i \in Nat, NEW k \in Nat, i <= k
  PROVE  2^k = 2^i * 2^(k - i)
<1>1. PICK T : T = {j \in Nat : j <= k /\ 2^k = 2^j * 2^(k - j)}
  OBVIOUS
<1>2. SUFFICES ASSUME i \notin T PROVE FALSE
  BY <1>1
<1>3. 0 \in T
  <2>1. 2^k \in Nat /\ k - 0 = k
    BY TwoToNext
  <2> QED
    BY <1>1, <2>1, TwoToZero
<1>4. 0 < i
  BY <1>2, <1>3
<1>5. PICK m \in 0 + 1..i : m - 1 \in T /\ m \notin T
  BY <1>2, <1>3, <1>4, FirstLost
<1>6. m \in Nat /\ m - 1 \in Nat /\ m - 1 + 1 = m /\ m <= k /\ k - m \in Nat /\ k - m + 1 = k - (m - 1)
  OBVIOUS
<1>7. PICK a \in Nat, b \in Nat : a = 2^(m - 1) /\ 2 * a = 2^m /\ b = 2^(k - m) /\ 2 * b = 2^(k - (m - 1))
  BY <1>6, TwoToNext
<1>8. 2^k = a * (2 * b) /\ a * (2 * b) = (2 * a) * b
  BY <1>1, <1>5, <1>7
<1> QED
  BY <1>1, <1>5, <1>6, <1>7, <1>8

\* Two numbers agree on their bits from the k-th on where they are the same when divided.
LEMMA SameBits ==
  ASSUME NEW w \in Nat, NEW x \in 0..2^w - 1, NEW y \in 0..2^w - 1, NEW k \in 0..w
  PROVE  x \div 2^k = y \div 2^k <=> \A i \in k..w - 1 : (x \div 2^i) % 2 = (y \div 2^i) % 2
<1>0. x \in Nat /\ y \in Nat
  OBVIOUS
<1>1. PICK qx, qy : qx = [i \in Nat |-> x \div 2^i] /\ qy = [i \in Nat |-> y \div 2^i]
  OBVIOUS
<1>2. \A i \in Nat : /\ qx[i] \in Nat /\ qx[i] = (2 * qx[i + 1]) + (qx[i] % 2) /\ qx[i] % 2 \in {0, 1}
                     /\ qy[i] \in Nat /\ qy[i] = (2 * qy[i + 1]) + (qy[i] % 2) /\ qy[i] % 2 \in {0, 1}
  <2> SUFFICES ASSUME NEW i \in Nat
               PROVE  /\ qx[i] \in Nat /\ qx[i] = (2 * qx[i + 1]) + (qx[i] % 2) /\ qx[i] % 2 \in {0, 1}
                      /\ qy[i] \in Nat /\ qy[i] = (2 * qy[i + 1]) + (qy[i] % 2) /\ qy[i] % 2 \in {0, 1}
    OBVIOUS
  <2>1. qx[i] = x \div 2^i /\ qy[i] = y \div 2^i /\ qx[i + 1] = x \div 2^(i + 1) /\ qy[i + 1] = y \div 2^(i + 1)
    BY <1>1
  <2>2. /\ x \div 2^i \in Nat /\ (x \div 2^i) % 2 \in {0, 1}
        /\ x \div 2^i = (2 * (x \div 2^(i + 1))) + ((x \div 2^i) % 2)
    BY <1>0, HalfAgain
  <2>3. /\ y \div 2^i \in Nat /\ (y \div 2^i) % 2 \in {0, 1}
        /\ y \div 2^i = (2 * (y \div 2^(i + 1))) + ((y \div 2^i) % 2)
    BY <1>0, HalfAgain
  <2> QED
    BY <2>1, <2>2, <2>3
<1>3. qx[w] = 0 /\ qy[w] = 0
  <2>1. PICK d \in Nat \ {0} : d = 2^w
    BY TwoToNext
  <2>2. d * 0 <= x /\ x < d * 0 + d /\ d * 0 <= y /\ y < d * 0 + d
    BY <2>1
  <2>3. x \div d = 0 /\ y \div d = 0
    BY <1>0, <2>2, Quotient
  <2> QED
    BY <1>1, <2>1, <2>3
<1>4. ASSUME qx[k] # qy[k], \A i \in k..w - 1 : qx[i] % 2 = qy[i] % 2 PROVE FALSE
  <2>1. PICK T : T = {i \in Nat : qx[i] # qy[i]}
    OBVIOUS
  <2>2. k \in T /\ w \notin T /\ k < w
    <3>1. k # w
      BY <1>3, <1>4
    <3> QED
      BY <1>3, <1>4, <2>1, <3>1
  <2>3. PICK m \in k + 1..w : m - 1 \in T /\ m \notin T
    BY <2>2, FirstLost
  <2>4. m - 1 \in k..w - 1 /\ m - 1 \in Nat /\ m \in Nat /\ m - 1 + 1 = m
    OBVIOUS
  <2>5. qx[m] = qy[m] /\ qx[m - 1] # qy[m - 1] /\ qx[m - 1] % 2 = qy[m - 1] % 2
    BY <1>4, <2>1, <2>3, <2>4
  <2>6. qx[m - 1] = (2 * qx[m]) + (qx[m - 1] % 2) /\ qy[m - 1] = (2 * qy[m]) + (qy[m - 1] % 2)
    BY <1>2, <2>4
  <2> QED
    BY <2>5, <2>6
<1>5. ASSUME qx[k] = qy[k], NEW i \in k..w - 1, qx[i] % 2 # qy[i] % 2 PROVE FALSE
  <2>1. PICK T : T = {j \in Nat : qx[j] = qy[j]}
    OBVIOUS
  <2>2. k \in T /\ i \notin T /\ k < i /\ i \in Nat
    <3>1. k # i
      BY <1>5
    <3> QED
      BY <1>5, <2>1, <3>1
  <2>3. PICK m \in k + 1..i : m - 1 \in T /\ m \notin T
    BY <2>2, FirstLost
  <2>4. m - 1 \in Nat /\ m \in Nat /\ m - 1 + 1 = m
    OBVIOUS
  <2>5. qx[m] # qy[m] /\ qx[m - 1] = qy[m - 1] /\ qx[m] \in Nat /\ qy[m] \in Nat
    BY <1>2, <2>1, <2>3, <2>4
  <2>6. qx[m - 1] = (2 * qx[m]) + (qx[m - 1] % 2) /\ qy[m - 1] = (2 * qy[m]) + (qy[m - 1] % 2)
    BY <1>2, <2>4
  <2>7. qx[m - 1] % 2 = qy[m - 1] % 2 /\ qx[m - 1] % 2 \in {0, 1}
    BY <1>2, <2>4, <2>5
  <2>8. PICK r \in {0, 1} : r = qx[m - 1] % 2 /\ r = qy[m - 1] % 2
    BY <2>7
  <2>9. 2 * qx[m] = 2 * qy[m]
    BY <2>5, <2>6, <2>8
  <2> QED
    BY <2>5, <2>9
<1>6. k \in Nat /\ \A i \in k..w - 1 : i \in Nat
  OBVIOUS
<1>7. qx[k] = x \div 2^k /\ qy[k] = y \div 2^k
  BY <1>1, <1>6
<1>8. \A i \in k..w - 1 : qx[i] = x \div 2^i /\ qy[i] = y \div 2^i
  BY <1>1, <1>6
<1> QED
  BY <1>4, <1>5, <1>7, <1>8

\* The number before the k-th power of two has its k last bits set.
LEMMA OnesBits ==
  ASSUME NEW k \in Nat, NEW i \in Nat
  PROVE  ((2^k - 1) \div 2^i) % 2 = IF i < k THEN 1 ELSE 0
<1>1. PICK n \in Nat : n = 2^k - 1
  BY TwoToNext
<1>2. CASE i >= k
  <2>1. PICK d \in Nat \ {0} : d = 2^i /\ 2^k <= d /\ 2^k \in Nat
    BY <1>2, TwoToNext, TwoToGrows
  <2>2. d * 0 <= n /\ n < d * 0 + d
    BY <1>1, <2>1
  <2>3. n \div d = 0
    BY <2>2, Quotient
  <2> QED
    BY <1>1, <1>2, <2>1, <2>3
<1>3. CASE i < k
  <2>1. k - i \in Nat /\ k - i - 1 \in Nat /\ k - i - 1 + 1 = k - i
    BY <1>3
  <2>2. 2^k = 2^i * 2^(k - i)
    BY <1>3, TwoToSum
  <2>4. PICK d \in Nat \ {0}, h \in Nat \ {0} : d = 2^i /\ h = 2^(k - i - 1) /\ 2 * h = 2^(k - i)
    BY <2>1, TwoToNext
  <2>5. n = d * (2 * h) - 1
    BY <1>1, <2>2, <2>4
  <2>6. d * (2 * h - 1) <= n /\ n < d * (2 * h - 1) + d /\ 2 * h - 1 \in Nat
    <3>1. d * (2 * h - 1) = d * (2 * h) - d
      OBVIOUS
    <3> QED
      BY <2>5, <3>1
  <2>7. n \div d = 2 * h - 1
    BY <2>6, Quotient
  <2>8. (2 * h - 1) % 2 = 1
    OBVIOUS
  <2> QED
    BY <1>1, <1>3, <2>4, <2>7, <2>8
<1> QED
  BY <1>2, <1>3

\* The bits of a number that is put together of two, the second of them below the n-th
\* power of two.
LEMMA BitsOfTwo ==
  ASSUME NEW n \in Nat, NEW v \in Nat, NEW w \in 0..2^n - 1, NEW i \in Nat
  PROVE  /\ i < n => ((v * 2^n + w) \div 2^i) % 2 = (w \div 2^i) % 2
         /\ i >= n => (v * 2^n + w) \div 2^i = v \div 2^(i - n)
<1>1. PICK d \in Nat \ {0} : d = 2^n
  BY TwoToNext
<1>2. PICK x \in Nat : x = v * d + w /\ x = v * 2^n + w
  BY <1>1
<1>3. w \in Nat /\ w < d
  BY <1>1
<1>4. ASSUME i < n PROVE (x \div 2^i) % 2 = (w \div 2^i) % 2
  <2>1. n - i \in Nat /\ n - i - 1 \in Nat /\ n - i - 1 + 1 = n - i
    BY <1>4
  <2>2. PICK e \in Nat \ {0}, h \in Nat : e = 2^i /\ 2 * h = 2^(n - i)
    BY <2>1, TwoToNext
  <2>3. d = e * (2 * h)
    <3>1. i <= n
      BY <1>4
    <3>2. 2^n = 2^i * 2^(n - i)
      BY <3>1, TwoToSum
    <3> QED
      BY <1>1, <2>2, <3>2
  <2>4. PICK q \in Nat : q = w \div e /\ e * q <= w /\ w < e * q + e
    BY <1>3, Quotient
  <2>5. PICK p \in Nat : p = v * h
    OBVIOUS
  <2>6. e * (2 * p + q) <= x /\ x < e * (2 * p + q) + e
    <3>1. v * d = e * (2 * p)
      <4>1. v * (e * (2 * h)) = e * (2 * (v * h))
        OBVIOUS
      <4> QED
        BY <2>3, <2>5, <4>1
    <3>2. e * (2 * p + q) = e * (2 * p) + e * q
      OBVIOUS
    <3> QED
      BY <1>2, <2>4, <3>1, <3>2
  <2>7. x \div e = 2 * p + q
    <3>1. 2 * p + q \in Nat
      OBVIOUS
    <3> QED
      BY <2>6, <3>1, Quotient
  <2>8. (2 * p + q) % 2 = q % 2
    OBVIOUS
  <2> QED
    BY <2>2, <2>4, <2>7, <2>8
<1>5. ASSUME i >= n PROVE x \div 2^i = v \div 2^(i - n)
  <2>1. i - n \in Nat
    BY <1>5
  <2>2. PICK e \in Nat \ {0} : e = 2^(i - n) /\ 2^i = d * e
    BY <1>1, <1>5, <2>1, TwoToNext, TwoToSum
  <2>3. PICK q \in Nat : q = v \div e /\ e * q <= v /\ v < e * q + e
    BY Quotient
  <2>4. (d * e) * q <= x /\ x < (d * e) * q + d * e /\ d * e \in Nat \ {0}
    <3>1. PICK c \in Nat : c = e * q
      OBVIOUS
    <3>2. d * c <= d * v /\ d * (v + 1) <= d * (c + e)
      <4>1. c <= v /\ v + 1 <= c + e
        BY <2>3, <3>1
      <4> QED
        BY <4>1
    <3>3. (d * e) * q = d * c /\ d * (c + e) = d * c + d * e /\ d * (v + 1) = d * v + d /\ v * d = d * v
      BY <3>1
    <3>4. d * e \in Nat \ {0}
      OBVIOUS
    <3> QED
      BY <1>2, <1>3, <3>2, <3>3, <3>4
  <2>5. x \div (d * e) = q
    BY <2>4, Quotient
  <2> QED
    BY <2>2, <2>3, <2>5
<1> QED
  BY <1>2, <1>4, <1>5
================================================================================
