-------------------------- MODULE NumberTheorems --------------------------
(***************************************************************************)
(* Facts about integers that the proofs about Physics, PacketHandler and   *)
(* GameServer share: division, least elements, and functions defined by    *)
(* recursion.                                                              *)
(***************************************************************************)
EXTENDS Integers, WellFoundedInduction, TLAPS

\* A factor that is positive can be cancelled.
LEMMA MulLess ==
    ASSUME NEW m \in Int, NEW n \in Int, NEW d \in Nat \ {0}
    PROVE  m * d < n * d <=> m < n
OBVIOUS

\* What \div is.
LEMMA DivBounds ==
    ASSUME NEW a \in Int, NEW d \in Nat \ {0}
    PROVE  /\ a \div d \in Int
           /\ (a \div d) * d <= a
           /\ a < ((a \div d) + 1) * d
OBVIOUS

\* The quotient is found between two multiples.
LEMMA DivBetween ==
    ASSUME NEW a \in Int, NEW d \in Nat \ {0}, NEW q \in Int
    PROVE  /\ a < (q + 1) * d => a \div d <= q
           /\ q * d <= a => q <= a \div d
<1>1. /\ a \div d \in Int /\ (a \div d) * d <= a /\ a < ((a \div d) + 1) * d
  BY DivBounds
<1> DEFINE e == a \div d
<1> HIDE DEF e
<1>2. e \in Int /\ e * d <= a /\ a < (e + 1) * d
  BY <1>1 DEF e
<1>3. ASSUME a < (q + 1) * d
      PROVE  e <= q
  <2>1. e * d < (q + 1) * d
    BY <1>2, <1>3
  <2>2. e < q + 1
    BY <2>1, <1>2, MulLess
  <2> QED  BY <2>2, <1>2
<1>4. ASSUME q * d <= a
      PROVE  q <= e
  <2>1. q * d < (e + 1) * d
    BY <1>2, <1>4
  <2>2. q < e + 1
    BY <2>1, <1>2, MulLess
  <2> QED  BY <2>2, <1>2
<1> QED  BY <1>3, <1>4 DEF e

\* A multiple divides.
LEMMA DivExact ==
    ASSUME NEW q \in Int, NEW d \in Nat \ {0}
    PROVE  (q * d) \div d = q
<1>1. q * d \in Int /\ q * d < (q + 1) * d /\ q * d <= q * d
  OBVIOUS
<1>2. (q * d) \div d \in Int
  BY <1>1, DivBounds
<1> QED  BY <1>1, <1>2, DivBetween

\* A non-empty set of natural numbers has a least one.
LEMMA Least ==
    ASSUME NEW T, T \subseteq Nat, T # {}
    PROVE  \E m \in T : \A n \in T : m <= n
<1>1. PICK m \in T : \A n \in T : ~(<<n, m>> \in OpToRel(<, Nat))
  BY NatLessThanWellFounded, WFMin
<1>2. ASSUME NEW n \in T, n < m
      PROVE  FALSE
  <2>1. <<n, m>> \in Nat \X Nat /\ <<n, m>>[1] = n /\ <<n, m>>[2] = m
    OBVIOUS
  <2>2. <<n, m>> \in OpToRel(<, Nat)
    BY <2>1, <1>2, Zenon DEF OpToRel
  <2> QED  BY <2>2, <1>1
<1>3. \A n \in T : ~(n < m)
  BY <1>2
<1>4. m \in Nat /\ \A n \in T : n \in Nat
  OBVIOUS
<1> QED  BY <1>3, <1>4

\* Dividing twice is dividing by the product.
LEMMA DivDiv ==
    ASSUME NEW n \in Nat, NEW b \in Nat \ {0}, NEW p \in Nat \ {0}
    PROVE  n \div (b * p) = (n \div b) \div p
<1> DEFINE e == n \div b
           q == e \div p
           d == b * p
<1>1. e \in Int /\ e * b <= n /\ n < (e + 1) * b
  BY DivBounds
<1> HIDE DEF e
<1>2. q \in Int /\ q * p <= e /\ e < (q + 1) * p
  BY <1>1, DivBounds
<1> HIDE DEF q
<1>3. d \in Nat \ {0}
  BY DEF d
<1>4. q * d <= n
  <2>1. q * p \in Int /\ (q * p) * b = q * d
    BY <1>2 DEF d
  <2>2. (q * p) * b <= e * b
    BY <2>1, <1>1, <1>2
  <2> QED  BY <2>1, <2>2, <1>1, <1>2, <1>3
<1>5. n < (q + 1) * d
  <2>1. (q + 1) * p \in Int /\ ((q + 1) * p) * b = (q + 1) * d
    BY <1>2 DEF d
  <2>2. e + 1 <= (q + 1) * p
    BY <2>1, <1>1, <1>2
  <2>3. (e + 1) * b <= ((q + 1) * p) * b
    BY <2>1, <2>2, <1>1
  <2> QED  BY <2>1, <2>3, <1>1, <1>2, <1>3
<1>6. n \div d \in Int
  BY <1>3, DivBounds
<1> HIDE DEF d
<1>7. n \div d <= q /\ q <= n \div d
  BY <1>2, <1>3, <1>4, <1>5, DivBetween
<1> QED  BY <1>2, <1>6, <1>7 DEF d, q, e

\* f is the sequence of values that begins with a and goes on with step.
Iterates(f, S, a, step) ==
    /\ f \in [Nat -> S]
    /\ f[0] = a
    /\ \A n \in Nat : f[n + 1] = step[n][f[n]]

\* A function on the natural numbers may be defined by its first value and by
\* the step from each value to the next.
LEMMA Recursion ==
    ASSUME NEW S, NEW a \in S, NEW step \in [Nat -> [S -> S]]
    PROVE  \E f : Iterates(f, S, a, step)
<1> DEFINE Upto(f, n) == /\ f \in [0 .. n -> S]
                         /\ f[0] = a
                         /\ \A i \in 0 .. n : i # n => f[i + 1] = step[i][f[i]]
           T == {n \in Nat : ~ \E f : Upto(f, n)}
<1>1. T = {}
  <2>1. SUFFICES ASSUME T # {}
        PROVE  FALSE
    OBVIOUS
  <2>2. PICK m \in T : \A n \in T : m <= n
    BY <2>1, Least
  <2>3. m # 0
    <3>1. Upto([i \in 0 .. 0 |-> a], 0)
      OBVIOUS
    <3> QED  BY <3>1
  <2>4. m \in Nat /\ m - 1 \in Nat /\ m - 1 \notin T
    <3>1. T \subseteq Nat
      OBVIOUS
    <3> HIDE DEF T
    <3> QED  BY <2>2, <2>3, <3>1
  <2>5. PICK f : Upto(f, m - 1)
    BY <2>4
  <2> DEFINE g == [i \in 0 .. m |-> IF i = m THEN step[m - 1][f[m - 1]] ELSE f[i]]
  <2>6. f[m - 1] \in S
    BY <2>4, <2>5
  <2>7. step[m - 1][f[m - 1]] \in S
    BY <2>4, <2>6
  <2>8. g \in [0 .. m -> S] /\ g[0] = a
    BY <2>3, <2>4, <2>5, <2>7
  <2>9. ASSUME NEW i \in 0 .. m, i # m
        PROVE  g[i + 1] = step[i][g[i]]
    <3>1. i \in 0 .. m - 1 /\ i + 1 \in 0 .. m /\ g[i] = f[i]
      BY <2>4, <2>9
    <3>2. CASE i = m - 1
      BY <3>1, <3>2, <2>4
    <3>3. CASE i # m - 1
      <4>1. f[i + 1] = step[i][f[i]]
        BY <3>1, <3>3, <2>5
      <4>2. i + 1 # m
        BY <3>1, <3>3, <2>4
      <4> QED  BY <3>1, <4>1, <4>2
    <3> QED  BY <3>2, <3>3
  <2>10. Upto(g, m)
    BY <2>8, <2>9
  <2> QED  BY <2>10, <2>2
<1>2. ASSUME NEW n \in Nat, NEW f, NEW k \in Nat, NEW g, k <= n,
             Upto(f, n), Upto(g, k)
      PROVE  f[k] = g[k]
  <2> DEFINE D == {i \in Nat : i <= k /\ f[i] # g[i]}
  <2>1. SUFFICES ASSUME D # {}
        PROVE  FALSE
    BY <1>2
  <2>2. PICK m \in D : \A i \in D : m <= i
    BY <2>1, Least
  <2>3. m # 0 /\ m \in Nat /\ m <= k
    BY <2>2, <1>2
  <2>4. m - 1 \in Nat /\ m - 1 \notin D /\ m - 1 < k /\ m - 1 < n
    BY <2>2, <2>3, <1>2
  <2>5. f[m - 1] = g[m - 1]
    BY <2>4
  <2>6. f[(m - 1) + 1] = step[m - 1][f[m - 1]] /\ g[(m - 1) + 1] = step[m - 1][g[m - 1]]
    <3>1. m - 1 \in 0 .. n /\ m - 1 # n /\ m - 1 \in 0 .. k /\ m - 1 # k
      BY <2>4
    <3> QED  BY <3>1, <1>2
  <2>7. (m - 1) + 1 = m
    BY <2>3
  <2> QED  BY <2>2, <2>5, <2>6, <2>7
<1> DEFINE part(n) == CHOOSE f : Upto(f, n)
           h == [n \in Nat |-> part(n)[n]]
<1>3. \A n \in Nat : Upto(part(n), n)
  <2>1. SUFFICES ASSUME NEW n \in Nat
        PROVE  Upto(part(n), n)
    OBVIOUS
  <2>2. \E f : Upto(f, n)
    BY <1>1
  <2> HIDE DEF Upto
  <2> QED  BY <2>2
<1> HIDE DEF part
<1>4. h \in [Nat -> S]
  <2>1. SUFFICES ASSUME NEW n \in Nat
        PROVE  part(n)[n] \in S
    OBVIOUS
  <2> QED  BY <2>1, <1>3
<1>5. h[0] = a
  BY <1>3
<1>6. ASSUME NEW n \in Nat
      PROVE  h[n + 1] = step[n][h[n]]
  <2>1. Upto(part(n + 1), n + 1) /\ Upto(part(n), n) /\ n <= n + 1 /\ n + 1 \in Nat
    BY <1>3
  <2>2. part(n + 1)[n] = part(n)[n]
    <3> HIDE DEF Upto
    <3> QED  BY <2>1, <1>2
  <2>3. part(n + 1)[n + 1] = step[n][part(n + 1)[n]]
    BY <2>1
  <2> QED  BY <2>2, <2>3
<1>7. Iterates(h, S, a, step)
  BY <1>4, <1>5, <1>6 DEF Iterates
<1> QED  BY <1>7
=============================================================================
