------------------------------- MODULE NatLemmas -------------------------------
(***************************************************************************)
(* What the proofs of several modules need of the natural numbers:         *)
(* division with a remainder, and induction.  A set of numbers has a least *)
(* one, a set that holds 0 and the successors of its members has them all, *)
(* and a function may be defined by iteration, also when the set of its    *)
(* values changes on the way.  This follows from the theorems of           *)
(* WellFoundedInduction about minimal elements, which take sets, where     *)
(* those about induction take predicates.                                  *)
(***************************************************************************)
EXTENDS Integers, WellFoundedInduction, TLAPS

\* Division with a remainder.
LEMMA DivMod ==
    ASSUME NEW a \in Nat, NEW d \in Nat \ {0}
    PROVE  /\ a \div d \in Nat
           /\ a % d \in 0 .. d - 1
           /\ a = (a \div d) * d + (a % d)
OBVIOUS

\* Multiples are ordered as their factors.
LEMMA Multiples ==
    ASSUME NEW p \in Int, NEW q \in Int, NEW d \in Nat \ {0}
    PROVE  /\ p * d \in Int
           /\ (p + q) * d = p * d + q * d
           /\ (p + 1) * d = p * d + d
           /\ (p - 1) * d = p * d - d
           /\ p <= q => p * d <= q * d
           /\ p < q => p * d + d <= q * d
           /\ p * d < q * d => p < q
<1>1. ASSUME p <= q PROVE p * d <= q * d
  <2>1. q - p \in Nat
    BY <1>1
  <2>2. (q - p) * d \in Nat
    BY <2>1
  <2>3. (q - p) * d = q * d - p * d
    OBVIOUS
  <2>4. p * d \in Int /\ q * d \in Int
    OBVIOUS
  <2>5. QED BY <2>2, <2>3, <2>4
<1>2. ASSUME p < q PROVE p * d + d <= q * d
  <2>1. q - p - 1 \in Nat
    BY <1>2
  <2>2. (q - p - 1) * d \in Nat
    BY <2>1
  <2>3. (q - p - 1) * d = q * d - p * d - d
    OBVIOUS
  <2>4. p * d \in Int /\ q * d \in Int
    OBVIOUS
  <2>5. QED BY <2>2, <2>3, <2>4
<1>3. ASSUME q <= p PROVE q * d <= p * d
  <2>1. p - q \in Nat
    BY <1>3
  <2>2. (p - q) * d \in Nat
    BY <2>1
  <2>3. (p - q) * d = p * d - q * d
    OBVIOUS
  <2>4. p * d \in Int /\ q * d \in Int
    OBVIOUS
  <2>5. QED BY <2>2, <2>3, <2>4
<1>4. p * d \in Int /\ q * d \in Int
  OBVIOUS
<1>5. (p + q) * d = p * d + q * d /\ (p + 1) * d = p * d + d /\ (p - 1) * d = p * d - d
  OBVIOUS
<1>6. p * d < q * d => p < q
  BY <1>3, <1>4
<1>7. QED BY <1>1, <1>2, <1>4, <1>5, <1>6

\* Quotient and remainder are the only numbers of their kind.
LEMMA DivUnique ==
    ASSUME NEW q \in Nat, NEW d \in Nat \ {0}, NEW r \in 0 .. d - 1
    PROVE  /\ q * d + r \in Nat
           /\ (q * d + r) \div d = q
           /\ (q * d + r) % d = r
<1> DEFINE a == q * d + r
           p == a \div d
<1>1. a \in Nat /\ q * d \in Nat
  OBVIOUS
<1>2. p \in Nat /\ a % d \in 0 .. d - 1 /\ a = p * d + (a % d)
  BY <1>1, DivMod
<1>3. a = q * d + r
  OBVIOUS
<1> HIDE DEF a, p
<1>4. p * d \in Int
  BY <1>2
<1>5. ~(p < q)
  <2>1. p < q => p * d + d <= q * d
    BY <1>2, Multiples
  <2>2. QED BY <1>1, <1>2, <1>3, <1>4, <2>1
<1>6. ~(q < p)
  <2>1. q < p => q * d + d <= p * d
    BY <1>2, Multiples
  <2>2. QED BY <1>1, <1>2, <1>3, <1>4, <2>1
<1>7. p = q
  BY <1>2, <1>5, <1>6
<1>8. a % d = r
  BY <1>1, <1>2, <1>3, <1>7
<1>9. QED BY <1>1, <1>7, <1>8 DEF a, p

\* Division that rounds up gives the least number of pieces of d that hold a.
LEMMA RoundUp ==
    ASSUME NEW a \in Nat, NEW d \in Nat \ {0}
    PROVE  /\ (a + d - 1) \div d \in Nat
           /\ a <= ((a + d - 1) \div d) * d
           /\ \A k \in Nat : (a + d - 1) \div d <= k <=> a <= k * d
<1> DEFINE h == (a + d - 1) \div d
<1>1. a + d - 1 \in Nat
  OBVIOUS
<1>2. h \in Nat /\ a + d - 1 >= h * d /\ a + d - 1 < h * d + d
  <2>1. /\ h \in Nat
        /\ (a + d - 1) % d \in 0 .. d - 1
        /\ a + d - 1 = h * d + ((a + d - 1) % d)
    BY <1>1, DivMod
  <2> HIDE DEF h
  <2>2. h * d \in Int
    BY <2>1
  <2>3. QED BY <2>1, <2>2
<1> HIDE DEF h
<1>3. h * d \in Int
  BY <1>2
<1>4. ASSUME NEW k \in Nat PROVE h <= k <=> a <= k * d
  <2>1. k * d \in Int
    OBVIOUS
  <2>2. h <= k => h * d <= k * d
    BY <1>2, Multiples
  <2>3. k < h => k * d + d <= h * d
    BY <1>2, Multiples
  <2>4. QED BY <1>2, <1>3, <2>1, <2>2, <2>3
<1>5. a <= h * d
  BY <1>2, <1>3
<1>6. QED BY <1>2, <1>4, <1>5 DEF h

\* A set of natural numbers that is not empty has a least member.
LEMMA LeastOfNat ==
    ASSUME NEW T \in SUBSET Nat, T # {}
    PROVE  \E n \in T : \A m \in T : n <= m
<1> DEFINE R == OpToRel(<, Nat)
<1>1. R = {p \in Nat \X Nat : p[1] < p[2]}
  BY Zenon DEF OpToRel
<1>2. IsWellFoundedOn(R, Nat)
  BY NatLessThanWellFounded, Zenon
<1> HIDE DEF R
<1>3. PICK n \in T : \A m \in T : <<m, n>> \notin R
  BY <1>2, WFMin, Zenon
<1>4. \A m \in T : <<m, n>> \in Nat \X Nat
  OBVIOUS
<1>5. \A m \in T : ~(m < n)
  BY <1>1, <1>3, <1>4
<1>6. QED BY <1>5

\* Induction up to a bound, for the numbers in a set.
LEMMA InductionUpTo ==
    ASSUME NEW N \in Nat, NEW S, 0 \in S,
           \A n \in 0 .. N - 1 : n \in S => n + 1 \in S
    PROVE  0 .. N \subseteq S
<1> SUFFICES ASSUME ~(0 .. N \subseteq S) PROVE FALSE
  OBVIOUS
<1>1. PICK n \in (0 .. N) \ S : \A m \in (0 .. N) \ S : n <= m
  <2>1. (0 .. N) \ S \in SUBSET Nat /\ (0 .. N) \ S # {}
    OBVIOUS
  <2>2. QED BY ONLY <2>1, LeastOfNat
<1>2. n # 0
  BY <1>1
<1>3. n - 1 \in 0 .. N - 1 /\ n - 1 \in S
  BY <1>1, <1>2
<1>4. QED BY <1>1, <1>3

\* A set of numbers up to a bound that is not empty has a greatest member.
LEMMA GreatestOfNat ==
    ASSUME NEW N \in Nat, NEW T \in SUBSET (0 .. N), T # {}
    PROVE  \E n \in T : \A m \in T : m <= n
<1> DEFINE U == {k \in 0 .. N : N - k \in T}
<1>1. U \in SUBSET Nat
  OBVIOUS
<1>2. U # {}
  <2>1. PICK n \in T : TRUE
    OBVIOUS
  <2>2. n \in 0 .. N /\ N - (N - n) = n
    BY <2>1
  <2>3. N - n \in U
    BY <2>2
  <2>4. QED BY <2>3
<1>3. PICK k \in U : \A j \in U : k <= j
  <2> HIDE DEF U
  <2>1. QED BY <1>1, <1>2, LeastOfNat
<1>4. N - k \in T /\ k \in 0 .. N
  OBVIOUS
<1>5. \A m \in T : m <= N - k
  <2>1. ASSUME NEW m \in T PROVE m <= N - k
    <3>1. m \in 0 .. N /\ N - m \in 0 .. N /\ N - (N - m) = m
      OBVIOUS
    <3>2. N - m \in U
      BY <3>1
    <3>3. k <= N - m
      BY <1>3, <3>2
    <3>4. QED BY <1>4, <3>1, <3>3
  <2>2. QED BY <2>1
<1>6. QED BY <1>4, <1>5

\* Induction from one number to another.
LEMMA InductionFromTo ==
    ASSUME NEW a \in Int, NEW b \in Int, a <= b, NEW S, a \in S,
           \A p \in a + 1 .. b : p - 1 \in S => p \in S
    PROVE  b \in S
<1> DEFINE T == {n \in Nat : a + n \in S}
<1>1. 0 \in T
  OBVIOUS
<1>2. ASSUME NEW n \in 0 .. b - a - 1, n \in T PROVE n + 1 \in T
  <2>1. a + n \in S /\ a + n + 1 \in a + 1 .. b /\ (a + n + 1) - 1 = a + n
    BY <1>2
  <2>2. a + n + 1 \in S
    BY <2>1
  <2>3. a + (n + 1) = a + n + 1 /\ n + 1 \in Nat
    OBVIOUS
  <2>4. QED BY <2>2, <2>3
<1>3. b - a \in Nat /\ a + (b - a) = b
  OBVIOUS
<1>4. b - a \in T
  <2> HIDE DEF T
  <2>1. 0 .. b - a \subseteq T
    BY <1>1, <1>2, <1>3, InductionUpTo
  <2>2. QED BY <1>3, <2>1
<1>5. QED BY <1>3, <1>4

\* The functions that have the value x at a and go on by F, up to b.
Iterations(S, x, F, a, b) ==
    {g \in [a .. b -> S] : g[a] = x /\ \A i \in a + 1 .. b : g[i] = F[<<i, g[i - 1]>>]}

\* There is such a function.
LEMMA IterationExists ==
    ASSUME NEW S, NEW x \in S, NEW a \in Int, NEW b \in Int, a <= b,
           NEW F \in [Int \X S -> S]
    PROVE  Iterations(S, x, F, a, b) # {}
<1> DEFINE Begins(g, n) == g[a] = x /\ \A i \in a + 1 .. a + n : g[i] = F[<<i, g[i - 1]>>]
           T == {n \in Nat : \E g \in [a .. a + n -> S] : Begins(g, n)}
<1>1. 0 \in T
  <2> DEFINE h == [i \in a .. a + 0 |-> x]
  <2>1. h \in [a .. a + 0 -> S]
    OBVIOUS
  <2>2. h[a] = x
    OBVIOUS
  <2>3. a + 1 .. a + 0 = {}
    OBVIOUS
  <2>4. Begins(h, 0)
    BY <2>2, <2>3
  <2>5. QED BY <2>1, <2>4
<1>2. ASSUME NEW n \in 0 .. b - a - 1, n \in T PROVE n + 1 \in T
  <2>1. PICK g \in [a .. a + n -> S] : Begins(g, n)
    <3>1. n \in T
      BY <1>2
    <3>2. QED BY <3>1
  <2> DEFINE last == a + n
             y == F[<<last + 1, g[last]>>]
             h == [i \in a .. last + 1 |-> IF i = last + 1 THEN y ELSE g[i]]
  <2>2. last \in a .. a + n /\ last + 1 \in Int
    OBVIOUS
  <2>3. y \in S
    <3>1. <<last + 1, g[last]>> \in Int \X S
      BY <2>2
    <3>2. QED BY ONLY <3>1, F \in [Int \X S -> S]
  <2>4. h \in [a .. last + 1 -> S]
    BY <2>3
  <2>5. h[a] = x
    BY <2>1
  <2>6. ASSUME NEW i \in a + 1 .. last + 1 PROVE h[i] = F[<<i, h[i - 1]>>]
    <3>1. CASE i = last + 1
      <4>1. i - 1 = last /\ last \in a .. last + 1 /\ last # last + 1
        BY <3>1
      <4>2. h[last] = g[last] /\ h[i] = y
        BY <3>1, <4>1
      <4>3. QED BY <3>1, <4>1, <4>2
    <3>2. CASE i # last + 1
      <4>1. i \in a + 1 .. a + n /\ i - 1 \in a .. last + 1 /\ i - 1 # last + 1
            /\ i \in a .. last + 1
        BY <3>2
      <4>2. h[i] = g[i] /\ h[i - 1] = g[i - 1]
        BY <3>2, <4>1
      <4>3. QED BY <4>1, <4>2, <2>1
    <3>3. QED BY <3>1, <3>2
  <2>7. last + 1 = a + (n + 1) /\ n + 1 \in Nat
    OBVIOUS
  <2> HIDE DEF h, y, last
  <2>8. h \in [a .. a + (n + 1) -> S] /\ Begins(h, n + 1)
    BY <2>4, <2>5, <2>6, <2>7
  <2>9. QED BY <2>7, <2>8
<1> HIDE DEF T
<1>3. b - a \in Nat
  OBVIOUS
<1>4. 0 .. b - a \subseteq T
  BY <1>1, <1>2, <1>3, InductionUpTo
<1>5. b - a \in T
  BY <1>3, <1>4
<1>6. PICK g \in [a .. a + (b - a) -> S] : Begins(g, b - a)
  BY <1>5 DEF T
<1>7. a + (b - a) = b
  OBVIOUS
<1>8. QED BY <1>6, <1>7 DEF Iterations

\* The function g on 0 .. N has the value x at 0 and goes on by F, which gives the value at d
\* from that at d - 1; its value at d is in the set V[d].
GoesOn(g, N, V, x, F) ==
    /\ g = [d \in 0 .. N |-> g[d]] /\ g[0] = x
    /\ \A d \in 1 .. N : g[d] = F[d][g[d - 1]]
    /\ \A d \in 0 .. N : g[d] \in V[d]

\* There is such a function.
LEMMA RecursionExists ==
    ASSUME NEW N \in Nat, NEW V, NEW x \in V[0], NEW F, DOMAIN F = 1 .. N,
           \A d \in 1 .. N : \A v \in V[d - 1] : F[d][v] \in V[d]
    PROVE  \E g : GoesOn(g, N, V, x, F)
<1> DEFINE Good(g, n) == /\ \A d \in 0 .. n : g[d] \in V[d]
                         /\ g[0] = x
                         /\ \A d \in 1 .. n : g[d] = F[d][g[d - 1]]
           S == {n \in Nat : \E g : Good(g, n)}
<1>1. 0 \in S
  <2> DEFINE h == [d \in 0 .. 0 |-> x]
  <2>1. h[0] = x /\ 1 .. 0 = {} /\ \A d \in 0 .. 0 : d = 0
    OBVIOUS
  <2>2. Good(h, 0)
    BY <2>1
  <2>3. QED BY <2>2
<1>2. ASSUME NEW n \in 0 .. N - 1, n \in S PROVE n + 1 \in S
  <2>1. PICK g : Good(g, n)
    BY <1>2
  <2> DEFINE y == F[n + 1][g[n]]
             h == [d \in 0 .. n + 1 |-> IF d = n + 1 THEN y ELSE g[d]]
  <2>2. n + 1 \in 1 .. N /\ (n + 1) - 1 = n /\ n \in 0 .. n /\ n + 1 \in Nat /\ n # n + 1
    OBVIOUS
  <2>3. y \in V[n + 1]
    BY <2>1, <2>2
  <2> HIDE DEF y
  <2>4. /\ h[n + 1] = y
        /\ \A d \in 0 .. n : h[d] = g[d]
        /\ \A d \in 0 .. n + 1 : d \in 0 .. n \/ d = n + 1
        /\ \A d \in 1 .. n + 1 : (d \in 1 .. n /\ d \in 0 .. n /\ d - 1 \in 0 .. n) \/ d = n + 1
        /\ 0 \in 0 .. n
    OBVIOUS
  <2> HIDE DEF h
  <2>5. \A d \in 0 .. n + 1 : h[d] \in V[d]
    BY <2>1, <2>3, <2>4
  <2>6. ASSUME NEW d \in 1 .. n + 1 PROVE h[d] = F[d][h[d - 1]]
    <3>1. CASE d = n + 1
      BY <2>2, <2>4, <3>1 DEF y
    <3>2. CASE d # n + 1
      BY <2>1, <2>4, <3>2
    <3>3. QED BY <3>1, <3>2
  <2>7. h[0] = x
    BY <2>1, <2>4
  <2>8. Good(h, n + 1)
    BY <2>5, <2>6, <2>7
  <2>9. QED BY <2>2, <2>8
<1>3. N \in S
  <2> HIDE DEF S
  <2>1. 0 .. N \subseteq S
    BY <1>1, <1>2, InductionUpTo
  <2>2. QED BY <2>1
<1>4. PICK g : Good(g, N)
  BY <1>3
<1> DEFINE h == [d \in 0 .. N |-> g[d]]
<1>5. h = [d \in 0 .. N |-> h[d]] /\ \A d \in 0 .. N : h[d] = g[d]
  OBVIOUS
<1>6. 0 \in 0 .. N /\ \A d \in 1 .. N : d \in 0 .. N /\ d - 1 \in 0 .. N
  OBVIOUS
<1> HIDE DEF h
<1>7. GoesOn(h, N, V, x, F)
  BY <1>4, <1>5, <1>6 DEF GoesOn
<1>8. QED BY <1>7

================================================================================
