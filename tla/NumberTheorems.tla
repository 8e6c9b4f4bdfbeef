--------------------------- MODULE NumberTheorems ---------------------------
(***************************************************************************)
(* What the proofs about LegacyRSA need of arithmetic, from induction up:   *)
(* that recursive definitions have a solution, powers and congruence,       *)
(* Euclid's lemma, Fermat's little theorem and what follows from it for two *)
(* primes.  Induction is by sets, from the least element principle.         *)
(***************************************************************************)
EXTENDS Integers, FiniteSets, WellFoundedInduction, FiniteSetTheorems, TLAPS

-----------------------------------------------------------------------------
(* Induction and recursion over the naturals.                               *)

(* The strict order of the naturals, as a relation. *)
Below == {ss \in Nat \X Nat : ss[1] < ss[2]}

(* Every set of naturals that is not empty has a least element. *)
LEMMA Least ==
  ASSUME NEW S \in SUBSET Nat, S # {}
  PROVE  \E x \in S : \A y \in S : x <= y
<1>1. Below = OpToRel(<, Nat)
  BY Zenon DEF Below, OpToRel
<1>2. IsWellFoundedOn(Below, Nat)
  BY <1>1, NatLessThanWellFounded, Zenon
<1>3. PICK x \in S : \A y \in S : ~(<<y,x>> \in Below)
  BY <1>2, WFMin, Zenon
<1>4. ASSUME NEW y \in S PROVE x <= y
  <2>1. x \in Nat /\ y \in Nat
    OBVIOUS
  <2>2. y < x => <<y, x>> \in Below
    BY <2>1 DEF Below
  <2> QED BY <1>3, <2>1, <2>2
<1> QED BY <1>4

(* Induction, over a set: one that has 0 and is closed under successor has *)
(* every natural.                                                          *)
LEMMA Induct ==
  ASSUME NEW S, 0 \in S, \A n \in Nat : n \in S => n+1 \in S
  PROVE  \A n \in Nat : n \in S
<1> SUFFICES ASSUME NEW n \in Nat, n \notin S PROVE FALSE
  OBVIOUS
<1> DEFINE T == Nat \ S
<1>1. PICK x \in T : \A y \in T : x <= y
  BY Least
<1> QED BY <1>1, x - 1 \in Nat, x = (x - 1) + 1

(* The same with all smaller naturals as hypothesis. *)
LEMMA StrongInduct ==
  ASSUME NEW S, \A n \in Nat : (\A m \in 0..(n-1) : m \in S) => n \in S
  PROVE  \A n \in Nat : n \in S
<1> SUFFICES ASSUME NEW n \in Nat, n \notin S PROVE FALSE
  OBVIOUS
<1> DEFINE T == Nat \ S
<1>1. PICK x \in T : \A y \in T : x <= y
  BY Least
<1> QED BY <1>1

(* What is below a successor. *)
LEMMA Successor == \A k, n \in Nat : k < n + 1 => k < n \/ k = n
OBVIOUS

(* F can be iterated from a without end. *)
Iterable(S, a, F) ==
    \E f \in [Nat -> S] : f[0] = a /\ \A n \in Nat : f[n+1] = F[f[n]]

(* Every function from a set to itself can be iterated. *)
LEMMA Iterates ==
  ASSUME NEW S, NEW a \in S, NEW F \in [S -> S]
  PROVE  Iterable(S, a, F)
<1> DEFINE Good(n, g) == /\ g \in [0..n -> S] /\ g[0] = a /\ \A i \in 0..(n-1) : g[i+1] = F[g[i]]
           T == {n \in Nat : \E g : Good(n, g)}
<1>1. 0 \in T
  <2>1. Good(0, [i \in 0..0 |-> a])
    OBVIOUS
  <2> QED BY <2>1
<1>2. \A n \in Nat : n \in T => n + 1 \in T
  <2> SUFFICES ASSUME NEW n \in Nat, n \in T PROVE \E g : Good(n+1, g)
    OBVIOUS
  <2>1. PICK g : Good(n, g)
    OBVIOUS
  <2> DEFINE h == [i \in 0..(n+1) |-> IF i = n+1 THEN F[g[n]] ELSE g[i]]
  <2>2. Good(n+1, h)
    <3>1. g[n] \in S /\ F[g[n]] \in S
      BY <2>1
    <3>2. h \in [0..(n+1) -> S] /\ h[0] = a
      BY <2>1, <3>1
    <3>3. \A i \in 0..n : h[i+1] = F[h[i]]
      BY <2>1
    <3>4. \A i \in 0..((n+1)-1) : h[i+1] = F[h[i]]
      BY <3>3, (n+1)-1 = n, Zenon
    <3> QED BY <3>2, <3>4
  <2> QED BY <2>2
<1>3. \A n \in Nat : n \in T
  BY <1>1, <1>2, Induct, Zenon
<1>4. \A n \in Nat : \E g : Good(n, g)
  BY <1>3
<1> DEFINE G[n \in Nat] == CHOOSE g : Good(n, g)
           f == [n \in Nat |-> G[n][n]]
<1>5. \A n \in Nat : Good(n, G[n])
  BY <1>4
<1>6. \A n \in Nat : \A m \in Nat : n <= m => G[m][n] = G[n][n]
  <2> SUFFICES ASSUME NEW m \in Nat, NEW k \in Nat, k <= m PROVE G[m][k] = G[k][k]
    OBVIOUS
  <2> HIDE DEF G
  <2> DEFINE U == {i \in Nat : i <= k => G[m][i] = G[k][i]}
  <2>1. 0 \in U
    BY <1>5
  <2>2. \A i \in Nat : i \in U => i+1 \in U
    <3> SUFFICES ASSUME NEW i \in Nat, i \in U, i + 1 <= k PROVE G[m][i+1] = G[k][i+1]
      OBVIOUS
    <3>1. G[m][i+1] = F[G[m][i]] /\ G[k][i+1] = F[G[k][i]]
      BY <1>5
    <3> QED BY <3>1
  <2>3. \A i \in Nat : i \in U
    BY <2>1, <2>2, Induct, Zenon
  <2> QED BY <2>3
<1>7. f \in [Nat -> S] /\ f[0] = a
  <2> HIDE DEF G
  <2>1. \A n \in Nat : G[n][n] \in S
    BY <1>5
  <2> QED BY <1>5, <2>1
<1>8. ASSUME NEW n \in Nat PROVE f[n+1] = F[f[n]]
  <2> HIDE DEF G
  <2>1. G[n+1][n+1] = F[G[n+1][n]]
    BY <1>5
  <2>2. G[n+1][n] = G[n][n]
    BY <1>6
  <2> QED BY <2>1, <2>2
<1> QED BY <1>7, <1>8 DEF Iterable

(* H computes a value from the argument and from values at smaller         *)
(* arguments only, by the measure m.                                       *)
Founded(S, V, m, H) ==
    /\ V # {} /\ m \in [S -> Nat] /\ H \in [S \X [S -> V] -> V]
    /\ \A x \in S : \A g, h \in [S -> V] :
         (\A y \in S : m[y] < m[x] => g[y] = h[y]) => H[<<x, g>>] = H[<<x, h>>]

(* The recursive equation with right-hand side H has a solution. *)
Solvable(S, V, H) == \E f \in [S -> V] : \A x \in S : f[x] = H[<<x, f>>]

(* A recursive definition whose argument gets smaller has a solution.      *)
(* Every recursive function of the models is one.                          *)
THEOREM Recursion ==
  ASSUME NEW S, NEW V, NEW m, NEW H, Founded(S, V, m, H)
  PROVE  Solvable(S, V, H)
<1> SUFFICES ASSUME V # {}, m \in [S -> Nat], H \in [S \X [S -> V] -> V],
                    \A x \in S : \A g, h \in [S -> V] :
                      (\A y \in S : m[y] < m[x] => g[y] = h[y])
                        => H[<<x, g>>] = H[<<x, h>>]
             PROVE  \E f \in [S -> V] : \A x \in S : f[x] = H[<<x, f>>]
  BY DEF Founded, Solvable
<1> PICK v : v \in V
  OBVIOUS
<1> DEFINE F == [g \in [S -> V] |-> [x \in S |-> H[<<x, g>>]]]
           a == [x \in S |-> v]
<1>1. a \in [S -> V] /\ F \in [[S -> V] -> [S -> V]]
  <2>1. \A g \in [S -> V], x \in S : H[<<x, g>>] \in V
    OBVIOUS
  <2> QED BY <2>1
<1>2. PICK G \in [Nat -> [S -> V]] : G[0] = a /\ \A n \in Nat : G[n+1] = F[G[n]]
  <2> HIDE DEF F, a
  <2>1. Iterable([S -> V], a, F)
    BY <1>1, Iterates, Zenon
  <2> QED BY <2>1, Zenon DEF Iterable
<1>3. ASSUME NEW n \in Nat, NEW x \in S PROVE G[n+1][x] = H[<<x, G[n]>>]
  <2>1. G[n] \in [S -> V] /\ G[n+1] = F[G[n]]
    BY <1>2
  <2> QED BY <2>1
<1>4. \A n \in Nat : \A x \in S : m[x] < n => G[n+1][x] = G[n][x]
  <2> DEFINE T == {n \in Nat : \A x \in S : m[x] < n => G[n+1][x] = G[n][x]}
  <2>1. 0 \in T
    OBVIOUS
  <2>2. \A n \in Nat : n \in T => n + 1 \in T
    <3> SUFFICES ASSUME NEW n \in Nat, n \in T, NEW x \in S, m[x] < n + 1
                 PROVE  G[n+1+1][x] = G[n+1][x]
      OBVIOUS
    <3>1. \A y \in S : m[y] < m[x] => G[n+1][y] = G[n][y]
      OBVIOUS
    <3>2. H[<<x, G[n+1]>>] = H[<<x, G[n]>>]
      <4>1. G[n+1] \in [S -> V] /\ G[n] \in [S -> V]
        OBVIOUS
      <4> QED BY <3>1, <4>1
    <3> QED BY <3>2, <1>3, n + 1 \in Nat
  <2>3. \A n \in Nat : n \in T
    BY <2>1, <2>2, Induct, Zenon
  <2> QED BY <2>3
<1>5. \A x \in S : \A n \in Nat : m[x] < n => G[n][x] = G[m[x] + 1][x]
  <2> SUFFICES ASSUME NEW x \in S PROVE \A n \in Nat : m[x] < n => G[n][x] = G[m[x] + 1][x]
    OBVIOUS
  <2> DEFINE T == {n \in Nat : m[x] < n => G[n][x] = G[m[x] + 1][x]}
  <2>1. 0 \in T
    OBVIOUS
  <2>2. ASSUME NEW n \in Nat, n \in T PROVE n + 1 \in T
    <3> SUFFICES ASSUME m[x] < n + 1 PROVE G[n+1][x] = G[m[x] + 1][x]
      OBVIOUS
    <3>9. m[x] < n => G[n][x] = G[m[x] + 1][x]
      BY <2>2
    <3> HIDE DEF T
    <3>0. m[x] \in Nat
      OBVIOUS
    <3>1. m[x] < n \/ m[x] = n
      BY <3>0, Successor, Zenon
    <3>2. CASE m[x] < n
      BY <3>2, <3>9, <1>4
    <3>3. CASE m[x] = n
      BY <3>3
    <3> QED BY <3>1, <3>2, <3>3
  <2>3. \A n \in Nat : n \in T
    BY <2>1, <2>2, Induct, Zenon
  <2> QED BY <2>3
<1> DEFINE f == [x \in S |-> G[m[x] + 1][x]]
<1>6. f \in [S -> V]
  OBVIOUS
<1>7. ASSUME NEW x \in S PROVE f[x] = H[<<x, f>>]
  <2>1. G[m[x] + 1][x] = H[<<x, G[m[x]]>>]
    BY <1>3
  <2>2. ASSUME NEW y \in S, m[y] < m[x] PROVE G[m[x]][y] = f[y]
    BY <1>5, <2>2
  <2>3. G[m[x]] \in [S -> V]
    OBVIOUS
  <2>4. H[<<x, G[m[x]]>>] = H[<<x, f>>]
    <3> HIDE DEF f
    <3> QED BY <1>6, <2>2, <2>3
  <2> QED BY <2>1, <2>4
<1> QED BY <1>6, <1>7

-----------------------------------------------------------------------------
(* Powers and congruence.                                                   *)

(* Powers of any integer. *)
Pow(b, n) ==
    LET p[k \in Nat] == IF k = 0 THEN 1 ELSE b * p[k-1] IN p[n]

(* The recursive definition of Pow is a definition. *)
LEMMA PowDef ==
  ASSUME NEW b \in Int
  PROVE  /\ Pow(b, 0) = 1
         /\ \A n \in Nat : Pow(b, n) \in Int /\ Pow(b, n+1) = b * Pow(b, n)
<1> DEFINE E(g) == [k \in Nat |-> IF k = 0 THEN 1 ELSE b * g[k-1]]
           H == [z \in Nat \X [Nat -> Int] |-> IF z[1] = 0 THEN 1 ELSE b * z[2][z[1]-1]]
           m == [k \in Nat |-> k]
           p == CHOOSE g : g = E(g)
<1>1. \E g : g \in [Nat -> Int] /\ g = E(g)
  <2>1. H \in [Nat \X [Nat -> Int] -> Int]
    OBVIOUS
  <2>2. ASSUME NEW k \in Nat, NEW g \in [Nat -> Int], NEW h \in [Nat -> Int],
               \A y \in Nat : m[y] < m[k] => g[y] = h[y]
        PROVE  H[<<k, g>>] = H[<<k, h>>]
    <3>1. k = 0 \/ (k - 1 \in Nat /\ k - 1 < k)
      OBVIOUS
    <3> QED BY <2>2, <3>1
  <2>3. m \in [Nat -> Nat] /\ Int # {}
    OBVIOUS
  <2>4. PICK f \in [Nat -> Int] : \A k \in Nat : f[k] = H[<<k, f>>]
    <3>1. Founded(Nat, Int, m, H)
      <4> HIDE DEF H, m
      <4> QED BY <2>1, <2>2, <2>3 DEF Founded
    <3> HIDE DEF H, m
    <3>2. Solvable(Nat, Int, H)
      BY <3>1, Recursion, Zenon
    <3> QED BY <3>2 DEF Solvable
  <2>5. f = E(f)
    <3>1. \A k \in Nat : f[k] = E(f)[k]
      BY <2>4
    <3> QED BY <3>1
  <2> QED BY <2>5
<1>2. p = E(p)
  BY <1>1
<1>3. \A n : Pow(b, n) = p[n]
  BY DEF Pow
<1> HIDE DEF p
<1>4. p[0] = 1 /\ \A n \in Nat : p[n+1] = b * p[n]
  BY <1>2
<1>5. \A n \in Nat : p[n] \in Int
  <2> DEFINE T == {n \in Nat : p[n] \in Int}
  <2>1. 0 \in T
    BY <1>4
  <2>2. \A n \in Nat : n \in T => n + 1 \in T
    BY <1>4
  <2>3. \A n \in Nat : n \in T
    BY <2>1, <2>2, Induct, Zenon
  <2> QED BY <2>3
<1> QED BY <1>3, <1>4, <1>5

(* The power of a sum of exponents. *)
LEMMA PowAdd ==
  ASSUME NEW b \in Int, NEW m \in Nat
  PROVE  \A n \in Nat : Pow(b, m + n) = Pow(b, m) * Pow(b, n)
<1> DEFINE T == {n \in Nat : Pow(b, m + n) = Pow(b, m) * Pow(b, n)}
<1>1. 0 \in T
  BY PowDef
<1>2. ASSUME NEW n \in Nat, n \in T PROVE n + 1 \in T
  <2>1. Pow(b, m + (n + 1)) = b * Pow(b, m + n)
    BY PowDef, m + n \in Nat, m + (n + 1) = (m + n) + 1
  <2>2. Pow(b, n + 1) = b * Pow(b, n)
    BY PowDef
  <2>3. Pow(b, m) \in Int /\ Pow(b, n) \in Int
    BY PowDef
  <2>4. b * (Pow(b, m) * Pow(b, n)) = Pow(b, m) * (b * Pow(b, n))
    BY <2>3
  <2> QED BY <1>2, <2>1, <2>2, <2>4
<1>3. \A n \in Nat : n \in T
  BY <1>1, <1>2, Induct, Zenon
<1> QED BY <1>3

(* Powers of naturals are naturals, and positive if the base is. *)
LEMMA PowNat ==
  ASSUME NEW b \in Nat, NEW n \in Nat
  PROVE  Pow(b, n) \in Nat /\ (b > 0 => Pow(b, n) > 0)
<1> DEFINE T == {k \in Nat : Pow(b, k) \in Nat /\ (b > 0 => Pow(b, k) > 0)}
<1>1. 0 \in T
  BY PowDef
<1>2. ASSUME NEW k \in Nat, k \in T PROVE k + 1 \in T
  <2>1. \A x, y \in Nat : x * y \in Nat /\ (x > 0 /\ y > 0 => x * y > 0)
    OBVIOUS
  <2>2. Pow(b, k) \in Nat /\ Pow(b, k + 1) = b * Pow(b, k)
    BY <1>2, PowDef
  <2>3. b * Pow(b, k) \in Nat /\ (b > 0 /\ Pow(b, k) > 0 => b * Pow(b, k) > 0)
    BY <2>1, <2>2
  <2> QED BY <1>2, <2>2, <2>3
<1>3. \A k \in Nat : k \in T
  BY <1>1, <1>2, Induct, Zenon
<1> QED BY <1>3

(* The power of a power. *)
LEMMA PowPow ==
  ASSUME NEW b \in Int, NEW m \in Nat
  PROVE  \A n \in Nat : Pow(Pow(b, m), n) = Pow(b, m * n)
<1> DEFINE T == {n \in Nat : Pow(Pow(b, m), n) = Pow(b, m * n)}
<1>0. Pow(b, m) \in Int
  BY PowDef
<1>1. 0 \in T
  BY PowDef, <1>0
<1>2. ASSUME NEW n \in Nat, n \in T PROVE n + 1 \in T
  <2>1. Pow(Pow(b, m), n + 1) = Pow(b, m) * Pow(Pow(b, m), n)
    BY PowDef, <1>0
  <2>2. m * n \in Nat /\ m * (n + 1) = m + m * n
    OBVIOUS
  <2>3. Pow(b, m * (n + 1)) = Pow(b, m) * Pow(b, m * n)
    BY <2>2, PowAdd
  <2> QED BY <1>2, <2>1, <2>3
<1>3. \A n \in Nat : n \in T
  BY <1>1, <1>2, Induct, Zenon
<1> QED BY <1>3

(* The power of a product. *)
LEMMA PowTimes ==
  ASSUME NEW a \in Int, NEW b \in Int
  PROVE  \A n \in Nat : Pow(a * b, n) = Pow(a, n) * Pow(b, n)
<1> DEFINE T == {n \in Nat : Pow(a * b, n) = Pow(a, n) * Pow(b, n)}
<1>1. 0 \in T
  BY PowDef, a * b \in Int
<1>2. ASSUME NEW n \in Nat, n \in T PROVE n + 1 \in T
  <2>1. Pow(a * b, n + 1) = (a * b) * Pow(a * b, n)
    BY PowDef, a * b \in Int
  <2>2. Pow(a, n + 1) = a * Pow(a, n) /\ Pow(b, n + 1) = b * Pow(b, n)
    BY PowDef
  <2>3. Pow(a, n) \in Int /\ Pow(b, n) \in Int
    BY PowDef
  <2>4. (a * b) * (Pow(a, n) * Pow(b, n)) = (a * Pow(a, n)) * (b * Pow(b, n))
    BY <2>3
  <2> QED BY <1>2, <2>1, <2>2, <2>4
<1>3. \A n \in Nat : n \in T
  BY <1>1, <1>2, Induct, Zenon
<1> QED BY <1>3

(* Equality modulo m. *)
Congruent(a, b, m) == \E k \in Int : a = b + k * m

(* Congruence is symmetric. *)
LEMMA CongruentSym ==
  ASSUME NEW a \in Int, NEW b \in Int, NEW m \in Int, Congruent(a, b, m)
  PROVE  Congruent(b, a, m)
<1> PICK k \in Int : a = b + k * m
  BY DEF Congruent
<1>1. b = a + (-k) * m /\ -k \in Int
  OBVIOUS
<1> QED BY <1>1 DEF Congruent

(* Congruence is transitive. *)
LEMMA CongruentTrans ==
  ASSUME NEW a \in Int, NEW b \in Int, NEW c \in Int, NEW m \in Int,
         Congruent(a, b, m), Congruent(b, c, m)
  PROVE  Congruent(a, c, m)
<1> PICK k \in Int : a = b + k * m
  BY DEF Congruent
<1> PICK l \in Int : b = c + l * m
  BY DEF Congruent
<1>1. a = c + (k + l) * m /\ k + l \in Int
  OBVIOUS
<1> QED BY <1>1 DEF Congruent

(* Congruence is kept by products. *)
LEMMA CongruentTimes ==
  ASSUME NEW a \in Int, NEW b \in Int, NEW c \in Int, NEW d \in Int, NEW m \in Int,
         Congruent(a, b, m), Congruent(c, d, m)
  PROVE  Congruent(a * c, b * d, m)
<1> PICK k \in Int : a = b + k * m
  BY DEF Congruent
<1> PICK l \in Int : c = d + l * m
  BY DEF Congruent
<1>1. a * c = b * d + (k * c + b * l) * m
  OBVIOUS
<1>2. k * c + b * l \in Int
  OBVIOUS
<1> QED BY <1>1, <1>2 DEF Congruent

(* A number is congruent to its remainder. *)
LEMMA CongruentMod ==
  ASSUME NEW a \in Int, NEW m \in Nat, m > 0
  PROVE  /\ a % m \in 0..(m-1) /\ Congruent(a % m, a, m)
         /\ a = (a \div m) * m + (a % m) /\ a \div m \in Int
<1>1. a = (a \div m) * m + (a % m) /\ a % m \in 0..(m-1) /\ a \div m \in Int
  OBVIOUS
<1>2. a % m = a + (-(a \div m)) * m /\ -(a \div m) \in Int
  BY <1>1
<1> QED BY <1>1, <1>2 DEF Congruent

(* Congruent remainders are equal. *)
LEMMA CongruentSmall ==
  ASSUME NEW m \in Nat, NEW a \in 0..(m-1), NEW b \in 0..(m-1), Congruent(a, b, m)
  PROVE  a = b
<1> PICK k \in Int : a = b + k * m
  BY DEF Congruent
<1>1. k >= 1 => k * m >= m
  OBVIOUS
<1>2. k <= -1 => k * m <= -m
  OBVIOUS
<1> QED BY <1>1, <1>2

(* The remainder is the only congruent number of its range. *)
LEMMA ModUnique ==
  ASSUME NEW m \in Nat, NEW a \in 0..(m-1), NEW b \in Int, Congruent(a, b, m)
  PROVE  a = b % m
<1>1. m > 0
  OBVIOUS
<1>2. b % m \in 0..(m-1) /\ Congruent(b % m, b, m)
  BY <1>1, CongruentMod
<1>3. Congruent(b, b % m, m)
  BY <1>2, CongruentSym
<1>4. Congruent(a, b % m, m)
  BY <1>2, <1>3, CongruentTrans
<1> QED BY <1>2, <1>4, CongruentSmall

(* Congruence is kept by powers. *)
LEMMA CongruentPow ==
  ASSUME NEW a \in Int, NEW b \in Int, NEW m \in Int, Congruent(a, b, m)
  PROVE  \A n \in Nat : Congruent(Pow(a, n), Pow(b, n), m)
<1> DEFINE T == {n \in Nat : Congruent(Pow(a, n), Pow(b, n), m)}
<1>1. 0 \in T
  <2>1. 1 = 1 + 0 * m
    OBVIOUS
  <2> QED BY PowDef, <2>1 DEF Congruent
<1>2. ASSUME NEW n \in Nat, n \in T PROVE n + 1 \in T
  <2>1. Pow(a, n) \in Int /\ Pow(b, n) \in Int
    BY PowDef
  <2>2. Congruent(a * Pow(a, n), b * Pow(b, n), m)
    BY <1>2, <2>1, CongruentTimes
  <2> QED BY <2>2, PowDef
<1>3. \A n \in Nat : n \in T
  BY <1>1, <1>2, Induct, Zenon
<1> QED BY <1>3

-----------------------------------------------------------------------------
(* Powers of two.                                                           *)

(* The built-in powers of two double, counted as the subsets of 1..n. *)
LEMMA TwoStep ==
  /\ 2^0 = 1
  /\ \A n \in Nat : 2^n \in Nat /\ 2^(n+1) = 2 * 2^n
<1>1. ASSUME NEW n \in Nat
      PROVE  IsFiniteSet(SUBSET (1..n)) /\ Cardinality(SUBSET (1..n)) = 2^n /\ 2^n \in Nat
  <2>1. IsFiniteSet(1..n) /\ Cardinality(1..n) = n
    BY FS_Interval
  <2>2. IsFiniteSet(SUBSET (1..n)) /\ Cardinality(SUBSET (1..n)) = 2^Cardinality(1..n)
    BY <2>1, FS_SUBSET
  <2> QED BY <2>1, <2>2, FS_CardinalityType
<1>2. 2^0 = 1
  <2>1. SUBSET (1..0) = {{}}
    OBVIOUS
  <2>2. Cardinality({{}}) = 1
    BY FS_Singleton
  <2> QED BY <1>1, <2>1, <2>2
<1>3. ASSUME NEW n \in Nat PROVE 2^(n+1) = 2 * 2^n
  <2> DEFINE A == SUBSET (1..n)
             B == {T \in SUBSET (1..(n+1)) : n+1 \in T}
             f == [T \in A |-> T \cup {n+1}]
  <2>1. SUBSET (1..(n+1)) = A \cup B /\ A \cap B = {}
    <3>1. 1..(n+1) = (1..n) \cup {n+1} /\ n+1 \notin 1..n
      OBVIOUS
    <3> QED BY <3>1
  <2>2. IsFiniteSet(A) /\ Cardinality(A) = 2^n
    BY <1>1
  <2>3. f \in Bijection(A, B)
    <3>1. \A T \in A : f[T] \in B
      <4>1. 1..n \subseteq 1..(n+1) /\ n+1 \in 1..(n+1)
        OBVIOUS
      <4> QED BY <4>1
    <3>2. ASSUME NEW T \in A, NEW U \in A, f[T] = f[U] PROVE T = U
      <4>1. n+1 \notin T /\ n+1 \notin U
        OBVIOUS
      <4> QED BY <4>1, <3>2
    <3>3. ASSUME NEW T \in B PROVE \E U \in A : f[U] = T
      <4>1. T \ {n+1} \in A
        OBVIOUS
      <4>2. f[T \ {n+1}] = T
        BY <4>1
      <4> QED BY <4>1, <4>2
    <3>4. f \in [A -> B]
      BY <3>1
    <3> HIDE DEF A, B, f
    <3> QED BY <3>2, <3>3, <3>4, SMTT(20) DEF Bijection, Injection, Surjection, IsInjective
  <2>4. IsFiniteSet(B) /\ Cardinality(B) = 2^n
    BY <2>2, <2>3, FS_Bijection DEF ExistsBijection
  <2>5. Cardinality(A \cup B) = Cardinality(A) + Cardinality(B) - Cardinality({})
    BY <2>1, <2>2, <2>4, FS_Union
  <2>6. Cardinality({}) = 0
    BY FS_EmptySet
  <2>7. Cardinality(A \cup B) = 2^(n+1)
    BY <1>1, <2>1
  <2> QED BY <1>1, <2>2, <2>4, <2>5, <2>6, <2>7
<1> QED BY <1>1, <1>2, <1>3

(* They are the powers that Pow computes. *)
LEMMA TwoPow == \A n \in Nat : 2^n = Pow(2, n)
<1> DEFINE T == {n \in Nat : 2^n = Pow(2, n)}
<1>1. 0 \in T
  BY TwoStep, PowDef
<1>2. ASSUME NEW n \in Nat, n \in T PROVE n + 1 \in T
  <2>1. 2^(n+1) = 2 * 2^n /\ Pow(2, n+1) = 2 * Pow(2, n)
    BY TwoStep, PowDef
  <2> QED BY <1>2, <2>1
<1>3. \A n \in Nat : n \in T
  BY <1>1, <1>2, Induct, Zenon
<1> QED BY <1>3

(* Powers of two are positive. *)
LEMMA TwoNat == \A n \in Nat : 2^n \in Nat /\ 2^n > 0
BY TwoPow, PowNat

(* The power of two of a sum. *)
LEMMA TwoAdd == \A m, n \in Nat : 2^(m + n) = 2^m * 2^n
<1> SUFFICES ASSUME NEW m \in Nat, NEW n \in Nat PROVE 2^(m + n) = 2^m * 2^n
  OBVIOUS
<1>1. Pow(2, m + n) = Pow(2, m) * Pow(2, n)
  BY PowAdd
<1>2. 2^m = Pow(2, m) /\ 2^n = Pow(2, n) /\ 2^(m + n) = Pow(2, m + n)
  BY TwoPow, m + n \in Nat
<1> QED BY <1>1, <1>2

(* A larger exponent at least doubles a power of two. *)
LEMMA TwoGrows == \A m, n \in Nat : m < n => 2 * 2^m <= 2^n
<1> SUFFICES ASSUME NEW m \in Nat, NEW n \in Nat, m < n PROVE 2 * 2^m <= 2^n
  OBVIOUS
<1> DEFINE k == n - (m + 1)
<1>1. k \in Nat /\ n = (m + 1) + k
  OBVIOUS
<1> HIDE DEF k
<1>2. 2^n = 2^(m + 1) * 2^k /\ 2^(m + 1) = 2 * 2^m
  BY <1>1, TwoAdd, TwoStep
<1>3. \A x, y \in Nat : y > 0 => x <= x * y
  OBVIOUS
<1> QED BY <1>1, <1>2, <1>3, TwoNat

(* A power of two exceeds its exponent. *)
LEMMA TwoLarger == \A n \in Nat : n < 2^n
<1> DEFINE T == {n \in Nat : n < 2^n}
<1>1. 0 \in T
  BY TwoStep
<1>2. ASSUME NEW n \in Nat, n \in T PROVE n + 1 \in T
  BY <1>2, TwoStep
<1>3. \A n \in Nat : n \in T
  BY <1>1, <1>2, Induct, Zenon
<1> QED BY <1>3

-----------------------------------------------------------------------------
(* Divisibility and primes.                                                 *)

(* Divisibility. *)
Divides(d, n) == \E k \in Int : n = k * d

(* Divisors leave no remainder. *)
LEMMA DividesMod ==
  ASSUME NEW d \in Nat, d > 0, NEW n \in Int
  PROVE  Divides(d, n) <=> n % d = 0
<1>1. n = (n \div d) * d + (n % d) /\ n % d \in 0..(d-1) /\ n \div d \in Int
  BY CongruentMod
<1>2. n % d = 0 => Divides(d, n)
  BY <1>1 DEF Divides
<1>3. ASSUME Divides(d, n) PROVE n % d = 0
  <2> PICK k \in Int : n = k * d
    BY <1>3 DEF Divides
  <2>1. 0 \in 0..(d-1) /\ 0 = n + (-k) * d /\ -k \in Int
    OBVIOUS
  <2>2. Congruent(0, n, d)
    BY <2>1 DEF Congruent
  <2> QED BY <2>1, <2>2, ModUnique
<1> QED BY <1>2, <1>3

(* A common divisor divides every combination. *)
LEMMA DividesSum ==
  ASSUME NEW d \in Int, NEW m \in Int, NEW n \in Int, NEW x \in Int, NEW y \in Int,
         Divides(d, m), Divides(d, n)
  PROVE  Divides(d, m * x + n * y)
<1> PICK k \in Int : m = k * d
  BY DEF Divides
<1> PICK l \in Int : n = l * d
  BY DEF Divides
<1>1. m * x + n * y = (k * x + l * y) * d /\ k * x + l * y \in Int
  OBVIOUS
<1> QED BY <1>1 DEF Divides

(* Congruence is divisibility of the difference. *)
LEMMA CongruentDivides ==
  ASSUME NEW a \in Int, NEW b \in Int, NEW m \in Int
  PROVE  Congruent(a, b, m) <=> Divides(m, a - b)
BY DEF Congruent, Divides

(* A divisor of a positive number is not larger than it. *)
LEMMA DividesSmall ==
  ASSUME NEW d \in Nat, NEW n \in Nat, Divides(d, n), n > 0
  PROVE  d <= n
<1> PICK k \in Int : n = k * d
  BY DEF Divides
<1>1. k >= 1
  BY k <= 0 => k * d <= 0
<1>2. k * d >= d
  BY <1>1
<1> QED BY <1>2

(* Division with remainder. *)
LEMMA Remainder ==
  ASSUME NEW n \in Int, NEW g \in Nat, g > 0
  PROVE  \E q \in Int, r \in 0..(g-1) : n = q * g + r
BY CongruentMod

(* g is an integer combination of a and b. *)
Combines(a, b, g) == \E x, y \in Int : g = a * x + b * y

(* Two numbers have a common divisor that is a combination of them. *)
LEMMA Bezout ==
  ASSUME NEW a \in Nat, NEW b \in Nat, b > 0
  PROVE  \E g \in Nat : /\ g > 0 /\ Divides(g, a) /\ Divides(g, b)
                        /\ Combines(a, b, g)
<1> DEFINE S == {g \in Nat : g > 0 /\ Combines(a, b, g)}
<1>1. b \in S
  <2>1. b = a * 0 + b * 1
    OBVIOUS
  <2> QED BY <2>1 DEF Combines
<1>2. PICK g \in Nat : /\ g > 0 /\ Combines(a, b, g)
                       /\ \A h \in Nat : h > 0 /\ Combines(a, b, h) => g <= h
  <2>1. PICK g \in S : \A h \in S : g <= h
    BY <1>1, Least
  <2> QED BY <2>1
<1>3. PICK x \in Int, y \in Int : g = a * x + b * y
  BY <1>2 DEF Combines
<1> HIDE DEF S
<1>4. ASSUME NEW n \in Nat, NEW u \in Int, NEW v \in Int, n = a * u + b * v
      PROVE  Divides(g, n)
  <2>1. PICK q \in Int, r \in 0..(g-1) : n = q * g + r
    <3>1. n \in Int /\ g > 0
      BY <1>2
    <3> QED BY <3>1, Remainder, Zenon
  <2>2. r = a * (u - q * x) + b * (v - q * y) /\ u - q * x \in Int /\ v - q * y \in Int
    BY <2>1, <1>3, <1>4
  <2>3. Combines(a, b, r)
    BY <2>2 DEF Combines
  <2>4. r = 0
    BY <1>2, <2>3
  <2>5. n = q * g
    BY <2>1, <2>4
  <2> QED BY <2>5 DEF Divides
<1>5. Divides(g, a) /\ Divides(g, b)
  <2>1. a = a * 1 + b * 0 /\ b = a * 0 + b * 1 /\ 0 \in Int /\ 1 \in Int
    OBVIOUS
  <2>2. Divides(g, a)
    BY <2>1, <1>4
  <2>3. Divides(g, b)
    BY <2>1, <1>4
  <2> QED BY <2>2, <2>3
<1> QED BY <1>2, <1>5

(* Primes, by their divisors. *)
Prime(p) == p \in Nat /\ p > 1 /\ \A d \in 2..(p-1) : ~Divides(d, p)

(* A prime and a number it does not divide combine to 1. *)
LEMMA PrimeCoprime ==
  ASSUME NEW p, Prime(p), NEW a \in Nat, ~Divides(p, a)
  PROVE  Combines(a, p, 1)
<1>0. p \in Nat /\ p > 1
  BY DEF Prime
<1>1. PICK g \in Nat : /\ g > 0 /\ Divides(g, a) /\ Divides(g, p)
                       /\ Combines(a, p, g)
  BY <1>0, Bezout
<1>2. g <= p
  BY <1>0, <1>1, DividesSmall
<1>3. g # p
  BY <1>1
<1>4. g \notin 2..(p-1)
  BY <1>1 DEF Prime
<1>5. g = 1
  BY <1>0, <1>1, <1>2, <1>3, <1>4
<1> QED BY <1>1, <1>5

(* A prime that divides a product divides one of the factors (Euclid). *)
LEMMA EuclidLemma ==
  ASSUME NEW p, Prime(p), NEW a \in Nat, NEW b \in Int, Divides(p, a * b), ~Divides(p, a)
  PROVE  Divides(p, b)
<1>0. p \in Nat
  BY DEF Prime
<1>1. PICK x \in Int, y \in Int : 1 = a * x + p * y
  BY PrimeCoprime DEF Combines
<1>2. PICK k \in Int : a * b = k * p
  BY DEF Divides
<1>3. b = b * (a * x + p * y)
  BY <1>1
<1>4. b * (a * x + p * y) = (a * b) * x + p * (y * b)
  BY <1>0
<1>5. (a * b) * x + p * (y * b) = (k * x + y * b) * p
  BY <1>0, <1>2
<1>6. b = (k * x + y * b) * p /\ k * x + y * b \in Int
  BY <1>3, <1>4, <1>5
<1> QED BY <1>6 DEF Divides

-----------------------------------------------------------------------------
(* Fermat's little theorem, by counting orbits.                             *)

(* One more factor, for naturals. *)
LEMMA PowStep ==
  ASSUME NEW b \in Nat, NEW n \in Nat
  PROVE  Pow(b, n) \in Nat /\ Pow(b, n + 1) = b * Pow(b, n)
<1>1. b \in Int
  OBVIOUS
<1> QED BY <1>1, PowDef, PowNat

(* The range of a remainder. *)
LEMMA ModRange ==
  ASSUME NEW a \in Int, NEW m \in Nat, m > 0
  PROVE  a % m \in 0..(m-1) /\ a % m \in Nat /\ a % m < m
OBVIOUS

(* A remainder is congruent to its number, both ways. *)
LEMMA ModCongruent ==
  ASSUME NEW a \in Int, NEW m \in Nat, m > 0
  PROVE  Congruent(a % m, a, m) /\ Congruent(a, a % m, m)
BY CongruentMod, CongruentSym

(* Equal remainders are congruence. *)
LEMMA EqualMod ==
  ASSUME NEW a \in Int, NEW b \in Int, NEW m \in Nat, m > 0
  PROVE  a % m = b % m <=> Congruent(a, b, m)
<1>1. a % m \in Int /\ b % m \in Int
  OBVIOUS
<1>2. /\ Congruent(a % m, a, m) /\ Congruent(a, a % m, m)
      /\ Congruent(b % m, b, m) /\ Congruent(b, b % m, m)
  BY ModCongruent
<1>3. a % m = b % m => Congruent(a, b, m)
  BY <1>1, <1>2, CongruentTrans
<1>4. ASSUME Congruent(a, b, m) PROVE a % m = b % m
  <2>1. Congruent(a % m, b, m)
    BY <1>1, <1>2, <1>4, CongruentTrans
  <2> QED BY <2>1, ModRange, ModUnique
<1> QED BY <1>3, <1>4

(* No prime divides 1. *)
LEMMA PrimeNotOne ==
  ASSUME NEW p, Prime(p)
  PROVE  p \in Nat /\ p > 1 /\ ~Divides(p, 1)
<1>1. p \in Nat /\ p > 1
  BY DEF Prime
<1>2. ~Divides(p, 1)
  BY <1>1, DividesSmall
<1> QED BY <1>1, <1>2

(* A prime that does not divide a base divides none of its powers. *)
LEMMA PowCoprime ==
  ASSUME NEW p, Prime(p), NEW a \in Nat, ~Divides(p, a)
  PROVE  \A n \in Nat : ~Divides(p, Pow(a, n))
<1> DEFINE T == {n \in Nat : ~Divides(p, Pow(a, n))}
<1>1. 0 \in T
  BY PrimeNotOne, PowDef
<1>2. ASSUME NEW n \in Nat, n \in T PROVE n + 1 \in T
  <2>0. Pow(a, n+1) = a * Pow(a, n) /\ Pow(a, n) \in Nat
    BY PowStep, Zenon
  <2>1. Pow(a, n+1) = a * Pow(a, n) /\ Pow(a, n) \in Int
    BY <2>0
  <2> QED BY <1>2, <2>1, EuclidLemma
<1>3. \A n \in Nat : n \in T
  BY <1>1, <1>2, Induct, Zenon
<1> QED BY <1>3

(* A factor that a prime does not divide can be cancelled modulo the       *)
(* prime.                                                                  *)
LEMMA Cancel ==
  ASSUME NEW p, Prime(p), NEW c \in Nat, ~Divides(p, c), NEW x \in Int, NEW y \in Int,
         Congruent(c * x, c * y, p)
  PROVE  Congruent(x, y, p)
<1>0. p \in Int
  BY DEF Prime
<1>1. Divides(p, c * x - c * y)
  BY <1>0, CongruentDivides, c * x \in Int, c * y \in Int
<1>2. c * x - c * y = c * (x - y) /\ x - y \in Int
  OBVIOUS
<1>3. Divides(p, x - y)
  BY <1>1, <1>2, EuclidLemma
<1> QED BY <1>0, <1>3, CongruentDivides

(* The same for powers of one base. *)
LEMMA PowCancel ==
  ASSUME NEW p, Prime(p), NEW a \in Nat, ~Divides(p, a), NEW x \in Nat, ~Divides(p, x),
         NEW i \in Nat, NEW j \in Nat, i <= j,
         Congruent(x * Pow(a, i), x * Pow(a, j), p)
  PROVE  Congruent(Pow(a, j - i), 1, p)
<1> DEFINE k == j - i
<1>0. p \in Int /\ k \in Nat /\ j = i + k
  BY DEF Prime
<1> HIDE DEF k
<1>1. Pow(a, i) \in Nat /\ Pow(a, j) \in Nat /\ Pow(a, k) \in Nat
  BY <1>0, PowNat
<1>2. Congruent(Pow(a, i), Pow(a, j), p)
  BY <1>1, Cancel
<1>3. Pow(a, j) = Pow(a, i) * Pow(a, k) /\ Pow(a, i) = Pow(a, i) * 1
  BY <1>0, <1>1, PowAdd
<1>4. Congruent(Pow(a, i) * 1, Pow(a, i) * Pow(a, k), p)
  BY <1>2, <1>3
<1>5. Congruent(1, Pow(a, k), p)
  BY <1>1, <1>4, Cancel, PowCoprime
<1>6. Congruent(Pow(a, k), 1, p)
  BY <1>0, <1>1, <1>5, CongruentSym
<1> QED BY <1>6 DEF k

(* d is the least exponent, above zero, with which a gives 1 modulo p. *)
Order(a, p, d) ==
    /\ d \in Nat /\ d > 0 /\ Congruent(Pow(a, d), 1, p)
    /\ \A e \in Nat : e > 0 /\ Congruent(Pow(a, e), 1, p) => d <= e

(* Every number that p does not divide has an order. *)
LEMMA OrderExists ==
  ASSUME NEW p, Prime(p), NEW a \in Nat, ~Divides(p, a)
  PROVE  \E d : Order(a, p, d)
<1> DEFINE f == [i \in 0..(p-1) |-> Pow(a, i) % p]
           E == {e \in Nat : e > 0 /\ Congruent(Pow(a, e), 1, p)}
<1>0. p \in Nat /\ p > 1 /\ p \in Int
  BY DEF Prime
<1>1. ASSUME NEW i \in Nat PROVE Pow(a, i) \in Nat /\ Pow(a, i) % p \in 1..(p-1)
  <2>1. Pow(a, i) \in Nat
    BY PowNat
  <2>2. Pow(a, i) % p \in 0..(p-1)
    BY <1>0, <2>1, ModRange
  <2>3. Pow(a, i) % p # 0
    BY <1>0, <2>1, PowCoprime, DividesMod
  <2> QED BY <1>0, <2>1, <2>2, <2>3
<1>2. f \in [0..(p-1) -> 1..(p-1)]
  BY <1>0, <1>1
<1>3. /\ IsFiniteSet(0..(p-1)) /\ IsFiniteSet(1..(p-1))
      /\ Cardinality(1..(p-1)) < Cardinality(0..(p-1))
  <2>1. Cardinality(1..(p-1)) = p - 1 /\ Cardinality(0..(p-1)) = p
    BY <1>0, FS_Interval
  <2>2. IsFiniteSet(0..(p-1)) /\ IsFiniteSet(1..(p-1))
    BY <1>0, FS_Interval
  <2> QED BY <1>0, <2>1, <2>2
<1>4. \E i, j \in 0..(p-1) : i # j /\ f[i] = f[j]
  <2> HIDE DEF f
  <2> QED BY <1>2, <1>3, FS_PigeonHole
<1>5. \E i, j \in 0..(p-1) : i < j /\ Pow(a, i) % p = Pow(a, j) % p
  <2>1. PICK i \in 0..(p-1), j \in 0..(p-1) : i # j /\ f[i] = f[j]
    BY <1>4
  <2>2. i < j \/ j < i
    BY <1>0, <2>1
  <2> QED BY <2>1, <2>2
<1>6. PICK i \in 0..(p-1), j \in 0..(p-1) : i < j /\ Pow(a, i) % p = Pow(a, j) % p
  BY <1>5
<1>7. i \in Nat /\ j \in Nat /\ j - i \in Nat /\ j - i > 0
  BY <1>0, <1>6
<1>8. Congruent(Pow(a, i), Pow(a, j), p)
  <2>1. Pow(a, i) \in Int /\ Pow(a, j) \in Int /\ p > 0
    BY <1>0, <1>1, <1>7
  <2> QED BY <1>0, <1>6, <2>1, EqualMod
<1>9. Congruent(Pow(a, j - i), 1, p)
  <2>1. 1 * Pow(a, i) = Pow(a, i) /\ 1 * Pow(a, j) = Pow(a, j)
    BY <1>1, <1>7
  <2>2. Congruent(1 * Pow(a, i), 1 * Pow(a, j), p)
    BY <1>8, <2>1
  <2> QED BY <1>6, <1>7, <2>2, PrimeNotOne, PowCancel
<1>10. j - i \in E
  BY <1>7, <1>9
<1>11. PICK d \in E : \A e \in E : d <= e
  <2> HIDE DEF E
  <2>1. E \in SUBSET Nat
    BY DEF E
  <2> QED BY <1>10, <2>1, Least
<1>12. Order(a, p, d)
  BY <1>11 DEF Order
<1> QED BY <1>12

(* What x becomes by multiplying with a, modulo p. *)
Orbit(a, p, d, x) == {(x * Pow(a, i)) % p : i \in 0..(d-1)}

(* An orbit has as many members as the order says, all of them below p. *)
LEMMA OrbitSize ==
  ASSUME NEW p, Prime(p), NEW a \in Nat, ~Divides(p, a), NEW d, Order(a, p, d),
         NEW x \in 1..(p-1)
  PROVE  /\ IsFiniteSet(Orbit(a, p, d, x)) /\ Cardinality(Orbit(a, p, d, x)) = d
         /\ Orbit(a, p, d, x) \subseteq 1..(p-1)
<1> DEFINE f == [i \in 0..(d-1) |-> (x * Pow(a, i)) % p]
           O == Orbit(a, p, d, x)
<1>0. p \in Nat /\ p > 1 /\ p \in Int /\ d \in Nat /\ d > 0 /\ x \in Nat /\ x > 0
  BY DEF Prime, Order
<1>1. ~Divides(p, x)
  BY <1>0, DividesSmall
<1>2. ASSUME NEW i \in Nat PROVE x * Pow(a, i) \in Nat /\ (x * Pow(a, i)) % p \in 1..(p-1)
  <2>1. Pow(a, i) \in Nat
    BY PowNat
  <2>2. x * Pow(a, i) \in Nat
    BY <1>0, <2>1
  <2>3. ~Divides(p, x * Pow(a, i))
    BY <1>0, <1>1, <2>1, PowCoprime, EuclidLemma
  <2> DEFINE u == x * Pow(a, i)
  <2>4. u \in Int /\ p > 0 /\ ~Divides(p, u)
    BY <1>0, <2>2, <2>3
  <2> HIDE DEF u
  <2>5. u % p \in 0..(p-1) /\ u % p # 0
    BY <1>0, <2>4, ModRange, DividesMod
  <2>6. u % p \in 1..(p-1)
    BY <1>0, <2>5
  <2> QED BY <2>2, <2>6 DEF u
<1>3. O \subseteq 1..(p-1)
  BY <1>0, <1>2 DEF Orbit
<1>4. f \in [0..(d-1) -> O]
  BY DEF Orbit
<1>5. ASSUME NEW i \in 0..(d-1), NEW j \in 0..(d-1), i < j, f[i] = f[j] PROVE FALSE
  <2>0. i \in Nat /\ j \in Nat /\ j - i \in Nat /\ j - i > 0 /\ j - i < d
    BY <1>0, <1>5
  <2>1. Congruent(x * Pow(a, i), x * Pow(a, j), p)
    <3> DEFINE u == x * Pow(a, i)
               v == x * Pow(a, j)
    <3>1. u \in Int /\ v \in Int
      BY <2>0, <1>2
    <3>2. u % p = v % p
      BY <1>5
    <3> HIDE DEF u, v
    <3>5. Congruent(u, v, p)
      BY <1>0, <3>1, <3>2, EqualMod
    <3> QED BY <3>5 DEF u, v
  <2>2. Congruent(Pow(a, j - i), 1, p)
    BY <1>0, <1>1, <1>5, <2>0, <2>1, PowCancel
  <2> QED BY <2>0, <2>2, <1>0 DEF Order
<1>6. ASSUME NEW i \in 0..(d-1), NEW j \in 0..(d-1), f[i] = f[j] PROVE i = j
  <2>1. i < j \/ j < i \/ i = j
    BY <1>0
  <2> HIDE DEF f
  <2> QED BY <1>5, <1>6, <2>1
<1>7. \A y \in O : \E i \in 0..(d-1) : f[i] = y
  BY DEF Orbit
<1>8. f \in Bijection(0..(d-1), O)
  <2> HIDE DEF f, O
  <2> QED BY <1>4, <1>6, <1>7, SMTT(20) DEF Bijection, Injection, Surjection, IsInjective
<1>9. IsFiniteSet(0..(d-1)) /\ Cardinality(0..(d-1)) = d
  <2>1. d - 1 \in Int /\ 0 <= d - 1 /\ (d - 1) - 0 + 1 = d
    BY <1>0
  <2> QED BY <2>1, FS_Interval
<1>10. IsFiniteSet(O) /\ Cardinality(O) = d
  <2> HIDE DEF f, O
  <2> QED BY <1>8, <1>9, FS_Bijection DEF ExistsBijection
<1> QED BY <1>3, <1>10

(* Two orbits that meet are in the same place. *)
LEMMA OrbitsMeet ==
  ASSUME NEW p, Prime(p), NEW a \in Nat, ~Divides(p, a), NEW d, Order(a, p, d),
         NEW x \in 1..(p-1), NEW y \in 1..(p-1), NEW i \in 0..(d-1), NEW j \in 0..(d-1),
         (x * Pow(a, i)) % p = (y * Pow(a, j)) % p
  PROVE  y \in Orbit(a, p, d, x)
<1>0. /\ p \in Nat /\ p > 1 /\ p \in Int /\ d \in Nat /\ d > 0 /\ x \in Nat /\ y \in Nat
      /\ i \in Nat /\ j \in Nat /\ d - j \in Nat /\ i + (d - j) \in Nat /\ j + (d - j) = d
  BY DEF Prime, Order
<1> DEFINE e == i + (d - j)
           xi == x * Pow(a, i)
           yj == y * Pow(a, j)
           t == Pow(a, d - j)
<1>1. Pow(a, i) \in Nat /\ Pow(a, j) \in Nat /\ Pow(a, e) \in Nat /\ t \in Nat /\ Pow(a, d) \in Nat
  BY <1>0, PowNat
<1>2. Pow(a, e) = Pow(a, i) * t /\ Pow(a, d) = Pow(a, j) * t
  <2> DEFINE k == d - j
  <2>1. a \in Int /\ i \in Nat /\ j \in Nat /\ k \in Nat /\ j + k = d
    BY <1>0
  <2> HIDE DEF k
  <2>2. Pow(a, i + k) = Pow(a, i) * Pow(a, k)
    BY <2>1, PowAdd
  <2>3. Pow(a, j + k) = Pow(a, j) * Pow(a, k)
    BY <2>1, PowAdd
  <2>4. Pow(a, d) = Pow(a, j) * Pow(a, k)
    BY <2>1, <2>3
  <2> QED BY <2>2, <2>4 DEF k
<1> HIDE DEF e, t
<1>3. xi \in Nat /\ yj \in Nat
  BY <1>0, <1>1
<1>4. Congruent(xi, yj, p)
  <2> HIDE DEF xi, yj
  <2>1. xi % p = yj % p
    BY DEF xi, yj
  <2> QED BY <1>0, <1>3, <2>1, EqualMod
<1>5. Congruent(xi * t, yj * t, p)
  <2>1. t = t + 0 * p
    BY <1>0, <1>1
  <2>2. Congruent(t, t, p)
    BY <2>1 DEF Congruent
  <2> HIDE DEF xi, yj
  <2> QED BY <1>0, <1>1, <1>3, <1>4, <2>2, CongruentTimes
<1>6. xi * t = x * Pow(a, e) /\ yj * t = y * Pow(a, d)
  <2>1. \A u, v, w \in Nat : (u * v) * w = u * (v * w)
    OBVIOUS
  <2> QED BY <1>0, <1>1, <1>2, <2>1
<1>7. Congruent(y * Pow(a, d), y, p)
  <2>1. Congruent(Pow(a, d), 1, p)
    BY DEF Order
  <2>2. y = y + 0 * p
    BY <1>0
  <2>3. Congruent(y, y, p)
    BY <2>2 DEF Congruent
  <2>4. Congruent(y * Pow(a, d), y * 1, p)
    BY <1>0, <1>1, <2>1, <2>3, CongruentTimes
  <2> QED BY <1>0, <2>4
<1>8. Congruent(x * Pow(a, e), y, p)
  <2>1. x * Pow(a, e) \in Int /\ y * Pow(a, d) \in Int /\ y \in Int
    BY <1>0, <1>1
  <2>2. Congruent(x * Pow(a, e), y * Pow(a, d), p)
    BY <1>5, <1>6
  <2> QED BY <1>0, <1>7, <2>1, <2>2, CongruentTrans
<1>9. \A k \in 0..(d-1) : Congruent(x * Pow(a, k), y, p) => y \in Orbit(a, p, d, x)
  <2> SUFFICES ASSUME NEW k \in 0..(d-1), Congruent(x * Pow(a, k), y, p)
               PROVE  y \in Orbit(a, p, d, x)
    OBVIOUS
  <2>1. Pow(a, k) \in Nat
    BY <1>0, PowNat
  <2>2. x * Pow(a, k) \in Int /\ y \in Int
    BY <1>0, <2>1
  <2>3. (x * Pow(a, k)) % p = y % p
    BY <1>0, <2>2, EqualMod
  <2>4. y % p = y
    BY <1>0
  <2> QED BY <2>3, <2>4 DEF Orbit
<1>10. CASE e < d
  <2>1. e \in 0..(d-1)
    BY <1>0, <1>10 DEF e
  <2> QED BY <1>8, <1>9, <2>1
<1>11. CASE e >= d
  <2> DEFINE k == e - d
  <2>1. k \in Nat /\ k < d /\ e = d + k
    BY <1>0, <1>11 DEF e
  <2> HIDE DEF k
  <2>2. Pow(a, e) = Pow(a, d) * Pow(a, k) /\ Pow(a, k) \in Nat
    <3>1. a \in Int /\ d \in Nat /\ k \in Nat
      BY <1>0, <2>1
    <3>2. Pow(a, d + k) = Pow(a, d) * Pow(a, k)
      BY <3>1, PowAdd
    <3>3. Pow(a, k) \in Nat
      BY <3>1, PowNat
    <3> QED BY <2>1, <3>2, <3>3
  <2>3. Congruent(1, Pow(a, d), p)
    BY <1>0, <1>1, CongruentSym DEF Order
  <2>4. x * Pow(a, k) = x * Pow(a, k) + 0 * p
    BY <1>0, <2>2
  <2>5. Congruent(x * Pow(a, k), x * Pow(a, k), p)
    BY <2>4 DEF Congruent
  <2>6. x * Pow(a, k) \in Int /\ x * Pow(a, e) \in Int /\ y \in Int
    BY <1>0, <1>1, <2>2
  <2>7. Congruent(1 * (x * Pow(a, k)), Pow(a, d) * (x * Pow(a, k)), p)
    BY <1>0, <1>1, <2>3, <2>5, <2>6, CongruentTimes
  <2>8. 1 * (x * Pow(a, k)) = x * Pow(a, k) /\ Pow(a, d) * (x * Pow(a, k)) = x * Pow(a, e)
    BY <1>0, <1>1, <2>2
  <2>9. Congruent(x * Pow(a, k), y, p)
    BY <1>0, <1>8, <2>6, <2>7, <2>8, CongruentTrans
  <2>10. k \in 0..(d-1)
    BY <1>0, <2>1
  <2> QED BY <1>9, <2>9, <2>10
<1>12. e \in Nat
  BY <1>0 DEF e
<1> QED BY <1>0, <1>10, <1>11, <1>12

(* A set of remainders with the orbits of its members. *)
Closed(a, p, d, T) == T \subseteq 1..(p-1) /\ \A x \in T : Orbit(a, p, d, x) \subseteq T

(* The orbits partition the remainders, so that the order divides p - 1. *)
LEMMA OrderDivides ==
  ASSUME NEW p, Prime(p), NEW a \in Nat, ~Divides(p, a), NEW d, Order(a, p, d)
  PROVE  Divides(d, p - 1)
<1>0. /\ p \in Nat /\ p > 1 /\ p - 1 \in Nat /\ d \in Nat /\ d > 0
      /\ IsFiniteSet(1..(p-1)) /\ Cardinality(1..(p-1)) = p - 1
  BY FS_Interval DEF Prime, Order
<1> DEFINE S == {n \in Nat : \A T \in SUBSET (1..(p-1)) :
                    Closed(a, p, d, T) /\ Cardinality(T) = n => Divides(d, n)}
<1>1. ASSUME NEW n \in Nat, \A m \in 0..(n-1) : m \in S
      PROVE  n \in S
  <2> SUFFICES ASSUME NEW T \in SUBSET (1..(p-1)), Closed(a, p, d, T), Cardinality(T) = n
               PROVE  Divides(d, n)
    OBVIOUS
  <2>1. IsFiniteSet(T)
    BY <1>0, FS_Subset
  <2>2. CASE T = {}
    <3>1. n = 0
      BY <2>2, FS_EmptySet
    <3>2. 0 = 0 * d
      BY <1>0
    <3> QED BY <3>1, <3>2 DEF Divides
  <2>3. CASE T # {}
    <3>1. PICK x \in T : TRUE
      BY <2>3
    <3> DEFINE O == Orbit(a, p, d, x)
               U == T \ O
    <3>2. x \in 1..(p-1) /\ O \subseteq T
      BY DEF Closed
    <3>3. IsFiniteSet(O) /\ Cardinality(O) = d
      BY <3>2, OrbitSize
    <3>4. Cardinality(T) = Cardinality(U) + d /\ IsFiniteSet(U)
      <4>1. T \cap O = O
        BY <3>2
      <4>2. Cardinality(U) = Cardinality(T) - Cardinality(T \cap O) /\ IsFiniteSet(U)
        BY <2>1, FS_Difference
      <4>3. Cardinality(T) \in Nat /\ Cardinality(U) \in Nat
        BY <2>1, <4>2, FS_CardinalityType
      <4> DEFINE u == Cardinality(U)
                 o == Cardinality(O)
                 t == Cardinality(T)
      <4>4. u = t - o /\ o = d /\ t \in Nat /\ u \in Nat
        BY <3>3, <4>1, <4>2, <4>3
      <4> HIDE DEF u, o, t
      <4>5. t = u + d
        BY <1>0, <4>4
      <4> QED BY <4>2, <4>5 DEF u, t
    <3>5. Closed(a, p, d, U)
      <4> SUFFICES ASSUME NEW y \in U, NEW z \in Orbit(a, p, d, y) PROVE z \in U
        BY DEF Closed
      <4>1. z \in T /\ y \in 1..(p-1)
        BY DEF Closed
      <4>2. ASSUME z \in O PROVE FALSE
        <5>1. PICK i \in 0..(d-1) : z = (x * Pow(a, i)) % p
          BY <4>2 DEF Orbit
        <5>2. PICK j \in 0..(d-1) : z = (y * Pow(a, j)) % p
          BY DEF Orbit
        <5>3. y \in O
          BY <3>2, <4>1, <5>1, <5>2, OrbitsMeet
        <5> QED BY <5>3
      <4> QED BY <4>1, <4>2
    <3>6. Cardinality(U) \in Nat /\ n = Cardinality(U) + d
      BY <3>4, FS_CardinalityType
    <3>7. Cardinality(U) \in S
      <4> DEFINE u == Cardinality(U)
      <4>1. u \in Nat /\ n = u + d
        BY <3>6
      <4> HIDE DEF u, U, S
      <4>2. u \in 0..(n-1)
        BY <1>0, <4>1
      <4>3. u \in S
        BY <1>1, <4>2
      <4> QED BY <4>3 DEF u
    <3>8. U \in SUBSET (1..(p-1))
      OBVIOUS
    <3>9. Divides(d, Cardinality(U))
      <4> HIDE DEF U
      <4> QED BY <3>5, <3>7, <3>8
    <3>10. PICK k \in Int : Cardinality(U) = k * d
      BY <3>9 DEF Divides
    <3>11. n = (k + 1) * d /\ k + 1 \in Int
      BY <1>0, <3>6, <3>10
    <3> QED BY <3>11 DEF Divides
  <2> QED BY <2>2, <2>3
<1>2. \A n \in Nat : n \in S
  <2> HIDE DEF S
  <2> QED BY <1>1, StrongInduct
<1>3. Closed(a, p, d, 1..(p-1))
  BY OrbitSize DEF Closed
<1> QED BY <1>0, <1>2, <1>3

(* Powers of 1. *)
LEMMA PowOne == \A n \in Nat : Pow(1, n) = 1
<1> DEFINE T == {n \in Nat : Pow(1, n) = 1}
<1>1. 0 \in T
  BY PowDef
<1>2. ASSUME NEW n \in Nat, n \in T PROVE n + 1 \in T
  <2>1. Pow(1, n+1) = 1 * Pow(1, n)
    BY PowStep
  <2> QED BY <1>2, <2>1
<1>3. \A n \in Nat : n \in T
  BY <1>1, <1>2, Induct, Zenon
<1> QED BY <1>3

(* Fermat's little theorem. *)
THEOREM Fermat ==
  ASSUME NEW p, Prime(p), NEW a \in Nat, ~Divides(p, a)
  PROVE  Congruent(Pow(a, p - 1), 1, p)
<1>1. PICK d : Order(a, p, d)
  BY OrderExists
<1>2. p \in Nat /\ p - 1 \in Nat /\ p - 1 > 0 /\ d \in Nat /\ d > 0 /\ Congruent(Pow(a, d), 1, p)
  BY <1>1 DEF Order, Prime
<1>3. PICK k \in Int : p - 1 = k * d
  BY <1>1, OrderDivides DEF Divides
<1>4. k \in Nat /\ p - 1 = d * k
  <2>1. k < 0 => k * d <= 0
    BY <1>2
  <2> QED BY <1>2, <1>3, <2>1
<1>5. Pow(a, p - 1) = Pow(Pow(a, d), k) /\ Pow(a, d) \in Int
  <2>1. a \in Int
    OBVIOUS
  <2>2. Pow(Pow(a, d), k) = Pow(a, d * k)
    BY <1>2, <1>4, <2>1, PowPow
  <2> QED BY <1>2, <1>4, <2>1, <2>2, PowNat
<1>6. Congruent(Pow(Pow(a, d), k), Pow(1, k), p)
  BY <1>2, <1>4, <1>5, CongruentPow
<1> QED BY <1>4, <1>5, <1>6, PowOne

-----------------------------------------------------------------------------
(* Quotients, roots of one, and two primes together.                        *)

(* Halving a number. *)
LEMMA Halved ==
  ASSUME NEW e \in Nat, e > 0
  PROVE  /\ e \div 2 \in Nat /\ e \div 2 < e
         /\ e % 2 \in {0, 1} /\ e = 2 * (e \div 2) + (e % 2)
OBVIOUS

(* The quotient is the only number that fits. *)
LEMMA DivUnique ==
  ASSUME NEW n \in Int, NEW c \in Nat, c > 0, NEW q \in Int, q * c <= n, n < (q + 1) * c
  PROVE  n \div c = q
<1> DEFINE r == n - q * c
<1>1. r \in Int /\ n = q * c + r /\ 0 <= r /\ r < c
  <2>1. q * c \in Int /\ (q + 1) * c = q * c + c
    OBVIOUS
  <2> QED BY <2>1
<1> HIDE DEF r
<1>2. n = (n \div c) * c + (n % c) /\ n % c \in 0..(c-1) /\ n \div c \in Int
  BY CongruentMod
<1> DEFINE x == n \div c
           y == n % c
<1>3. n = x * c + y /\ y \in 0..(c-1) /\ x \in Int
  BY <1>2
<1> HIDE DEF x, y
<1>4. (x - q) * c = r - y
  BY <1>1, <1>3
<1>5. x - q >= 1 => (x - q) * c >= c
  BY <1>3
<1>6. x - q <= -1 => (x - q) * c <= -c
  BY <1>3
<1>7. x = q
  BY <1>1, <1>3, <1>4, <1>5, <1>6
<1> QED BY <1>7 DEF x

(* Dividing twice is dividing by the product; the quotient in base b. *)
LEMMA DivDiv ==
  ASSUME NEW n \in Nat, NEW c \in Nat, c > 0, NEW b \in Nat, b > 0
  PROVE  /\ n \div c \in Nat /\ n \div (c * b) \in Nat
         /\ n \div c = (n \div (c * b)) * b + ((n \div c) % b)
<1> DEFINE x == n \div c
           y == x \div b
<1>1. n = x * c + (n % c) /\ n % c \in 0..(c-1) /\ x \in Int
  BY CongruentMod
<1>2. x >= 0
  <2>1. x <= -1 => x * c <= -c
    BY <1>1
  <2> QED BY <1>1, <2>1
<1> HIDE DEF x
<1>3. x = y * b + (x % b) /\ x % b \in 0..(b-1) /\ y \in Int
  BY <1>1, CongruentMod
<1>4. y >= 0
  <2>1. y <= -1 => y * b <= -b
    BY <1>3
  <2> QED BY <1>2, <1>3, <2>1
<1> HIDE DEF y
<1> DEFINE r == n % c
           s == x % b
<1>5. n = x * c + r /\ r \in 0..(c-1) /\ x = y * b + s /\ s \in 0..(b-1)
  BY <1>1, <1>3
<1> HIDE DEF r, s
<1>6. n = y * (c * b) + (s * c + r)
  BY <1>1, <1>3, <1>5
<1>7. s * c + r < c * b /\ 0 <= s * c + r
  <2>1. s * c <= (b - 1) * c
    BY <1>5
  <2>2. (b - 1) * c = c * b - c
    OBVIOUS
  <2>3. s * c >= 0 /\ s * c \in Int /\ c * b \in Int
    BY <1>5
  <2> QED BY <1>5, <2>1, <2>2, <2>3
<1>8. y * (c * b) <= n /\ n < (y + 1) * (c * b)
  <2> DEFINE m == c * b
             t == s * c + r
  <2>1. m \in Nat /\ t \in Int /\ 0 <= t /\ t < m /\ n = y * m + t
    BY <1>5, <1>6, <1>7
  <2> HIDE DEF m, t
  <2>2. (y + 1) * m = y * m + m /\ y * m \in Int
    BY <1>3, <2>1
  <2>3. y * m <= n /\ n < (y + 1) * m
    BY <2>1, <2>2
  <2> QED BY <2>3 DEF m
<1>9. n \div (c * b) = y
  <2>1. c * b \in Nat /\ c * b > 0
    OBVIOUS
  <2> QED BY <1>3, <1>8, <2>1, DivUnique
<1>10. x = y * b + s
  BY <1>5
<1> QED BY <1>1, <1>2, <1>3, <1>4, <1>9, <1>10 DEF x, s

(* A quotient of a smaller number is 0. *)
LEMMA DivSmall ==
  ASSUME NEW n \in Nat, NEW c \in Nat, n < c
  PROVE  n \div c = 0
<1>1. 0 * c <= n /\ n < (0 + 1) * c
  OBVIOUS
<1> QED BY <1>1, DivUnique

(* Congruence is reflexive. *)
LEMMA CongruentSelf ==
  ASSUME NEW a \in Int, NEW m \in Int
  PROVE  Congruent(a, a, m)
<1>1. a = a + 0 * m
  OBVIOUS
<1> QED BY <1>1 DEF Congruent

(* Every positive number is an odd one times a power of two. *)
LEMMA OddPart ==
  \A m \in Nat : m > 0 => \E r \in Nat, d \in Nat : m = d * 2^r /\ d % 2 = 1
<1> DEFINE P(m) == m > 0 => \E r \in Nat, d \in Nat : m = d * 2^r /\ d % 2 = 1
           T == {m \in Nat : P(m)}
<1>1. ASSUME NEW m \in Nat, \A k \in 0..(m-1) : k \in T PROVE m \in T
  <2> SUFFICES ASSUME m > 0 PROVE P(m)
    OBVIOUS
  <2> DEFINE h == m \div 2
  <2>1. h \in Nat /\ h < m /\ m % 2 \in {0, 1} /\ m = 2 * h + (m % 2)
    BY Halved
  <2>2. CASE m % 2 = 1
    <3>1. m = m * 2^0
      BY TwoStep
    <3> QED BY <2>2, <3>1
  <2>3. CASE m % 2 = 0
    <3> HIDE DEF h
    <3>1. h \in 0..(m-1) /\ h > 0 /\ m = 2 * h
      BY <2>1, <2>3
    <3>2. P(h)
      <4> HIDE DEF P
      <4> QED BY <1>1, <3>1
    <3>3. PICK r \in Nat, d \in Nat : h = d * 2^r /\ d % 2 = 1
      BY <3>1, <3>2
    <3>4. 2^(r+1) = 2 * 2^r /\ 2^r \in Nat /\ r + 1 \in Nat
      BY TwoStep
    <3>5. 2 * (d * 2^r) = d * (2 * 2^r)
      BY <3>4
    <3>6. m = d * 2^(r+1)
      BY <3>1, <3>3, <3>4, <3>5
    <3> QED BY <3>3, <3>4, <3>6
  <2> QED BY <2>1, <2>2, <2>3
<1>2. \A m \in Nat : m \in T
  <2> HIDE DEF T
  <2> QED BY <1>1, StrongInduct
<1> QED BY <1>2

(* Modulo a prime, one has two roots. *)
LEMMA RootsOfOne ==
  ASSUME NEW n, Prime(n), NEW s \in 0..(n - 1), Congruent(s * s, 1, n)
  PROVE  s = 1 \/ s = n - 1
<1>1. n \in Nat /\ n > 1 /\ s \in Nat /\ n \in Int /\ s \in Int /\ s * s \in Int
  BY DEF Prime
<1>2. Divides(n, (s + 1) * (s - 1))
  <2>1. Divides(n, s * s - 1)
    BY <1>1, CongruentDivides
  <2>2. (s + 1) * (s - 1) = s * s - 1
    BY <1>1
  <2> QED BY <2>1, <2>2
<1>3. CASE Divides(n, s + 1)
  <2>1. n <= s + 1
    BY <1>1, <1>3, DividesSmall
  <2> QED BY <1>1, <2>1
<1>4. CASE ~Divides(n, s + 1)
  <2>1. s + 1 \in Nat /\ s - 1 \in Int
    BY <1>1
  <2>2. Divides(n, s - 1)
    BY <1>2, <1>4, <2>1, EuclidLemma
  <2>3. Congruent(s, 1, n)
    BY <1>1, <2>2, CongruentDivides
  <2>4. 1 \in 0..(n - 1)
    BY <1>1
  <2> QED BY <1>1, <2>3, <2>4, CongruentSmall
<1> QED BY <1>3, <1>4

(* Two primes that divide a number divide it together. *)
LEMMA TwoPrimes ==
  ASSUME NEW p, Prime(p), NEW q, Prime(q), p # q, NEW z \in Int,
         Divides(p, z), Divides(q, z)
  PROVE  Divides(p * q, z)
<1>1. p \in Nat /\ p > 1 /\ q \in Nat /\ q > 1
  BY DEF Prime
<1>2. PICK k \in Int : z = k * p
  BY DEF Divides
<1>3. ~Divides(q, p)
  <2> SUFFICES ASSUME Divides(q, p) PROVE FALSE
    OBVIOUS
  <2>1. q <= p
    BY <1>1, DividesSmall
  <2>2. q \in 2..(p - 1)
    BY <1>1, <2>1
  <2> QED BY <2>2 DEF Prime
<1>4. Divides(q, p * k)
  <2>1. p * k = k * p
    BY <1>1
  <2> QED BY <1>2, <2>1
<1>5. Divides(q, k)
  BY <1>1, <1>3, <1>4, EuclidLemma
<1>6. PICK l \in Int : k = l * q
  BY <1>5 DEF Divides
<1>7. z = l * (p * q)
  BY <1>1, <1>2, <1>6
<1> QED BY <1>7 DEF Divides

(* Raising to a multiple of p - 1, and one more, changes nothing modulo p. *)
LEMMA FermatPower ==
  ASSUME NEW p, Prime(p), NEW m \in Nat, NEW k \in Nat
  PROVE  Congruent(Pow(m, k * (p - 1) + 1), m, p)
<1> DEFINE f == p - 1
           e == k * f
<1>1. p \in Nat /\ p > 1 /\ p \in Int /\ m \in Int /\ f \in Nat
  BY DEF Prime
<1>2. e \in Nat /\ e = f * k
  <2> HIDE DEF f
  <2> QED BY <1>1
<1> HIDE DEF e
<1>3. Pow(m, e) \in Nat /\ Pow(m, e + 1) = m * Pow(m, e)
  BY <1>2, PowStep
<1>4. CASE Divides(p, m)
  <2>1. PICK l \in Int : m = l * p
    BY <1>4 DEF Divides
  <2> DEFINE y == Pow(m, e)
  <2>2. y \in Int
    BY <1>3
  <2> HIDE DEF y
  <2>3. m * y = m + (l * y - l) * p /\ l * y - l \in Int
    BY <1>1, <2>1, <2>2
  <2>4. Congruent(m * y, m, p)
    BY <2>3 DEF Congruent
  <2> QED BY <1>3, <2>4 DEF y, e, f
<1>5. CASE ~Divides(p, m)
  <2>1. Congruent(Pow(m, f), 1, p)
    BY <1>5, Fermat
  <2>2. Pow(m, f) \in Nat
    BY <1>1, PowNat
  <2>3. Congruent(Pow(Pow(m, f), k), Pow(1, k), p)
    BY <1>1, <2>1, <2>2, CongruentPow
  <2>4. Pow(Pow(m, f), k) = Pow(m, e)
    BY <1>1, <1>2, PowPow
  <2>5. Pow(1, k) = 1
    BY PowOne
  <2>6. Congruent(Pow(m, e), 1, p)
    BY <2>3, <2>4, <2>5
  <2> DEFINE y == Pow(m, e)
  <2>7. Congruent(m, m, p)
    BY <1>1, CongruentSelf
  <2>8. Congruent(m * y, m * 1, p)
    BY <1>1, <1>3, <2>6, <2>7, CongruentTimes
  <2>9. m * 1 = m
    BY <1>1
  <2> QED BY <1>3, <2>8, <2>9 DEF e, f
<1> QED BY <1>4, <1>5

(* An inverse pair of exponents undoes itself. *)
LEMMA ExponentsUndo ==
  ASSUME NEW p, Prime(p), NEW q, Prime(q), p # q, p > 2, q > 2,
         NEW x \in Nat, Congruent(x, 1, (p - 1) * (q - 1)), NEW m \in Nat
  PROVE  Congruent(Pow(m, x), m, p * q)
<1> DEFINE f == p - 1
           g == q - 1
<1>1. p \in Nat /\ q \in Nat /\ f \in Nat /\ g \in Nat /\ f > 1 /\ g > 1 /\ p \in Int /\ q \in Int
  BY DEF Prime
<1>2. PICK k \in Int : x = 1 + k * (f * g)
  BY DEF Congruent
<1>p. Congruent(Pow(m, (k * g) * f + 1), m, p) \/ k < 0
  <2>1. k < 0 \/ k * g \in Nat
    BY <1>1
  <2> QED BY <2>1, FermatPower
<1>q. Congruent(Pow(m, (k * f) * g + 1), m, q) \/ k < 0
  <2>1. k < 0 \/ k * f \in Nat
    BY <1>1
  <2> QED BY <2>1, FermatPower
<1> HIDE DEF f, g
<1>3. k \in Nat
  <2>1. f * g > 1 /\ f * g \in Nat
    BY <1>1
  <2> DEFINE h == f * g
  <2>2. h > 1 /\ h \in Nat /\ x = 1 + k * h
    BY <1>2, <2>1
  <2> HIDE DEF h
  <2>3. k <= -1 => k * h <= -h
    BY <2>2
  <2>4. k * h \in Int
    BY <2>2
  <2> QED BY <2>2, <2>3, <2>4
<1>4. x = (k * g) * f + 1 /\ x = (k * f) * g + 1
  BY <1>1, <1>2
<1>5. Congruent(Pow(m, x), m, p) /\ Congruent(Pow(m, x), m, q)
  BY <1>p, <1>q, <1>3, <1>4
<1> DEFINE y == Pow(m, x)
<1>6. y \in Int /\ m \in Int /\ y - m \in Int /\ p * q \in Int
  <2>1. y \in Nat
    BY PowNat
  <2> HIDE DEF y
  <2> QED BY <1>1, <2>1
<1> HIDE DEF y
<1>7. Divides(p, y - m) /\ Divides(q, y - m)
  BY <1>1, <1>5, <1>6, CongruentDivides DEF y
<1>8. Divides(p * q, y - m)
  BY <1>6, <1>7, TwoPrimes
<1>9. Congruent(y, m, p * q)
  BY <1>6, <1>8, CongruentDivides
<1> QED BY <1>9 DEF y

(* The product of two different ones of them has the size asked for, or    *)
(* one bit less.                                                           *)
LEMMA ProductSmall ==
  ASSUME NEW h \in Nat, NEW p \in Nat, NEW q \in Nat, p % 2 = 1, q % 2 = 1, p < q, q <= h + 1
  PROVE  p * q < h * h
<1>1. p <= q - 2
  BY q # p + 1
<1>2. p <= h - 1
  BY <1>1
<1>3. h >= 1 /\ q \in Nat /\ q >= 0
  BY <1>2
<1>4. p * q <= (h - 1) * q
  <2>1. ((h - 1) - p) * q >= 0
    BY <1>2, <1>3
  <2>2. ((h - 1) - p) * q = (h - 1) * q - p * q
    OBVIOUS
  <2>3. (h - 1) * q \in Int /\ p * q \in Int
    OBVIOUS
  <2> QED BY <2>1, <2>2, <2>3
<1>5. (h - 1) * q <= (h - 1) * (h + 1)
  <2>1. (h - 1) * ((h + 1) - q) >= 0
    BY <1>3
  <2>2. (h - 1) * ((h + 1) - q) = (h - 1) * (h + 1) - (h - 1) * q
    OBVIOUS
  <2>3. (h - 1) * q \in Int /\ (h - 1) * (h + 1) \in Int
    OBVIOUS
  <2> QED BY <2>1, <2>2, <2>3
<1>6. (h - 1) * (h + 1) = h * h - 1
  OBVIOUS
<1>7. p * q \in Int /\ (h - 1) * q \in Int /\ (h - 1) * (h + 1) \in Int /\ h * h \in Int
  OBVIOUS
<1> QED BY <1>4, <1>5, <1>6, <1>7
=============================================================================
