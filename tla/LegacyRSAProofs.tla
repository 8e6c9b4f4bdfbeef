--------------------------- MODULE LegacyRSAProofs ---------------------------
(***************************************************************************)
(* Theorems about LegacyRSA for every size of key, every message, any byte  *)
(* width and number of rounds, and any three prime exponents.               *)
(***************************************************************************)
EXTENDS LegacyRSAProperties, NumberTheorems

-----------------------------------------------------------------------------
(* The constants.                                                           *)

(* What an assumption on the exponents says, for the arithmetic. *)
LEMMA ConstantTypes ==
  /\ ByteWidth \in Nat /\ ByteWidth > 0 /\ Overhead \in Nat /\ Overhead > 0
  /\ Rounds \in Nat /\ Rounds > 0 /\ Sizes \subseteq Nat /\ Probes \subseteq Nat
BY RSAAssumption

(* Trial division and the absence of divisors are the same. *)
LEMMA PrimeByTrial ==
  ASSUME NEW n \in Nat
  PROVE  IsPrime(n) <=> Prime(n)
<1>1. ASSUME NEW m \in 2..(n-1)
      PROVE  Divides(m, n) <=> n % m = 0
  <2>1. m \in Nat /\ m > 0 /\ n \in Int
    OBVIOUS
  <2> QED BY <2>1, DividesMod
<1> QED BY <1>1 DEF IsPrime, Prime

-----------------------------------------------------------------------------
(* modExp computes powers.                                                  *)

(* The arguments of the loop of modExp: result, base, exponent. *)
Triples == Nat \X Nat \X Nat

(* One pass of the loop of modExp. *)
ModExpBody(g, s, mod) ==
    LET r == s[1]  b == s[2]  e == s[3]
    IN  IF e = 0 THEN r
        ELSE g[<<IF e % 2 = 1 THEN (r * b) % mod ELSE r, (b * b) % mod, e \div 2>>]

(* The next pass has an argument again. *)
LEMMA ModExpArgument ==
  ASSUME NEW mod \in Nat, mod > 0, NEW s \in Triples, s[3] > 0
  PROVE  <<IF s[3] % 2 = 1 THEN (s[1] * s[2]) % mod ELSE s[1],
           (s[2] * s[2]) % mod, s[3] \div 2>> \in Triples
<1>1. s[1] \in Nat /\ s[2] \in Nat /\ s[3] \in Nat
  BY DEF Triples
<1>2. s[1] * s[2] \in Int /\ s[2] * s[2] \in Int
  BY <1>1
<1>3. (s[1] * s[2]) % mod \in Nat /\ (s[2] * s[2]) % mod \in Nat
  BY <1>2, ModRange
<1>4. s[3] \div 2 \in Nat
  BY <1>1, Halved
<1> QED BY <1>1, <1>3, <1>4 DEF Triples

(* The loop of modExp ends for every argument: its equation has a          *)
(* solution.                                                               *)
LEMMA ModExpFunction ==
  ASSUME NEW mod \in Nat, mod > 0
  PROVE  \E go \in [Triples -> Nat] :
           /\ \A s \in Triples : go[s] = ModExpBody(go, s, mod)
           /\ \A base, exp : ModExp(base, exp, mod) = go[<<1, base % mod, exp>>]
<1> DEFINE E(g) == [s \in Triples |-> ModExpBody(g, s, mod)]
           H == [z \in Triples \X [Triples -> Nat] |-> ModExpBody(z[2], z[1], mod)]
           m == [s \in Triples |-> s[3]]
           go == CHOOSE g : g = E(g)
<1>1. \E g : g \in [Triples -> Nat] /\ g = E(g)
  <2>1. H \in [Triples \X [Triples -> Nat] -> Nat]
    <3> SUFFICES ASSUME NEW s \in Triples, NEW g \in [Triples -> Nat]
                 PROVE  ModExpBody(g, s, mod) \in Nat
      OBVIOUS
    <3>1. s[1] \in Nat /\ s[3] \in Nat
      BY DEF Triples
    <3>2. s[3] > 0 => ModExpBody(g, s, mod) \in Nat
      BY ModExpArgument DEF ModExpBody
    <3>3. s[3] = 0 => ModExpBody(g, s, mod) \in Nat
      BY <3>1 DEF ModExpBody
    <3> QED BY <3>1, <3>2, <3>3
  <2>2. ASSUME NEW s \in Triples, NEW g \in [Triples -> Nat], NEW h \in [Triples -> Nat],
               \A y \in Triples : m[y] < m[s] => g[y] = h[y]
        PROVE  H[<<s, g>>] = H[<<s, h>>]
    <3>1. s[3] \in Nat
      BY DEF Triples
    <3>2. CASE s[3] = 0
      BY <3>2 DEF ModExpBody
    <3>3. CASE s[3] > 0
      <4> DEFINE y == <<IF s[3] % 2 = 1 THEN (s[1] * s[2]) % mod ELSE s[1],
                        (s[2] * s[2]) % mod, s[3] \div 2>>
      <4>1. y \in Triples
        BY <3>3, ModExpArgument
      <4>2. y[3] < s[3]
        BY <3>1, <3>3, Halved
      <4>3. m[y] < m[s]
        <5> HIDE DEF y
        <5> QED BY <4>1, <4>2
      <4>4. g[y] = h[y]
        <5> HIDE DEF y, m
        <5> QED BY <2>2, <4>1, <4>3
      <4> QED BY <3>3, <4>4 DEF ModExpBody
    <3> QED BY <3>1, <3>2, <3>3
  <2>3. m \in [Triples -> Nat] /\ Nat # {}
    BY DEF Triples
  <2>4. PICK f \in [Triples -> Nat] : \A s \in Triples : f[s] = H[<<s, f>>]
    <3>1. Founded(Triples, Nat, m, H)
      <4> HIDE DEF H, m
      <4> QED BY <2>1, <2>2, <2>3 DEF Founded
    <3> HIDE DEF H, m
    <3>2. Solvable(Triples, Nat, H)
      BY <3>1, Recursion, Zenon
    <3> QED BY <3>2 DEF Solvable
  <2>5. f = E(f)
    <3>1. \A s \in Triples : f[s] = E(f)[s]
      BY <2>4
    <3> QED BY <3>1
  <2> QED BY <2>5
<1>2. go = E(go)
  BY <1>1
<1>3. \A base, exp : ModExp(base, exp, mod) = go[<<1, base % mod, exp>>]
  BY DEF ModExp, ModExpBody, Triples
<1> HIDE DEF go
<1>4. \A s \in Triples : go[s] = ModExpBody(go, s, mod)
  BY <1>2
<1>5. \A s \in Triples : go[s] \in Nat
  <2> DEFINE T == {n \in Nat : \A s \in Triples : s[3] = n => go[s] \in Nat}
  <2>1. ASSUME NEW n \in Nat, \A k \in 0..(n-1) : k \in T PROVE n \in T
    <3> SUFFICES ASSUME NEW s \in Triples, s[3] = n PROVE go[s] \in Nat
      OBVIOUS
    <3>1. s[1] \in Nat /\ go[s] = ModExpBody(go, s, mod)
      BY <1>4 DEF Triples
    <3>2. CASE n = 0
      BY <3>1, <3>2 DEF ModExpBody
    <3>3. CASE n > 0
      <4> DEFINE y == <<IF s[3] % 2 = 1 THEN (s[1] * s[2]) % mod ELSE s[1],
                        (s[2] * s[2]) % mod, s[3] \div 2>>
      <4>1. y \in Triples
        BY <3>3, ModExpArgument
      <4>2. y[3] = n \div 2 /\ n \div 2 \in 0..(n-1)
        BY <3>3, Halved
      <4>3. n \div 2 \in T
        <5> HIDE DEF T
        <5> QED BY <2>1, <4>2
      <4>4. go[y] \in Nat
        <5> HIDE DEF y
        <5> QED BY <4>1, <4>2, <4>3
      <4>5. go[s] = go[y]
        BY <3>1, <3>3 DEF ModExpBody
      <4> QED BY <4>4, <4>5
    <3> QED BY <3>2, <3>3
  <2>2. \A n \in Nat : n \in T
    <3> HIDE DEF T
    <3> QED BY <2>1, StrongInduct
  <2> QED BY <2>2 DEF Triples
<1>6. go \in [Triples -> Nat]
  <2>1. go = [s \in Triples |-> go[s]]
    BY <1>2
  <2> QED BY <1>5, <2>1
<1> QED BY <1>3, <1>4, <1>6

(* The loop of modExp from any point: the exponent's power is still to be  *)
(* multiplied in.                                                          *)
LEMMA ModExpLoop ==
  ASSUME NEW mod \in Nat, mod > 0, NEW go \in [Triples -> Nat],
         \A s \in Triples : go[s] = ModExpBody(go, s, mod)
  PROVE  \A e \in Nat : \A r, b \in Nat :
            /\ Congruent(go[<<r, b, e>>], r * Pow(b, e), mod)
            /\ r < mod => go[<<r, b, e>>] < mod
<1> DEFINE P(r, b, e) == /\ Congruent(go[<<r, b, e>>], r * Pow(b, e), mod)
                         /\ r < mod => go[<<r, b, e>>] < mod
           T == {e \in Nat : \A r, b \in Nat : P(r, b, e)}
<1>1. ASSUME NEW e \in Nat, \A k \in 0..(e-1) : k \in T PROVE e \in T
  <2> SUFFICES ASSUME NEW r \in Nat, NEW b \in Nat PROVE P(r, b, e)
    OBVIOUS
  <2>0. <<r, b, e>> \in Triples /\ go[<<r, b, e>>] = ModExpBody(go, <<r, b, e>>, mod)
    BY DEF Triples
  <2>1. CASE e = 0
    <3>1. go[<<r, b, e>>] = r
      BY <2>0, <2>1 DEF ModExpBody
    <3>2. Pow(b, e) = 1
      BY <2>1, PowDef
    <3>3. r = r * Pow(b, e) + 0 * mod
      BY <3>2
    <3>4. Congruent(r, r * Pow(b, e), mod)
      BY <3>3 DEF Congruent
    <3> QED BY <3>1, <3>4
  <2>2. CASE e > 0
    <3> DEFINE h == e \div 2
               c == (b * b) % mod
               x == IF e % 2 = 1 THEN (r * b) % mod ELSE r
    <3>1. h \in Nat /\ h \in 0..(e-1) /\ e % 2 \in {0, 1} /\ e = 2 * h + (e % 2)
      BY <2>2, Halved
    <3>2. b * b \in Int /\ r * b \in Int /\ b * b \in Nat /\ b \in Int /\ r \in Int
      OBVIOUS
    <3>3. c \in Nat /\ Congruent(c, b * b, mod) /\ (r * b) % mod \in Nat /\ (r * b) % mod < mod
          /\ Congruent((r * b) % mod, r * b, mod)
      BY <3>2, ModRange, ModCongruent
    <3>4. x \in Nat /\ (r < mod => x < mod)
      BY <3>3
    <3>5. go[<<r, b, e>>] = go[<<x, c, h>>]
      BY <2>0, <2>2 DEF ModExpBody
    <3> HIDE DEF h, c, x
    <3>6. P(x, c, h)
      <4>1. h \in T
        <5> HIDE DEF T
        <5> QED BY <1>1, <3>1
      <4> HIDE DEF P
      <4> QED BY <3>3, <3>4, <4>1
    <3>7. Congruent(Pow(c, h), Pow(b * b, h), mod)
      BY <3>1, <3>2, <3>3, CongruentPow
    <3>8. Pow(b * b, h) = Pow(b, h) * Pow(b, h) /\ Pow(b, h) \in Nat /\ Pow(c, h) \in Nat
      <4>1. b \in Int /\ h \in Nat /\ c \in Nat /\ b * b \in Nat
        BY <3>1, <3>2, <3>3
      <4>2. Pow(b * b, h) = Pow(b, h) * Pow(b, h)
        BY <4>1, PowTimes
      <4>3. Pow(b, h) \in Nat /\ Pow(c, h) \in Nat
        BY <4>1, PowNat
      <4> QED BY <4>2, <4>3
    <3>9. Pow(b, 2 * h) = Pow(b, h) * Pow(b, h)
      <4>1. 2 * h = h + h
        BY <3>1
      <4> QED BY <3>1, <3>2, <4>1, PowAdd
    <3>10. Congruent(x * Pow(c, h), r * Pow(b, e), mod)
      <4>1. CASE e % 2 = 0
        <5>1. x = r /\ e = 2 * h
          BY <3>1, <4>1 DEF x
        <5>2. r = r + 0 * mod
          OBVIOUS
        <5>3. Congruent(r, r, mod)
          BY <5>2 DEF Congruent
        <5> QED BY <3>7, <3>8, <3>9, <5>1, <5>3, CongruentTimes
      <4>2. CASE e % 2 = 1
        <5>1. Congruent(x, r * b, mod) /\ x \in Int /\ e = 2 * h + 1 /\ 2 * h \in Nat
          BY <3>1, <3>3, <3>4, <4>2 DEF x
        <5>2. Pow(b, e) = b * (Pow(b, h) * Pow(b, h))
          BY <3>9, <5>1, PowStep
        <5> DEFINE w == Pow(b, h) * Pow(b, h)
        <5>3. w \in Nat /\ Congruent(Pow(c, h), w, mod)
          BY <3>7, <3>8
        <5> HIDE DEF w
        <5>4. Congruent(x * Pow(c, h), (r * b) * w, mod)
          BY <3>2, <3>8, <5>1, <5>3, CongruentTimes
        <5>5. (r * b) * w = r * (b * w)
          BY <5>3
        <5> QED BY <5>2, <5>4, <5>5 DEF w
      <4> QED BY <3>1, <4>1, <4>2
    <3>11. go[<<x, c, h>>] \in Int /\ x * Pow(c, h) \in Int /\ r * Pow(b, e) \in Int
      <4>1. <<x, c, h>> \in Triples
        BY <3>1, <3>3, <3>4 DEF Triples
      <4>2. Pow(b, e) \in Nat
        BY PowNat
      <4> QED BY <3>4, <3>8, <4>1, <4>2
    <3>12. Congruent(go[<<x, c, h>>], r * Pow(b, e), mod)
      BY <3>6, <3>10, <3>11, CongruentTrans
    <3> QED BY <3>4, <3>5, <3>6, <3>12
  <2> QED BY <2>1, <2>2
<1>2. \A e \in Nat : e \in T
  <2> HIDE DEF T
  <2> QED BY <1>1, StrongInduct
<1> QED BY <1>2

(* modExp computes the power modulo mod. *)
THEOREM ModExpCorrect ==
  ASSUME NEW base \in Nat, NEW exp \in Nat, NEW mod \in Nat, mod > 1
  PROVE  /\ ModExp(base, exp, mod) \in 0..(mod - 1)
         /\ Congruent(ModExp(base, exp, mod), Pow(base, exp), mod)
<1>1. PICK go \in [Triples -> Nat] :
           /\ \A s \in Triples : go[s] = ModExpBody(go, s, mod)
           /\ \A b, e : ModExp(b, e, mod) = go[<<1, b % mod, e>>]
  BY ModExpFunction
<1> DEFINE x == base % mod
           y == go[<<1, x, exp>>]
<1>2. x \in Nat /\ Congruent(x, base, mod)
  <2>1. base \in Int
    OBVIOUS
  <2> QED BY <2>1, ModRange, ModCongruent
<1> HIDE DEF x
<1>3. Congruent(y, 1 * Pow(x, exp), mod) /\ y < mod
  BY <1>1, <1>2, ModExpLoop
<1>4. y \in Nat
  BY <1>2 DEF Triples
<1>5. ModExp(base, exp, mod) = y
  BY <1>1 DEF x
<1>6. Pow(x, exp) \in Nat /\ Pow(base, exp) \in Nat
  BY <1>2, PowNat
<1>7. Congruent(Pow(x, exp), Pow(base, exp), mod)
  BY <1>2, CongruentPow
<1> HIDE DEF y
<1>8. Congruent(y, Pow(base, exp), mod)
  BY <1>3, <1>4, <1>6, <1>7, CongruentTrans
<1> QED BY <1>3, <1>4, <1>5, <1>8

-----------------------------------------------------------------------------
(* modInverse computes inverses.                                            *)

(* The arguments of extendedGCD. *)
Pairs == Nat \X Nat

(* Its results: the divisor and two coefficients. *)
Coefficients == Nat \X Int \X Int

(* One call of extendedGCD. *)
GCDBody(g, s) ==
    LET a == s[1]  b == s[2]
    IN  IF b = 0 THEN <<a, 1, 0>>
        ELSE LET t == g[<<b, a % b>>]
             IN  <<t[1], t[3], t[2] - (a \div b) * t[3]>>

(* The nested call has smaller arguments. *)
LEMMA GCDArgument ==
  ASSUME NEW s \in Pairs, s[2] > 0
  PROVE  <<s[2], s[1] % s[2]>> \in Pairs /\ s[1] % s[2] < s[2]
<1>1. s[1] \in Int /\ s[2] \in Nat
  BY DEF Pairs
<1>2. s[1] % s[2] \in Nat /\ s[1] % s[2] < s[2]
  BY <1>1, ModRange
<1> QED BY <1>1, <1>2 DEF Pairs

(* A call computes a result from that of the nested one. *)
LEMMA GCDValue ==
  ASSUME NEW s \in Pairs, NEW t \in Coefficients, s[2] > 0
  PROVE  <<t[1], t[3], t[2] - (s[1] \div s[2]) * t[3]>> \in Coefficients
<1>1. s[1] \in Int /\ s[2] \in Nat /\ t[1] \in Nat /\ t[2] \in Int /\ t[3] \in Int
  BY DEF Pairs, Coefficients
<1>2. s[1] \div s[2] \in Int
  BY <1>1
<1>3. t[2] - (s[1] \div s[2]) * t[3] \in Int
  BY <1>1, <1>2
<1> QED BY <1>1, <1>3 DEF Coefficients

(* extendedGCD ends for every argument, with a result. *)
LEMMA GCDFunction ==
  /\ \A s \in Pairs : ExtendedGCD[s] = GCDBody(ExtendedGCD, s)
  /\ \A s \in Pairs : ExtendedGCD[s] \in Coefficients
<1> DEFINE E(g) == [s \in Pairs |-> GCDBody(g, s)]
           H == [z \in Pairs \X [Pairs -> Coefficients] |-> GCDBody(z[2], z[1])]
           m == [s \in Pairs |-> s[2]]
           go == CHOOSE g : g = E(g)
<1>1. \E g : g \in [Pairs -> Coefficients] /\ g = E(g)
  <2>1. H \in [Pairs \X [Pairs -> Coefficients] -> Coefficients]
    <3> SUFFICES ASSUME NEW s \in Pairs, NEW g \in [Pairs -> Coefficients]
                 PROVE  GCDBody(g, s) \in Coefficients
      OBVIOUS
    <3>1. s[1] \in Nat /\ s[2] \in Nat
      BY DEF Pairs
    <3>2. CASE s[2] > 0
      <4> DEFINE t == g[<<s[2], s[1] % s[2]>>]
      <4>1. t \in Coefficients
        BY <3>2, GCDArgument
      <4>2. GCDBody(g, s) = <<t[1], t[3], t[2] - (s[1] \div s[2]) * t[3]>>
        BY <3>2 DEF GCDBody
      <4> HIDE DEF t
      <4> QED BY <3>2, <4>1, <4>2, GCDValue
    <3>3. CASE s[2] = 0
      BY <3>1, <3>3 DEF GCDBody, Coefficients
    <3> QED BY <3>1, <3>2, <3>3
  <2>2. ASSUME NEW s \in Pairs, NEW g \in [Pairs -> Coefficients],
               NEW h \in [Pairs -> Coefficients],
               \A y \in Pairs : m[y] < m[s] => g[y] = h[y]
        PROVE  H[<<s, g>>] = H[<<s, h>>]
    <3>1. s[2] \in Nat
      BY DEF Pairs
    <3>2. CASE s[2] = 0
      BY <3>2 DEF GCDBody
    <3>3. CASE s[2] > 0
      <4> DEFINE y == <<s[2], s[1] % s[2]>>
      <4>1. y \in Pairs
        BY <3>3, GCDArgument
      <4>2. y[2] < s[2]
        BY <3>3, GCDArgument
      <4>3. m[y] < m[s]
        <5> HIDE DEF y
        <5> QED BY <4>1, <4>2
      <4>4. g[y] = h[y]
        <5> HIDE DEF y, m
        <5> QED BY <2>2, <4>1, <4>3
      <4> QED BY <3>3, <4>4 DEF GCDBody
    <3> QED BY <3>1, <3>2, <3>3
  <2>3. m \in [Pairs -> Nat] /\ Coefficients # {}
    <3>1. <<0, 0, 0>> \in Coefficients
      BY DEF Coefficients
    <3> QED BY <3>1 DEF Pairs
  <2>4. PICK f \in [Pairs -> Coefficients] : \A s \in Pairs : f[s] = H[<<s, f>>]
    <3>1. Founded(Pairs, Coefficients, m, H)
      <4> HIDE DEF H, m
      <4> QED BY <2>1, <2>2, <2>3 DEF Founded
    <3> HIDE DEF H, m
    <3>2. Solvable(Pairs, Coefficients, H)
      BY <3>1, Recursion, Zenon
    <3> QED BY <3>2 DEF Solvable
  <2>5. f = E(f)
    <3>1. \A s \in Pairs : f[s] = E(f)[s]
      BY <2>4
    <3> QED BY <3>1
  <2> QED BY <2>5
<1>2. go = E(go)
  BY <1>1
<1>3. ExtendedGCD = go
  BY DEF ExtendedGCD, GCDBody, Pairs
<1> HIDE DEF go
<1>4. \A s \in Pairs : go[s] = GCDBody(go, s)
  BY <1>2
<1>5. \A s \in Pairs : go[s] \in Coefficients
  <2> DEFINE T == {n \in Nat : \A s \in Pairs : s[2] = n => go[s] \in Coefficients}
  <2>1. ASSUME NEW n \in Nat, \A k \in 0..(n-1) : k \in T PROVE n \in T
    <3> SUFFICES ASSUME NEW s \in Pairs, s[2] = n PROVE go[s] \in Coefficients
      OBVIOUS
    <3>1. s[1] \in Nat /\ go[s] = GCDBody(go, s)
      BY <1>4 DEF Pairs
    <3>2. CASE n = 0
      BY <3>1, <3>2 DEF GCDBody, Coefficients
    <3>3. CASE n > 0
      <4> DEFINE y == <<s[2], s[1] % s[2]>>
                 t == go[y]
      <4>1. y \in Pairs /\ y[2] < n
        BY <3>3, GCDArgument
      <4>2. y[2] \in 0..(n-1)
        <5> HIDE DEF y
        <5> QED BY <4>1 DEF Pairs
      <4>3. y[2] \in T
        <5> HIDE DEF T, y
        <5> QED BY <2>1, <4>2
      <4>4. t \in Coefficients
        <5> HIDE DEF y
        <5> QED BY <4>1, <4>3
      <4>5. go[s] = <<t[1], t[3], t[2] - (s[1] \div s[2]) * t[3]>>
        BY <3>1, <3>3 DEF GCDBody
      <4> HIDE DEF t
      <4> QED BY <3>3, <4>4, <4>5, GCDValue
    <3> QED BY <3>2, <3>3
  <2>2. \A n \in Nat : n \in T
    <3> HIDE DEF T
    <3> QED BY <2>1, StrongInduct
  <2> QED BY <2>2 DEF Pairs
<1> QED BY <1>3, <1>4, <1>5

(* What a result says: a common divisor and how the arguments combine to   *)
(* it.                                                                     *)
GCDHolds(a, b, t) ==
    t[1] = a * t[2] + b * t[3] /\ Divides(t[1], a) /\ Divides(t[1], b)

(* The extended algorithm returns a common divisor and its coefficients. *)
LEMMA GCDCorrect ==
  ASSUME NEW a \in Nat, NEW b \in Nat
  PROVE  GCDHolds(a, b, ExtendedGCD[<<a, b>>])
<1> DEFINE T == {n \in Nat : \A x \in Nat : GCDHolds(x, n, ExtendedGCD[<<x, n>>])}
<1>1. ASSUME NEW n \in Nat, \A k \in 0..(n-1) : k \in T PROVE n \in T
  <2> SUFFICES ASSUME NEW x \in Nat PROVE GCDHolds(x, n, ExtendedGCD[<<x, n>>])
    OBVIOUS
  <2>0. <<x, n>> \in Pairs /\ ExtendedGCD[<<x, n>>] = GCDBody(ExtendedGCD, <<x, n>>)
    BY GCDFunction DEF Pairs
  <2>1. CASE n = 0
    <3>1. ExtendedGCD[<<x, n>>] = <<x, 1, 0>>
      BY <2>0, <2>1 DEF GCDBody
    <3>2. x = x * 1 + n * 0 /\ x = 1 * x /\ n = 0 * x
      BY <2>1
    <3>3. Divides(x, x) /\ Divides(x, n)
      BY <3>2 DEF Divides
    <3> QED BY <3>1, <3>2, <3>3 DEF GCDHolds
  <2>2. CASE n > 0
    <3> DEFINE r == x % n
               q == x \div n
               t == ExtendedGCD[<<n, r>>]
    <3>1. r \in 0..(n-1) /\ q \in Int /\ x = q * n + r /\ r \in Nat
      BY <2>2, CongruentMod
    <3>2. ExtendedGCD[<<x, n>>] = <<t[1], t[3], t[2] - q * t[3]>>
      BY <2>0, <2>2 DEF GCDBody
    <3> HIDE DEF r, q
    <3>3. GCDHolds(n, r, t)
      <4>1. r \in T
        <5> HIDE DEF T
        <5> QED BY <1>1, <3>1
      <4> QED BY <4>1
    <3>4. t[1] \in Nat /\ t[2] \in Int /\ t[3] \in Int
      <4>1. <<n, r>> \in Pairs
        BY <3>1 DEF Pairs
      <4> QED BY <4>1, GCDFunction DEF Coefficients
    <3> DEFINE g == t[1]
               u == t[2]
               v == t[3]
    <3>5. g \in Nat /\ u \in Int /\ v \in Int /\ g = n * u + r * v /\ Divides(g, n) /\ Divides(g, r)
      BY <3>3, <3>4 DEF GCDHolds
    <3>6. ExtendedGCD[<<x, n>>] = <<g, v, u - q * v>>
      BY <3>2
    <3> HIDE DEF g, u, v
    <3>7. g = x * v + n * (u - q * v)
      BY <3>1, <3>5
    <3>8. Divides(g, n * q + r * 1)
      <4>1. g \in Int /\ n \in Int /\ r \in Int /\ q \in Int /\ 1 \in Int
        BY <3>1, <3>5
      <4> QED BY <3>5, <4>1, DividesSum, Zenon
    <3>9. n * q + r * 1 = x
      BY <3>1
    <3> QED BY <3>5, <3>6, <3>7, <3>8, <3>9 DEF GCDHolds
  <2> QED BY <2>1, <2>2
<1>2. \A n \in Nat : n \in T
  <2> HIDE DEF T
  <2> QED BY <1>1, StrongInduct
<1> QED BY <1>2

(* modInverse is right whenever the two numbers have no common divisor. *)
THEOREM ModInverseCorrect ==
  ASSUME NEW a \in Nat, NEW m \in Nat, m > 1, Combines(a, m, 1)
  PROVE  Congruent(a * ModInverse(a, m), 1, m)
<1> DEFINE t == ExtendedGCD[<<a, m>>]
           g == t[1]
           u == t[2]
           v == t[3]
<1>1. g \in Nat /\ u \in Int /\ v \in Int
  <2>1. <<a, m>> \in Pairs
    BY DEF Pairs
  <2> QED BY <2>1, GCDFunction DEF Coefficients
<1>2. g = a * u + m * v /\ Divides(g, a) /\ Divides(g, m)
  BY GCDCorrect DEF GCDHolds
<1>3. ModInverse(a, m) = u % m
  BY DEF ModInverse
<1> HIDE DEF g, u, v
<1>4. g = 1
  <2>1. PICK x \in Int, y \in Int : 1 = a * x + m * y
    BY DEF Combines
  <2>2. Divides(g, a * x + m * y)
    <3>1. g \in Int /\ a \in Int /\ m \in Int
      BY <1>1
    <3> QED BY <1>2, <3>1, DividesSum, Zenon
  <2>3. Divides(g, 1)
    BY <2>1, <2>2
  <2>4. g <= 1
    BY <1>1, <2>3, DividesSmall
  <2>5. g # 0
    BY <2>3 DEF Divides
  <2> QED BY <1>1, <2>4, <2>5
<1>5. Congruent(a * u, 1, m)
  <2>1. a * u = 1 + (-v) * m /\ -v \in Int
    BY <1>1, <1>2, <1>4
  <2> QED BY <2>1 DEF Congruent
<1>6. Congruent(a * (u % m), a * u, m)
  <2>1. Congruent(u % m, u, m) /\ u % m \in Int
    BY <1>1, ModCongruent
  <2>2. a = a + 0 * m
    OBVIOUS
  <2>3. Congruent(a, a, m)
    BY <2>2 DEF Congruent
  <2> QED BY <1>1, <2>1, <2>3, CongruentTimes
<1>7. a * (u % m) \in Int /\ a * u \in Int
  <2>1. u % m \in Int
    BY <1>1
  <2> QED BY <1>1, <2>1
<1> QED BY <1>3, <1>5, <1>6, <1>7, CongruentTrans

(* Whatever it is given, modInverse returns a residue. *)
LEMMA ModInverseRange ==
  ASSUME NEW a \in Nat, NEW m \in Nat, m > 0
  PROVE  ModInverse(a, m) \in 0..(m - 1)
<1>1. <<a, m>> \in Pairs
  BY DEF Pairs
<1>2. ExtendedGCD[<<a, m>>][2] \in Int
  BY <1>1, GCDFunction DEF Coefficients
<1> QED BY <1>2, ModRange DEF ModInverse

(* A prime has an inverse modulo every number it does not divide. *)
LEMMA PrimeInverse ==
  ASSUME NEW e, Prime(e), NEW m \in Nat, m > 1, m % e # 0
  PROVE  Congruent(e * ModInverse(e, m), 1, m)
<1>1. e \in Nat /\ e > 0
  BY DEF Prime
<1>2. ~Divides(e, m)
  BY <1>1, DividesMod
<1>3. Combines(m, e, 1)
  BY <1>2, PrimeCoprime
<1>4. PICK x \in Int, y \in Int : 1 = m * x + e * y
  BY <1>3 DEF Combines
<1>5. 1 = e * y + m * x
  BY <1>1, <1>4
<1>6. Combines(e, m, 1)
  BY <1>5 DEF Combines
<1> QED BY <1>1, <1>6, ModInverseCorrect

-----------------------------------------------------------------------------
(* Numbers and their bytes.                                                 *)

(* BitLen is the number of bits. *)
LEMMA BitLenCorrect ==
  ASSUME NEW n \in Nat
  PROVE  /\ BitLen(n) \in Nat /\ 2^BitLen(n) > n
         /\ BitLen(n) = 0 \/ 2^(BitLen(n) - 1) <= n
<1> DEFINE E == {k \in Nat : 2^k > n}
<1>1. PICK k \in E : \A l \in E : k <= l
  <2>1. n \in E
    BY TwoLarger
  <2> QED BY <2>1, Least
<1>2. k \in 0..n
  <2>1. n \in E
    BY TwoLarger
  <2> QED BY <1>1, <2>1
<1>3. k = 0 \/ 2^(k - 1) <= n
  <2> SUFFICES ASSUME k > 0 PROVE 2^(k - 1) <= n
    BY <1>2
  <2> DEFINE l == k - 1
  <2>1. l \in Nat /\ l < k
    BY <1>2
  <2> HIDE DEF l
  <2>2. l \notin E
    BY <1>1, <2>1
  <2>3. 2^l \in Nat
    BY <2>1, TwoNat
  <2>4. 2^l <= n
    BY <2>1, <2>2, <2>3
  <2> QED BY <2>4 DEF l
<1>4. \E j \in 0..n : 2^j > n /\ (j = 0 \/ 2^(j - 1) <= n)
  BY <1>1, <1>2, <1>3
<1>5. BitLen(n) \in 0..n /\ 2^BitLen(n) > n /\ (BitLen(n) = 0 \/ 2^(BitLen(n) - 1) <= n)
  BY <1>4 DEF BitLen
<1> QED BY <1>5

(* A number between two powers of two has that many bits. *)
LEMMA BitLenBetween ==
  ASSUME NEW n \in Nat, NEW k \in Nat, 2^k <= n
  PROVE  BitLen(n) > k
<1> SUFFICES ASSUME BitLen(n) <= k PROVE FALSE
  BY BitLenCorrect
<1> DEFINE l == BitLen(n)
<1>1. l \in Nat /\ 2^l > n /\ l <= k
  BY BitLenCorrect
<1> HIDE DEF l
<1>2. 2^l \in Nat /\ 2^k \in Nat
  BY <1>1, TwoNat
<1>3. l < k => 2 * 2^l <= 2^k
  BY <1>1, TwoGrows
<1> QED BY <1>1, <1>2, <1>3

(* A number below a power of two has no more bits than its exponent. *)
LEMMA BitLenBelow ==
  ASSUME NEW n \in Nat, NEW k \in Nat, n < 2^k
  PROVE  BitLen(n) <= k
<1> SUFFICES ASSUME BitLen(n) > k PROVE FALSE
  BY BitLenCorrect
<1> DEFINE l == BitLen(n)
           h == l - 1
<1>1. l \in Nat /\ l > k /\ 2^h <= n
  BY BitLenCorrect
<1>2. h \in Nat /\ k <= h
  BY <1>1
<1> HIDE DEF h
<1>3. 2^h \in Nat /\ 2^k \in Nat
  BY <1>2, TwoNat
<1>4. k < h => 2 * 2^k <= 2^h
  BY <1>2, TwoGrows
<1> QED BY <1>1, <1>2, <1>3, <1>4

(* Size bytes hold a number and fewer do not. *)
LEMMA BytesHold ==
  ASSUME NEW n \in Nat
  PROVE  /\ Size(n) \in Nat
         /\ n < 2^(ByteWidth * Size(n))
         /\ \A k \in Nat : k < Size(n) => 2^(ByteWidth * k) <= n
<1> DEFINE l == BitLen(n)
           w == ByteWidth
           q == Size(n)
<1>0. l \in Nat /\ w \in Nat /\ w > 0
  BY BitLenCorrect, ConstantTypes
<1>1. PICK r \in 0..(w-1) : q \in Int /\ l + w - 1 = q * w + r
  <2> DEFINE x == l + w - 1
  <2>1. x \in Int
    BY <1>0
  <2>2. q = x \div w
    BY DEF Size
  <2> HIDE DEF x, q, w
  <2>3. x = (x \div w) * w + (x % w) /\ x % w \in 0..(w-1) /\ x \div w \in Int
    BY <1>0, <2>1, CongruentMod
  <2> QED BY <2>2, <2>3 DEF x
<1> HIDE DEF l, w, q
<1>2. l <= w * q /\ w * q < l + w
  <2>1. q * w = w * q /\ w * q \in Int
    BY <1>0, <1>1
  <2> QED BY <1>0, <1>1, <2>1
<1>3. q \in Nat
  <2>1. q < 0 => q * w < 0
    BY <1>0, <1>1
  <2>2. q * w \in Int /\ q * w = w * q
    BY <1>0, <1>1
  <2> QED BY <1>0, <1>1, <1>2, <2>1, <2>2
<1>4. n < 2^(w * q)
  <2> DEFINE b == w * q
  <2>1. b \in Nat /\ l <= b
    BY <1>0, <1>2, <1>3
  <2> HIDE DEF b
  <2>2. 2^l > n
    BY BitLenCorrect DEF l
  <2>3. l < b => 2 * 2^l <= 2^b
    BY <1>0, <2>1, TwoGrows
  <2>4. 2^l \in Nat /\ 2^b \in Nat
    BY <1>0, <2>1, TwoNat
  <2>5. n < 2^b
    BY <1>0, <2>1, <2>2, <2>3, <2>4
  <2> QED BY <2>5 DEF b
<1>5. ASSUME NEW k \in Nat, k < q PROVE 2^(w * k) <= n
  <2> DEFINE b == w * k
  <2>1. b \in Nat
    BY <1>0
  <2>2. b + w <= w * q
    <3>1. w * q = b + w * (q - k)
      BY <1>0, <1>3
    <3>2. w * (q - k) >= w
      BY <1>0, <1>3, <1>5
    <3> HIDE DEF b
    <3>3. w * (q - k) \in Int
      BY <1>0, <1>3
    <3> QED BY <1>0, <2>1, <3>1, <3>2, <3>3
  <2>3. w * q \in Nat
    BY <1>0, <1>3
  <2> HIDE DEF b
  <2>4. b < l
    BY <1>0, <1>2, <2>1, <2>2, <2>3
  <2>5. ASSUME 2^b > n PROVE FALSE
    <3>1. BitLen(n) <= b
      BY <2>1, <2>5, BitLenBelow
    <3> QED BY <1>0, <2>1, <2>4, <3>1 DEF l
  <2>6. 2^b \in Nat
    BY <2>1, TwoNat
  <2>7. 2^b <= n
    BY <2>5, <2>6
  <2> QED BY <2>7 DEF b
<1> QED BY <1>3, <1>4, <1>5 DEF q, w

(* The values a byte can take. *)
LEMMA ByteRange ==
  /\ 2^ByteWidth \in Nat /\ 2^ByteWidth > 0
  /\ Byte = 0..(2^ByteWidth - 1)
  /\ \A n \in Nat : 2^(ByteWidth * n) \in Nat /\ 2^(ByteWidth * n) > 0
  /\ \A n \in Nat : 2^(ByteWidth * (n + 1)) = 2^(ByteWidth * n) * 2^ByteWidth
<1>1. \A n \in Nat : ByteWidth * n \in Nat /\ ByteWidth * (n + 1) = ByteWidth * n + ByteWidth
  BY ConstantTypes
<1> QED BY <1>1, ConstantTypes, TwoNat, TwoAdd DEF Byte

(* Padded returns bytes, as many as asked for. *)
LEMMA PaddedBytes ==
  ASSUME NEW n \in Nat, NEW k \in Nat
  PROVE  Padded(n, k) \in Seq(Byte) /\ Len(Padded(n, k)) = k
<1> DEFINE c(i) == n \div 2^(ByteWidth * (k - i))
<1>1. ASSUME NEW i \in 1..k PROVE c(i) % 2^ByteWidth \in Byte
  <2> DEFINE j == k - i
             d == 2^(ByteWidth * j)
  <2>1. j \in Nat
    OBVIOUS
  <2> HIDE DEF j
  <2>2. d \in Nat /\ d > 0
    BY <2>1, ByteRange
  <2>3. c(i) = n \div d
    BY DEF j
  <2> HIDE DEF d, c
  <2>4. c(i) \in Int
    BY <2>2, <2>3
  <2> QED BY <2>4, ByteRange, ModRange
<1> HIDE DEF c
<1>2. Padded(n, k) = [i \in 1..k |-> c(i) % 2^ByteWidth]
  BY DEF Padded, c
<1> DEFINE s == [i \in 1..k |-> c(i) % 2^ByteWidth]
<1>3. s \in [1..k -> Byte]
  BY <1>1
<1>4. s \in Seq(Byte) /\ Len(s) = k
  BY <1>3
<1> QED BY <1>2, <1>4

(* SetBytes, digit by digit. *)
LEMMA ValueDigits ==
  ASSUME NEW s \in Seq(Byte)
  PROVE  \E v \in [0..Len(s) -> Nat] :
            /\ v[0] = 0 /\ Value(s) = v[Len(s)]
            /\ \A i \in 1..Len(s) : v[i] = v[i - 1] * 2^ByteWidth + s[i]
<1> DEFINE B == 2^ByteWidth
           D == 0..Len(s)
<1>0. B \in Nat /\ Len(s) \in Nat /\ \A i \in 1..Len(s) : s[i] \in Nat
  <2>1. \A i \in 1..Len(s) : s[i] \in Byte
    OBVIOUS
  <2>2. B \in Nat
    BY ByteRange
  <2>3. Byte = 0..(B - 1)
    BY ByteRange DEF B
  <2> HIDE DEF B
  <2>4. 0..(B - 1) \subseteq Nat
    BY <2>2
  <2>5. Len(s) \in Nat
    OBVIOUS
  <2> QED BY <2>1, <2>2, <2>3, <2>4, <2>5
<1> HIDE DEF B
<1> DEFINE E(g) == [i \in D |-> IF i = 0 THEN 0 ELSE g[i - 1] * B + s[i]]
           H == [z \in D \X [D -> Nat] |-> IF z[1] = 0 THEN 0 ELSE z[2][z[1] - 1] * B + s[z[1]]]
           m == [i \in D |-> i]
           go == CHOOSE g : g = E(g)
<1>1. \E g : g \in [D -> Nat] /\ g = E(g)
  <2>1. H \in [D \X [D -> Nat] -> Nat]
    <3> SUFFICES ASSUME NEW i \in D, NEW g \in [D -> Nat], i # 0
                 PROVE  g[i - 1] * B + s[i] \in Nat
      OBVIOUS
    <3>1. i - 1 \in D /\ i \in 1..Len(s)
      BY <1>0
    <3>2. g[i - 1] \in Nat /\ s[i] \in Nat
      BY <1>0, <3>1
    <3> QED BY <1>0, <3>2
  <2>2. ASSUME NEW i \in D, NEW g \in [D -> Nat], NEW h \in [D -> Nat],
               \A y \in D : m[y] < m[i] => g[y] = h[y]
        PROVE  H[<<i, g>>] = H[<<i, h>>]
    <3>1. CASE i = 0
      BY <3>1
    <3>2. CASE i # 0
      <4> DEFINE j == i - 1
      <4>1. j \in D /\ j < i
        BY <1>0, <3>2
      <4>2. m[j] < m[i]
        <5> HIDE DEF j
        <5> QED BY <4>1
      <4>3. g[j] = h[j]
        <5> HIDE DEF j, m
        <5> QED BY <2>2, <4>1, <4>2
      <4> QED BY <3>2, <4>3
    <3> QED BY <3>1, <3>2
  <2>3. m \in [D -> Nat] /\ Nat # {}
    OBVIOUS
  <2>4. PICK f \in [D -> Nat] : \A i \in D : f[i] = H[<<i, f>>]
    <3>1. Founded(D, Nat, m, H)
      <4> HIDE DEF H, m
      <4> QED BY <2>1, <2>2, <2>3 DEF Founded
    <3> HIDE DEF H, m
    <3>2. Solvable(D, Nat, H)
      BY <3>1, Recursion, Zenon
    <3> QED BY <3>2 DEF Solvable
  <2>5. f = E(f)
    <3>1. \A i \in D : f[i] = E(f)[i]
      BY <2>4
    <3> QED BY <3>1
  <2> QED BY <2>5
<1>2. go = E(go)
  BY <1>1
<1>3. Value(s) = go[Len(s)]
  BY DEF Value, B
<1> HIDE DEF go
<1>4. go[0] = 0 /\ \A i \in 1..Len(s) : go[i] = go[i - 1] * B + s[i]
  BY <1>0, <1>2
<1>5. \A i \in D : go[i] \in Nat
  <2> DEFINE T == {i \in Nat : i \in D => go[i] \in Nat}
  <2>1. 0 \in T
    BY <1>4
  <2>2. ASSUME NEW i \in Nat, i \in T PROVE i + 1 \in T
    <3> SUFFICES ASSUME i + 1 \in D PROVE go[i + 1] \in Nat
      OBVIOUS
    <3>1. i \in D /\ i + 1 \in 1..Len(s) /\ (i + 1) - 1 = i
      BY <1>0
    <3>2. go[i + 1] = go[i] * B + s[i + 1] /\ s[i + 1] \in Nat /\ go[i] \in Nat
      BY <1>0, <1>4, <2>2, <3>1
    <3> DEFINE x == go[i]
               y == s[i + 1]
    <3>3. x \in Nat /\ y \in Nat /\ B \in Nat /\ go[i + 1] = x * B + y
      BY <1>0, <3>2
    <3> HIDE DEF x, y
    <3>4. x * B + y \in Nat
      BY <3>3
    <3> QED BY <3>3, <3>4
  <2>3. \A i \in Nat : i \in T
    BY <2>1, <2>2, Induct, Zenon
  <2> QED BY <2>3
<1>6. go \in [D -> Nat]
  <2>1. go = [i \in D |-> go[i]]
    BY <1>2
  <2> QED BY <1>5, <2>1
<1> QED BY <1>3, <1>4, <1>6 DEF B

(* The number behind k bytes is below 2^(8k), for bytes of any width. *)
LEMMA ValueRange ==
  ASSUME NEW s \in Seq(Byte)
  PROVE  Value(s) \in Nat /\ Value(s) < 2^(ByteWidth * Len(s))
<1>1. PICK v \in [0..Len(s) -> Nat] :
            /\ v[0] = 0 /\ Value(s) = v[Len(s)]
            /\ \A i \in 1..Len(s) : v[i] = v[i - 1] * 2^ByteWidth + s[i]
  BY ValueDigits
<1> DEFINE T == {i \in Nat : i <= Len(s) => v[i] < 2^(ByteWidth * i)}
<1>2. 0 \in T
  <2>1. 2^(ByteWidth * 0) > 0
    BY ByteRange
  <2> QED BY <1>1, <2>1
<1>3. ASSUME NEW i \in Nat, i \in T PROVE i + 1 \in T
  <2> SUFFICES ASSUME i + 1 <= Len(s) PROVE v[i + 1] < 2^(ByteWidth * (i + 1))
    OBVIOUS
  <2> DEFINE B == 2^ByteWidth
             c == 2^(ByteWidth * i)
             x == v[i]
             y == s[i + 1]
  <2>1. i + 1 \in 1..Len(s) /\ i \in 0..Len(s) /\ (i + 1) - 1 = i
    OBVIOUS
  <2>2. B \in Nat /\ c \in Nat /\ y \in 0..(B - 1) /\ 2^(ByteWidth * (i + 1)) = c * B
    <3>1. B \in Nat /\ c \in Nat /\ 2^(ByteWidth * (i + 1)) = c * B
      BY ByteRange
    <3>2. y \in Byte
      BY <2>1
    <3>3. Byte = 0..(B - 1)
      BY ByteRange
    <3> HIDE DEF B, c, y
    <3> QED BY <3>1, <3>2, <3>3
  <2>3. x \in Nat /\ x < c /\ v[i + 1] = x * B + y
    BY <1>1, <1>3, <2>1
  <2> HIDE DEF B, c, x, y
  <2>4. x * B <= (c - 1) * B
    <3>1. x <= c - 1 /\ x \in Nat /\ c - 1 \in Int /\ B \in Nat
      BY <2>2, <2>3
    <3>2. (c - 1) * B - x * B = ((c - 1) - x) * B /\ ((c - 1) - x) * B >= 0
      BY <3>1
    <3>3. x * B \in Int /\ (c - 1) * B \in Int
      BY <3>1
    <3> QED BY <3>2, <3>3
  <2>5. (c - 1) * B = c * B - B /\ c * B \in Int /\ x * B \in Int
    BY <2>2, <2>3
  <2>6. x * B + y < c * B
    BY <2>2, <2>4, <2>5
  <2> QED BY <2>2, <2>3, <2>6
<1>4. \A i \in Nat : i \in T
  BY <1>2, <1>3, Induct, Zenon
<1>5. Len(s) \in Nat
  OBVIOUS
<1> QED BY <1>1, <1>4, <1>5

(* Padding keeps a number that fits. *)
LEMMA ValuePadded ==
  ASSUME NEW n \in Nat, NEW k \in Nat, n < 2^(ByteWidth * k)
  PROVE  Value(Padded(n, k)) = n
<1> DEFINE s == Padded(n, k)
<1>1. s \in Seq(Byte) /\ Len(s) = k
  BY PaddedBytes
<1>2. \A i \in 1..k : s[i] = (n \div 2^(ByteWidth * (k - i))) % 2^ByteWidth
  BY DEF Padded
<1> HIDE DEF s
<1>3. PICK v \in [0..k -> Nat] :
            /\ v[0] = 0 /\ Value(s) = v[k]
            /\ \A i \in 1..k : v[i] = v[i - 1] * 2^ByteWidth + s[i]
  BY <1>1, ValueDigits
<1> DEFINE d(i) == n \div 2^(ByteWidth * (k - i))
           T == {i \in Nat : i <= k => v[i] = d(i)}
<1>4. 0 \in T
  <2>1. 2^(ByteWidth * k) \in Nat /\ k - 0 = k
    BY ByteRange
  <2>2. d(0) = 0
    BY <2>1, DivSmall
  <2> QED BY <1>3, <2>2
<1>5. ASSUME NEW i \in Nat, i \in T PROVE i + 1 \in T
  <2> SUFFICES ASSUME i + 1 <= k PROVE v[i + 1] = d(i + 1)
    OBVIOUS
  <2> DEFINE j == k - (i + 1)
             B == 2^ByteWidth
             c == 2^(ByteWidth * j)
  <2>1. j \in Nat /\ k - i = j + 1 /\ i + 1 \in 1..k /\ (i + 1) - 1 = i
    OBVIOUS
  <2>2. d(i + 1) = n \div c /\ d(i) = n \div 2^(ByteWidth * (j + 1))
    BY <2>1
  <2>3. v[i] = d(i)
    BY <1>5
  <2>4. s[i + 1] = d(i + 1) % B
    BY <1>2, <2>1
  <2>5. v[i + 1] = v[i] * B + s[i + 1]
    BY <1>3, <2>1
  <2> HIDE DEF d, j, T
  <2>6. /\ c \in Nat /\ c > 0 /\ B \in Nat /\ B > 0
        /\ 2^(ByteWidth * (j + 1)) = c * B
    BY <2>1, ByteRange
  <2> HIDE DEF c, B
  <2>7. n \div c = (n \div (c * B)) * B + ((n \div c) % B)
    BY <2>6, DivDiv
  <2> QED BY <2>2, <2>3, <2>4, <2>5, <2>6, <2>7
<1>6. \A i \in Nat : i \in T
  <2> HIDE DEF T
  <2> QED BY <1>4, <1>5, Induct, Zenon
<1>7. v[k] = n \div 2^(ByteWidth * 0)
  <2>1. k \in T /\ k <= k /\ k - k = 0
    BY <1>6
  <2> QED BY <2>1
<1>8. 2^(ByteWidth * 0) = 1
  <2>1. ByteWidth * 0 = 0
    BY ConstantTypes
  <2>2. 2^0 = 1
    BY TwoStep
  <2> QED BY <2>1, <2>2
<1>9. n \div 1 = n
  OBVIOUS
<1> QED BY <1>3, <1>7, <1>8, <1>9 DEF s

(* A number is what its bytes say. *)
LEMMA BytesCorrect ==
  ASSUME NEW n \in Nat
  PROVE  Bytes(n) \in Seq(Byte) /\ Value(Bytes(n)) = n
BY BytesHold, PaddedBytes, ValuePadded DEF Bytes

-----------------------------------------------------------------------------
(* millerRabin accepts every prime.                                         *)

(* The factorisation n - 1 = 2^r * d of millerRabin. *)
LEMMA TwoPowerCorrect ==
  ASSUME NEW n \in Nat, n > 2, n % 2 = 1
  PROVE  /\ TwoPower(n) \in Nat /\ TwoPower(n) > 0
         /\ (n - 1) \div 2^TwoPower(n) \in Nat
         /\ n - 1 = ((n - 1) \div 2^TwoPower(n)) * 2^TwoPower(n)
<1> DEFINE m == n - 1
           F(r) == m % 2^r = 0 /\ (m \div 2^r) % 2 = 1
<1>0. m \in Nat /\ m > 0 /\ m \in Int /\ m % 2 = 0 /\ n = m + 1
  <2>1. n = 2 * (n \div 2) + 1 /\ n \div 2 \in Nat
    BY Halved
  <2>2. m = 2 * (n \div 2)
    BY <2>1
  <2> HIDE DEF m
  <2>3. m % 2 = 0
    BY <2>1, <2>2
  <2> QED BY <2>3 DEF m
<1> HIDE DEF m
<1>1. \E r \in 0..n : F(r)
  <2>1. PICK r \in Nat, d \in Nat : m = d * 2^r /\ d % 2 = 1
    BY <1>0, OddPart
  <2> DEFINE c == 2^r
  <2>2. c \in Nat /\ c > 0 /\ r < c /\ m = d * c
    BY <2>1, TwoNat, TwoLarger
  <2> HIDE DEF c
  <2>3. d >= 1
    BY <2>1
  <2>4. c <= m
    BY <2>2, <2>3
  <2>5. r \in 0..n
    BY <1>0, <2>2, <2>4
  <2>6. Divides(c, m)
    BY <2>2 DEF Divides
  <2>7. m % c = 0
    BY <1>0, <2>2, <2>6, DividesMod
  <2>8. d * c <= m /\ m < (d + 1) * c
    BY <2>2
  <2>9. m \div c = d
    <3>1. d \in Int
      OBVIOUS
    <3> QED BY <1>0, <2>2, <2>8, <3>1, DivUnique
  <2>10. F(r)
    BY <2>1, <2>7, <2>9 DEF c
  <2> QED BY <2>5, <2>10
<1>2. TwoPower(n) \in 0..n /\ F(TwoPower(n))
  BY <1>1 DEF TwoPower, m
<1> DEFINE r == TwoPower(n)
           c == 2^r
<1>3. r \in Nat /\ c \in Nat /\ c > 0 /\ m % c = 0 /\ (m \div c) % 2 = 1
  BY <1>2, TwoNat
<1>4. r # 0
  <2> SUFFICES ASSUME r = 0 PROVE FALSE
    OBVIOUS
  <2>1. c = 1
    BY TwoStep
  <2> HIDE DEF c, r
  <2>2. m \div c = m
    BY <1>0, <2>1
  <2> QED BY <1>0, <1>3, <2>2
<1> HIDE DEF c, r
<1>5. m = (m \div c) * c + (m % c) /\ m \div c \in Int
  BY <1>0, <1>3, CongruentMod
<1>6. m \div c \in Nat
  <2> DEFINE y == m \div c
  <2>1. m = y * c /\ y \in Int
    BY <1>3, <1>5
  <2> HIDE DEF y
  <2>2. y <= -1 => y * c <= -c
    BY <1>3, <2>1
  <2>3. y >= 0
    BY <1>0, <1>3, <2>1, <2>2
  <2> QED BY <2>1, <2>3 DEF y
<1>7. m = (m \div c) * c
  <2>1. (m \div c) * c \in Int
    BY <1>3, <1>5
  <2> QED BY <1>3, <1>5, <2>1
<1> QED BY <1>3, <1>4, <1>6, <1>7 DEF c, r, m

(* The squares that millerRabin goes through. *)
Squares(n, a, sq) ==
    /\ sq \in [Nat -> Nat]
    /\ sq[0] = ModExp(a, (n - 1) \div 2^TwoPower(n), n)
    /\ \A j \in Nat : sq[j + 1] = (sq[j] * sq[j]) % n
    /\ Survives(n, a) <=> sq[0] = 1 \/ \E j \in 0..(TwoPower(n) - 1) : sq[j] = n - 1

(* The loop that squares has a value at every pass. *)
LEMMA SquaresExist ==
  ASSUME NEW n \in Nat, n > 1, NEW a, ModExp(a, (n - 1) \div 2^TwoPower(n), n) \in Nat
  PROVE  \E sq : Squares(n, a, sq)
<1> DEFINE x == ModExp(a, (n - 1) \div 2^TwoPower(n), n)
           r == TwoPower(n)
           E(g) == [j \in Nat |-> IF j = 0 THEN x ELSE (g[j - 1] * g[j - 1]) % n]
           H == [z \in Nat \X [Nat -> Nat] |->
                    IF z[1] = 0 THEN x ELSE (z[2][z[1] - 1] * z[2][z[1] - 1]) % n]
           m == [j \in Nat |-> j]
           go == CHOOSE g : g = E(g)
<1>0. x \in Nat
  OBVIOUS
<1>a. Survives(n, a) <=> x = 1 \/ \E j \in 0..(r - 1) : go[j] = n - 1
  BY DEF Survives
<1> HIDE DEF x, r
<1>s. \A y \in Nat : (y * y) % n \in Nat
  <2> TAKE y \in Nat
  <2>1. y * y \in Int
    OBVIOUS
  <2> QED BY <2>1, ModRange
<1>1. \E g : g \in [Nat -> Nat] /\ g = E(g)
  <2>1. H \in [Nat \X [Nat -> Nat] -> Nat]
    <3> SUFFICES ASSUME NEW j \in Nat, NEW g \in [Nat -> Nat], j # 0
                 PROVE  (g[j - 1] * g[j - 1]) % n \in Nat
      BY <1>0
    <3>1. g[j - 1] \in Nat
      OBVIOUS
    <3> QED BY <1>s, <3>1
  <2>2. ASSUME NEW j \in Nat, NEW g \in [Nat -> Nat], NEW h \in [Nat -> Nat],
               \A y \in Nat : m[y] < m[j] => g[y] = h[y]
        PROVE  H[<<j, g>>] = H[<<j, h>>]
    <3>1. CASE j = 0
      BY <3>1
    <3>2. CASE j # 0
      <4> DEFINE i == j - 1
      <4>1. i \in Nat /\ i < j
        BY <3>2
      <4>2. m[i] < m[j]
        <5> HIDE DEF i
        <5> QED BY <4>1
      <4>3. g[i] = h[i]
        <5> HIDE DEF i, m
        <5> QED BY <2>2, <4>1, <4>2
      <4> QED BY <3>2, <4>3
    <3> QED BY <3>1, <3>2
  <2>3. m \in [Nat -> Nat] /\ Nat # {}
    OBVIOUS
  <2>4. PICK f \in [Nat -> Nat] : \A j \in Nat : f[j] = H[<<j, f>>]
    <3>1. Founded(Nat, Nat, m, H)
      <4> HIDE DEF H, m
      <4> QED BY <2>1, <2>2, <2>3 DEF Founded
    <3> HIDE DEF H, m
    <3>2. Solvable(Nat, Nat, H)
      BY <3>1, Recursion, Zenon
    <3> QED BY <3>2 DEF Solvable
  <2>5. f = E(f)
    <3>1. \A j \in Nat : f[j] = E(f)[j]
      BY <2>4
    <3> QED BY <3>1
  <2> QED BY <2>5
<1>2. go = E(go)
  BY <1>1
<1> HIDE DEF go
<1>3. go[0] = x /\ \A j \in Nat : go[j + 1] = (go[j] * go[j]) % n
  BY <1>2
<1>4. \A j \in Nat : go[j] \in Nat
  <2> DEFINE T == {j \in Nat : go[j] \in Nat}
  <2>1. 0 \in T
    BY <1>0, <1>3
  <2>2. ASSUME NEW j \in Nat, j \in T PROVE j + 1 \in T
    <3>1. go[j] \in Nat
      BY <2>2
    <3>2. go[j + 1] \in Nat
      BY <1>3, <1>s, <3>1
    <3> QED BY <3>2
  <2>3. \A j \in Nat : j \in T
    BY <2>1, <2>2, Induct, Zenon
  <2> QED BY <2>3
<1>5. go \in [Nat -> Nat]
  <2>1. go = [j \in Nat |-> go[j]]
    BY <1>2
  <2> QED BY <1>4, <2>1
<1>6. go[0] = 1 <=> x = 1
  BY <1>3
<1>7. Squares(n, a, go)
  BY <1>a, <1>3, <1>5, <1>6 DEF Squares, x, r
<1> QED BY <1>7

(* They are the powers of the base whose exponent is d doubled so often. *)
LEMMA SquaresArePowers ==
  ASSUME NEW n \in Nat, n > 1, NEW a \in Nat, NEW d \in Nat, NEW sq \in [Nat -> Nat],
         sq[0] = ModExp(a, d, n), \A j \in Nat : sq[j + 1] = (sq[j] * sq[j]) % n
  PROVE  \A j \in Nat : sq[j] \in 0..(n - 1) /\ Congruent(sq[j], Pow(a, d * 2^j), n)
<1> DEFINE T == {j \in Nat : sq[j] \in 0..(n - 1) /\ Congruent(sq[j], Pow(a, d * 2^j), n)}
<1>1. 0 \in T
  <2>1. d * 2^0 = d
    BY TwoStep
  <2> QED BY <2>1, ModExpCorrect
<1>2. ASSUME NEW j \in Nat, j \in T PROVE j + 1 \in T
  <2> DEFINE y == sq[j]
             k == d * 2^j
  <2>1. y \in Nat /\ Congruent(y, Pow(a, k), n) /\ sq[j + 1] = (y * y) % n
    BY <1>2
  <2>2. 2^(j+1) = 2 * 2^j /\ 2^j \in Nat
    BY TwoStep
  <2>3. d * (2 * 2^j) = d * 2^j + d * 2^j /\ d * 2^j \in Nat
    BY <2>2
  <2>4. k \in Nat /\ d * 2^(j+1) = k + k
    BY <2>2, <2>3
  <2> HIDE DEF k, y, T
  <2>5. Pow(a, k) \in Nat
    BY <2>4, PowNat
  <2>6. Pow(a, k + k) = Pow(a, k) * Pow(a, k)
    <3>1. a \in Int
      OBVIOUS
    <3> QED BY <2>4, <3>1, PowAdd
  <2>7. Congruent(y * y, Pow(a, k) * Pow(a, k), n)
    BY <2>1, <2>5, CongruentTimes
  <2>8. y * y \in Int /\ Pow(a, k) * Pow(a, k) \in Int
    BY <2>1, <2>5
  <2> DEFINE w == y * y
             z == w % n
             o == Pow(a, k) * Pow(a, k)
  <2>9. w \in Int /\ o \in Int /\ Congruent(w, o, n)
    BY <2>7, <2>8
  <2> HIDE DEF w, o
  <2>10. z \in 0..(n-1) /\ Congruent(z, w, n)
    <3>1. n > 0
      OBVIOUS
    <3> QED BY <2>9, <3>1, CongruentMod, Zenon
  <2>11. z \in Int
    BY <2>10
  <2> HIDE DEF z
  <2>12. Congruent(z, o, n)
    BY <2>9, <2>10, <2>11, CongruentTrans
  <2>13. sq[j + 1] = z
    BY <2>1 DEF z, w
  <2>14. Pow(a, d * 2^(j+1)) = o
    BY <2>4, <2>6 DEF o
  <2> QED BY <2>10, <2>12, <2>13, <2>14 DEF T
<1>3. \A j \in Nat : j \in T
  <2> HIDE DEF T
  <2> QED BY <1>1, <1>2, Induct, Zenon
<1> QED BY <1>3

(* No base exposes a prime. *)
THEOREM PrimeSurvives ==
  ASSUME NEW n, Prime(n), n > 2, n % 2 = 1, NEW a \in Nat, ~Divides(n, a)
  PROVE  Survives(n, a)
<1> DEFINE r == TwoPower(n)
           d == (n - 1) \div 2^r
<1>1. n \in Nat /\ n > 1
  BY DEF Prime
<1>2. r \in Nat /\ r > 0 /\ d \in Nat /\ n - 1 = d * 2^r
  BY <1>1, TwoPowerCorrect
<1>3. PICK sq : Squares(n, a, sq)
  <2>1. ModExp(a, d, n) \in Nat
    <3> HIDE DEF d, r
    <3>1. ModExp(a, d, n) \in 0..(n - 1)
      BY <1>1, <1>2, ModExpCorrect
    <3> QED BY <1>1, <3>1
  <2> QED BY <1>1, <2>1, SquaresExist
<1>4. /\ sq \in [Nat -> Nat] /\ sq[0] = ModExp(a, d, n)
      /\ \A j \in Nat : sq[j + 1] = (sq[j] * sq[j]) % n
      /\ Survives(n, a) <=> sq[0] = 1 \/ \E j \in 0..(r - 1) : sq[j] = n - 1
  BY <1>3 DEF Squares
<1> HIDE DEF d, r
<1>5. \A j \in Nat : sq[j] \in 0..(n - 1) /\ Congruent(sq[j], Pow(a, d * 2^j), n)
  BY <1>1, <1>2, <1>4, SquaresArePowers
<1>6. sq[r] = 1
  <2>1. Congruent(sq[r], Pow(a, n - 1), n) /\ sq[r] \in 0..(n - 1)
    BY <1>2, <1>5
  <2>2. Congruent(Pow(a, n - 1), 1, n)
    BY Fermat
  <2>3. Pow(a, n - 1) \in Int /\ sq[r] \in Int /\ n \in Int
    <3>1. n - 1 \in Nat
      BY <1>1
    <3>2. Pow(a, n - 1) \in Nat
      BY <3>1, PowNat
    <3> QED BY <1>1, <2>1, <3>2
  <2>4. Congruent(sq[r], 1, n)
    BY <2>1, <2>2, <2>3, CongruentTrans
  <2>5. 1 \in 0..(n - 1)
    BY <1>1
  <2> QED BY <1>1, <2>1, <2>4, <2>5, CongruentSmall
<1> SUFFICES ASSUME \A j \in 0..(r - 1) : sq[j] # n - 1
             PROVE  sq[0] = 1
  BY <1>4
<1> DEFINE T == {k \in Nat : k <= r => sq[r - k] = 1}
<1>7. 0 \in T
  <2>1. r - 0 = r
    BY <1>2
  <2> QED BY <1>6, <2>1
<1>8. ASSUME NEW k \in Nat, k \in T PROVE k + 1 \in T
  <2> SUFFICES ASSUME k + 1 <= r PROVE sq[r - (k + 1)] = 1
    OBVIOUS
  <2> DEFINE j == r - (k + 1)
             s == sq[j]
  <2>1. j \in Nat /\ j \in 0..(r - 1) /\ j + 1 = r - k /\ k <= r
    BY <1>2
  <2> HIDE DEF j
  <2>2. sq[j + 1] = 1
    BY <1>8, <2>1
  <2>3. s \in 0..(n - 1) /\ (s * s) % n = 1 /\ s # n - 1
    BY <1>4, <1>5, <2>1, <2>2
  <2> HIDE DEF s
  <2>4. Congruent(1, s * s, n) /\ s * s \in Int
    <3>1. s * s \in Int
      BY <1>1, <2>3
    <3> QED BY <1>1, <2>3, <3>1, ModCongruent
  <2>5. Congruent(s * s, 1, n)
    BY <1>1, <2>4, CongruentSym
  <2>6. s = 1
    BY <2>3, <2>5, RootsOfOne
  <2> QED BY <2>6 DEF s, j
<1>9. \A k \in Nat : k \in T
  <2> HIDE DEF T
  <2> QED BY <1>7, <1>8, Induct, Zenon
<1>10. r \in T /\ r - r = 0
  BY <1>2, <1>9
<1> QED BY <1>2, <1>10

(* The bases drawn for a candidate are not multiples of it. *)
LEMMA BasesAreUnits ==
  ASSUME NEW n \in Nat, n > 2, n % 2 = 1, NEW a \in Bases(n)
  PROVE  a \in Nat /\ ~Divides(n, a)
<1>1. a \in Nat /\ a > 0 /\ a < n
  <2>1. CASE n - 2 <= 2
    BY <2>1 DEF Bases
  <2>2. CASE ~(n - 2 <= 2)
    BY <2>2 DEF Bases
  <2> QED BY <2>1, <2>2
<1> QED BY <1>1, DividesSmall

-----------------------------------------------------------------------------
(* A key undoes itself, and has its size.                                   *)

(* Decrypt after Encrypt, on numbers. *)
THEOREM DecryptUndoes ==
  ASSUME NEW p, Prime(p), NEW q, Prime(q), p # q, p > 2, q > 2,
         NEW e \in Nat, NEW d \in Nat, Congruent(e * d, 1, (p - 1) * (q - 1)),
         NEW m \in Nat, m < p * q
  PROVE  ModExp(ModExp(m, e, p * q), d, p * q) = m
<1> DEFINE n == p * q
           c == ModExp(m, e, n)
           b == ModExp(c, d, n)
<1>1. p \in Nat /\ q \in Nat
  BY DEF Prime
<1>2. n \in Nat /\ n > 1 /\ m \in 0..(n - 1)
  BY <1>1
<1>3. Congruent(Pow(m, e * d), m, n) /\ e * d \in Nat
  <2>1. e * d \in Nat
    OBVIOUS
  <2> QED BY <2>1, ExponentsUndo
<1> HIDE DEF n
<1>4. c \in 0..(n - 1) /\ Congruent(c, Pow(m, e), n)
  BY <1>2, ModExpCorrect
<1>5. c \in Nat /\ Pow(m, e) \in Nat /\ Pow(m, e * d) \in Nat
  BY <1>2, <1>3, <1>4, PowNat
<1> HIDE DEF c
<1>6. b \in 0..(n - 1) /\ Congruent(b, Pow(c, d), n)
  BY <1>2, <1>5, ModExpCorrect
<1> HIDE DEF b
<1>7. Congruent(Pow(c, d), Pow(Pow(m, e), d), n)
  BY <1>2, <1>4, <1>5, CongruentPow
<1>8. Pow(Pow(m, e), d) = Pow(m, e * d)
  <2>1. m \in Int
    OBVIOUS
  <2> QED BY <2>1, PowPow
<1>9. Pow(c, d) \in Nat /\ b \in Nat /\ n \in Int
  BY <1>2, <1>5, <1>6, PowNat
<1>10. Congruent(b, Pow(m, e * d), n)
  BY <1>5, <1>6, <1>7, <1>8, <1>9, CongruentTrans
<1>11. Congruent(b, m, n)
  BY <1>3, <1>5, <1>9, <1>10, CongruentTrans
<1>12. b = m
  BY <1>2, <1>6, <1>11, CongruentSmall
<1> QED BY <1>12 DEF b, c, n

(* What generatePrime draws is odd and has its top bit set. *)
LEMMA CandidateRange ==
  ASSUME NEW b \in Nat, b > 0, NEW c \in Candidates(b)
  PROVE  c \in Nat /\ c % 2 = 1 /\ 2^(b - 1) < c /\ c <= 2^b + 1
<1> DEFINE l == 2^(b - 1)
           h == 2^b
<1>1. l \in Nat /\ h \in Nat /\ l > 0
  <2>1. b - 1 \in Nat
    OBVIOUS
  <2> QED BY <2>1, TwoNat
<1>2. PICK r \in l..(h - 1) : c = OddAbove(r)
  BY DEF Candidates
<1> HIDE DEF l, h
<1>3. r \in Nat
  BY <1>1, <1>2
<1>4. (r + 1) % 2 \in {0, 1} /\ ((r + 1) % 2 = 0 => (r + 2) % 2 = 1)
  BY <1>3
<1>5. c \in {r + 1, r + 2} /\ c % 2 = 1
  BY <1>2, <1>3, <1>4 DEF OddAbove
<1>6. l < c /\ c <= h + 1 /\ c \in Nat
  BY <1>1, <1>2, <1>3, <1>5
<1> QED BY <1>5, <1>6 DEF l, h

(* The product of two different candidates has the size asked for, or one  *)
(* bit less.                                                               *)
LEMMA ProductBits ==
  ASSUME NEW b \in Nat, b > 0, NEW p \in Candidates(b), NEW q \in Candidates(b), p # q
  PROVE  BitLen(p * q) \in {2 * b - 1, 2 * b}
<1> DEFINE l == 2^(b - 1)
           h == 2^b
           k == 2 * b - 2
<1>1. l \in Nat /\ h \in Nat /\ l > 0 /\ b - 1 \in Nat /\ k \in Nat /\ k = (b - 1) + (b - 1)
  <2>1. b - 1 \in Nat
    OBVIOUS
  <2> QED BY <2>1, TwoNat
<1>2. 2^k = l * l /\ 2^(2 * b) = h * h
  <2>1. 2 * b = b + b
    OBVIOUS
  <2> QED BY <1>1, <2>1, TwoAdd
<1>3. /\ p \in Nat /\ p % 2 = 1 /\ l < p /\ p <= h + 1
      /\ q \in Nat /\ q % 2 = 1 /\ l < q /\ q <= h + 1
  BY CandidateRange
<1> HIDE DEF l, h
<1>4. p * q < h * h
  <2>1. p < q => p * q < h * h
    BY <1>1, <1>3, ProductSmall
  <2>2. q < p => q * p < h * h
    BY <1>1, <1>3, ProductSmall
  <2>3. p * q = q * p
    BY <1>3
  <2> QED BY <1>3, <2>1, <2>2, <2>3
<1>5. l * l <= p * q
  BY <1>1, <1>3
<1>6. p * q \in Nat
  BY <1>3
<1> DEFINE n == p * q
<1>7. n \in Nat /\ 2^k <= n /\ n < 2^(2 * b)
  BY <1>2, <1>4, <1>5, <1>6
<1> HIDE DEF n
<1>8. BitLen(n) \in Nat /\ BitLen(n) > k /\ BitLen(n) <= 2 * b
  <2>1. 2 * b \in Nat
    OBVIOUS
  <2> HIDE DEF k
  <2> QED BY <1>1, <1>7, <2>1, BitLenCorrect, BitLenBetween, BitLenBelow
<1>9. BitLen(n) \in {2 * b - 1, 2 * b}
  BY <1>8
<1> QED BY <1>9 DEF n

-----------------------------------------------------------------------------
(* The inductive invariant.                                                 *)

(* The stages with a key. *)
HasKey == {"key", "loaded", "sent", "unsent", "read"}

(* Where the block and the text that was read come from. *)
BlockInv ==
    stage \in {"sent", "read"} =>
      /\ Len(text) <= Size(key.n) - Overhead
      /\ block = Padded(ModExp(Value(text), public.e, key.n), Size(key.n))
      /\ stage = "read" => plain = Bytes(ModExp(Value(block), key.d, key.n))

(* What a stage says: sizes are accepted before primes are drawn, numbers  *)
(* under test for a key are candidates, what was rejected is not prime.    *)
StageInv ==
    /\ stage \in {"new", "draw", "test", "accepted", "rejected", "refused", "factors"} \cup HasKey
    /\ bits \in Nat /\ cand \in Nat /\ round \in 0..Rounds
    /\ stage = "new" => bits = 0
    /\ stage = "draw" \/ (stage = "test" /\ bits # 0) \/ primes # <<>> => ~Refused(bits)
    /\ stage = "test" /\ bits # 0 => cand \in Candidates(bits \div 2)
    /\ stage = "rejected" => ~IsPrime(cand)

(* The primes of a key are different candidates of half its size. *)
FactorInv ==
    /\ primes \in Seq(Nat)
    /\ \A i \in 1..Len(primes) : primes[i] \in Candidates(bits \div 2)
    /\ stage \in {"new", "draw", "test"} => Len(primes) < 2
    /\ Len(primes) <= 2
    /\ stage \in {"factors"} \cup HasKey => Len(primes) = 2
    /\ Len(primes) = 2 => primes[1] # primes[2]

(* A key has the primes, their product, the exponent and its inverse; the  *)
(* public key in use has its modulus and one of two exponents.             *)
KeyInv ==
    /\ key \in [n : Nat, e : Nat, d : Nat, p : Nat, q : Nat] /\ public \in [n : Nat, e : Nat]
    /\ stage \notin HasKey => key = NoKey
    /\ stage \in HasKey =>
         /\ key.p = primes[1] /\ key.q = primes[2] /\ key.n = key.p * key.q
         /\ key.d = ModInverse(Exponent(Phi(key)), Phi(key))
         /\ key.e \in {Exponent(Phi(key)), Exponents[1]}
         /\ stage = "key" => key.e = Exponent(Phi(key))
         /\ public.n = key.n /\ public.e \in {Exponent(Phi(key)), Exponents[1]}

(* The message, the block and the text that was read are bytes. *)
LetterInv == text \in Seq(Byte) /\ block \in Seq(Byte) /\ plain \in Seq(Byte)

(* The inductive invariant. *)
RSAInv == StageInv /\ FactorInv /\ KeyInv /\ LetterInv /\ BlockInv

(* Lengths of the sequence of primes. *)
LEMMA LengthFacts ==
  /\ \A s : Len(s) = 2 => s # <<>>
  /\ \A s \in Seq(Nat) : Len(s) <= 2 /\ Len(s) # 2 => Len(s) < 2
<1>1. ASSUME NEW s, Len(s) = 2 PROVE s # <<>>
  <2> SUFFICES ASSUME s = <<>> PROVE FALSE
    OBVIOUS
  <2>1. Len(s) = 0
    OBVIOUS
  <2> QED BY <1>1, <2>1
<1>2. ASSUME NEW s \in Seq(Nat), Len(s) <= 2, Len(s) # 2 PROVE Len(s) < 2
  <2> DEFINE l == Len(s)
  <2>1. l \in Nat /\ l <= 2 /\ l # 2
    BY <1>2
  <2> HIDE DEF l
  <2>2. l < 2
    BY <2>1
  <2> QED BY <2>2 DEF l
<1> QED BY <1>1, <1>2

(* A size that is not refused is twice a number of at least four bits. *)
LEMMA RefusedBits ==
  ASSUME NEW b \in Nat, ~Refused(b)
  PROVE  b \div 2 \in Nat /\ b \div 2 >= 4 /\ b = 2 * (b \div 2)
BY DEF Refused

(* It holds at first. *)
LEMMA RSAInit == Init => RSAInv
<1> SUFFICES ASSUME Init PROVE RSAInv
  OBVIOUS
<1> USE DEF Init
<1>1. StageInv
  BY ConstantTypes DEF StageInv
<1>2. FactorInv
  BY DEF FactorInv, HasKey
<1>3. KeyInv
  BY DEF KeyInv, HasKey, NoKey, PublicPart
<1>4. LetterInv /\ BlockInv
  BY DEF LetterInv, BlockInv
<1> QED BY <1>1, <1>2, <1>3, <1>4 DEF RSAInv

(* Before there is a key, nothing is said of it or of a message. *)
LEMMA NoKeyYet ==
  ASSUME RSAInv, stage \notin HasKey, stage' \notin HasKey, UNCHANGED <<key, public, letter>>
  PROVE  KeyInv' /\ LetterInv' /\ BlockInv'
<1>1. KeyInv'
  BY DEF RSAInv, KeyInv
<1>2. LetterInv'
  BY DEF RSAInv, LetterInv, letter
<1>3. BlockInv'
  BY DEF BlockInv, HasKey
<1> QED BY <1>1, <1>2, <1>3

(* GenerateKeyPair keeps it: it starts with a size that is not refused. *)
LEMMA GenerateStep ==
  ASSUME RSAInv, NEW b \in Sizes, Generate(b)
  PROVE  RSAInv'
<1> USE DEF Generate
<1>1. KeyInv' /\ LetterInv' /\ BlockInv'
  BY NoKeyYet DEF HasKey
<1>2. StageInv'
  <2>1. b \in Nat /\ Len(primes) < 2 /\ primes \in Seq(Nat)
    BY ConstantTypes DEF RSAInv, FactorInv
  <2>2. primes = <<>>
    BY DEF RSAInv, StageInv, FactorInv, Refused
  <2> QED BY <2>1, <2>2 DEF RSAInv, StageInv, test
<1>3. FactorInv'
  <2>1. primes = <<>>
    BY DEF RSAInv, StageInv, FactorInv, Refused
  <2> QED BY <2>1 DEF RSAInv, FactorInv, HasKey
<1> QED BY <1>1, <1>2, <1>3 DEF RSAInv

(* A direct call of millerRabin keeps it. *)
LEMMA ProbeStep ==
  ASSUME RSAInv, NEW n \in Probes, Probe(n)
  PROVE  RSAInv'
<1> USE DEF Probe
<1>1. KeyInv' /\ LetterInv' /\ BlockInv'
  BY NoKeyYet DEF HasKey
<1>2. StageInv'
  BY ConstantTypes DEF RSAInv, StageInv
<1>3. FactorInv'
  BY DEF RSAInv, FactorInv, HasKey
<1> QED BY <1>1, <1>2, <1>3 DEF RSAInv

(* Drawing a candidate keeps it. *)
LEMMA DrawStep ==
  ASSUME RSAInv, Draw
  PROVE  RSAInv'
<1> USE DEF Draw
<1>1. KeyInv' /\ LetterInv' /\ BlockInv'
  BY NoKeyYet DEF HasKey
<1>2. StageInv'
  <2>1. bits \in Nat /\ ~Refused(bits)
    BY DEF RSAInv, StageInv
  <2>2. bits \div 2 \in Nat /\ bits \div 2 > 0
    BY <2>1, RefusedBits
  <2>3. cand' \in Nat
    BY <2>2, CandidateRange
  <2> QED BY <2>1, <2>3 DEF RSAInv, StageInv
<1>3. FactorInv'
  BY DEF RSAInv, FactorInv, HasKey
<1> QED BY <1>1, <1>2, <1>3 DEF RSAInv

(* A round that is survived keeps it. *)
LEMMA TestRoundStep ==
  ASSUME RSAInv, NEW a \in Bases(cand), TestRound(a)
  PROVE  RSAInv'
<1> USE DEF TestRound
<1>1. KeyInv' /\ LetterInv' /\ BlockInv'
  BY NoKeyYet DEF HasKey
<1>2. StageInv'
  <2>1. round' \in 0..Rounds
    BY ConstantTypes DEF RSAInv, StageInv
  <2> QED BY <2>1 DEF RSAInv, StageInv
<1>3. FactorInv'
  BY DEF RSAInv, FactorInv, HasKey
<1> QED BY <1>1, <1>2, <1>3 DEF RSAInv

(* An acceptance keeps it: a prime is added if it is new. *)
LEMMA AcceptStep ==
  ASSUME RSAInv, stage = "test", Verdict(TRUE), UNCHANGED <<bits, key, public, letter>>
  PROVE  RSAInv'
<1>0. stage' \in {"accepted", "factors", "draw"}
  BY DEF Verdict
<1>1. KeyInv' /\ LetterInv' /\ BlockInv'
  BY <1>0, NoKeyYet DEF HasKey
<1>2. CASE bits = 0
  <2>1. StageInv'
    BY <1>2 DEF Verdict, RSAInv, StageInv, test
  <2>2. FactorInv'
    BY <1>2 DEF Verdict, RSAInv, FactorInv, HasKey
  <2> QED BY <1>1, <2>1, <2>2 DEF RSAInv
<1>3. CASE bits # 0
  <2> DEFINE found == IF cand \notin Range(primes) THEN Append(primes, cand) ELSE primes
  <2>1. /\ primes' = found /\ cand' = 0 /\ round' = 0
        /\ stage' = IF Len(found) = 2 THEN "factors" ELSE "draw"
    BY <1>3 DEF Verdict
  <2>2. /\ primes \in Seq(Nat) /\ Len(primes) < 2 /\ cand \in Nat /\ ~Refused(bits)
        /\ \A i \in 1..Len(primes) : primes[i] \in Candidates(bits \div 2)
        /\ cand \in Candidates(bits \div 2)
    BY <1>3 DEF RSAInv, StageInv, FactorInv
  <2>3. /\ found \in Seq(Nat) /\ Len(found) <= 2
        /\ \A i \in 1..Len(found) : found[i] \in Candidates(bits \div 2)
        /\ Len(found) = 2 => found[1] # found[2]
    <3>1. CASE cand \in Range(primes)
      BY <2>2, <3>1
    <3>2. CASE cand \notin Range(primes)
      <4> DEFINE s == Append(primes, cand)
      <4>1. /\ s \in Seq(Nat) /\ Len(s) = Len(primes) + 1 /\ s[Len(primes) + 1] = cand
            /\ \A i \in 1..Len(primes) : s[i] = primes[i]
        BY <2>2
      <4>2. \A i \in 1..Len(primes) : primes[i] # cand
        BY <2>2, <3>2 DEF Range
      <4>3. Len(primes) \in Nat /\ found = s
        BY <2>2, <3>2
      <4> HIDE DEF s, found
      <4>4. \A i \in 1..Len(s) : s[i] \in Candidates(bits \div 2)
        <5> TAKE i \in 1..Len(s)
        <5>1. i \in 1..Len(primes) \/ i = Len(primes) + 1
          BY <4>1, <4>3
        <5> QED BY <2>2, <4>1, <5>1
      <4>5. Len(s) = 2 => s[1] # s[2]
        <5> SUFFICES ASSUME Len(s) = 2 PROVE s[1] # s[2]
          OBVIOUS
        <5>1. Len(primes) = 1
          <6> DEFINE l == Len(primes)
                     k == Len(s)
          <6>1. k = l + 1 /\ l \in Nat /\ k = 2
            BY <4>1, <4>3
          <6> HIDE DEF l, k
          <6>2. l = 1
            BY <6>1
          <6> QED BY <6>2 DEF l
        <5> QED BY <4>1, <4>2, <5>1
      <4> QED BY <2>2, <4>1, <4>3, <4>4, <4>5
    <3> QED BY <3>1, <3>2
  <2> HIDE DEF found
  <2>4. StageInv'
    BY <1>3, <2>1, <2>2, ConstantTypes DEF RSAInv, StageInv
  <2>5. FactorInv'
    <3>1. stage' = "draw" => Len(found) < 2
      <4>1. stage' = "draw" => Len(found) # 2
        BY <2>1
      <4> QED BY <2>3, <4>1, LengthFacts
    <3>2. stage' \in {"draw", "factors"} /\ (stage' = "factors" => Len(found) = 2)
      BY <2>1
    <3> QED BY <2>1, <2>3, <3>1, <3>2 DEF FactorInv, HasKey
  <2> QED BY <1>1, <2>4, <2>5 DEF RSAInv
<1> QED BY <1>2, <1>3

(* A rejection of a number that is not prime keeps it. *)
LEMMA RejectStep ==
  ASSUME RSAInv, stage = "test", Verdict(FALSE), ~IsPrime(cand),
         UNCHANGED <<bits, key, public, letter>>
  PROVE  RSAInv'
<1>0. stage' \in {"rejected", "factors", "draw"}
  BY DEF Verdict
<1>1. KeyInv' /\ LetterInv' /\ BlockInv'
  BY <1>0, NoKeyYet DEF HasKey
<1>2. CASE bits = 0
  <2>1. StageInv'
    BY <1>2 DEF Verdict, RSAInv, StageInv, test, IsPrime
  <2>2. FactorInv'
    BY <1>2 DEF Verdict, RSAInv, FactorInv, HasKey
  <2> QED BY <1>1, <2>1, <2>2 DEF RSAInv
<1>3. CASE bits # 0
  <2>1. Len(primes) < 2
    BY DEF RSAInv, FactorInv
  <2>2. primes' = primes /\ cand' = 0 /\ round' = 0 /\ stage' = "draw"
    BY <1>3, <2>1 DEF Verdict
  <2>3. ~Refused(bits)
    BY <1>3 DEF RSAInv, StageInv
  <2>4. StageInv'
    BY <1>3, <2>2, <2>3, ConstantTypes DEF RSAInv, StageInv
  <2>5. FactorInv'
    BY <2>1, <2>2 DEF RSAInv, FactorInv, HasKey
  <2> QED BY <1>1, <2>4, <2>5 DEF RSAInv
<1> QED BY <1>2, <1>3

(* The answers without a round keep it: only even numbers and those below  *)
(* 2 are turned away.                                                      *)
LEMMA TestAtOnceStep ==
  ASSUME RSAInv, TestAtOnce
  PROVE  RSAInv'
<1>1. stage = "test" /\ (cand <= 2 \/ cand % 2 = 0) /\ UNCHANGED <<bits, key, public, letter>>
  BY DEF TestAtOnce
<1>2. CASE cand = 2
  <2>1. Verdict(TRUE)
    BY <1>2 DEF TestAtOnce, Verdict
  <2> QED BY <1>1, <2>1, AcceptStep
<1>3. CASE cand # 2
  <2>1. Verdict(FALSE)
    BY <1>3 DEF TestAtOnce, Verdict
  <2>2. cand \in Nat
    BY DEF RSAInv, StageInv
  <2>3. ~IsPrime(cand)
    <3>1. CASE cand <= 1
      BY <2>2, <3>1 DEF IsPrime
    <3>2. CASE cand > 2 /\ cand % 2 = 0
      <4>1. 2 \in 2..(cand - 1)
        BY <2>2, <3>2
      <4> QED BY <3>2, <4>1 DEF IsPrime
    <3> QED BY <1>1, <1>3, <2>2, <3>1, <3>2
  <2> QED BY <1>1, <2>1, <2>3, RejectStep
<1> QED BY <1>2, <1>3

(* A failed round keeps it, because no base exposes a prime. *)
LEMMA TestFailsStep ==
  ASSUME RSAInv, NEW a \in Bases(cand), TestFails(a)
  PROVE  RSAInv'
<1>1. /\ stage = "test" /\ cand > 2 /\ cand % 2 = 1 /\ ~Survives(cand, a) /\ Verdict(FALSE)
      /\ UNCHANGED <<bits, key, public, letter>>
  BY DEF TestFails
<1>2. cand \in Nat
  BY DEF RSAInv, StageInv
<1>3. a \in Nat /\ ~Divides(cand, a)
  BY <1>1, <1>2, BasesAreUnits
<1>4. ~Prime(cand)
  BY <1>1, <1>3, PrimeSurvives
<1>5. ~IsPrime(cand)
  BY <1>2, <1>4, PrimeByTrial
<1> QED BY <1>1, <1>5, RejectStep

(* The last round passed keeps it. *)
LEMMA TestPassesStep ==
  ASSUME RSAInv, TestPasses
  PROVE  RSAInv'
BY AcceptStep DEF TestPasses

-----------------------------------------------------------------------------
(* Keys and letters.                                                        *)

(* The exponent that is chosen, and its inverse, are numbers. *)
LEMMA ExponentType ==
  ASSUME NEW phi \in Nat
  PROVE  Exponent(phi) \in Nat /\ Exponents[1] \in Nat
<1>1. Exponents[1] \in Nat /\ Exponents[2] \in Nat /\ Exponents[3] \in Nat
  BY RSAAssumption
<1> QED BY <1>1 DEF Exponent

(* Making the key keeps it. *)
LEMMA MakeKeyStep ==
  ASSUME RSAInv, MakeKey
  PROVE  RSAInv'
<1> DEFINE p == primes[1]
           q == primes[2]
           phi == (p - 1) * (q - 1)
           e == Exponent(phi)
           k == [n |-> p * q, e |-> e, d |-> ModInverse(e, phi), p |-> p, q |-> q]
<1>1. /\ stage = "factors" /\ stage' = "key" /\ key' = k /\ public' = [n |-> p * q, e |-> e]
      /\ UNCHANGED <<bits, test, primes, letter>>
  BY DEF MakeKey
<1>2. p \in Nat /\ q \in Nat /\ p > 1 /\ q > 1
  <2>1. Len(primes) = 2 /\ primes \in Seq(Nat) /\ bits \in Nat /\ ~Refused(bits)
        /\ \A i \in 1..2 : primes[i] \in Candidates(bits \div 2)
    <3>1. Len(primes) = 2 /\ primes \in Seq(Nat)
          /\ \A i \in 1..Len(primes) : primes[i] \in Candidates(bits \div 2)
      BY <1>1 DEF RSAInv, FactorInv
    <3>2. primes # <<>>
      BY <3>1, LengthFacts
    <3> QED BY <3>1, <3>2 DEF RSAInv, StageInv
  <2> DEFINE b == bits \div 2
  <2>2. b \in Nat /\ b >= 4 /\ b > 0
    BY <2>1, RefusedBits
  <2>3. p \in Candidates(b) /\ q \in Candidates(b)
    BY <2>1
  <2> HIDE DEF b, p, q
  <2>4. 2^(b - 1) \in Nat /\ 2^(b - 1) > 0
    <3>1. b - 1 \in Nat
      BY <2>2
    <3> QED BY <3>1, TwoNat
  <2> QED BY <2>2, <2>3, <2>4, CandidateRange
<1>3. phi \in Nat /\ phi > 0
  <2> HIDE DEF p, q
  <2> QED BY <1>2
<1>4. e \in Nat /\ ModInverse(e, phi) \in Nat /\ p * q \in Nat
  <2>1. e \in Nat
    <3> HIDE DEF phi
    <3> QED BY <1>3, ExponentType
  <2>2. ModInverse(e, phi) \in 0..(phi - 1)
    <3> HIDE DEF e, phi
    <3> QED BY <1>3, <2>1, ModInverseRange
  <2>3. p * q \in Nat
    <3> HIDE DEF p, q
    <3> QED BY <1>2
  <2> HIDE DEF e, phi
  <2> QED BY <1>3, <2>1, <2>2, <2>3
<1>5. k.p = p /\ k.q = q /\ k.n = p * q /\ k.e = e /\ k.d = ModInverse(e, phi) /\ Phi(k) = phi
  BY DEF Phi
<1> HIDE DEF p, q, phi, e
<1>6. /\ k \in [n : Nat, e : Nat, d : Nat, p : Nat, q : Nat]
      /\ [n |-> p * q, e |-> e] \in [n : Nat, e : Nat]
  BY <1>2, <1>4
<1> HIDE DEF k
<1>7. e = Exponent(Phi(k))
  BY <1>5 DEF e
<1>8. p = primes'[1] /\ q = primes'[2]
  BY <1>1 DEF p, q
<1>9. KeyInv'
  <2>1. key' = k /\ public'.n = p * q /\ public'.e = e
    BY <1>1
  <2>2. stage' \in HasKey
    BY <1>1 DEF HasKey
  <2>3. Phi(key)' = Phi(k)
    BY <1>1 DEF Phi
  <2>4. Exponent(Phi(key))' = e
    BY <1>7, <2>3 DEF Exponent
  <2>5. ModInverse(Exponent(Phi(key)), Phi(key))' = ModInverse(e, phi)
    BY <1>5, <2>3, <2>4 DEF ModInverse
  <2> QED BY <1>1, <1>5, <1>6, <1>8, <2>1, <2>2, <2>4, <2>5 DEF KeyInv
<1>10. StageInv'
  BY <1>1 DEF RSAInv, StageInv, HasKey, test
<1>11. FactorInv'
  BY <1>1 DEF RSAInv, FactorInv, HasKey
<1>12. LetterInv' /\ BlockInv'
  BY <1>1 DEF RSAInv, LetterInv, BlockInv, letter
<1> QED BY <1>9, <1>10, <1>11, <1>12 DEF RSAInv

(* Writing and reading the key keeps it. *)
LEMMA StoreAndLoadStep ==
  ASSUME RSAInv, StoreAndLoad
  PROVE  RSAInv'
<1> USE DEF StoreAndLoad
<1>1. StageInv'
  BY DEF RSAInv, StageInv, HasKey, test
<1>2. FactorInv'
  BY DEF RSAInv, FactorInv, HasKey
<1>3. KeyInv'
  <2>1. key' = Restored(key) /\ stage \in HasKey /\ stage' = "loaded" /\ public' = public
        /\ primes' = primes /\ key \in [n : Nat, e : Nat, d : Nat, p : Nat, q : Nat]
    BY DEF RSAInv, KeyInv, HasKey
  <2>2. Exponents[1] \in Nat
    BY RSAAssumption
  <2>3. key.n = key.p * key.q
    BY <2>1 DEF RSAInv, KeyInv
  <2>4. /\ key'.n = key.n /\ key'.e = Exponents[1] /\ key'.d = key.d
        /\ key'.p = key.p /\ key'.q = key.q
        /\ key' \in [n : Nat, e : Nat, d : Nat, p : Nat, q : Nat]
    BY <2>1, <2>2, <2>3 DEF Restored
  <2>5. Phi(key)' = Phi(key)
    BY <2>4 DEF Phi
  <2>6. Exponent(Phi(key))' = Exponent(Phi(key))
    BY <2>5 DEF Exponent
  <2>7. ModInverse(Exponent(Phi(key)), Phi(key))' = ModInverse(Exponent(Phi(key)), Phi(key))
    BY <2>5, <2>6 DEF ModInverse
  <2>8. stage' \in HasKey
    BY <2>1 DEF HasKey
  <2> QED BY <2>1, <2>3, <2>4, <2>6, <2>7, <2>8 DEF RSAInv, KeyInv
<1>4. LetterInv' /\ BlockInv'
  BY DEF RSAInv, LetterInv, BlockInv, letter
<1> QED BY <1>1, <1>2, <1>3, <1>4 DEF RSAInv

(* The modulus of a key is large enough to compute with. *)
LEMMA KeyFactors ==
  ASSUME RSAInv, stage \in HasKey
  PROVE  /\ key \in [n : Nat, e : Nat, d : Nat, p : Nat, q : Nat]
         /\ key.p > 2 /\ key.q > 2 /\ key.p # key.q /\ key.n = key.p * key.q /\ key.n > 1
         /\ Phi(key) \in Nat /\ Phi(key) > 1
         /\ bits \in Nat /\ ~Refused(bits)
         /\ key.p \in Candidates(bits \div 2) /\ key.q \in Candidates(bits \div 2)
<1>1. /\ Len(primes) = 2 /\ primes \in Seq(Nat) /\ primes[1] # primes[2]
      /\ \A i \in 1..Len(primes) : primes[i] \in Candidates(bits \div 2)
  BY DEF RSAInv, FactorInv
<1>2. bits \in Nat /\ ~Refused(bits)
  <2>1. primes # <<>>
    BY <1>1
  <2> QED BY <2>1 DEF RSAInv, StageInv
<1>3. /\ key \in [n : Nat, e : Nat, d : Nat, p : Nat, q : Nat]
      /\ key.p = primes[1] /\ key.q = primes[2] /\ key.n = key.p * key.q
  BY DEF RSAInv, KeyInv
<1> DEFINE b == bits \div 2
           p == key.p
           q == key.q
<1>4. b \in Nat /\ b >= 4 /\ b - 2 \in Nat /\ b - 1 = (b - 2) + 1
  BY <1>2, RefusedBits
<1>5. p \in Candidates(b) /\ q \in Candidates(b) /\ p \in Nat /\ q \in Nat /\ p # q
  BY <1>1, <1>3
<1> HIDE DEF b, p, q
<1>6. 2^(b - 1) >= 2
  <2>1. 2^(b - 2) \in Nat /\ 2^(b - 2) > 0
    BY <1>4, TwoNat
  <2>2. 2^(b - 1) = 2 * 2^(b - 2)
    BY <1>4, TwoStep
  <2> QED BY <2>1, <2>2
<1>7. p > 2 /\ q > 2
  <2>1. 2^(b - 1) \in Nat /\ b > 0
    BY <1>4, TwoNat
  <2> QED BY <1>4, <1>5, <1>6, <2>1, CandidateRange
<1>8. p * q > 1
  BY <1>5, <1>7
<1>9. (p - 1) * (q - 1) \in Nat /\ (p - 1) * (q - 1) > 1
  BY <1>5, <1>7
<1> QED BY <1>2, <1>3, <1>5, <1>7, <1>8, <1>9 DEF b, p, q, Phi

(* Encrypt keeps it, whichever public key is used. *)
LEMMA EncryptStep ==
  ASSUME RSAInv, NEW pub \in {public, PublicPart(key)}, NEW msg \in Messages(key), Encrypt(pub, msg)
  PROVE  RSAInv'
<1>1. /\ stage \in {"key", "loaded"} /\ stage' \in {"sent", "unsent"} /\ public' = pub
      /\ UNCHANGED <<bits, test, primes, key, plain>>
  BY DEF Encrypt
<1>2. stage \in HasKey /\ stage' \in HasKey
  BY <1>1 DEF HasKey
<1>3. /\ key \in [n : Nat, e : Nat, d : Nat, p : Nat, q : Nat] /\ key.n > 1
      /\ public \in [n : Nat, e : Nat] /\ public.n = key.n
      /\ public.e \in {Exponent(Phi(key)), Exponents[1]}
      /\ key.e \in {Exponent(Phi(key)), Exponents[1]}
  BY <1>2, KeyFactors DEF RSAInv, KeyInv
<1>4. pub \in [n : Nat, e : Nat] /\ pub.n = key.n /\ pub.e \in {Exponent(Phi(key)), Exponents[1]}
  BY <1>3 DEF PublicPart
<1>5. msg \in Seq(Byte)
  BY DEF Messages, SeqOf
<1>6. StageInv'
  BY <1>1, <1>2 DEF RSAInv, StageInv, HasKey, test
<1>7. FactorInv'
  BY <1>1, <1>2 DEF RSAInv, FactorInv, HasKey
<1>8. KeyInv'
  <2>1. Phi(key)' = Phi(key)
    BY <1>1 DEF Phi
  <2>2. Exponent(Phi(key))' = Exponent(Phi(key))
    BY <2>1 DEF Exponent
  <2>3. ModInverse(Exponent(Phi(key)), Phi(key))' = ModInverse(Exponent(Phi(key)), Phi(key))
    BY <2>1, <2>2 DEF ModInverse
  <2> QED BY <1>1, <1>2, <1>4, <2>2, <2>3 DEF RSAInv, KeyInv
<1>9. CASE msg = <<>> \/ TooLong(pub, msg)
  <2>1. stage' = "unsent" /\ UNCHANGED <<text, block, plain>>
    BY <1>9 DEF Encrypt
  <2>2. LetterInv' /\ BlockInv'
    BY <2>1 DEF RSAInv, LetterInv, BlockInv
  <2> QED BY <1>6, <1>7, <1>8, <2>2 DEF RSAInv
<1>10. CASE ~(msg = <<>> \/ TooLong(pub, msg))
  <2> DEFINE c == ModExp(Value(msg), pub.e, pub.n)
  <2>1. /\ stage' = "sent" /\ text' = msg /\ plain' = plain
        /\ block' = Padded(c, Size(pub.n))
    BY <1>10 DEF Encrypt
  <2>2. Value(msg) \in Nat
    BY <1>5, ValueRange
  <2>3. c \in Nat
    <3>1. pub.e \in Nat /\ pub.n \in Nat /\ pub.n > 1
      BY <1>3, <1>4
    <3>2. c \in 0..(pub.n - 1)
      BY <2>2, <3>1, ModExpCorrect
    <3> HIDE DEF c
    <3> QED BY <3>1, <3>2
  <2>4. Padded(c, Size(pub.n)) \in Seq(Byte)
    <3>1. Size(pub.n) \in Nat
      BY <1>3, <1>4, BytesHold
    <3> HIDE DEF c
    <3> QED BY <2>3, <3>1, PaddedBytes
  <2>5. LetterInv'
    BY <1>5, <2>1, <2>4 DEF RSAInv, LetterInv
  <2>6. Len(msg) <= Size(key.n) - Overhead
    <3>1. Size(key.n) \in Nat /\ Overhead \in Nat /\ Len(msg) \in Nat
      BY <1>3, <1>5, BytesHold, ConstantTypes
    <3> QED BY <1>4, <1>10, <3>1 DEF TooLong
  <2>7. BlockInv'
    BY <1>1, <1>4, <2>1, <2>6 DEF BlockInv
  <2> QED BY <1>6, <1>7, <1>8, <2>5, <2>7 DEF RSAInv
<1> QED BY <1>9, <1>10

(* Decrypt keeps it. *)
LEMMA DecryptStep ==
  ASSUME RSAInv, Decrypt
  PROVE  RSAInv'
<1> DEFINE m == ModExp(Value(block), key.d, key.n)
<1>1. /\ stage = "sent" /\ stage' = "read" /\ plain' = Bytes(m)
      /\ UNCHANGED <<bits, test, primes, key, public, text, block>>
  BY DEF Decrypt
<1>2. stage \in HasKey /\ stage' \in HasKey
  BY <1>1 DEF HasKey
<1>3. StageInv'
  BY <1>1, <1>2 DEF RSAInv, StageInv, HasKey, test
<1>4. FactorInv'
  BY <1>1, <1>2 DEF RSAInv, FactorInv, HasKey
<1>5. KeyInv'
  <2>1. Phi(key)' = Phi(key)
    BY <1>1 DEF Phi
  <2>2. Exponent(Phi(key))' = Exponent(Phi(key))
    BY <2>1 DEF Exponent
  <2>3. ModInverse(Exponent(Phi(key)), Phi(key))' = ModInverse(Exponent(Phi(key)), Phi(key))
    BY <2>1, <2>2 DEF ModInverse
  <2> QED BY <1>1, <1>2, <2>2, <2>3 DEF RSAInv, KeyInv
<1>6. m \in Nat
  <2>1. Value(block) \in Nat
    BY ValueRange DEF RSAInv, LetterInv
  <2>2. key.d \in Nat /\ key.n \in Nat /\ key.n > 1
    BY <1>2, KeyFactors
  <2>3. m \in 0..(key.n - 1)
    BY <2>1, <2>2, ModExpCorrect
  <2> HIDE DEF m
  <2> QED BY <2>2, <2>3
<1>7. LetterInv'
  <2>1. Bytes(m) \in Seq(Byte)
    <3> HIDE DEF m
    <3> QED BY <1>6, BytesCorrect
  <2> QED BY <1>1, <2>1 DEF RSAInv, LetterInv
<1>8. BlockInv'
  BY <1>1 DEF RSAInv, BlockInv
<1> QED BY <1>3, <1>4, <1>5, <1>7, <1>8 DEF RSAInv

(* Every step keeps it. *)
LEMMA RSAStep == RSAInv /\ [Next]_vars => RSAInv'
<1> SUFFICES ASSUME RSAInv, [Next]_vars PROVE RSAInv'
  OBVIOUS
<1>1. ASSUME NEW b \in Sizes, Generate(b) PROVE RSAInv'
  BY <1>1, GenerateStep
<1>2. ASSUME NEW n \in Probes, Probe(n) PROVE RSAInv'
  BY <1>2, ProbeStep
<1>3. CASE Draw
  BY <1>3, DrawStep
<1>4. CASE TestAtOnce
  BY <1>4, TestAtOnceStep
<1>5. CASE TestPasses
  BY <1>5, TestPassesStep
<1>6. CASE MakeKey
  BY <1>6, MakeKeyStep
<1>7. CASE StoreAndLoad
  BY <1>7, StoreAndLoadStep
<1>8. CASE Decrypt
  BY <1>8, DecryptStep
<1>9. ASSUME NEW a \in Bases(cand), TestRound(a) PROVE RSAInv'
  BY <1>9, TestRoundStep
<1>10. ASSUME NEW a \in Bases(cand), TestFails(a) PROVE RSAInv'
  BY <1>10, TestFailsStep
<1>11. ASSUME NEW pub \in {public, PublicPart(key)}, NEW msg \in Messages(key), Encrypt(pub, msg)
       PROVE  RSAInv'
  BY <1>11, EncryptStep
<1>12. CASE UNCHANGED vars
  <2> USE <1>12 DEF vars, test, letter
  <2>1. StageInv'
    BY DEF RSAInv, StageInv, IsPrime
  <2>2. FactorInv'
    BY DEF RSAInv, FactorInv
  <2>3. KeyInv'
    <3>1. Phi(key)' = Phi(key)
      BY DEF Phi
    <3>2. Exponent(Phi(key))' = Exponent(Phi(key))
      BY <3>1 DEF Exponent
    <3>3. ModInverse(Exponent(Phi(key)), Phi(key))' = ModInverse(Exponent(Phi(key)), Phi(key))
      BY <3>1, <3>2 DEF ModInverse
    <3> QED BY <3>2, <3>3 DEF RSAInv, KeyInv
  <2>4. LetterInv' /\ BlockInv'
    BY DEF RSAInv, LetterInv, BlockInv
  <2> QED BY <2>1, <2>2, <2>3, <2>4 DEF RSAInv
<1> QED BY <1>1, <1>2, <1>3, <1>4, <1>5, <1>6, <1>7, <1>8, <1>9, <1>10, <1>11, <1>12
        DEF Next, Stopped

(* The invariant holds in every reachable state, for every size, message   *)
(* and byte width.                                                         *)
THEOREM RSAInvariant == Spec => []RSAInv
BY RSAInit, RSAStep, PTL DEF Spec

-----------------------------------------------------------------------------
(* The theorems.                                                            *)

(* The invariant types the state. *)
LEMMA TypesFollow == RSAInv => RSATypeOK
<1> SUFFICES ASSUME RSAInv PROVE RSATypeOK
  OBVIOUS
<1>1. key \in [n : Nat, e : Nat, d : Nat, p : Nat, q : Nat]
  BY DEF RSAInv, KeyInv
<1>2. primes \in Seq(Nat) /\ Len(primes) <= 2
  BY DEF RSAInv, FactorInv
<1> QED BY <1>1, <1>2 DEF RSAInv, StageInv, HasKey, LetterInv, RSATypeOK

(* Every reachable state of the key generation and of a letter is well     *)
(* typed.                                                                  *)
THEOREM TypeCorrect == Spec => []RSATypeOK
BY RSAInvariant, TypesFollow, PTL

(* The invariant has the property. *)
LEMMA PrimesPassFollow == RSAInv => PrimesPass
BY DEF RSAInv, StageInv, PrimesPass

(* millerRabin never turns a prime away, whatever it draws and however     *)
(* many rounds it runs.                                                    *)
THEOREM PrimesPassed == Spec => []PrimesPass
BY RSAInvariant, PrimesPassFollow, PTL

(* Each of the three exponents is a prime. *)
LEMMA ExponentsArePrime ==
  ASSUME NEW i \in 1..3
  PROVE  Prime(Exponents[i])
<1>1. Exponents[i] \in Nat
  BY RSAAssumption
<1>2. IsPrime(Exponents[i])
  BY RSAAssumption DEF IsPrime
<1> QED BY <1>1, <1>2, PrimeByTrial

(* The exponent that is chosen is invertible if one of the three is. *)
LEMMA ChosenFits ==
  ASSUME NEW k, Phi(k) \in Nat, Phi(k) > 1, ~NoExponentFits(k)
  PROVE  /\ Exponent(Phi(k)) \in Nat
         /\ Congruent(Exponent(Phi(k)) * ModInverse(Exponent(Phi(k)), Phi(k)), 1, Phi(k))
<1>1. \E i \in 1..3 : Exponent(Phi(k)) = Exponents[i] /\ Phi(k) % Exponents[i] # 0
  <2>1. 1 \in 1..3 /\ 2 \in 1..3 /\ 3 \in 1..3 /\ \A i \in 1..3 : i = 1 \/ i = 2 \/ i = 3
    OBVIOUS
  <2> QED BY <2>1 DEF Exponent, NoExponentFits
<1>2. PICK i \in 1..3 : Exponent(Phi(k)) = Exponents[i] /\ Phi(k) % Exponents[i] # 0
  BY <1>1
<1>3. Prime(Exponents[i])
  BY ExponentsArePrime
<1> DEFINE phi == Phi(k)
           e == Exponents[i]
<1>4. Prime(e) /\ phi \in Nat /\ phi > 1 /\ phi % e # 0 /\ Exponent(phi) = e
  BY <1>2, <1>3
<1> HIDE DEF phi, e
<1>5. Congruent(e * ModInverse(e, phi), 1, phi)
  BY <1>4, PrimeInverse
<1>6. e \in Nat
  BY <1>4 DEF Prime
<1>7. Exponent(phi) \in Nat /\ Congruent(Exponent(phi) * ModInverse(Exponent(phi), phi), 1, phi)
  BY <1>4, <1>5, <1>6
<1> QED BY <1>7 DEF phi

(* The invariant has the property. *)
LEMMA SoundnessFollows == RSAInv => KeyIsSound
<1> SUFFICES ASSUME RSAInv, stage = "key", key # NoKey
             PROVE  /\ key.p # key.q
                    /\ BitLen(key.n) \in {bits - 1, bits}
                    /\ (key.e * key.d) % Phi(key) = 1 \/ NoExponentFits(key)
  BY DEF KeyIsSound
<1>1. stage \in HasKey
  BY DEF HasKey
<1>2. /\ key.p # key.q /\ key.n = key.p * key.q
      /\ Phi(key) \in Nat /\ Phi(key) > 1 /\ bits \in Nat /\ ~Refused(bits)
      /\ key.p \in Candidates(bits \div 2) /\ key.q \in Candidates(bits \div 2)
  BY <1>1, KeyFactors
<1>3. BitLen(key.n) \in {bits - 1, bits}
  <2> DEFINE b == bits \div 2
  <2>1. b \in Nat /\ b > 0 /\ bits = 2 * b
    BY <1>2, RefusedBits
  <2>2. key.p \in Candidates(b) /\ key.q \in Candidates(b)
    BY <1>2
  <2> HIDE DEF b
  <2>3. BitLen(key.p * key.q) \in {2 * b - 1, 2 * b}
    BY <1>2, <2>1, <2>2, ProductBits
  <2> QED BY <1>2, <2>1, <2>3
<1>4. ASSUME ~NoExponentFits(key) PROVE (key.e * key.d) % Phi(key) = 1
  <2>1. key.e = Exponent(Phi(key)) /\ key.d = ModInverse(Exponent(Phi(key)), Phi(key))
    BY <1>1 DEF RSAInv, KeyInv
  <2> DEFINE phi == Phi(key)
             x == key.e * key.d
  <2>2. Congruent(x, 1, phi) /\ x \in Int /\ phi \in Nat /\ phi > 1
    <3>1. key.e \in Nat /\ key.d \in Nat
      BY DEF RSAInv, KeyInv
    <3>2. x \in Int
      BY <3>1
    <3> QED BY <1>2, <1>4, <2>1, <3>2, ChosenFits
  <2> HIDE DEF phi, x
  <2>3. 1 \in 0..(phi - 1) /\ Congruent(1, x, phi)
    <3>1. phi \in Int /\ 1 \in Int
      BY <2>2
    <3> QED BY <2>2, <3>1, CongruentSym
  <2>4. 1 = x % phi
    BY <2>2, <2>3, ModUnique
  <2> QED BY <2>4 DEF x, phi
<1> QED BY <1>2, <1>3, <1>4

(* Every key that GenerateKeyPair returns has two different factors, the   *)
(* size asked for or one bit less, and inverse exponents, unless none of   *)
(* the three exponents is invertible.                                      *)
THEOREM KeysSound == Spec => []KeyIsSound
BY RSAInvariant, SoundnessFollows, PTL

(* What Encrypt was given is a number below the modulus. *)
LEMMA MessageFits ==
  ASSUME RSAInv, stage \in {"sent", "read"}
  PROVE  /\ Value(text) \in Nat /\ Value(text) < key.n
         /\ public.n = key.n /\ public.e \in Nat /\ key.n \in Nat /\ key.n > 1 /\ key.d \in Nat
         /\ ModExp(Value(text), public.e, key.n) \in 0..(key.n - 1)
         /\ Len(block) = Size(key.n)
         /\ Value(block) = ModExp(Value(text), public.e, key.n)
<1>1. stage \in HasKey
  BY DEF HasKey
<1>2. /\ key.n \in Nat /\ key.n > 1 /\ key.d \in Nat
  BY <1>1, KeyFactors
<1>3. public.n = key.n /\ public.e \in Nat
  BY <1>1 DEF RSAInv, KeyInv
<1>4. /\ Len(text) <= Size(key.n) - Overhead
      /\ block = Padded(ModExp(Value(text), public.e, key.n), Size(key.n))
  BY DEF RSAInv, BlockInv
<1>5. text \in Seq(Byte)
  BY DEF RSAInv, LetterInv
<1> DEFINE l == Len(text)
           s == Size(key.n)
           n == key.n
<1>6. l \in Nat /\ s \in Nat /\ l < s /\ n < 2^(ByteWidth * s) /\ n \in Nat /\ n > 1
  <2>1. l \in Nat
    BY <1>5
  <2>2. s \in Nat /\ n < 2^(ByteWidth * s)
    BY <1>2, BytesHold
  <2>3. l <= s - Overhead
    BY <1>4
  <2> HIDE DEF l, s, n
  <2>4. l < s
    BY <2>1, <2>2, <2>3, ConstantTypes
  <2> QED BY <1>2, <2>1, <2>2, <2>4 DEF n
<1>7. 2^(ByteWidth * l) <= n
  BY <1>6, BytesHold
<1>8. Value(text) \in Nat /\ Value(text) < 2^(ByteWidth * l)
  BY <1>5, ValueRange
<1> HIDE DEF l, s, n
<1>9. Value(text) < n
  <2>1. 2^(ByteWidth * l) \in Nat
    BY <1>6, ByteRange
  <2> QED BY <1>6, <1>7, <1>8, <2>1
<1> DEFINE c == ModExp(Value(text), public.e, n)
<1>10. c \in 0..(n - 1)
  BY <1>3, <1>6, <1>8, ModExpCorrect
<1> HIDE DEF c
<1>11. c \in Nat /\ c < 2^(ByteWidth * s)
  <2>1. 2^(ByteWidth * s) \in Nat
    BY <1>6, ByteRange
  <2> QED BY <1>6, <1>10, <2>1
<1>12. Len(Padded(c, s)) = s /\ Value(Padded(c, s)) = c
  BY <1>6, <1>11, PaddedBytes, ValuePadded
<1>13. block = Padded(c, s)
  BY <1>4 DEF c, s, n
<1> QED BY <1>2, <1>3, <1>8, <1>9, <1>10, <1>12, <1>13 DEF c, s, n

(* The invariant has the property. *)
LEMMA SentFollows == RSAInv => SentCanBeRead
<1> SUFFICES ASSUME RSAInv, stage = "sent"
             PROVE  Value(text) < key.n /\ Len(block) = Size(key.n) /\ Value(block) < key.n
  BY DEF SentCanBeRead
<1>1. /\ Value(text) < key.n /\ Len(block) = Size(key.n) /\ key.n \in Nat
      /\ Value(block) = ModExp(Value(text), public.e, key.n)
      /\ ModExp(Value(text), public.e, key.n) \in 0..(key.n - 1)
  BY MessageFits
<1> QED BY <1>1

(* Whatever Encrypt accepts is below the modulus and gives a block that    *)
(* Decrypt accepts.                                                        *)
THEOREM SentReadable == Spec => []SentCanBeRead
BY RSAInvariant, SentFollows, PTL

(* The invariant has the property: the exponents undo each other modulo    *)
(* both primes.                                                            *)
LEMMA RoundTripFollows == RSAInv => RoundTrip
<1> SUFFICES ASSUME RSAInv, stage = "read", GoodFactors, ~NoExponentFits(key),
                    public.e = Exponent(Phi(key))
             PROVE  plain = Stripped(text)
  BY DEF RoundTrip
<1>1. stage \in HasKey
  BY DEF HasKey
<1>2. /\ key.p \in Nat /\ key.q \in Nat /\ key.p > 2 /\ key.q > 2 /\ key.p # key.q
      /\ key.n = key.p * key.q /\ Phi(key) \in Nat /\ Phi(key) > 1
  BY <1>1, KeyFactors
<1>3. Prime(key.p) /\ Prime(key.q)
  <2>1. key.p = primes[1] /\ key.q = primes[2] /\ Len(primes) = 2
    BY <1>1 DEF RSAInv, KeyInv, FactorInv
  <2>2. primes \in Seq(Nat)
    BY DEF RSAInv, FactorInv
  <2>3. 1 \in DOMAIN primes /\ 2 \in DOMAIN primes
    BY <2>1, <2>2
  <2>4. IsPrime(key.p) /\ IsPrime(key.q)
    BY <2>1, <2>3 DEF GoodFactors
  <2> QED BY <1>2, <2>4, PrimeByTrial
<1>4. key.d = ModInverse(Exponent(Phi(key)), Phi(key))
  BY <1>1 DEF RSAInv, KeyInv
<1>5. Congruent(public.e * key.d, 1, (key.p - 1) * (key.q - 1))
  BY <1>2, <1>4, ChosenFits DEF Phi
<1>6. /\ Value(text) \in Nat /\ Value(text) < key.n /\ public.e \in Nat /\ key.d \in Nat
      /\ Value(block) = ModExp(Value(text), public.e, key.n)
  BY MessageFits
<1>7. plain = Bytes(ModExp(Value(block), key.d, key.n))
  BY DEF RSAInv, BlockInv
<1>8. ModExp(ModExp(Value(text), public.e, key.p * key.q), key.d, key.p * key.q) = Value(text)
  BY <1>2, <1>3, <1>5, <1>6, DecryptUndoes
<1> QED BY <1>2, <1>6, <1>7, <1>8 DEF Stripped

(* Decrypt returns what Encrypt was given, without leading zero bytes, for *)
(* every key with prime factors and an exponent that fits.                 *)
THEOREM TextRestored == Spec => []RoundTrip
BY RSAInvariant, RoundTripFollows, PTL
=============================================================================
