------------------------------ MODULE LegacyRSA ------------------------------
(***************************************************************************)
(* The hand-written RSA of the first version, server/enc/ma_rsa.go: the     *)
(* Miller-Rabin test, the generation of a key, its text form, encryption    *)
(* and decryption, from the random draws on.  Numbers are exact (math/big); *)
(* what is scaled down is the width of a byte, the 11 bytes that Encrypt    *)
(* sets aside and the three public exponents, so that whole keys are small  *)
(* enough to try them all.                                                   *)
(***************************************************************************)
EXTENDS Integers, Sequences, FiniteSets, SequencesExt

CONSTANTS
    Sizes,      \* key sizes asked for
    Probes,     \* numbers millerRabin is called with directly
    ByteWidth,  \* bits in a byte: 8 in the code
    Overhead,   \* bytes of a block a message may not use: 11
    Exponents,  \* <<65537, 17, 3>>
    Rounds      \* rounds of the primality test: 20

ASSUME RSAAssumption ==
    /\ Sizes \subseteq Nat /\ Probes \subseteq Nat
    /\ {ByteWidth, Overhead, Rounds} \subseteq Nat \ {0}
    /\ Exponents \in [1..3 -> Nat]
    /\ \A i \in 1..3 : Exponents[i] > 1 /\ \A m \in 2..(Exponents[i] - 1) :
                          Exponents[i] % m # 0   \* prime, as the three are

VARIABLES
    stage,   \* what is being done
    bits,    \* the size asked for, 0: millerRabin was called by itself
    cand,    \* the number under test
    round,   \* rounds of the test it has survived
    liars,   \* HISTORY: the bases it survived
    primes,  \* the primes found for the key
    key,     \* the private key
    public,  \* the public key in use
    text,    \* the message, as its bytes
    block,   \* the ciphertext
    plain    \* what Decrypt made of it

test == <<cand, round, liars>>
letter == <<text, block, plain>>
vars == <<stage, bits, test, primes, key, public, letter>>

-----------------------------------------------------------------------------
(* Arithmetic.                                                              *)

ModExp(base, exp, mod) ==
    LET go[s \in Nat \X Nat \X Nat] ==
          LET r == s[1]  b == s[2]  e == s[3]
          IN  IF e = 0 THEN r
              ELSE go[<<IF e % 2 = 1 THEN (r * b) % mod ELSE r,
                        (b * b) % mod, e \div 2>>]
    IN  go[<<1, base % mod, exp>>]

ExtendedGCD[s \in Nat \X Nat] ==
    LET a == s[1]  b == s[2]
    IN  IF b = 0 THEN <<a, 1, 0>>
        ELSE LET t == ExtendedGCD[<<b, a % b>>]
             IN  <<t[1], t[3], t[2] - (a \div b) * t[3]>>

(* MUTANT: the coefficient of the modulus is taken. *)
OtherCoefficient(a, m) == ExtendedGCD[<<a, m>>][3] % m
(* The code asks whether the sign of the gcd is 1, not whether the gcd is 1, *)
(* and the gcd of two positive numbers is positive: no error is ever         *)
(* returned, and a number without an inverse gets a wrong one.               *)
ModInverse(a, m) == ExtendedGCD[<<a, m>>][2] % m

BitLen(n) == CHOOSE k \in 0..n : 2^k > n /\ (k = 0 \/ 2^(k - 1) <= n)

Size(n) == (BitLen(n) + ByteWidth - 1) \div ByteWidth

Byte == 0..(2^ByteWidth - 1)

(* SetBytes *)
Value(s) ==
    LET v[i \in 0..Len(s)] == IF i = 0 THEN 0 ELSE v[i - 1] * 2^ByteWidth + s[i]
    IN  v[Len(s)]

(* MUTANT: the bytes are not cut to their width. *)
Unmasked(n, k) == [i \in 1..k |-> n \div 2^(ByteWidth * (k - i))]
(* The k last bytes of n; Bytes takes as many as n has. *)
Padded(n, k) == [i \in 1..k |-> (n \div 2^(ByteWidth * (k - i))) % 2^ByteWidth]
Bytes(n) == Padded(n, Size(n))

-----------------------------------------------------------------------------
(* millerRabin                                                              *)

(* n - 1 = 2^r * d *)
TwoPower(n) == CHOOSE r \in 0..n : (n - 1) % 2^r = 0 /\ ((n - 1) \div 2^r) % 2 = 1

Bases(n) == IF n - 2 <= 2 THEN {2} ELSE 2..(n - 2)

(* MUTANT: x is squared once too few. *)
SurvivesShort(n, a) ==
    LET r == TwoPower(n)
        x == ModExp(a, (n - 1) \div 2^r, n)
        sq[j \in Nat] == IF j = 0 THEN x ELSE (sq[j - 1] * sq[j - 1]) % n
    IN  x = 1 \/ \E j \in 0..(r - 2) : sq[j] = n - 1
(* MUTANT: a square of one is enough, whatever it is the square of. *)
SurvivesFermat(n, a) ==
    LET r == TwoPower(n)
        x == ModExp(a, (n - 1) \div 2^r, n)
        sq[j \in Nat] == IF j = 0 THEN x ELSE (sq[j - 1] * sq[j - 1]) % n
    IN  x = 1 \/ \E j \in 0..(r - 1) : (sq[j] * sq[j]) % n = 1
Survives(n, a) ==
    LET r == TwoPower(n)
        x == ModExp(a, (n - 1) \div 2^r, n)
        sq[j \in Nat] == IF j = 0 THEN x ELSE (sq[j - 1] * sq[j - 1]) % n
    IN  x = 1 \/ \E j \in 0..(r - 1) : sq[j] = n - 1

(* The answer to the caller: the probe, or the loop of generatePrime.       *)
Verdict(accepted) ==
    IF bits = 0
    THEN /\ stage' = IF accepted THEN "accepted" ELSE "rejected"
         /\ UNCHANGED <<primes, test>>
    ELSE LET found == IF accepted /\ cand \notin Range(primes)
                      THEN Append(primes, cand) ELSE primes
         IN  /\ primes' = found
             /\ stage' = IF Len(found) = 2 THEN "factors" ELSE "draw"
             /\ cand' = 0 /\ round' = 0 /\ liars' = {}

TestAtOnce ==
    /\ stage = "test"
    /\ cand <= 2 \/ cand % 2 = 0
    /\ Verdict(cand = 2)
    /\ UNCHANGED <<bits, key, public, letter>>

TestRound(a) ==
    /\ stage = "test"
    /\ cand > 2 /\ cand % 2 = 1
    /\ round < Rounds
    /\ Survives(cand, a)
    /\ round' = round + 1
    /\ liars' = liars \cup {a}
    /\ UNCHANGED <<stage, bits, cand, primes, key, public, letter>>

TestFails(a) ==
    /\ stage = "test"
    /\ cand > 2 /\ cand % 2 = 1
    /\ round < Rounds
    /\ ~Survives(cand, a)
    /\ Verdict(FALSE)
    /\ UNCHANGED <<bits, key, public, letter>>

TestPasses ==
    /\ stage = "test"
    /\ round = Rounds
    /\ Verdict(TRUE)
    /\ UNCHANGED <<bits, key, public, letter>>

-----------------------------------------------------------------------------
(* generatePrime and GenerateKeyPair                                        *)

(* A random number below 2^b with its top bit set, plus one, plus one more   *)
(* if that is even: up to 2^b + 1, which has a bit too many.                 *)
OddAbove(r) == IF (r + 1) % 2 = 0 THEN r + 2 ELSE r + 1
Candidates(b) == {OddAbove(r) : r \in 2^(b - 1)..(2^b - 1)}

Draw ==
    /\ stage = "draw"
    /\ cand' \in Candidates(bits \div 2)
    /\ stage' = "test"
    /\ UNCHANGED <<bits, round, liars, primes, key, public, letter>>

Refused(b) == b < 8 \/ b % 2 # 0

Generate(b) ==
    /\ stage = "new"
    /\ bits' = b
    /\ stage' = IF Refused(b) THEN "refused" ELSE "draw"
    /\ UNCHANGED <<test, primes, key, public, letter>>

Probe(n) ==
    /\ stage = "new"
    /\ cand' = n
    /\ stage' = "test"
    /\ UNCHANGED <<bits, round, liars, primes, key, public, letter>>

Exponent(phi) ==
    IF phi % Exponents[1] # 0 THEN Exponents[1]
    ELSE IF phi % Exponents[2] # 0 THEN Exponents[2]
    ELSE Exponents[3]

MakeKey ==
    /\ stage = "factors"
    /\ LET p == primes[1]
           q == primes[2]
           phi == (p - 1) * (q - 1)
           e == Exponent(phi)
       IN  /\ key' = [n |-> p * q, e |-> e, d |-> ModInverse(e, phi),
                      p |-> p, q |-> q]
           /\ public' = [n |-> p * q, e |-> e]
    /\ stage' = "key"
    /\ UNCHANGED <<bits, test, primes, letter>>

-----------------------------------------------------------------------------
(* The text form: MarshalPrivateKey writes d, p and q; UnmarshalPrivateKey   *)
(* puts the first exponent back, whatever the key had.                       *)

(* MUTANT: the public exponent is written in the place of d. *)
Misfiled(k) == [n |-> k.p * k.q, e |-> Exponents[1], d |-> k.e, p |-> k.p, q |-> k.q]
Restored(k) == [n |-> k.p * k.q, e |-> Exponents[1], d |-> k.d, p |-> k.p, q |-> k.q]

StoreAndLoad ==
    /\ stage = "key"
    /\ key' = Restored(key)
    /\ stage' = "loaded"
    /\ UNCHANGED <<bits, test, primes, public, letter>>

(* Encrypt under pub: the public key, or the public part of the private one. *)
PublicPart(k) == [n |-> k.n, e |-> k.e]

(* MUTANT: nothing is set aside. *)
LongerThanBlock(pub, msg) == Len(msg) > Size(pub.n)
TooLong(pub, msg) == Len(msg) > Size(pub.n) - Overhead

Encrypt(pub, msg) ==
    /\ stage \in {"key", "loaded"}
    /\ IF msg = <<>> \/ TooLong(pub, msg)
       THEN stage' = "unsent" /\ UNCHANGED <<text, block>>
       ELSE /\ stage' = "sent"
            /\ text' = msg
            /\ block' = Padded(ModExp(Value(msg), pub.e, pub.n), Size(pub.n))
    /\ public' = pub
    /\ UNCHANGED <<bits, test, primes, key, plain>>

Decrypt ==
    /\ stage = "sent"
    /\ Len(block) = Size(key.n) /\ Value(block) < key.n
    /\ plain' = Bytes(ModExp(Value(block), key.d, key.n))
    /\ stage' = "read"
    /\ UNCHANGED <<bits, test, primes, key, public, text, block>>

-----------------------------------------------------------------------------
NoKey == [n |-> 0, e |-> 0, d |-> 0, p |-> 0, q |-> 0]

Init ==
    /\ stage = "new"
    /\ bits = 0
    /\ cand = 0 /\ round = 0 /\ liars = {}
    /\ primes = <<>>
    /\ key = NoKey /\ public = PublicPart(NoKey)
    /\ text = <<>> /\ block = <<>> /\ plain = <<>>

(* The messages tried with a key: up to one byte longer than fits. *)
Messages(k) == SeqOf(Byte, Size(k.n) - Overhead + 1)

Stopped ==
    /\ stage \in {"refused", "accepted", "rejected", "unsent", "read"}
    /\ UNCHANGED vars

Next ==
    \/ \E b \in Sizes : Generate(b)
    \/ \E n \in Probes : Probe(n)
    \/ Draw \/ TestAtOnce \/ TestPasses \/ MakeKey \/ StoreAndLoad \/ Decrypt
    \/ \E a \in Bases(cand) : TestRound(a) \/ TestFails(a)
    \/ \E pub \in {public, PublicPart(key)} : \E msg \in Messages(key) :
         Encrypt(pub, msg)
    \/ Stopped

Spec == Init /\ [][Next]_vars
=============================================================================
