------------------------- MODULE LegacyRSAProperties -------------------------
(* LegacyRSA against the textbook: primes by trial division, inverses by     *)
(* multiplication, decryption as the inverse of encryption.                   *)
EXTENDS LegacyRSA

RSATypeOK ==
    /\ stage \in {"new", "draw", "test", "accepted", "rejected", "refused",
                  "factors", "key", "loaded", "sent", "unsent", "read"}
    /\ round \in 0..Rounds
    /\ primes \in Seq(Nat) /\ Len(primes) <= 2
    /\ text \in Seq(Byte) /\ block \in Seq(Byte) /\ plain \in Seq(Byte)
    /\ key.d \in Nat /\ key.n \in Nat

IsPrime(n) == n > 1 /\ \A m \in 2..(n - 1) : n % m # 0

(* The test never turns a prime away, whatever bases it draws. *)
PrimesPass == stage = "rejected" => ~IsPrime(cand)

(***************************************************************************)
(* A composite is taken for a prime only if every base it drew is one of    *)
(* the few that lie, at most a quarter of the numbers below it (Rabin), so   *)
(* that twenty rounds are enough.                                            *)
(***************************************************************************)
LiarsAreFew ==
    stage = "accepted" /\ ~IsPrime(cand) =>
      /\ liars # {}
      /\ 4 * Cardinality({a \in Bases(cand) : Survives(cand, a)}) <= cand

Phi(k) == (k.p - 1) * (k.q - 1)

GoodFactors == \A i \in DOMAIN primes : IsPrime(primes[i])

(* None of the three exponents is invertible: the key is broken. *)
NoExponentFits(k) == \A i \in 1..3 : Phi(k) % Exponents[i] = 0

(***************************************************************************)
(* A generated key has two different factors, the size that was asked for   *)
(* or one bit less (although a factor may have a bit too many), and an       *)
(* exponent pair that is inverse - unless all three exponents divide phi,   *)
(* when a key is returned that decrypts nothing and no error says so.        *)
(***************************************************************************)
KeyIsSound ==
    key # NoKey /\ stage = "key" =>
      /\ key.p # key.q
      /\ BitLen(key.n) \in {bits - 1, bits}
      /\ (key.e * key.d) % Phi(key) = 1 \/ NoExponentFits(key)

(* A message without its leading zero bytes. *)
Stripped(s) == Bytes(Value(s))

(***************************************************************************)
(* Decrypting what was encrypted gives the message back, also with a key    *)
(* that went through its text form, up to leading zero bytes, which the      *)
(* conversion to a number loses.  Excused: factors that are not prime, keys  *)
(* no exponent fits, and the public part of a loaded private key that was    *)
(* generated with a fallback exponent, which the text form does not keep.    *)
(***************************************************************************)
RoundTrip ==
    stage = "read" /\ GoodFactors /\ ~NoExponentFits(key)
      /\ public.e = Exponent(Phi(key))
      => plain = Stripped(text)

(***************************************************************************)
(* What Encrypt accepts can be decrypted at all: the block has the length   *)
(* and the range that Decrypt demands, and the number behind the message is *)
(* below the modulus.                                                        *)
(***************************************************************************)
SentCanBeRead ==
    stage = "sent" =>
      /\ Value(text) < key.n
      /\ Len(block) = Size(key.n)
      /\ Value(block) < key.n
=============================================================================
