CONSTANTS
    Sizes = {6, 8, 9, 10}
    Probes = {0, 1, 2, 3, 4, 5, 7, 9, 15, 17, 25, 41, 49, 65, 91, 97}
    ByteWidth = 2
    Overhead = 1
    Exponents <- SmallExponents
    Rounds = 2
SPECIFICATION Spec
INVARIANTS RSATypeOK PrimesPass LiarsAreFew KeyIsSound RoundTrip SentCanBeRead
