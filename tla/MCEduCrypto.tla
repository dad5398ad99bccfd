----------------------------- MODULE MCEduCrypto -----------------------------
(* Values for model-checking EduCrypto: blocks of two bits, and a cipher that  *)
(* is not linear in them.  The block cipher itself is looked at in AesBlock.   *)
EXTENDS EduCrypto, AesBlock

Number(b) == 2 * b[1] + b[2]
Bits(n) == [w \in Words |-> IF w = 1 THEN n \div 2 ELSE n % 2]
Shift(k) == IF k = Unset THEN 0 ELSE 1 + Number(k)
MCEncipher(k, b) == Bits((Number(b) + Shift(k)) % 4)
MCDecipher(k, b) == Bits((Number(b) + 8 - Shift(k)) % 4)
MCContents == {Bits(1)}
MCResidue == {Bits(0), Bits(3)}

Columns(seq) == [c \in 1 .. 4 |-> SubSeq(seq, 4 * c - 3, 4 * c)]
Example(k, p, c) == [key |-> Columns(k), plain |-> Columns(p), cipher |-> Columns(c)]
Numbers(a, b) == Columns([i \in 1 .. 16 |-> (a + b * i) % 256])

\* FIPS 197, appendices B (whose key test_crypto.cpp uses) and C.1.
MCKnown ==
  { Example(<<43, 126, 21, 22, 40, 174, 210, 166, 171, 247, 21, 136, 9, 207, 79, 60>>,
           <<50, 67, 246, 168, 136, 90, 48, 141, 49, 49, 152, 162, 224, 55, 7, 52>>,
           <<57, 37, 132, 29, 2, 220, 9, 251, 220, 17, 133, 151, 25, 106, 11, 50>>),
    Example(<<0, 1, 2, 3, 4, 5, 6, 7, 8, 9, 10, 11, 12, 13, 14, 15>>,
           <<0, 17, 34, 51, 68, 85, 102, 119, 136, 153, 170, 187, 204, 221, 238, 255>>,
           <<105, 196, 224, 216, 106, 123, 4, 48, 216, 205, 183, 128, 112, 180, 197, 90>>) }

\* And blocks without a pattern.
MCVectors ==
  { [key |-> k.key, plain |-> k.plain] : k \in MCKnown }
  \cup { [key |-> Numbers(37 * n, 91), plain |-> Numbers(n, 53 * n + 17)] : n \in 1 .. 4 }

\* Where an operation calls the cipher its tables are those of AES, at each of
\* their 512 bytes (edu_pci.c lines 176-214: one wrong digit shows in few inputs).
TablesAreSubstitution == pc = "cbc" => IsSubstitution

\* There the cipher of the decrypting loop undoes that of the encrypting one
\* (the decrypted text of test_crypto.cpp line 325 equals the original): what
\* CipherAssumption takes for granted, on the actual tables and rounds.
DecryptInverts == pc = "cbc" => Inverts

\* There the cipher is AES-128, in both the key schedule and the rounds.
KnownAnswer == pc = "cbc" => GivesKnown
==============================================================================
