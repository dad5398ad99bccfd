-------------------------------- MODULE AesBlock --------------------------------
(***************************************************************************)
(* The AES-128 block cipher of the crypto engine (qemu_devices/edu_pci.c):  *)
(* key expansion, one block enciphered, one deciphered, each a pure         *)
(* function of its arguments as in the code.                                *)
(*                                                                         *)
(* Sixteen bytes are four columns: byte 4 * c + r is byte r of column c.     *)
(* EduCrypto takes the cipher as a constant that satisfies CipherAssumption; *)
(* this module is where that assumption is looked at, in the run of          *)
(* MCEduCrypto.                                                             *)
(***************************************************************************)
EXTENDS Integers, Sequences
LOCAL INSTANCE Bitwise

CONSTANTS
  Vectors,  \* [key, plain] records to try
  Known     \* [key, plain, cipher] records of the AES standard

Byte == 0 .. 255
Column == Byte \X Byte \X Byte \X Byte
Square == Column \X Column \X Column \X Column

ASSUME VectorsAssumption == Vectors \subseteq [key : Square, plain : Square]

aes_sbox == << 99, 124, 119, 123, 242, 107, 111, 197,  48,   1, 103,  43, 254, 215, 171, 118,
  202, 130, 201, 125, 250,  89,  71, 240, 173, 212, 162, 175, 156, 164, 114, 192,
  183, 253, 147,  38,  54,  63, 247, 204,  52, 165, 229, 241, 113, 216,  49,  21,
    4, 199,  35, 195,  24, 150,   5, 154,   7,  18, 128, 226, 235,  39, 178, 117,
    9, 131,  44,  26,  27, 110,  90, 160,  82,  59, 214, 179,  41, 227,  47, 132,
   83, 209,   0, 237,  32, 252, 177,  91, 106, 203, 190,  57,  74,  76,  88, 207,
  208, 239, 170, 251,  67,  77,  51, 133,  69, 249,   2, 127,  80,  60, 159, 168,
   81, 163,  64, 143, 146, 157,  56, 245, 188, 182, 218,  33,  16, 255, 243, 210,
  205,  12,  19, 236,  95, 151,  68,  23, 196, 167, 126,  61, 100,  93,  25, 115,
   96, 129,  79, 220,  34,  42, 144, 136,  70, 238, 184,  20, 222,  94,  11, 219,
  224,  50,  58,  10,  73,   6,  36,  92, 194, 211, 172,  98, 145, 149, 228, 121,
  231, 200,  55, 109, 141, 213,  78, 169, 108,  86, 244, 234, 101, 122, 174,   8,
  186, 120,  37,  46,  28, 166, 180, 198, 232, 221, 116,  31,  75, 189, 139, 138,
  112,  62, 181, 102,  72,   3, 246,  14,  97,  53,  87, 185, 134, 193,  29, 158,
  225, 248, 152,  17, 105, 217, 142, 148, 155,  30, 135, 233, 206,  85,  40, 223,
  140, 161, 137,  13, 191, 230,  66, 104,  65, 153,  45,  15, 176,  84, 187,  22>>

aes_inv_sbox == << 82,   9, 106, 213,  48,  54, 165,  56, 191,  64, 163, 158, 129, 243, 215, 251,
  124, 227,  57, 130, 155,  47, 255, 135,  52, 142,  67,  68, 196, 222, 233, 203,
   84, 123, 148,  50, 166, 194,  35,  61, 238,  76, 149,  11,  66, 250, 195,  78,
    8,  46, 161, 102,  40, 217,  36, 178, 118,  91, 162,  73, 109, 139, 209,  37,
  114, 248, 246, 100, 134, 104, 152,  22, 212, 164,  92, 204,  93, 101, 182, 146,
  108, 112,  72,  80, 253, 237, 185, 218,  94,  21,  70,  87, 167, 141, 157, 132,
  144, 216, 171,   0, 140, 188, 211,  10, 247, 228,  88,   5, 184, 179,  69,   6,
  208,  44,  30, 143, 202,  63,  15,   2, 193, 175, 189,   3,   1,  19, 138, 107,
   58, 145,  17,  65,  79, 103, 220, 234, 151, 242, 207, 206, 240, 180, 230, 115,
  150, 172, 116,  34, 231, 173,  53, 133, 226, 249,  55, 232,  28, 117, 223, 110,
   71, 241,  26, 113,  29,  41, 197, 137, 111, 183,  98,  14, 170,  24, 190,  27,
  252,  86,  62,  75, 198, 210, 121,  32, 154, 219, 192, 254, 120, 205,  90, 244,
   31, 221, 168,  51, 136,   7, 199,  49, 177,  18,  16,  89,  39, 128, 236,  95,
   96,  81, 127, 169,  25, 181,  74,  13,  45, 229, 122, 159, 147, 201, 156, 239,
  160, 224,  59,  77, 174,  42, 245, 176, 200, 235, 187,  60, 131,  83, 153,  97,
   23,  43,   4, 126, 186, 119, 214,  38, 225, 105,  20,  99,  85,  33,  12, 125>>

\* Exclusive or of bytes.
a (+) b == a ^^ b

rcon == <<1, 2, 4, 8, 16, 32, 64, 128, 27, 54>>

\* Mutant: an off-by-one in the table.
SboxNext(x) == aes_sbox[((x + 1) % 256) + 1]

Sbox(x) == aes_sbox[x + 1]
InvSbox(x) == aes_inv_sbox[x + 1]

xtime(x) == ((2 * x) % 256) (+) (IF x >= 128 THEN 27 ELSE 0)

\* Byte r of column c, and the block whose byte r of column c is F(c, r).
At(b, c, r) == b[(c % 4) + 1][(r % 4) + 1]
EachByte(F(_, _)) ==
  LET Col(c) == <<F(c, 0), F(c, 1), F(c, 2), F(c, 3)>>
  IN <<Col(0), Col(1), Col(2), Col(3)>>

-----------------------------------------------------------------------------
(* Key expansion.                                                           *)

\* The word that follows rk, from the last one and the one four places back.
KeyWord(rk) ==
  LET i == Len(rk)
      t == rk[i]
      Turned == <<Sbox(t[2]) (+) rcon[i \div 4], Sbox(t[3]), Sbox(t[4]), Sbox(t[1])>>
      u == IF i % 4 = 0 THEN Turned ELSE t
      Mixed(j) == rk[i - 3][j] (+) u[j]
  IN <<Mixed(1), Mixed(2), Mixed(3), Mixed(4)>>

RECURSIVE Expanded(_)
Expanded(rk) == IF Len(rk) = 44 THEN rk ELSE Expanded(Append(rk, KeyWord(rk)))

\* The 44 words of the schedule; the first four are the key.
aes_key_expand(k) == Expanded(k)

AddRoundKey(b, rk, n) == EachByte(LAMBDA c, r : At(b, c, r) (+) rk[4 * n + c + 1][r + 1])

-----------------------------------------------------------------------------
(* Enciphering.                                                             *)

SubBytes(b) == EachByte(LAMBDA c, r : Sbox(At(b, c, r)))

\* Mutant: the rows are shifted the other way.
ShiftRowsRight(b) == EachByte(LAMBDA c, r : At(b, c + 4 - r, r))

\* Row r moves r columns to the left.
ShiftRows(b) == EachByte(LAMBDA c, r : At(b, c + r, r))

\* Each byte of a column from itself and the three after it, cyclically.
MixColumns(b) ==
  EachByte(LAMBDA c, r :
    LET x(k) == At(b, c, r + k)
    IN xtime(x(0)) (+) xtime(x(1)) (+) x(1) (+) x(2) (+) x(3))

RECURSIVE Enciphered(_, _)
\* The block after each round: the last of them does not mix the columns.
Enciphered(bs, rk) ==
  LET n == Len(bs)
      shifted == ShiftRows(SubBytes(bs[n]))
  IN CASE n < 10 -> Enciphered(Append(bs, AddRoundKey(MixColumns(shifted), rk, n)), rk)
       [] n = 10 -> AddRoundKey(shifted, rk, n)

aes_encrypt_block(rk, b) == Enciphered(<<AddRoundKey(b, rk, 0)>>, rk)

-----------------------------------------------------------------------------
(* Deciphering.                                                             *)

\* Mutant: the rows are not shifted back.
InvShiftRowsSame(b) == EachByte(LAMBDA c, r : At(b, c + r, r))

InvShiftRows(b) == EachByte(LAMBDA c, r : At(b, c + 4 - r, r))

InvSubBytes(b) == EachByte(LAMBDA c, r : InvSbox(At(b, c, r)))

\* The factors 14, 11, 13 and 9, from sums of 8, 4, 2 and 1.
InvMixColumns(b) ==
  EachByte(LAMBDA c, r :
    LET x(k) == At(b, c, r + k)
        x2(k) == xtime(x(k))
        x4(k) == xtime(x2(k))
        x8(k) == xtime(x4(k))
    IN x8(0) (+) x4(0) (+) x2(0) (+) x8(1) (+) x2(1) (+) x(1)
       (+) x8(2) (+) x4(2) (+) x(2) (+) x8(3) (+) x(3))

RECURSIVE Deciphered(_, _)
\* The block after each round, from the last key down: the last one does not
\* mix the columns back.
Deciphered(bs, rk) ==
  LET n == Len(bs)
      added == AddRoundKey(InvSubBytes(InvShiftRows(bs[n])), rk, 10 - n)
  IN CASE n < 10 -> Deciphered(Append(bs, InvMixColumns(added)), rk)
       [] n = 10 -> added

aes_decrypt_block(rk, b) == Deciphered(<<AddRoundKey(b, rk, 10)>>, rk)

-----------------------------------------------------------------------------
(* What the cipher should be, from the field of 256 elements.               *)

\* The product of x and y modulo X^8 + X^4 + X^3 + X + 1, digit by digit of y.
RECURSIVE Times(_, _)
Times(x, y) ==
  IF y = 0 THEN 0
  ELSE (IF y % 2 = 1 THEN x ELSE 0) (+) Times(xtime(x), y \div 2)

RotateLeft(x, n) == ((x * 2 ^ n) % 256) + ((x * 2 ^ n) \div 256)

\* The inverse of the affine map that ends SubBytes.
InvAffine(x) == RotateLeft(x, 1) (+) RotateLeft(x, 3) (+) RotateLeft(x, 6) (+) 5

\* The first table is the substitution of AES, the inverse in the field and
\* the affine map, at every byte, and the second table inverts the first.
IsSubstitution ==
  \A x \in Byte :
    /\ IF x = 0 THEN InvAffine(Sbox(x)) = 0 ELSE Times(x, InvAffine(Sbox(x))) = 1
    /\ InvSbox(Sbox(x)) = x

\* Deciphering what was enciphered gives back the block.
Inverts ==
  \A v \in Vectors :
    LET rk == aes_key_expand(v.key)
    IN aes_decrypt_block(rk, aes_encrypt_block(rk, v.plain)) = v.plain

\* The examples of the standard come out.
GivesKnown ==
  \A k \in Known : aes_encrypt_block(aes_key_expand(k.key), k.plain) = k.cipher
==============================================================================
