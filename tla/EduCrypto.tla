------------------------------ MODULE EduCrypto ------------------------------
(***************************************************************************)
(* The AES-CBC engine behind BAR5 of the edu-pci device                     *)
(* (qemu_devices/edu_pci.c).  A write to CRYPTO_CMD reads the source        *)
(* blocks, enciphers or deciphers them with the expanded key and the IV,    *)
(* writes the result and raises MSI-X vector 2, before it returns.          *)
(*                                                                         *)
(* A 32-bit word of a key, an IV or a block is one bit here, and the block  *)
(* cipher is a constant: any family of permutations.  The key schedule is   *)
(* named by the key it was expanded from.  Other vCPUs store to memory      *)
(* between the two DMA accesses.  Accesses are aligned words: a narrower or  *)
(* unaligned one, which can copy bytes past the key or the IV, is left out.  *)
(***************************************************************************)
EXTENDS Integers, Sequences

CONSTANTS
  NWords,          \* words in a key, an IV and a block (4)
  Unset,           \* the schedule of zeroes there is before any key
  Encipher(_, _),  \* aes_encrypt_block and aes_decrypt_block: a schedule
  Decipher(_, _),  \*   and a block
  BlockLen,        \* AES_BLOCK_SIZE, in units of length
  DmaMaxLen,       \* DMA_MAX_LEN, in the same units
  MemSize,         \* block addresses 0 .. MemSize - 1 are mapped
  Lens,            \* the lengths the host sets
  KeyWords,        \* the values it writes to the words of the key
  Contents,        \* the blocks it stores, and those it uses as IVs
  Residue          \* the blocks that a buffer nothing was read into may hold

Words == 1 .. NWords
Block == [Words -> {0, 1}]
Addrs == 0 .. MemSize - 1
Zeroes == [w \in Words |-> 0]

ASSUME CryptoAssumption ==
  /\ NWords \in Nat \ {0} /\ MemSize \in Nat \ {0}
  /\ BlockLen \in Nat \ {0}
  /\ DmaMaxLen \in Nat /\ DmaMaxLen % BlockLen = 0
  /\ Lens \subseteq Nat
  /\ KeyWords \subseteq {0, 1} /\ Contents \subseteq Block
  /\ Residue \subseteq Block
  /\ Unset \notin Block

\* Deciphering undoes enciphering, under every schedule.
ASSUME CipherAssumption ==
  \A k \in Block \cup {Unset}, b \in Block :
    /\ Encipher(k, b) \in Block /\ Decipher(k, b) \in Block
    /\ Decipher(k, Encipher(k, b)) = b

VARIABLES
  src, dst, len,      \* CRYPTO_SRC, CRYPTO_DST, CRYPTO_LEN
  key, sched, iv,     \* crypto_key, round_keys, crypto_iv
  bus_master, msix,
  pc, encrypt,        \* the running operation
  in, out, prev,      \*   its buffers and the previous ciphertext block
  mem,
  irq,                \* vector 2 was raised and not taken
  inorder,            \* history: words of the key written one after the other
  made                \* history: the last encryption

regVars == <<src, dst, len, key, sched, iv>>
cfgVars == <<bus_master, msix>>
opVars == <<pc, encrypt, in, out, prev>>
cryptoVars == <<regVars, cfgVars, opVars, mem, irq, inorder, made>>

CryptoInit ==
  /\ src = 0 /\ dst = 0 /\ len = 0
  /\ key = Zeroes /\ sched = Unset /\ iv = Zeroes
  /\ bus_master = FALSE /\ msix = FALSE
  /\ pc = "idle" /\ encrypt = FALSE
  /\ in = <<>> /\ out = <<>> /\ prev = Zeroes
  /\ mem = [a \in Addrs |-> Zeroes]
  /\ irq = FALSE
  /\ inorder = 0
  /\ made = [sched |-> Unset, iv |-> Zeroes, plain |-> <<>>, cipher |-> <<>>]

XorWords(a, b) == [w \in Words |-> (a[w] + b[w]) % 2]

-----------------------------------------------------------------------------
(* edu_crypto_write.                                                        *)

WriteSrc(a) ==
  /\ pc = "idle" /\ src' = a
  /\ UNCHANGED <<dst, len, key, sched, iv, cfgVars, opVars, mem, irq, inorder, made>>
WriteDst(a) ==
  /\ pc = "idle" /\ dst' = a
  /\ UNCHANGED <<src, len, key, sched, iv, cfgVars, opVars, mem, irq, inorder, made>>
WriteLen(n) ==
  /\ pc = "idle" /\ len' = n
  /\ UNCHANGED <<src, dst, key, sched, iv, cfgVars, opVars, mem, irq, inorder, made>>

\* How many words of the key were written in order, with word w now.
InOrder(w) == IF w = 1 THEN 1 ELSE IF w = inorder + 1 THEN w ELSE 0

\* Mutant: the key is expanded when its first word arrives.
ExpandsAtFirst(w) == w = 1

Expands(w) == w = NWords

\* The key is expanded whenever its last word is written.
WriteKey(w, x) ==
  /\ pc = "idle"
  /\ key' = [key EXCEPT ![w] = x]
  /\ sched' = IF Expands(w) THEN key' ELSE sched
  /\ inorder' = InOrder(w)
  /\ UNCHANGED <<src, dst, len, iv, cfgVars, opVars, mem, irq, made>>

WriteIv(w, x) ==
  /\ pc = "idle"
  /\ iv' = [iv EXCEPT ![w] = x]
  /\ UNCHANGED <<src, dst, len, key, sched, cfgVars, opVars, mem, irq, inorder, made>>

\* Mutant: the length is clamped after it was looked at.
OpLenUnclamped == len

\* The length of an operation, clamped.
OpLen == IF len > DmaMaxLen THEN DmaMaxLen ELSE len

\* A length that is not a number of blocks: nothing happens.
RefuseLen ==
  /\ pc = "idle"
  /\ OpLen % BlockLen # 0
  /\ UNCHANGED cryptoVars

Start(enc) ==
  /\ pc = "idle"
  /\ OpLen % BlockLen = 0
  /\ pc' = "read" /\ encrypt' = enc
  /\ UNCHANGED <<regVars, cfgVars, in, out, prev, mem, irq, inorder, made>>

NBlocks == OpLen \div BlockLen
SrcMapped == src + NBlocks <= MemSize
DstMapped == dst + NBlocks <= MemSize

ReadInput ==
  /\ pc = "read"
  /\ bus_master /\ SrcMapped
  /\ in' = [i \in 1 .. NBlocks |-> mem[src + i - 1]]
  /\ prev' = iv /\ pc' = "cbc"
  /\ UNCHANGED <<regVars, cfgVars, encrypt, out, mem, irq, inorder, made>>

\* The result is not looked at: the buffer holds what the stack or the part
\* that was read left in it.
ReadInputFails ==
  /\ pc = "read"
  /\ ~bus_master \/ ~SrcMapped
  /\ in' \in [1 .. NBlocks -> Residue]
  /\ prev' = iv /\ pc' = "cbc"
  /\ UNCHANGED <<regVars, cfgVars, encrypt, out, mem, irq, inorder, made>>

\* The block the loops of aes_cbc_encrypt and aes_cbc_decrypt are at.
Current == in[Len(out) + 1]

EncryptBlock ==
  /\ pc = "cbc" /\ encrypt /\ Len(out) < Len(in)
  /\ LET c == Encipher(sched, XorWords(Current, prev))
     IN out' = Append(out, c) /\ prev' = c
  /\ UNCHANGED <<regVars, cfgVars, pc, encrypt, in, mem, irq, inorder, made>>

\* Mutant: the chain goes on with the plaintext.
ChainedPlain(p) == p

\* What the next block is chained to.
Chained(p) == Current

DecryptBlock ==
  /\ pc = "cbc" /\ ~encrypt /\ Len(out) < Len(in)
  /\ LET p == XorWords(Decipher(sched, Current), prev)
     IN out' = Append(out, p) /\ prev' = Chained(p)
  /\ UNCHANGED <<regVars, cfgVars, pc, encrypt, in, mem, irq, inorder, made>>

BlocksDone ==
  /\ pc = "cbc" /\ Len(out) = Len(in)
  /\ pc' = "write"
  /\ made' = IF encrypt THEN [sched |-> sched, iv |-> iv, plain |-> in, cipher |-> out]
                        ELSE made
  /\ UNCHANGED <<regVars, cfgVars, encrypt, in, out, prev, mem, irq, inorder>>

\* The result is not looked at; what is outside mapped memory is dropped, and
\* an access that fails may have stored a first part.
WriteOutput ==
  /\ pc = "write"
  /\ \E k \in 0 .. NBlocks :
       /\ k = NBlocks \/ ~DstMapped \/ ~bus_master
       /\ k = 0 \/ bus_master
       /\ mem' = [a \in Addrs |-> IF a \in dst .. dst + k - 1
                                  THEN out[a - dst + 1] ELSE mem[a]]
  /\ pc' = "notify"
  /\ UNCHANGED <<regVars, cfgVars, encrypt, in, out, prev, irq, inorder, made>>

Notify ==
  /\ pc = "notify"
  /\ irq' = (irq \/ (msix /\ bus_master))
  /\ pc' = "idle" /\ encrypt' = FALSE
  /\ in' = <<>> /\ out' = <<>> /\ prev' = Zeroes
  /\ UNCHANGED <<regVars, cfgVars, mem, inorder, made>>

OpStep ==
  \/ ReadInput \/ ReadInputFails
  \/ EncryptBlock \/ DecryptBlock \/ BlocksDone
  \/ WriteOutput \/ Notify

-----------------------------------------------------------------------------
(* The host.                                                                *)

\* A reset leaves the registers: the class has no reset handler.
WriteConfig(bm, mx) ==
  /\ pc = "idle"
  /\ bus_master' = bm /\ msix' = mx
  /\ UNCHANGED <<regVars, opVars, mem, irq, inorder, made>>

StoreBlock(a, b) ==
  /\ mem' = [mem EXCEPT ![a] = b]
  /\ UNCHANGED <<regVars, cfgVars, opVars, irq, inorder, made>>

TakeInterrupt ==
  /\ irq /\ irq' = FALSE
  /\ UNCHANGED <<regVars, cfgVars, opVars, mem, inorder, made>>

HostStep ==
  \/ \E a \in Addrs : WriteSrc(a) \/ WriteDst(a)
  \/ \E n \in Lens : WriteLen(n)
  \/ \E w \in Words, x \in KeyWords : WriteKey(w, x)
  \/ \E w \in Words, b \in Contents : WriteIv(w, b[w])
  \/ RefuseLen
  \/ \E enc \in BOOLEAN : Start(enc)
  \/ \E b \in BOOLEAN : WriteConfig(b, b)
  \/ \E a \in Addrs, b \in Contents : StoreBlock(a, b)
  \/ TakeInterrupt

CryptoNext == OpStep \/ HostStep
CryptoSpec == CryptoInit /\ [][CryptoNext]_cryptoVars

-----------------------------------------------------------------------------
(* Properties.                                                              *)

CryptoTypeOK ==
  /\ src \in Addrs /\ dst \in Addrs /\ len \in Nat
  /\ key \in Block /\ sched \in Block \cup {Unset} /\ iv \in Block
  /\ bus_master \in BOOLEAN /\ msix \in BOOLEAN /\ irq \in BOOLEAN
  /\ pc \in {"idle", "read", "cbc", "write", "notify"} /\ encrypt \in BOOLEAN
  /\ in \in Seq(Block) /\ out \in Seq(Block) /\ prev \in Block
  /\ Len(out) <= Len(in) /\ Len(in) * BlockLen <= DmaMaxLen
  /\ mem \in [Addrs -> Block]
  /\ inorder \in 0 .. NWords

\* A key whose words were written in order is the key in use, whatever was
\* half-written or in use before (lines 813-821).
KeyInstalled == inorder = NWords => sched = key

\* Decrypting what an encryption made, or a first part of it, under the same
\* key and IV gives back what was encrypted, block by block along the chain:
\* an operation changes neither key nor IV (lines 326-350, 794-796).
RoundTrip ==
  pc = "write" /\ ~encrypt /\ sched = made.sched /\ iv = made.iv
  /\ Len(in) <= Len(made.cipher) /\ in = SubSeq(made.cipher, 1, Len(in))
    => out = SubSeq(made.plain, 1, Len(in))
==============================================================================
