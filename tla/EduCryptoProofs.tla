--------------------------- MODULE EduCryptoProofs ---------------------------
(***************************************************************************)
(* Proofs about the AES-CBC engine: for every size of words, blocks and     *)
(* memory, every set of lengths, key words and blocks, and every block      *)
(* cipher that deciphers what it enciphered.                                *)
(***************************************************************************)
EXTENDS EduCrypto, SequenceTheorems, TLAPS

-----------------------------------------------------------------------------
(* The inductive invariant.                                                 *)

Typed ==
  /\ src \in Addrs /\ dst \in Addrs /\ len \in Nat
  /\ key \in Block /\ sched \in Block \cup {Unset} /\ iv \in Block
  /\ bus_master \in BOOLEAN /\ msix \in BOOLEAN /\ irq \in BOOLEAN
  /\ pc \in {"idle", "read", "cbc", "write", "notify"} /\ encrypt \in BOOLEAN
  /\ prev \in Block
  /\ mem \in [Addrs -> Block]
  /\ inorder \in 0 .. NWords

\* The buffers are in use from the read on; the output is as long as the input
\* when the loop is done.
Buffers ==
  /\ in \in Seq(Block) /\ out \in Seq(Block)
  /\ pc \in {"idle", "read"} => in = <<>> /\ out = <<>>
  /\ pc \in {"cbc", "write", "notify"} => Len(in) = NBlocks /\ Len(out) <= Len(in)
  /\ pc \in {"write", "notify"} => Len(out) = Len(in)

\* What block i is chained to.
Before(v, s, i) == IF i = 1 THEN v ELSE s[i - 1]

\* The ciphertext c comes from p, and the plaintext p from c, under the schedule
\* k and the initial vector v.
Enciphered(k, v, p, c) ==
  \A i \in 1 .. Len(c) : c[i] = Encipher(k, XorWords(p[i], Before(v, c, i)))
Deciphered(k, v, c, p) ==
  \A i \in 1 .. Len(p) : p[i] = XorWords(Decipher(k, c[i]), Before(v, c, i))

Chain ==
  /\ pc \in {"cbc", "write"} =>
       IF encrypt THEN Enciphered(sched, iv, in, out) ELSE Deciphered(sched, iv, in, out)
  /\ pc = "cbc" => prev = Before(iv, IF encrypt THEN out ELSE in, Len(out) + 1)

MadeInv ==
  /\ made.sched \in Block \cup {Unset} /\ made.iv \in Block
  /\ made.plain \in Seq(Block) /\ made.cipher \in Seq(Block)
  /\ Len(made.plain) = Len(made.cipher)
  /\ Enciphered(made.sched, made.iv, made.plain, made.cipher)

CryptoInv == Typed /\ Buffers /\ Chain /\ MadeInv /\ KeyInstalled

-----------------------------------------------------------------------------
(* Blocks.                                                                  *)

\* The exclusive or of blocks is a block, and undoes itself (the chaining of
\* aes_cbc_encrypt and aes_cbc_decrypt, lines 326-350).
LEMMA XorBlocks ==
  ASSUME NEW a \in Block, NEW b \in Block
  PROVE  XorWords(a, b) \in Block /\ XorWords(XorWords(a, b), b) = a
<1>1. \A w \in Words : a[w] \in {0, 1} /\ b[w] \in {0, 1}
  BY DEF Block
<1>2. \A x \in {0, 1}, y \in {0, 1} : (x + y) % 2 \in {0, 1} /\ (((x + y) % 2) + y) % 2 = x
  BY SMT
<1>3. XorWords(a, b) \in Block
  BY <1>1, <1>2 DEF XorWords, Block
<1>4. \A w \in Words : XorWords(XorWords(a, b), b)[w] = a[w]
  BY <1>1, <1>2 DEF XorWords
<1>5. XorWords(XorWords(a, b), b) \in [Words -> {0, 1}] /\ a \in [Words -> {0, 1}]
  <2>1. \A w \in Words : XorWords(XorWords(a, b), b)[w] \in {0, 1}
    BY <1>1, <1>4
  <2> QED
    BY <2>1 DEF XorWords, Block
<1>6. XorWords(XorWords(a, b), b) = a
  BY <1>4, <1>5
<1> QED
  BY <1>3, <1>6

\* An operation has a whole number of blocks, which its buffers hold (lines
\* 757-768).
LEMMA NBlocksFit ==
  ASSUME len \in Nat
  PROVE  NBlocks \in Nat /\ NBlocks * BlockLen <= DmaMaxLen
<1>1. BlockLen \in Nat /\ BlockLen > 0 /\ DmaMaxLen \in Nat
  BY CryptoAssumption
<1>2. OpLen \in Nat /\ OpLen <= DmaMaxLen
  BY <1>1 DEF OpLen
<1> DEFINE q == OpLen \div BlockLen
<1>3. q \in Nat /\ q * BlockLen <= OpLen
  BY <1>1, <1>2, SMT
<1> HIDE DEF q
<1>4. q * BlockLen \in Int
  BY <1>1, <1>3, SMT
<1>5. q * BlockLen <= DmaMaxLen
  BY <1>1, <1>2, <1>3, <1>4
<1> QED
  BY <1>3, <1>5 DEF NBlocks, q

\* A block of zeroes is one, and a block more makes a longer sequence of them.
LEMMA ZeroesBlock == Zeroes \in Block
BY DEF Zeroes, Block

LEMMA OneMore ==
  ASSUME NEW S, NEW s \in Seq(S), NEW x \in S
  PROVE  /\ Append(s, x) \in Seq(S) /\ Len(Append(s, x)) = Len(s) + 1 /\ Len(s) \in Nat
         /\ Append(s, x)[Len(s) + 1] = x
         /\ \A i \in 1 .. Len(s) : Append(s, x)[i] = s[i]
BY AppendProperties, LenProperties

\* What is said of an output holds of one with a block more, when it holds of that
\* block (the two loops).
LEMMA ChainGrows ==
  ASSUME NEW k, NEW v, NEW p, NEW s \in Seq(Block), NEW x \in Block
  PROVE  /\ Enciphered(k, v, p, s) /\ x = Encipher(k, XorWords(p[Len(s) + 1], Before(v, s, Len(s) + 1)))
              => Enciphered(k, v, p, Append(s, x))
         /\ Deciphered(k, v, p, s) /\ x = XorWords(Decipher(k, p[Len(s) + 1]), Before(v, p, Len(s) + 1))
              => Deciphered(k, v, p, Append(s, x))
<1> DEFINE t == Append(s, x)
           n == Len(s)
<1>1. /\ t \in Seq(Block) /\ Len(t) = n + 1 /\ n \in Nat /\ t[n + 1] = x
      /\ \A i \in 1 .. n : t[i] = s[i]
  BY OneMore
<1> HIDE DEF t
<1>2. \A i \in 1 .. Len(t) : i \in 1 .. n \/ i = n + 1
  BY <1>1
<1>3. \A i \in 1 .. Len(t) : Before(v, t, i) = Before(v, s, i)
  <2> SUFFICES ASSUME NEW i \in 1 .. Len(t), i # 1 PROVE t[i - 1] = s[i - 1]
    BY DEF Before
  <2>1. i - 1 \in 1 .. n
    BY <1>1
  <2> QED
    BY <1>1, <2>1
<1>4. ASSUME Enciphered(k, v, p, s), x = Encipher(k, XorWords(p[n + 1], Before(v, s, n + 1)))
      PROVE  Enciphered(k, v, p, t)
  <2> SUFFICES ASSUME NEW i \in 1 .. Len(t)
               PROVE  t[i] = Encipher(k, XorWords(p[i], Before(v, t, i)))
    BY DEF Enciphered
  <2>1. Before(v, t, i) = Before(v, s, i)
    BY <1>3
  <2>2. CASE i \in 1 .. n
    <3>1. t[i] = s[i] /\ s[i] = Encipher(k, XorWords(p[i], Before(v, s, i)))
      BY <1>1, <1>4, <2>2 DEF Enciphered
    <3> QED
      BY <2>1, <3>1
  <2>3. CASE i = n + 1
    BY <1>1, <1>4, <2>1, <2>3
  <2> QED
    BY <1>2, <2>2, <2>3
<1>5. ASSUME Deciphered(k, v, p, s), x = XorWords(Decipher(k, p[n + 1]), Before(v, p, n + 1))
      PROVE  Deciphered(k, v, p, t)
  <2> SUFFICES ASSUME NEW i \in 1 .. Len(t)
               PROVE  t[i] = XorWords(Decipher(k, p[i]), Before(v, p, i))
    BY DEF Deciphered
  <2>1. CASE i \in 1 .. n
    BY <1>1, <1>5, <2>1 DEF Deciphered
  <2>2. CASE i = n + 1
    BY <1>1, <1>5, <2>2
  <2> QED
    BY <1>2, <2>1, <2>2
<1> QED
  BY <1>4, <1>5 DEF t, n

-----------------------------------------------------------------------------
(* The steps.                                                               *)

\* Steps of the host that leave a running operation, its settings and the record
\* of the last encryption alone.
LEMMA OpKept ==
  ASSUME Buffers, Chain, MadeInv, UNCHANGED <<len, sched, iv, opVars, made>>
  PROVE  Buffers' /\ Chain' /\ MadeInv'
<1>1. UNCHANGED <<pc, encrypt, in, out, prev>>
  BY DEF opVars
<1>2. Buffers'
  BY <1>1 DEF Buffers, NBlocks, OpLen
<1>3. Chain'
  BY <1>1 DEF Chain, Enciphered, Deciphered, Before
<1>4. MadeInv'
  BY DEF MadeInv, Enciphered, Before
<1> QED
  BY <1>2, <1>3, <1>4

\* While no operation runs the settings may change: the buffers are empty.
LEMMA IdleKept ==
  ASSUME Buffers, MadeInv, pc = "idle", UNCHANGED <<opVars, made>>
  PROVE  Buffers' /\ Chain' /\ MadeInv'
<1>1. pc' = "idle" /\ UNCHANGED <<in, out>>
  BY DEF opVars
<1>2. Buffers'
  BY <1>1 DEF Buffers
<1>3. Chain'
  BY <1>1 DEF Chain
<1>4. MadeInv'
  BY DEF MadeInv, Enciphered, Before
<1> QED
  BY <1>2, <1>3, <1>4

\* The registers but the key (lines 776-812).
LEMMA RegisterInv ==
  ASSUME CryptoInv,
         \/ \E a \in Addrs : WriteSrc(a) \/ WriteDst(a)
         \/ \E n \in Lens : WriteLen(n)
         \/ \E w \in Words, b \in Contents : WriteIv(w, b[w])
         \/ \E b \in BOOLEAN : WriteConfig(b, b)
  PROVE  CryptoInv'
<1> USE DEF CryptoInv
<1>1. /\ pc = "idle" /\ UNCHANGED <<key, sched, opVars, mem, irq, inorder, made>>
  BY DEF WriteSrc, WriteDst, WriteLen, WriteIv, WriteConfig, regVars
<1>2. Buffers' /\ Chain' /\ MadeInv'
  BY <1>1, IdleKept
<1>3. KeyInstalled'
  BY <1>1 DEF KeyInstalled
<1>4. src' \in Addrs /\ dst' \in Addrs /\ bus_master' \in BOOLEAN /\ msix' \in BOOLEAN
  BY DEF Typed, WriteSrc, WriteDst, WriteLen, WriteIv, WriteConfig, cfgVars, regVars
<1>5. len' \in Nat
  BY CryptoAssumption DEF Typed, WriteSrc, WriteDst, WriteLen, WriteIv, WriteConfig, regVars
<1>6. iv' \in Block
  <2>1. CASE \E w \in Words, b \in Contents : WriteIv(w, b[w])
    <3> PICK w \in Words, b \in Contents : WriteIv(w, b[w])
      BY <2>1
    <3>1. b[w] \in {0, 1}
      BY CryptoAssumption DEF Block
    <3>2. iv' = [iv EXCEPT ![w] = b[w]] /\ iv \in [Words -> {0, 1}]
      BY DEF WriteIv, Typed, Block
    <3> QED
      BY <3>1, <3>2 DEF Block
  <2>2. CASE iv' = iv
    BY <2>2 DEF Typed
  <2> QED
    BY <2>1, <2>2 DEF WriteSrc, WriteDst, WriteLen, WriteConfig, regVars
<1>7. Typed'
  BY <1>1, <1>4, <1>5, <1>6 DEF Typed, opVars
<1> QED
  BY <1>2, <1>3, <1>7

\* A word of the key: the last one expands the key, and only then can the words
\* have come in order (lines 813-821).
LEMMA KeyInv ==
  ASSUME CryptoInv, NEW w \in Words, NEW x \in KeyWords, WriteKey(w, x)
  PROVE  CryptoInv'
<1> USE DEF CryptoInv
<1>1. /\ pc = "idle" /\ key' = [key EXCEPT ![w] = x]
      /\ sched' = (IF w = NWords THEN key' ELSE sched)
      /\ inorder' = InOrder(w)
      /\ UNCHANGED <<src, dst, len, iv, cfgVars, opVars, mem, irq, made>>
  BY DEF WriteKey, Expands
<1>2. Buffers' /\ Chain' /\ MadeInv'
  BY <1>1, IdleKept
<1>3. w \in 1 .. NWords /\ NWords \in Nat /\ NWords > 0 /\ inorder \in 0 .. NWords
  BY CryptoAssumption DEF Words, Typed
<1>4. key' \in Block
  <2>1. x \in {0, 1} /\ key \in [Words -> {0, 1}]
    BY CryptoAssumption DEF Typed, Block
  <2> QED
    BY <1>1, <2>1 DEF Block
<1>5. sched' \in Block \cup {Unset}
  BY <1>1, <1>4 DEF Typed
<1>6. inorder' \in 0 .. NWords
  BY <1>1, <1>3 DEF InOrder
<1>7. KeyInstalled'
  <2> SUFFICES ASSUME inorder' = NWords PROVE sched' = key'
    BY DEF KeyInstalled
  <2>1. w = NWords
    BY <1>1, <1>3 DEF InOrder
  <2> QED
    BY <1>1, <2>1
<1>8. Typed'
  BY <1>1, <1>4, <1>5, <1>6 DEF Typed, cfgVars, opVars
<1> QED
  BY <1>2, <1>7, <1>8

\* Steps that write memory, take the interrupt or change nothing.
LEMMA OtherHostInv ==
  ASSUME CryptoInv,
         \/ UNCHANGED cryptoVars
         \/ RefuseLen \/ TakeInterrupt
         \/ \E a \in Addrs, b \in Contents : StoreBlock(a, b)
  PROVE  CryptoInv'
<1> USE DEF CryptoInv
<1>1. UNCHANGED <<regVars, cfgVars, opVars, inorder, made>>
  BY DEF cryptoVars, RefuseLen, TakeInterrupt, StoreBlock
<1>2. UNCHANGED <<src, dst, len, key, sched, iv>>
  BY <1>1 DEF regVars
<1>3. Buffers' /\ Chain' /\ MadeInv'
  BY <1>1, <1>2, OpKept
<1>4. KeyInstalled'
  BY <1>1, <1>2 DEF KeyInstalled
<1>5. mem' \in [Addrs -> Block] /\ irq' \in BOOLEAN
  BY CryptoAssumption DEF Typed, cryptoVars, RefuseLen, TakeInterrupt, StoreBlock
<1>6. Typed'
  BY <1>1, <1>2, <1>5 DEF Typed, cfgVars, opVars
<1> QED
  BY <1>3, <1>4, <1>6

\* An operation starts with empty buffers (lines 757-768).
LEMMA StartInv ==
  ASSUME CryptoInv, NEW enc \in BOOLEAN, Start(enc)
  PROVE  CryptoInv'
<1> USE DEF CryptoInv
<1>1. /\ pc = "idle" /\ pc' = "read" /\ encrypt' \in BOOLEAN
      /\ UNCHANGED <<src, dst, len, key, sched, iv, bus_master, msix, in, out, prev, mem, irq,
                     inorder, made>>
  BY DEF Start, regVars, cfgVars
<1>2. Typed' /\ KeyInstalled'
  BY <1>1 DEF Typed, KeyInstalled
<1>3. Buffers' /\ Chain'
  BY <1>1 DEF Buffers, Chain
<1>4. MadeInv'
  BY <1>1 DEF MadeInv, Enciphered, Before
<1> QED
  BY <1>2, <1>3, <1>4

\* The loops start from the IV, whatever the read brought (lines 769-772).
LEMMA ReadInv ==
  ASSUME CryptoInv, ReadInput \/ ReadInputFails
  PROVE  CryptoInv'
<1> USE DEF CryptoInv
<1>1. /\ pc = "read" /\ pc' = "cbc" /\ prev' = iv
      /\ UNCHANGED <<src, dst, len, key, sched, iv, bus_master, msix, encrypt, out, mem, irq,
                     inorder, made>>
  BY DEF ReadInput, ReadInputFails, regVars, cfgVars
<1>2. NBlocks \in Nat /\ NBlocks' = NBlocks
  BY <1>1, NBlocksFit DEF Typed, NBlocks, OpLen
<1>3. in' \in [1 .. NBlocks -> Block]
  <2>1. CASE ReadInput
    <3>1. /\ in' = [i \in 1 .. NBlocks |-> mem[src + i - 1]] /\ src + NBlocks <= MemSize
      BY <2>1 DEF ReadInput, SrcMapped
    <3>2. \A i \in 1 .. NBlocks : mem[src + i - 1] \in Block
      <4> SUFFICES ASSUME NEW i \in 1 .. NBlocks PROVE mem[src + i - 1] \in Block
        OBVIOUS
      <4>1. src + i - 1 \in Addrs
        BY <1>2, <3>1, CryptoAssumption DEF Addrs, Typed
      <4> QED
        BY <4>1 DEF Typed
    <3> QED
      BY <3>1, <3>2
  <2>2. CASE ReadInputFails
    BY <2>2, CryptoAssumption DEF ReadInputFails
  <2> QED
    BY <2>1, <2>2
<1>4. in' \in Seq(Block) /\ Len(in') = NBlocks
  BY <1>2, <1>3, SeqDef, LenProperties
<1>5. out' = <<>> /\ out' \in Seq(Block) /\ Len(out') = 0
  BY <1>1, EmptySeq DEF Buffers
<1>6. Buffers'
  BY <1>1, <1>2, <1>4, <1>5 DEF Buffers
<1>7. Chain'
  <2>1. Enciphered(sched, iv, in, out)' /\ Deciphered(sched, iv, in, out)'
    BY <1>5 DEF Enciphered, Deciphered
  <2>2. prev' = Before(iv, IF encrypt THEN out ELSE in, Len(out) + 1)'
    BY <1>1, <1>5 DEF Before
  <2> QED
    BY <1>1, <2>1, <2>2 DEF Chain
<1>8. Typed' /\ KeyInstalled'
  BY <1>1 DEF Typed, KeyInstalled
<1>9. MadeInv'
  BY <1>1 DEF MadeInv, Enciphered, Before
<1> QED
  BY <1>6, <1>7, <1>8, <1>9

\* A block of either loop: the output grows by what the chain says, and the next
\* block is chained to this one's ciphertext (lines 326-350).
LEMMA BlockInv ==
  ASSUME CryptoInv, EncryptBlock \/ DecryptBlock
  PROVE  CryptoInv'
<1> USE DEF CryptoInv
<1> DEFINE n == Len(out)
           x == IF encrypt THEN Encipher(sched, XorWords(Current, prev))
                           ELSE XorWords(Decipher(sched, Current), prev)
<1>1. /\ pc = "cbc" /\ n < Len(in) /\ out' = Append(out, x)
      /\ prev' = IF encrypt THEN x ELSE Current
      /\ UNCHANGED <<src, dst, len, key, sched, iv, bus_master, msix, pc, encrypt, in, mem, irq,
                     inorder, made>>
  BY DEF EncryptBlock, DecryptBlock, Chained, regVars, cfgVars
<1>2. /\ n \in Nat /\ Len(in) \in Nat /\ in \in Seq(Block) /\ out \in Seq(Block)
      /\ n + 1 \in 1 .. Len(in) /\ Current = in[n + 1]
  <2>1. n \in Nat /\ Len(in) \in Nat /\ in \in Seq(Block) /\ out \in Seq(Block)
    BY LenProperties DEF Buffers
  <2> QED
    BY <1>1, <2>1 DEF Current
<1>3. Current \in Block
  BY <1>2, ElementOfSeq
<1>4. x \in Block
  <2>1. sched \in Block \cup {Unset} /\ prev \in Block
    BY DEF Typed
  <2>2. XorWords(Current, prev) \in Block
    BY <1>3, <2>1, XorBlocks
  <2>3. Encipher(sched, XorWords(Current, prev)) \in Block
    BY <2>1, <2>2, CipherAssumption
  <2>4. Decipher(sched, Current) \in Block
    BY <1>3, <2>1, CipherAssumption
  <2>5. XorWords(Decipher(sched, Current), prev) \in Block
    BY <2>1, <2>4, XorBlocks
  <2> QED
    BY <2>3, <2>5
<1> HIDE DEF x
<1>5. /\ out' \in Seq(Block) /\ Len(out') = n + 1 /\ out'[n + 1] = x
      /\ \A i \in 1 .. n : out'[i] = out[i]
  BY <1>1, <1>2, <1>4, OneMore
<1>6. Buffers'
  <2>1. NBlocks' = NBlocks
    BY <1>1 DEF NBlocks, OpLen
  <2> QED
    BY <1>1, <1>2, <1>5, <2>1 DEF Buffers
<1>7. prev = Before(iv, IF encrypt THEN out ELSE in, n + 1)
  BY <1>1 DEF Chain
<1>8. ASSUME encrypt PROVE Chain'
  <2>1. x = Encipher(sched, XorWords(in[n + 1], Before(iv, out, n + 1)))
    BY <1>2, <1>7, <1>8 DEF x
  <2>2. Enciphered(sched, iv, in, out)
    BY <1>1, <1>8 DEF Chain
  <2>3. Enciphered(sched, iv, in, out')
    BY <1>1, <1>2, <1>4, <2>1, <2>2, ChainGrows
  <2>4. Enciphered(sched, iv, in, out)'
    BY <1>1, <2>3 DEF Enciphered, Before
  <2>5. prev' = Before(iv, out, Len(out) + 1)'
    BY <1>1, <1>2, <1>5, <1>8 DEF Before
  <2> QED
    BY <1>1, <1>8, <2>4, <2>5 DEF Chain
<1>9. ASSUME ~encrypt PROVE Chain'
  <2>1. x = XorWords(Decipher(sched, in[n + 1]), Before(iv, in, n + 1))
    BY <1>2, <1>7, <1>9 DEF x
  <2>2. Deciphered(sched, iv, in, out)
    BY <1>1, <1>9 DEF Chain
  <2>3. Deciphered(sched, iv, in, out')
    BY <1>1, <1>2, <1>4, <2>1, <2>2, ChainGrows
  <2>4. Deciphered(sched, iv, in, out)'
    BY <1>1, <2>3 DEF Deciphered, Before
  <2>5. prev' = Before(iv, in, Len(out) + 1)'
    BY <1>1, <1>2, <1>5, <1>9 DEF Before
  <2> QED
    BY <1>1, <1>9, <2>4, <2>5 DEF Chain
<1>10. Chain'
  BY <1>8, <1>9
<1>11. prev' \in Block
  BY <1>1, <1>3, <1>4
<1>12. Typed' /\ KeyInstalled'
  BY <1>1, <1>11 DEF Typed, KeyInstalled
<1>13. MadeInv'
  BY <1>1 DEF MadeInv, Enciphered, Before
<1> QED
  BY <1>6, <1>10, <1>12, <1>13

\* When the loop is done an encryption is what the host may decrypt later.
LEMMA DoneInv ==
  ASSUME CryptoInv, BlocksDone
  PROVE  CryptoInv'
<1> USE DEF CryptoInv
<1>1. /\ pc = "cbc" /\ pc' = "write" /\ Len(out) = Len(in)
      /\ made' = (IF encrypt THEN [sched |-> sched, iv |-> iv, plain |-> in, cipher |-> out]
                             ELSE made)
      /\ UNCHANGED <<src, dst, len, key, sched, iv, bus_master, msix, encrypt, in, out, prev,
                     mem, irq, inorder>>
  BY DEF BlocksDone, regVars, cfgVars
<1>2. Typed' /\ KeyInstalled'
  BY <1>1 DEF Typed, KeyInstalled
<1>3. Buffers'
  BY <1>1 DEF Buffers, NBlocks, OpLen
<1>4. Chain'
  BY <1>1 DEF Chain, Enciphered, Deciphered, Before
<1>5. MadeInv'
  <2>1. CASE encrypt
    <3>1. Enciphered(sched, iv, in, out)
      BY <1>1, <2>1 DEF Chain
    <3>2. /\ made'.sched = sched /\ made'.iv = iv /\ made'.plain = in /\ made'.cipher = out
      BY <1>1, <2>1
    <3>3. Enciphered(made'.sched, made'.iv, made'.plain, made'.cipher)
      BY <3>1, <3>2
    <3>4. Enciphered(made.sched, made.iv, made.plain, made.cipher)'
      BY <3>3 DEF Enciphered, Before
    <3> QED
      BY <1>1, <3>2, <3>4 DEF MadeInv, Typed, Buffers
  <2>2. CASE ~encrypt
    BY <1>1, <2>2 DEF MadeInv, Enciphered, Before
  <2> QED
    BY <2>1, <2>2
<1> QED
  BY <1>2, <1>3, <1>4, <1>5

\* Writing the output, and the interrupt.
LEMMA OutputInv ==
  ASSUME CryptoInv, WriteOutput \/ Notify
  PROVE  CryptoInv'
<1> USE DEF CryptoInv
<1>1. CASE WriteOutput
  <2>1. /\ pc = "write" /\ pc' = "notify"
        /\ UNCHANGED <<src, dst, len, key, sched, iv, bus_master, msix, encrypt, in, out, prev,
                       irq, inorder, made>>
    BY <1>1 DEF WriteOutput, regVars, cfgVars
  <2>2. PICK k \in 0 .. NBlocks :
          mem' = [a \in Addrs |-> IF a \in dst .. dst + k - 1
                                  THEN out[a - dst + 1] ELSE mem[a]]
    BY <1>1 DEF WriteOutput
  <2>3. NBlocks \in Nat /\ Len(out) = NBlocks /\ out \in Seq(Block) /\ dst \in Nat
    BY <2>1, NBlocksFit, CryptoAssumption DEF Typed, Buffers, Addrs
  <2>4. \A a \in Addrs : a \in dst .. dst + k - 1 => out[a - dst + 1] \in Block
    <3> SUFFICES ASSUME NEW a \in Addrs, a \in dst .. dst + k - 1
                 PROVE  out[a - dst + 1] \in Block
      OBVIOUS
    <3>1. a - dst + 1 \in 1 .. Len(out)
      BY <2>3
    <3> QED
      BY <2>3, <3>1, ElementOfSeq
  <2>5. mem' \in [Addrs -> Block]
    BY <2>2, <2>4 DEF Typed
  <2>6. Typed' /\ KeyInstalled'
    BY <2>1, <2>5 DEF Typed, KeyInstalled
  <2>7. Buffers' /\ Chain'
    BY <2>1 DEF Buffers, Chain, NBlocks, OpLen
  <2>8. MadeInv'
    BY <2>1 DEF MadeInv, Enciphered, Before
  <2> QED
    BY <2>6, <2>7, <2>8
<1>2. CASE Notify
  <2>1. /\ pc' = "idle" /\ encrypt' = FALSE /\ in' = <<>> /\ out' = <<>> /\ prev' = Zeroes
        /\ irq' \in BOOLEAN
        /\ UNCHANGED <<src, dst, len, key, sched, iv, bus_master, msix, mem, inorder, made>>
    BY <1>2 DEF Notify, regVars, cfgVars
  <2>2. <<>> \in Seq(Block) /\ Zeroes \in Block
    BY EmptySeq, ZeroesBlock
  <2>3. Typed' /\ KeyInstalled'
    BY <2>1, <2>2 DEF Typed, KeyInstalled
  <2>4. Buffers' /\ Chain'
    BY <2>1, <2>2 DEF Buffers, Chain
  <2>5. MadeInv'
    BY <2>1 DEF MadeInv, Enciphered, Before
  <2> QED
    BY <2>3, <2>4, <2>5
<1> QED
  BY <1>1, <1>2

\* At power-on no key was written and nothing was enciphered.
LEMMA CryptoStart == CryptoInit => CryptoInv
<1> SUFFICES ASSUME CryptoInit PROVE CryptoInv
  OBVIOUS
<1>1. <<>> \in Seq(Block) /\ Len(<<>>) = 0 /\ Zeroes \in Block
  BY EmptySeq, ZeroesBlock
<1>2. Typed
  <2>1. 0 \in Addrs /\ 0 \in Nat /\ 0 \in 0 .. NWords
    BY CryptoAssumption DEF Addrs
  <2>2. mem \in [Addrs -> Block]
    BY <1>1 DEF CryptoInit
  <2> QED
    BY <1>1, <2>1, <2>2 DEF CryptoInit, Typed
<1>3. Buffers /\ Chain
  BY <1>1 DEF CryptoInit, Buffers, Chain
<1>4. MadeInv
  BY <1>1 DEF CryptoInit, MadeInv, Enciphered
<1>5. KeyInstalled
  BY CryptoAssumption DEF CryptoInit, KeyInstalled
<1> QED
  BY <1>2, <1>3, <1>4, <1>5 DEF CryptoInv

\* The invariant always holds.
LEMMA CryptoInvariance == CryptoSpec => []CryptoInv
<1>1. CryptoInv /\ [CryptoNext]_cryptoVars => CryptoInv'
  <2> SUFFICES ASSUME CryptoInv, [CryptoNext]_cryptoVars PROVE CryptoInv'
    OBVIOUS
  <2>1. CASE OpStep
    BY <2>1, ReadInv, BlockInv, DoneInv, OutputInv DEF OpStep
  <2>2. CASE HostStep
    BY <2>2, RegisterInv, KeyInv, StartInv, OtherHostInv DEF HostStep
  <2>3. CASE UNCHANGED cryptoVars
    BY <2>3, OtherHostInv
  <2> QED
    BY <2>1, <2>2, <2>3 DEF CryptoNext
<1> QED
  BY <1>1, CryptoStart, PTL DEF CryptoSpec

-----------------------------------------------------------------------------
(* What the engine promises.                                                *)

\* Every register and buffer has its type, and no operation has more than the
\* DMA_MAX_LEN bytes its buffers on the stack have room for (lines 757-768).
THEOREM CryptoTypeCorrect == CryptoSpec => []CryptoTypeOK
<1>1. CryptoInv => CryptoTypeOK
  <2> SUFFICES ASSUME CryptoInv PROVE CryptoTypeOK
    OBVIOUS
  <2>1. Len(out) <= Len(in) /\ Len(in) * BlockLen <= DmaMaxLen
    <3>1. CASE pc \in {"idle", "read"}
      <4>1. Len(<<>>) = 0 /\ 0 * BlockLen <= DmaMaxLen
        BY EmptySeq, CryptoAssumption
      <4>2. Len(in) = 0 /\ Len(out) = 0
        BY <3>1, <4>1 DEF CryptoInv, Buffers
      <4> QED
        BY <4>1, <4>2
    <3>2. CASE pc \in {"cbc", "write", "notify"}
      <4>1. Len(in) = NBlocks /\ Len(out) <= Len(in)
        BY <3>2 DEF CryptoInv, Buffers
      <4>2. NBlocks * BlockLen <= DmaMaxLen
        BY NBlocksFit DEF CryptoInv, Typed
      <4> QED
        BY <4>1, <4>2
    <3> QED
      BY <3>1, <3>2 DEF CryptoInv, Typed
  <2> QED
    BY <2>1 DEF CryptoTypeOK, CryptoInv, Typed, Buffers
<1> QED
  BY <1>1, CryptoInvariance, PTL

\* A key whose words were written in order is the key in use, whatever was
\* half-written or in use before (lines 813-821).
THEOREM InstalledInOrder == CryptoSpec => []KeyInstalled
<1>1. CryptoInv => KeyInstalled
  BY DEF CryptoInv
<1> QED
  BY <1>1, CryptoInvariance, PTL

\* The ciphertext c comes from the plaintext p, d is the first part of c, and q is
\* the plaintext that comes from d.
HeadDeciphered(k, v, p, c, d, q) ==
  /\ k \in Block \cup {Unset} /\ v \in Block
  /\ p \in Seq(Block) /\ c \in Seq(Block) /\ d \in Seq(Block) /\ q \in Seq(Block)
  /\ Len(p) = Len(c) /\ Enciphered(k, v, p, c)
  /\ Len(d) <= Len(c) /\ \A i \in 1 .. Len(d) : d[i] = c[i]
  /\ Len(q) = Len(d) /\ Deciphered(k, v, d, q)

\* Block by block along the chain, deciphering what was enciphered gives it back.
LEMMA ChainInverts ==
  ASSUME NEW k, NEW v, NEW p, NEW c, NEW d, NEW q, HeadDeciphered(k, v, p, c, d, q)
  PROVE  \A i \in 1 .. Len(q) : q[i] = p[i]
<1> SUFFICES ASSUME NEW i \in 1 .. Len(q) PROVE q[i] = p[i]
  OBVIOUS
<1>1. /\ Len(q) \in Nat /\ Len(d) \in Nat /\ Len(c) \in Nat
      /\ i \in 1 .. Len(d) /\ i \in 1 .. Len(c) /\ i \in 1 .. Len(p) /\ i \in Nat
      /\ \A j \in 1 .. Len(d) : d[j] = c[j]
  <2>1. Len(q) \in Nat /\ Len(d) \in Nat /\ Len(c) \in Nat
    BY LenProperties DEF HeadDeciphered
  <2> QED
    BY <2>1 DEF HeadDeciphered
<1> DEFINE b == Before(v, c, i)
<1>2. Before(v, d, i) = b /\ b \in Block
  <2>1. CASE i = 1
    BY <2>1 DEF Before, HeadDeciphered
  <2>2. CASE i # 1
    <3>1. i - 1 \in 1 .. Len(d) /\ i - 1 \in 1 .. Len(c)
      BY <1>1, <2>2
    <3>2. c[i - 1] \in Block
      BY <3>1, ElementOfSeq DEF HeadDeciphered
    <3> QED
      BY <1>1, <2>2, <3>1, <3>2 DEF Before
  <2> QED
    BY <2>1, <2>2
<1> HIDE DEF b
<1>3. p[i] \in Block
  BY <1>1, ElementOfSeq DEF HeadDeciphered
<1>4. c[i] = Encipher(k, XorWords(p[i], b))
  BY <1>1 DEF HeadDeciphered, Enciphered, b
<1>5. q[i] = XorWords(Decipher(k, c[i]), b)
  BY <1>1, <1>2 DEF HeadDeciphered, Deciphered
<1>6. XorWords(p[i], b) \in Block /\ XorWords(XorWords(p[i], b), b) = p[i]
  BY <1>2, <1>3, XorBlocks
<1>7. Decipher(k, Encipher(k, XorWords(p[i], b))) = XorWords(p[i], b)
  BY <1>6, CipherAssumption DEF HeadDeciphered
<1> QED
  BY <1>4, <1>5, <1>6, <1>7

\* Decrypting what an encryption made, or a first part of it, under the same key
\* and IV gives back what was encrypted, for every block cipher that inverts: the
\* key, the IV and the chain are those of the encryption, whatever the host wrote
\* in between (lines 326-350 and 794-796).
THEOREM DecryptsWhatItMade == CryptoSpec => []RoundTrip
<1>1. CryptoInv => RoundTrip
  <2>1. SUFFICES ASSUME CryptoInv, pc = "write", ~encrypt, sched = made.sched, iv = made.iv,
                       Len(in) <= Len(made.cipher), in = SubSeq(made.cipher, 1, Len(in))
                PROVE  out = SubSeq(made.plain, 1, Len(in))
    BY DEF RoundTrip
  <2> DEFINE n == Len(in)
             c == made.cipher
             p == made.plain
  <2>2. /\ in \in Seq(Block) /\ out \in Seq(Block) /\ Len(out) = n
        /\ c \in Seq(Block) /\ p \in Seq(Block) /\ Len(p) = Len(c)
        /\ Enciphered(sched, iv, p, c) /\ Deciphered(sched, iv, in, out)
        /\ sched \in Block \cup {Unset} /\ iv \in Block
    BY <2>1 DEF CryptoInv, Typed, Buffers, MadeInv, Chain
  <2>3. n \in Nat /\ Len(c) \in Nat
    BY <2>2, LenProperties
  <2>4. n <= Len(c) /\ in = SubSeq(c, 1, n)
    BY <2>1
  <2> HIDE DEF c, p
  <2>5. \A i \in 1 .. n : in[i] = c[i]
    <3>1. \A i \in 1 .. n : SubSeq(c, 1, n)[i] = c[i]
      BY <2>2, <2>3, <2>4, SMT
    <3> QED
      BY <2>4, <3>1
  <2>6. \A i \in 1 .. n : out[i] = p[i]
    <3>1. HeadDeciphered(sched, iv, p, c, in, out)
      BY <2>2, <2>4, <2>5 DEF HeadDeciphered
    <3>2. \A i \in 1 .. Len(out) : out[i] = p[i]
      BY <3>1, ChainInverts
    <3> QED
      BY <2>2, <3>2
  <2>7. /\ SubSeq(p, 1, n) \in Seq(Block) /\ Len(SubSeq(p, 1, n)) = n
        /\ \A i \in 1 .. n : SubSeq(p, 1, n)[i] = p[i]
    BY <2>2, <2>3, <2>4, SMT
  <2>8. out = SubSeq(p, 1, n)
    <3> DEFINE t == SubSeq(p, 1, n)
    <3>1. t \in Seq(Block) /\ Len(t) = Len(out) /\ \A i \in 1 .. Len(out) : out[i] = t[i]
      BY <2>2, <2>6, <2>7
    <3> HIDE DEF t
    <3>2. out = t
      BY <2>2, <3>1, SeqEqual
    <3> QED
      BY <3>2 DEF t
  <2> QED
    BY <2>8 DEF p
<1> QED
  BY <1>1, CryptoInvariance, PTL

-----------------------------------------------------------------------------
(* How long an operation takes.                                             *)

\* The steps the running operation still takes: the read, its blocks, the end of
\* the loop, the write and the interrupt.
OpLeft ==
  CASE pc = "read"   -> NBlocks + 4
    [] pc = "cbc"    -> Len(in) - Len(out) + 3
    [] pc = "write"  -> 2
    [] pc = "notify" -> 1
    [] OTHER         -> 0

\* Each step of an operation takes one from what is left of it, what the other
\* vCPUs do meanwhile changes nothing of that, and the clamp on the length bounds
\* it from the start.
OpCountsDown ==
  /\ OpStep => OpLeft' = OpLeft - 1
  /\ HostStep /\ pc # "idle" => OpLeft' = OpLeft
  /\ OpLeft' <= DmaMaxLen + 4

\* What is left of an operation is a number, and no more than a start makes it.
LEMMA OpLeftBound ==
  ASSUME CryptoInv
  PROVE  OpLeft \in Nat /\ OpLeft <= DmaMaxLen + 4
<1>1. /\ NBlocks \in Nat /\ NBlocks * BlockLen <= DmaMaxLen
      /\ BlockLen \in Nat /\ BlockLen > 0 /\ DmaMaxLen \in Nat
  BY NBlocksFit, CryptoAssumption DEF CryptoInv, Typed
<1> DEFINE n == NBlocks
<1>2. n \in Nat /\ n * BlockLen <= DmaMaxLen
  BY <1>1
<1> HIDE DEF n
<1>3. n <= n * BlockLen /\ n * BlockLen \in Int
  BY <1>1, <1>2, SMT
<1>4. n <= DmaMaxLen
  BY <1>1, <1>2, <1>3
<1>5. /\ Len(in) \in Nat /\ Len(out) \in Nat
      /\ pc = "cbc" => Len(in) = n /\ Len(out) <= Len(in)
  BY LenProperties DEF CryptoInv, Buffers, n
<1>6. NBlocks = n
  BY DEF n
<1> QED
  BY <1>1, <1>2, <1>4, <1>5, <1>6 DEF OpLeft

\* An operation of n blocks takes n + 4 steps, whatever its accesses meet and
\* whatever other vCPUs store meanwhile, and never more than the clamped length has
\* room for (lines 757-796).
THEOREM OperationIsShort == CryptoSpec => [][OpCountsDown]_cryptoVars
<1>1. CryptoInv /\ CryptoInv' /\ [CryptoNext]_cryptoVars => [OpCountsDown]_cryptoVars
  <2> SUFFICES ASSUME CryptoInv, CryptoInv', CryptoNext PROVE OpCountsDown
    OBVIOUS
  <2>1. OpLeft' <= DmaMaxLen + 4
    <3>1. (OpLeft \in Nat /\ OpLeft <= DmaMaxLen + 4)'
      BY OpLeftBound, PTL
    <3> QED
      BY <3>1
  <2>2. ASSUME OpStep PROVE OpLeft' = OpLeft - 1
    <3>1. /\ Len(in) \in Nat /\ Len(out) \in Nat /\ NBlocks \in Nat
          /\ in \in Seq(Block) /\ out \in Seq(Block)
          /\ pc = "read" => out = <<>>
      BY LenProperties, NBlocksFit DEF CryptoInv, Typed, Buffers
    <3>2. CASE ReadInput \/ ReadInputFails
      <4>1. pc = "read" /\ pc' = "cbc" /\ out' = out /\ len' = len
        BY <3>2 DEF ReadInput, ReadInputFails, regVars
      <4>2. Len(in') = NBlocks /\ Len(out') = 0
        BY <3>1, <4>1, EmptySeq DEF CryptoInv, Buffers, NBlocks, OpLen
      <4> QED
        BY <3>1, <4>1, <4>2 DEF OpLeft
    <3>3. CASE EncryptBlock \/ DecryptBlock
      <4>1. /\ pc = "cbc" /\ pc' = "cbc" /\ in' = in
            /\ \E x : out' = Append(out, x)
        BY <3>3 DEF EncryptBlock, DecryptBlock
      <4>2. Len(out') = Len(out) + 1
        BY <3>1, <4>1, SMT
      <4> QED
        BY <3>1, <4>1, <4>2 DEF OpLeft
    <3>4. CASE BlocksDone
      BY <3>1, <3>4 DEF BlocksDone, OpLeft
    <3>5. CASE WriteOutput \/ Notify
      BY <3>5 DEF WriteOutput, Notify, OpLeft
    <3> QED
      BY <2>2, <3>2, <3>3, <3>4, <3>5 DEF OpStep
  <2>3. ASSUME HostStep, pc # "idle" PROVE OpLeft' = OpLeft
    <3>1. UNCHANGED <<regVars, opVars>>
      BY <2>3
      DEF HostStep, WriteSrc, WriteDst, WriteLen, WriteKey, WriteIv, RefuseLen, Start, WriteConfig,
          StoreBlock, TakeInterrupt
    <3> QED
      BY <3>1 DEF regVars, opVars, OpLeft, NBlocks, OpLen
  <2> QED
    BY <2>1, <2>2, <2>3 DEF OpCountsDown
<1> QED
  BY <1>1, CryptoInvariance, PTL DEF CryptoSpec
==============================================================================
