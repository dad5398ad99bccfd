---------------------------- MODULE EduUsbProofs -----------------------------
(***************************************************************************)
(* Proofs about the two USB devices: for every size of the buffers, every   *)
(* range of the message counter, every length of its digits and every set   *)
(* of messages, reads and words.                                            *)
(***************************************************************************)
EXTENDS EduUsb, Remainders, SequenceTheorems

-----------------------------------------------------------------------------
(* The inductive invariant.                                                 *)

\* The port numbers the messages of this reset; it has an echo to give exactly when
\* one of them came after the last read ended, and then it is that of the latest.
EchoInv ==
  /\ sent \in Nat /\ reads \in Nat /\ reads <= sent
  /\ counter = sent % CounterMod
  /\ rx_len \in Nat /\ seen \in 0 .. sent
  /\ rx_len > 0 <=> seen < sent
  /\ rx_len > 0 => /\ reads < sent
                   /\ rx_buf.n = counter /\ rx_buf.msg = last /\ last \in Texts
                   /\ rx_len = TextLen(counter, last)

QueuesInv ==
  /\ alive \in BOOLEAN
  /\ out_q \in Seq(Texts) /\ Len(out_q) <= MaxQueued
  /\ in_q \in Seq(ReadSizes) /\ Len(in_q) <= MaxQueued
  /\ in_running \in BOOLEAN

\* The counter holds the word that was set.
CounterInv ==
  /\ set_to \in [0 .. 3 -> 0 .. Base - 1]
  /\ value = Word(set_to)

UsbInv == EchoInv /\ QueuesInv /\ CounterInv

-----------------------------------------------------------------------------
(* Bytes and words.                                                          *)

\* A byte in the next place, above what the lower places hold, stays below the
\* place after it.
LEMMA PlaceBound ==
  ASSUME NEW p \in Nat, p > 0, NEW low \in 0 .. p - 1,
         NEW base \in Nat, base > 0, NEW d \in 0 .. base - 1
  PROVE  low + d * p \in 0 .. base * p - 1
<1>1. d * p \in Nat /\ d * p <= (base - 1) * p
  BY SMT
<1>2. (base - 1) * p = base * p - p
  BY SMT
<1> DEFINE x == d * p
           y == base * p
           z == (base - 1) * p
<1>3. x \in Nat /\ x <= z /\ z = y - p /\ y \in Int /\ z \in Int
  <2>1. y \in Int /\ z \in Int
    BY SMT
  <2> QED
    BY <1>1, <1>2, <2>1
<1> HIDE DEF x, y, z
<1>4. low + x \in 0 .. y - 1
  BY <1>3, SMT
<1> QED
  BY <1>4 DEF x, y

\* The places are the powers of the base.
LEMMA Places ==
  /\ Base \in Nat /\ Base > 1
  /\ Place(0) = 1 /\ Place(1) = Base /\ Place(2) = Base * Base
  /\ Place(3) = Base * Base * Base
  /\ Place(1) \in Nat /\ Place(2) \in Nat /\ Place(3) \in Nat
  /\ Place(1) > 0 /\ Place(2) > 0 /\ Place(3) > 0
<1>1. Base \in Nat /\ Base > 1
  BY UsbAssumption
<1>2. /\ Place(0) = 1 /\ Place(1) = Base /\ Place(2) = Base * Base
      /\ Place(3) = Base * Base * Base
  BY DEF Place
<1>3. Base * Base \in Nat /\ Base * Base > 0
  BY <1>1, SMT
<1> DEFINE sq == Base * Base
<1>4. sq \in Nat /\ sq > 0
  BY <1>3
<1> HIDE DEF sq
<1>5. sq * Base \in Nat /\ sq * Base > 0
  BY <1>1, <1>4, SMT
<1>6. Base * Base * Base = sq * Base
  BY DEF sq
<1> QED
  BY <1>1, <1>2, <1>3, <1>5, <1>6

\* Four bytes make a word of four places, and are found in it again: what is set
\* is what is read (dev-edu.c lines 107-118).
LEMMA WordOfBytes ==
  ASSUME NEW b \in [0 .. 3 -> 0 .. Base - 1]
  PROVE  Word(b) \in 0 .. Base * Place(3) - 1 /\ Bytes(Word(b)) = b
<1> DEFINE b0 == b[0]
           b1 == b[1]
           b2 == b[2]
           b3 == b[3]
           p1 == Place(1)
           p2 == Place(2)
           p3 == Place(3)
           low1 == b0
           low2 == low1 + b1 * p1
           low3 == low2 + b2 * p2
           w == low3 + b3 * p3
<1>1. /\ b0 \in 0 .. Base - 1 /\ b1 \in 0 .. Base - 1
      /\ b2 \in 0 .. Base - 1 /\ b3 \in 0 .. Base - 1
  OBVIOUS
<1>2. /\ Base \in Nat /\ Base > 0
      /\ p1 \in Nat /\ p1 > 0 /\ p2 \in Nat /\ p2 > 0 /\ p3 \in Nat /\ p3 > 0
      /\ Place(0) = 1 /\ p1 = Base /\ p2 = Base * p1 /\ p3 = Base * p2
  BY Places
<1>places. /\ Base \in Nat /\ Base > 0
      /\ p1 \in Nat /\ p1 > 0 /\ p2 \in Nat /\ p2 > 0 /\ p3 \in Nat /\ p3 > 0
  BY <1>2
<1>3. Word(b) = w
  BY DEF Word
<1> HIDE DEF b0, b1, b2, b3, p1, p2, p3
<1>4. low1 \in 0 .. p1 - 1
  BY <1>1, <1>2
<1>5. low2 \in 0 .. p2 - 1
  BY <1>1, <1>2, <1>4, PlaceBound
<1> HIDE DEF low2
<1>6. low3 \in 0 .. p3 - 1
  BY <1>1, <1>2, <1>5, PlaceBound
<1> HIDE DEF low3
<1>7. w \in 0 .. Base * p3 - 1
  BY <1>1, <1>2, <1>6, PlaceBound
<1>8. (w \div p3) % Base = b3
  <2> DEFINE q == Base * 0 + b3
  <2>1. w = p3 * q + low3
    BY <1>1, <1>2, <1>6, SMT
  <2>2. q % Base = b3
    BY <1>1, <1>places, ModOfSum
  <2>3. q \in Nat
    BY <1>1, <1>places, SMT
  <2> HIDE DEF q, w
  <2>4. w \div p3 = q
    BY <1>places, <1>6, <2>1, <2>3, DivOfSum
  <2> QED
    BY <2>2, <2>4
<1>9. (w \div p2) % Base = b2
  <2> DEFINE q == Base * b3 + b2
  <2>1. w = p2 * q + low2
    <3>1. b3 * p3 = p2 * (Base * b3)
      BY <1>1, <1>2, SMT
    <3>2. p2 * q = p2 * (Base * b3) + b2 * p2
      BY <1>1, <1>2, SMT
    <3> QED
      BY <1>1, <1>2, <1>5, <3>1, <3>2, SMT DEF low3
  <2>2. q % Base = b2
    <3>1. b3 \in Int
      BY <1>1, <1>places
    <3> QED
      BY <1>1, <1>places, <3>1, ModOfSum
  <2>3. q \in Nat
    BY <1>1, <1>places, SMT
  <2> HIDE DEF q, w
  <2>4. w \div p2 = q
    BY <1>places, <1>5, <2>1, <2>3, DivOfSum
  <2> QED
    BY <2>2, <2>4
<1>10. (w \div p1) % Base = b1
  <2> DEFINE h == b2 + Base * b3
             q == Base * h + b1
  <2>1. h \in Nat
    BY <1>1, <1>2, SMT
  <2>2. b3 * p3 + b2 * p2 = p1 * (Base * h)
    <3>1. b3 * p3 = p1 * (Base * (Base * b3))
      BY <1>1, <1>2, SMT
    <3>2. b2 * p2 = p1 * (Base * b2)
      BY <1>1, <1>2, SMT
    <3>3. p1 * (Base * h) = p1 * (Base * b2) + p1 * (Base * (Base * b3))
      BY <1>1, <1>2, SMT
    <3> QED
      BY <3>1, <3>2, <3>3, <1>1, <1>2, SMT
  <2>3. w = p1 * q + low1
    <3>1. w = low1 + b1 * p1 + (b3 * p3 + b2 * p2)
      BY <1>1, <1>2, SMT DEF low2, low3
    <3> HIDE DEF h, w
    <3>2. p1 * q = p1 * (Base * h) + b1 * p1
      BY <1>1, <1>2, <2>1, SMT
    <3> QED
      BY <1>1, <1>2, <2>1, <2>2, <3>1, <3>2, SMT
  <2> HIDE DEF h
  <2>4. q % Base = b1
    BY <1>1, <1>places, <2>1, ModOfSum
  <2>5. q \in Nat
    BY <1>1, <1>places, <2>1, SMT
  <2> HIDE DEF q, w
  <2>6. w \div p1 = q
    BY <1>places, <1>4, <2>3, <2>5, DivOfSum
  <2> QED
    BY <2>4, <2>6
<1>11. (w \div 1) % Base = b0
  <2> DEFINE h == b1 + Base * (b2 + Base * b3)
             q == Base * h + b0
  <2>1. h \in Nat
    BY <1>1, <1>2, SMT
  <2>2. w = q
    <3>1. b3 * p3 = Base * (Base * (Base * b3))
      BY <1>1, <1>2, SMT
    <3>2. b2 * p2 = Base * (Base * b2)
      BY <1>1, <1>2, SMT
    <3>3. b1 * p1 = Base * b1
      BY <1>1, <1>2, SMT
    <3>4. Base * h = Base * b1 + Base * (Base * b2) + Base * (Base * (Base * b3))
      BY <1>1, <1>2, SMT
    <3> QED
      BY <1>1, <1>2, <3>1, <3>2, <3>3, <3>4, SMT DEF low2, low3
  <2> HIDE DEF h, w
  <2>3. q \in Nat /\ q % Base = b0
    BY <1>1, <1>2, <2>1, ModOfSum
  <2> HIDE DEF q
  <2>4. q \div 1 = q
    BY <2>3, SMT
  <2> QED
    BY <2>2, <2>3, <2>4
<1> HIDE DEF w
<1>12. \A i \in 0 .. 3 : (w \div Place(i)) % Base = b[i]
  <2>1. /\ (w \div Place(1)) % Base = b[1] /\ (w \div Place(2)) % Base = b[2]
        /\ (w \div Place(3)) % Base = b[3] /\ (w \div Place(0)) % Base = b[0]
    BY <1>2, <1>8, <1>9, <1>10, <1>11 DEF b0, b1, b2, b3, p1, p2, p3
  <2>2. \A i \in 0 .. 3 : i = 0 \/ i = 1 \/ i = 2 \/ i = 3
    OBVIOUS
  <2> QED
    BY <2>1, <2>2, Zenon
<1>13. Bytes(w) = b
  BY <1>12 DEF Bytes
<1> QED
  BY <1>3, <1>7, <1>13 DEF p3

\* A reset clears the word.
LEMMA ZeroWord == Zero \in [0 .. 3 -> 0 .. Base - 1] /\ Word(Zero) = 0
<1>1. Base \in Nat /\ Base > 1
  BY UsbAssumption
<1>2. /\ Zero \in [0 .. 3 -> 0 .. Base - 1]
      /\ Zero[0] = 0 /\ Zero[1] = 0 /\ Zero[2] = 0 /\ Zero[3] = 0
  BY <1>1 DEF Zero
<1> QED
  BY <1>2, Places DEF Word

-----------------------------------------------------------------------------
(* The steps.                                                               *)

\* A message has a number of the counter's range and a visible part, so its echo
\* is not empty.
LEMMA EchoTyped ==
  ASSUME NEW n \in 0 .. CounterMod - 1, NEW m \in Texts
  PROVE  TextLen(n, m) \in Nat /\ TextLen(n, m) > 0
<1>1. PrefixLen[n] \in Nat \ {0} /\ m.visible \in Nat
  BY UsbAssumption
<1> QED
  BY <1>1 DEF TextLen

\* The counter stays in its range, and counts the messages modulo its size.
LEMMA Numbered ==
  ASSUME EchoInv
  PROVE  /\ counter \in 0 .. CounterMod - 1
         /\ (counter + 1) % CounterMod = (sent + 1) % CounterMod
         /\ (counter + 1) % CounterMod \in 0 .. CounterMod - 1
<1>1. CounterMod \in Nat /\ CounterMod > 0 /\ CounterMod \in Nat \ {0}
  BY UsbAssumption
<1>2. sent \in Nat /\ counter = sent % CounterMod
  BY DEF EchoInv
<1>3. counter \in 0 .. CounterMod - 1
  BY <1>1, <1>2, ModBound
<1>4. (counter + 1) % CounterMod = (sent + 1) % CounterMod
  BY <1>1, <1>2, ModNext
<1>5. (counter + 1) % CounterMod \in 0 .. CounterMod - 1
  <2>1. counter + 1 \in Nat
    BY <1>1, <1>3
  <2> QED
    BY <1>1, <2>1, ModBound
<1> QED
  BY <1>3, <1>4, <1>5

\* Taking the first of a queue leaves a queue.
LEMMA Taken ==
  ASSUME NEW S, NEW q \in Seq(S), q # <<>>
  PROVE  /\ Head(q) \in S /\ Tail(q) \in Seq(S)
         /\ Len(q) \in Nat /\ Len(Tail(q)) = Len(q) - 1
<1>1. Head(q) \in S /\ Tail(q) \in Seq(S) /\ Len(Tail(q)) = Len(q) - 1
  BY HeadTailProperties
<1> QED
  BY <1>1, LenProperties

\* Queueing one more.
LEMMA Queued ==
  ASSUME NEW S, NEW q \in Seq(S), NEW x \in S
  PROVE  Append(q, x) \in Seq(S) /\ Len(Append(q, x)) = Len(q) + 1 /\ Len(q) \in Nat
BY AppendProperties, LenProperties

\* Every step keeps the invariant.
LEMMA UsbStep ==
  ASSUME UsbInv, [UsbNext]_usbVars
  PROVE  UsbInv'
<1> USE DEF UsbInv
<1>1. CASE TakeMessage
  <2> DEFINE n == (counter + 1) % CounterMod
             m == Head(out_q)
  <2>1. /\ out_q # <<>> /\ counter' = n /\ rx_buf' = [n |-> n, msg |-> m]
        /\ rx_len' = TextLen(n, m) /\ last' = m
        /\ out_q' = Tail(out_q) /\ sent' = sent + 1
        /\ UNCHANGED <<in_q, in_running, seen, reads, counterVars>>
        /\ alive' \in BOOLEAN
    BY <1>1 DEF TakeMessage, EchoLen
  <2>2. m \in Texts /\ out_q' \in Seq(Texts) /\ Len(out_q') <= MaxQueued
    <3>1. /\ Head(out_q) \in Texts /\ Tail(out_q) \in Seq(Texts)
          /\ Len(out_q) \in Nat /\ Len(Tail(out_q)) = Len(out_q) - 1
      BY <2>1, Taken DEF QueuesInv
    <3> QED
      BY <2>1, <3>1, UsbAssumption DEF QueuesInv
  <2>3. n = (sent + 1) % CounterMod /\ n \in 0 .. CounterMod - 1
    BY Numbered
  <2> HIDE DEF n, m
  <2>4. TextLen(n, m) \in Nat /\ TextLen(n, m) > 0
    BY <2>2, <2>3, EchoTyped
  <2>5. rx_buf'.n = n /\ rx_buf'.msg = m
    BY <2>1
  <2>6. EchoInv'
    <3>1. /\ sent + 1 \in Nat /\ reads \in Nat /\ reads < sent + 1
          /\ seen \in 0 .. sent + 1 /\ seen < sent + 1
      BY DEF EchoInv
    <3> QED
      BY <2>1, <2>2, <2>3, <2>4, <2>5, <3>1 DEF EchoInv, TextLen
  <2> QED
    BY <2>1, <2>2, <2>6 DEF QueuesInv, CounterInv, counterVars, Word, Place
<1>2. CASE GiveEcho
  <2>1. /\ in_q # <<>> /\ rx_len > 0 /\ rx_len' = 0
        /\ in_q' = Tail(in_q) /\ reads' = reads + 1 /\ seen' = sent
        /\ UNCHANGED <<alive, counter, rx_buf, out_q, in_running, sent, last, counterVars>>
    BY <1>2 DEF GiveEcho, Remaining
  <2>2. in_q' \in Seq(ReadSizes) /\ Len(in_q') <= MaxQueued
    <3>1. /\ Tail(in_q) \in Seq(ReadSizes)
          /\ Len(in_q) \in Nat /\ Len(Tail(in_q)) = Len(in_q) - 1
      BY <2>1, Taken DEF QueuesInv
    <3> QED
      BY <2>1, <3>1, UsbAssumption DEF QueuesInv
  <2> QED
    BY <2>1, <2>2 DEF EchoInv, QueuesInv, CounterInv, counterVars, Word, Place
<1>3. CASE ResetSerial
  <2>1. <<>> \in Seq(Texts) /\ <<>> \in Seq(ReadSizes) /\ Len(<<>>) = 0
    BY EmptySeq
  <2>2. 0 = 0 % CounterMod
    BY UsbAssumption, ModSmall
  <2>3. EchoInv'
    BY <1>3, <2>2 DEF ResetSerial, EchoInv
  <2>4. QueuesInv'
    <3>1. /\ out_q' \in Seq(Texts) /\ Len(out_q') <= MaxQueued
          /\ in_q' \in Seq(ReadSizes) /\ Len(in_q') <= MaxQueued
      BY <1>3, <2>1, UsbAssumption DEF ResetSerial
    <3>2. alive' \in BOOLEAN /\ in_running' \in BOOLEAN
      BY <1>3 DEF ResetSerial, QueuesInv
    <3> QED
      BY <3>1, <3>2 DEF QueuesInv
  <2>5. CounterInv'
    BY <1>3 DEF ResetSerial, CounterInv, counterVars, Word, Place
  <2> QED
    BY <2>3, <2>4, <2>5
<1>4. ASSUME NEW m \in Texts, QueueMessage(m) PROVE UsbInv'
  <2>1. out_q' \in Seq(Texts) /\ Len(out_q') <= MaxQueued
    <3>1. Len(out_q) < MaxQueued /\ out_q' = Append(out_q, m)
      BY <1>4 DEF QueueMessage
    <3>2. /\ Append(out_q, m) \in Seq(Texts) /\ Len(Append(out_q, m)) = Len(out_q) + 1
          /\ Len(out_q) \in Nat
      BY Queued DEF QueuesInv
    <3> QED
      BY <3>1, <3>2, UsbAssumption
  <2>2. UNCHANGED <<alive, counter, rx_len, rx_buf, in_q, in_running, sent, last, seen, reads,
                   counterVars>>
    BY <1>4 DEF QueueMessage
  <2> QED
    BY <2>1, <2>2 DEF EchoInv, QueuesInv, CounterInv, counterVars, TextLen, Word, Place
<1>5. ASSUME NEW k \in ReadSizes, QueueRead(k) PROVE UsbInv'
  <2>1. in_q' \in Seq(ReadSizes) /\ Len(in_q') <= MaxQueued
    <3>1. Len(in_q) < MaxQueued /\ in_q' = Append(in_q, k)
      BY <1>5 DEF QueueRead
    <3>2. /\ Append(in_q, k) \in Seq(ReadSizes) /\ Len(Append(in_q, k)) = Len(in_q) + 1
          /\ Len(in_q) \in Nat
      BY Queued DEF QueuesInv
    <3> QED
      BY <3>1, <3>2, UsbAssumption
  <2>2. /\ UNCHANGED <<alive, counter, rx_len, rx_buf, out_q, sent, last, seen, reads, counterVars>>
        /\ in_running' \in BOOLEAN
    BY <1>5 DEF QueueRead
  <2> QED
    BY <2>1, <2>2 DEF EchoInv, QueuesInv, CounterInv, counterVars, TextLen, Word, Place
<1>6. CASE RefuseRead
  <2>1. /\ UNCHANGED <<alive, counter, rx_len, rx_buf, out_q, in_q, sent, last, seen, reads,
                       counterVars>>
        /\ in_running' \in BOOLEAN
    BY <1>6 DEF RefuseRead
  <2> QED
    BY <2>1 DEF EchoInv, QueuesInv, CounterInv, counterVars, TextLen, Word, Place
<1>7. CASE UNCHANGED usbVars \/ ResetCounter
           \/ \E short \in BOOLEAN : ReadCounter(short) \/ \E b \in Words : SetCounter(b, short)
  <2>1. UNCHANGED serialVars /\ alive' \in BOOLEAN
    BY <1>7 DEF usbVars, ResetCounter, ReadCounter, SetCounter, QueuesInv
  <2>2. EchoInv' /\ QueuesInv'
    BY <2>1 DEF serialVars, EchoInv, QueuesInv, TextLen
  <2>3. \/ value' = value /\ set_to' = set_to
        \/ value' = 0 /\ set_to' = Zero
        \/ \E b \in Words : value' = Word(b) /\ set_to' = b
    BY <1>7 DEF usbVars, counterVars, ResetCounter, ReadCounter, SetCounter
  <2>4. Zero \in [0 .. 3 -> 0 .. Base - 1] /\ Word(Zero) = 0
    BY ZeroWord
  <2>5. Words \subseteq [0 .. 3 -> 0 .. Base - 1]
    BY UsbAssumption
  <2>6. set_to' \in [0 .. 3 -> 0 .. Base - 1] /\ value' = Word(set_to')
    BY <2>3, <2>4, <2>5 DEF CounterInv
  <2>7. CounterInv'
    BY <2>6 DEF CounterInv, Word, Place
  <2> QED
    BY <2>2, <2>7
<1> QED
  BY <1>1, <1>2, <1>3, <1>4, <1>5, <1>6, <1>7 DEF UsbNext, ServeRead

\* At first nothing was sent and the counter is clear.
LEMMA UsbStart == UsbInit => UsbInv
<1> SUFFICES ASSUME UsbInit PROVE UsbInv
  OBVIOUS
<1>1. <<>> \in Seq(Texts) /\ <<>> \in Seq(ReadSizes) /\ Len(<<>>) = 0
  BY EmptySeq
<1>2. 0 = 0 % CounterMod
  BY UsbAssumption, ModSmall
<1>3. EchoInv /\ QueuesInv
  BY <1>1, <1>2, UsbAssumption DEF UsbInit, EchoInv, QueuesInv
<1>4. CounterInv
  BY ZeroWord DEF UsbInit, CounterInv
<1> QED
  BY <1>3, <1>4 DEF UsbInv

\* The invariant always holds.
LEMMA UsbInvariance == UsbSpec => []UsbInv
<1>1. UsbInv /\ [UsbNext]_usbVars => UsbInv'
  BY UsbStep
<1> QED
  BY <1>1, UsbStart, PTL DEF UsbSpec

-----------------------------------------------------------------------------
(* What the devices promise.                                                *)

\* Every register and queue of the two devices has its type; the counter stays
\* in 32 bits (dev-edu.c line 118), the message counter in its own range.
THEOREM UsbTypeCorrect == UsbSpec => []UsbTypeOK
<1>1. UsbInv => UsbTypeOK
  <2> SUFFICES ASSUME UsbInv PROVE UsbTypeOK
    OBVIOUS
  <2>1. counter \in 0 .. CounterMod - 1
    BY Numbered DEF UsbInv
  <2>2. value \in 0 .. Base * Place(3) - 1
    BY WordOfBytes DEF UsbInv, CounterInv
  <2> QED
    BY <2>1, <2>2 DEF UsbTypeOK, UsbInv, EchoInv, QueuesInv
<1> QED
  BY <1>1, UsbInvariance, PTL

\* Only giving an echo ends a read.
LEMMA ReadEndsByEcho ==
  ASSUME UsbInv, [UsbNext]_usbVars, ReadEnds
  PROVE  GiveEcho
<1>1. reads \in Nat /\ reads' = reads + 1 /\ reads' # reads /\ reads' # 0
  BY DEF UsbInv, EchoInv, ReadEnds
<1> QED
  BY <1>1 DEF UsbNext, ServeRead, TakeMessage, RefuseRead, ResetSerial, QueueMessage, QueueRead, ReadCounter,
    SetCounter, ResetCounter, usbVars, serialVars

\* However messages, reads and resets are interleaved, a read gives the echo of
\* the latest message since the reset, under its number, and no more echoes are
\* given than messages were taken (lines 101-106 and 148-169).
THEOREM LatestIsEchoed == UsbSpec => EchoOfLatest
<1>1. UsbInv /\ [UsbNext]_usbVars
      => [ReadEnds => /\ got'.n = sent % CounterMod /\ got'.msg = last
                      /\ reads' <= sent]_usbVars
  <2> SUFFICES ASSUME UsbInv, [UsbNext]_usbVars, ReadEnds
               PROVE  got'.n = sent % CounterMod /\ got'.msg = last /\ reads' <= sent
    BY DEF EchoOfLatest
  <2>1. GiveEcho
    BY ReadEndsByEcho
  <2>2. rx_len > 0 /\ got'.n = rx_buf.n /\ got'.msg = rx_buf.msg /\ reads' = reads + 1
    BY <2>1 DEF GiveEcho
  <2> QED
    BY <2>2 DEF UsbInv, EchoInv
<1> QED
  BY <1>1, UsbInvariance, PTL DEF UsbSpec, EchoOfLatest

\* An echo that fits in rx_buf with its NUL is given whole, up to the length that
\* was asked for, with nothing after it (lines 150 and 167).
THEOREM EchoIsWhole == UsbSpec => EchoWhole
<1>1. UsbInv /\ [UsbNext]_usbVars
      => [ReadEnds /\ TextLen(got'.n, got'.msg) < BufSize
            => /\ got'.text = Least(TextLen(got'.n, got'.msg), got'.asked)
               /\ got'.other = 0]_usbVars
  <2> SUFFICES ASSUME UsbInv, [UsbNext]_usbVars, ReadEnds,
                      TextLen(got'.n, got'.msg) < BufSize
               PROVE  /\ got'.text = Least(TextLen(got'.n, got'.msg), got'.asked)
                      /\ got'.other = 0
    OBVIOUS
  <2> DEFINE whole == TextLen(rx_buf.n, rx_buf.msg)
             asked == Head(in_q)
  <2>1. GiveEcho
    BY ReadEndsByEcho
  <2>2. /\ in_q # <<>> /\ rx_len > 0
        /\ got'.n = rx_buf.n /\ got'.msg = rx_buf.msg /\ got'.asked = asked
        /\ got'.text = Least(Least(rx_len, asked), Kept(whole))
        /\ got'.other = Least(rx_len, asked) - got'.text
    BY <2>1 DEF GiveEcho
  <2>3. rx_len = whole /\ whole \in Nat
    BY <2>2 DEF UsbInv, EchoInv
  <2>4. asked \in Nat
    <3>1. asked \in ReadSizes
      BY <2>2, Taken DEF UsbInv, QueuesInv
    <3> QED
      BY <3>1, UsbAssumption
  <2>5. whole < BufSize /\ BufSize \in Nat
    BY <2>2, UsbAssumption
  <2>6. TextLen(got'.n, got'.msg) = whole
    BY <2>2
  <2> HIDE DEF whole, asked
  <2>7. Kept(whole) = whole
    BY <2>3, <2>5 DEF Kept, Least
  <2>8. Least(Least(whole, asked), whole) = Least(whole, asked) /\ Least(whole, asked) \in Nat
    BY <2>3, <2>4 DEF Least
  <2> QED
    BY <2>2, <2>3, <2>6, <2>7, <2>8
<1> QED
  BY <1>1, UsbInvariance, PTL DEF UsbSpec, EchoWhole

\* The counter is read as it was last set since the reset, byte by byte (dev-edu.c
\* lines 107-118).
THEOREM CounterReadsBack == UsbSpec => CounterAsSet
<1>1. UsbInv /\ [UsbNext]_usbVars
      => [answer' # answer /\ answer' # <<>> => answer' = set_to]_usbVars
  <2> SUFFICES ASSUME UsbInv, UsbNext, answer' # answer, answer' # <<>>
               PROVE  answer' = set_to
    BY DEF usbVars
  <2>1. answer' = Bytes(value)
    BY DEF UsbNext, ServeRead, TakeMessage, GiveEcho, RefuseRead, ResetSerial, QueueMessage, QueueRead, ReadCounter,
      SetCounter, ResetCounter, counterVars
  <2> QED
    BY <2>1, WordOfBytes DEF UsbInv, CounterInv
<1> QED
  BY <1>1, UsbInvariance, PTL DEF UsbSpec, CounterAsSet

-----------------------------------------------------------------------------
(* Reads that are served.                                                   *)

\* A read is served and there is a message to answer it with.
AnswerDue == alive /\ in_running /\ in_q # <<>> /\ Unanswered

\* Then the port has an echo to give and does not refuse; whatever step comes, the
\* answer stays due until a read gives it, the host takes all back or QEMU stops.
AnswerStaysDue ==
  AnswerDue =>
    /\ rx_len > 0 /\ ~RefuseRead
    /\ AnswerDue' \/ ~Unanswered' \/ ~alive'
    /\ GiveEcho => ~Unanswered'

\* Refusing a read takes no message and no echo.
LEMMA RefusalMeansNothingDue ==
  ASSUME UsbInv, RefuseRead PROVE ~Unanswered
BY DEF RefuseRead, UsbInv, EchoInv, Unanswered

\* What ReadAfterMessageEnds rests on beside fairness: every message leaves an echo,
\* also one whose text is empty; an echo is only replaced by another one or taken by
\* the read that ends; and the controller goes on serving a read that has one to get
\* (lines 149-169).
THEOREM ReadsAreAnswered == UsbSpec => [][AnswerStaysDue]_usbVars
<1>1. UsbInv /\ [UsbNext]_usbVars => [AnswerStaysDue]_usbVars
  <2> SUFFICES ASSUME UsbInv, UsbNext, AnswerDue PROVE AnswerStaysDue
    BY DEF usbVars, AnswerStaysDue
  <2>1. /\ alive /\ in_running /\ in_q # <<>> /\ sent > seen
        /\ sent \in Nat /\ seen \in Nat /\ reads \in Nat
    BY DEF AnswerDue, Unanswered, UsbInv, EchoInv
  <2>2. rx_len > 0 /\ ~RefuseRead
    BY <2>1, RefusalMeansNothingDue DEF UsbInv, EchoInv, Unanswered
  <2>3. GiveEcho => reads' # reads
    <3>1. GiveEcho => reads' = reads + 1
      BY DEF GiveEcho
    <3> QED
      BY <2>1, <3>1
  <2>4. CASE TakeMessage
    <3>1. in_q' = in_q /\ in_running' = in_running /\ seen' = seen /\ sent' = sent + 1 /\ reads' = reads
      BY <2>4 DEF TakeMessage
    <3>2. alive' \in BOOLEAN
      BY UsbStep DEF UsbInv, QueuesInv
    <3>3. ~GiveEcho
      BY <2>3, <3>1
    <3> QED
      BY <2>1, <2>2, <3>1, <3>2, <3>3 DEF AnswerStaysDue, AnswerDue, Unanswered
  <2>5. CASE GiveEcho
    <3>1. seen' = sent /\ sent' = sent
      BY <2>5 DEF GiveEcho
    <3>2. ~Unanswered'
      BY <2>1, <3>1 DEF Unanswered
    <3> QED
      BY <2>2, <3>2 DEF AnswerStaysDue
  <2>6. CASE ResetSerial
    <3>1. sent' = 0 /\ seen' = 0
      BY <2>6 DEF ResetSerial
    <3>2. ~Unanswered'
      BY <3>1 DEF Unanswered
    <3> QED
      BY <2>2, <3>2 DEF AnswerStaysDue
  <2>7. ASSUME NEW k \in ReadSizes, QueueRead(k) PROVE AnswerStaysDue
    <3>1. /\ in_q' = Append(in_q, k) /\ in_running' = TRUE
          /\ alive' = alive /\ sent' = sent /\ seen' = seen /\ reads' = reads
      BY <2>7 DEF QueueRead
    <3>2. in_q' # <<>>
      <4>1. Len(in_q') = Len(in_q) + 1 /\ Len(in_q) \in Nat
        BY <3>1, Queued DEF UsbInv, QueuesInv
      <4> QED
        BY <4>1, EmptySeq
    <3>3. ~GiveEcho
      BY <2>3, <3>1
    <3> QED
      BY <2>1, <2>2, <3>1, <3>2, <3>3 DEF AnswerStaysDue, AnswerDue, Unanswered
  <2>8. CASE \/ ResetCounter \/ \E m \in Texts : QueueMessage(m)
             \/ \E short \in BOOLEAN : ReadCounter(short) \/ \E b \in Words : SetCounter(b, short)
    <3>1. /\ in_q' = in_q /\ in_running' = in_running /\ sent' = sent /\ seen' = seen
          /\ reads' = reads /\ alive' \in BOOLEAN
      BY <2>1, <2>8 DEF ResetCounter, QueueMessage, ReadCounter, SetCounter, serialVars
    <3>2. ~GiveEcho
      BY <2>3, <3>1
    <3> QED
      BY <2>1, <2>2, <3>1, <3>2 DEF AnswerStaysDue, AnswerDue, Unanswered
  <2> QED
    BY <2>2, <2>4, <2>5, <2>6, <2>7, <2>8 DEF UsbNext, ServeRead
<1> QED
  BY <1>1, UsbInvariance, PTL DEF UsbSpec
==============================================================================
