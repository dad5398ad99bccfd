---------------------------- MODULE EduRingProofs ----------------------------
(***************************************************************************)
(* Proofs about the descriptor ring engine under an unconstrained host:     *)
(* for every ring size, length limit, memory and register value.            *)
(***************************************************************************)
EXTENDS EduRing, Remainders

-----------------------------------------------------------------------------
(* The inductive invariant.                                                 *)

\* The device never holds a size the SIZE register would refuse.
SizeLegal == ring_size # 0 => LegalSize(ring_size)

\* Between the read and the write, the bounce buffer holds what the write
\* takes from it.
BufFilled == pc = "write" => DOMAIN buf = 0 .. CopyLen(desc) - 1

RingInv == RingTypeOK /\ IndexBounds /\ OwnedSlot /\ SizeLegal /\ BufFilled

-----------------------------------------------------------------------------
(* Lemmas about the operators.                                              *)

\* A legal size is positive and at most the largest (line 675).
LEMMA LegalSizeRange ==
  ASSUME NEW v \in Nat, LegalSize(v)
  PROVE  v \in 1 .. MaxRingSize
BY DEF LegalSize

\* The clamp keeps a descriptor's length a length of the bounce buffer
\* (line 578).
LEMMA CopyLenRange ==
  ASSUME NEW d \in Descs
  PROVE  CopyLen(d) \in 0 .. DmaMaxLen
<1>1. d.len \in Nat
  BY RingAssumption DEF Descs
<1>2. DmaMaxLen \in Nat
  BY RingAssumption
<1> QED
  BY <1>1, <1>2 DEF CopyLen

\* A zero descriptor is a descriptor.
LEMMA BlankInDescs == Blank \in Descs
BY RingAssumption, SMT DEF Blank, Descs, Addrs

\* A DMA write puts only contents of the bounce buffer into data memory.
LEMMA StoredInData ==
  ASSUME NEW dst \in Addrs, NEW n \in Nat,
         data \in [Addrs -> Data],
         0 .. n - 1 \subseteq DOMAIN buf,
         \A i \in DOMAIN buf : buf[i] \in Data
  PROVE  Stored(dst, n) \in [Addrs -> Data]
<1> SUFFICES ASSUME NEW a \in Addrs, a \in dst .. dst + n - 1
             PROVE  buf[a - dst] \in Data
  BY DEF Stored
<1>1. a - dst \in 0 .. n - 1
  BY RingAssumption, SMT DEF Addrs
<1> QED
  BY <1>1

-----------------------------------------------------------------------------
(* The initial states.                                                      *)

\* A device just realized, its registers zero, has the invariant.
LEMMA InitInv == RingInit => RingInv
<1> SUFFICES ASSUME RingInit PROVE RingInv
  OBVIOUS
<1> USE RingAssumption DEF RingInit
<1>1. RingTypeOK
  <2>1. /\ ring_addr \in [hi : Halves, lo : Halves]
        /\ ring_size \in 0 .. MaxRingSize /\ count \in 0 .. MaxRingSize
        /\ ring_head \in Slots /\ ring_tail \in Slots
    BY DEF Slots
  <2>2. /\ DOMAIN buf \subseteq 0 .. DmaMaxLen - 1
        /\ \A i \in DOMAIN buf : buf[i] \in Data
    BY DEF NoBuf
  <2>3. desc \in Descs /\ ring \in [Slots -> Descs] /\ data \in [Addrs -> Data]
    BY BlankInDescs
  <2> QED
    BY <2>1, <2>2, <2>3 DEF RingTypeOK, Busy
<1>2. IndexBounds /\ OwnedSlot /\ SizeLegal /\ BufFilled
  BY DEF IndexBounds, OwnedSlot, SizeLegal, BufFilled, Busy
<1> QED
  BY <1>1, <1>2 DEF RingInv

-----------------------------------------------------------------------------
(* The steps of a pass.                                                     *)

\* Every step of a pass keeps the invariant: the descriptor is read, copied,
\* written back and retired inside the window, and a size of 0 is never divided
\* by (lines 548-640).
LEMMA PassStepInv ==
  ASSUME RingInv, PassStep
  PROVE  RingInv'
<1> USE RingAssumption
    DEF RingInv, RingTypeOK, IndexBounds, OwnedSlot, SizeLegal, BufFilled, Busy,
        regVars, cfgVars, passVars, memVars
<1>1. CASE PassReturns
  <2> USE <1>1 DEF PassReturns
  <2>1. RingTypeOK'
    OBVIOUS
  <2>2. IndexBounds' /\ OwnedSlot' /\ SizeLegal' /\ BufFilled'
    OBVIOUS
  <2> QED
    BY <2>1, <2>2
<1>2. CASE FetchFails
  BY <1>2, BlankInDescs DEF FetchFails, HeadUnread, HasWork, NextIteration, Counted, NoBuf,
                           LegalSize
<1>3. CASE FetchInvalid
  BY <1>3, BlankInDescs DEF FetchInvalid, HasWork, NextIteration, Counted, NoBuf, LegalSize
<1>4. CASE FetchValid
  BY <1>4 DEF FetchValid, HasWork
<1>5. CASE ReadSource
  <2> USE <1>5 DEF ReadSource
  <2>1. CopyLen(desc) \in 0 .. DmaMaxLen
    BY CopyLenRange
  <2>2. desc.src \in Addrs /\ desc.src + CopyLen(desc) <= MemSize
    BY DEF Descs, DmaOk, DataMapped
  <2>3. \A i \in 0 .. CopyLen(desc) - 1 : data[desc.src + i] \in Data
    <3> SUFFICES ASSUME NEW i \in 0 .. CopyLen(desc) - 1
                 PROVE  desc.src + i \in Addrs
      OBVIOUS
    <3> QED
      BY <2>1, <2>2, SMT DEF Addrs
  <2>4. DOMAIN buf' = 0 .. CopyLen(desc) - 1 /\ desc' = desc
    OBVIOUS
  <2>5. /\ DOMAIN buf' \subseteq 0 .. DmaMaxLen - 1
        /\ \A i \in DOMAIN buf' : buf'[i] \in Data
    BY <2>1, <2>3, SMT
  <2>6. BufFilled'
    BY <2>4 DEF CopyLen
  <2> QED
    BY <2>5, <2>6
<1>6. CASE ReadSourceFails
  BY <1>6 DEF ReadSourceFails, FailStatus, Descs
<1>7. CASE WriteDest
  <2> USE <1>7 DEF WriteDest
  <2>1. CopyLen(desc) \in 0 .. DmaMaxLen
    BY CopyLenRange
  <2>2. desc.dst \in Addrs
    BY DEF Descs
  <2>3. data' \in [Addrs -> Data]
    BY <2>1, <2>2, StoredInData
  <2>4. desc' \in Descs
    BY DEF Descs
  <2> QED
    BY <2>3, <2>4
<1>8. CASE WriteDestFails
  <2> USE <1>8 DEF WriteDestFails
  <2>1. CopyLen(desc) \in 0 .. DmaMaxLen
    BY CopyLenRange
  <2>2. desc.dst \in Addrs
    BY DEF Descs
  <2>3. data' \in [Addrs -> Data]
    <3>1. PICK n \in 0 .. CopyLen(desc) : data' = Stored(desc.dst, n)
      OBVIOUS
    <3>2. n \in Nat /\ 0 .. n - 1 \subseteq DOMAIN buf
      BY <2>1, SMT
    <3> QED
      BY <2>2, <3>1, <3>2, StoredInData
  <2>4. desc' \in Descs
    BY DEF Descs
  <2> QED
    BY <2>3, <2>4
<1>9. CASE WriteStatus
  <2> USE <1>9 DEF WriteStatus
  <2>1. ring' \in [Slots -> Descs]
    BY DEF Descs
  <2> QED
    BY <2>1
<1>10. CASE WriteStatusFails
  BY <1>10 DEF WriteStatusFails
<1>11. CASE Retire
  <2> USE <1>11 DEF Retire, NextIteration, Counted
  <2>1. ring_size \in 1 .. MaxRingSize
    BY LegalSizeRange
  <2>2. ring_head' \in 0 .. ring_size - 1
    BY <2>1, ModBound DEF Slots
  <2>3. RingTypeOK'
    BY <2>1, <2>2, BlankInDescs DEF NoBuf, Slots
  <2>4. IndexBounds'
    BY <2>1, <2>2
  <2> QED
    BY <2>1, <2>3, <2>4 DEF LegalSize
<1> QED
  BY <1>1, <1>2, <1>3, <1>4, <1>5, <1>6, <1>7, <1>8, <1>9, <1>10, <1>11
  DEF PassStep

-----------------------------------------------------------------------------
(* The steps of the host.                                                   *)

\* Every register and config space write keeps the invariant, whatever number
\* is written to SIZE and TAIL (lines 656-701).
LEMMA RegisterWriteInv ==
  ASSUME RingInv,
         \/ \E v \in Halves : WriteAddrLo(v) \/ WriteAddrHi(v)
         \/ \E v \in Nat : WriteSize(v) \/ WriteTail(v)
         \/ \E b \in BOOLEAN : WriteCtrl(b)
         \/ \E bm, mx \in BOOLEAN : WriteConfig(bm, mx)
  PROVE  RingInv'
<1> USE RingAssumption
    DEF RingInv, RingTypeOK, IndexBounds, OwnedSlot, SizeLegal, BufFilled, Busy,
        regVars, cfgVars, passVars, memVars
<1>1. ASSUME NEW v \in Halves, WriteAddrLo(v) PROVE RingInv'
  BY <1>1 DEF WriteAddrLo
<1>2. ASSUME NEW v \in Halves, WriteAddrHi(v) PROVE RingInv'
  BY <1>2 DEF WriteAddrHi
<1>3. ASSUME NEW v \in Nat, WriteSize(v) PROVE RingInv'
  BY <1>3, LegalSizeRange DEF WriteSize, Resized, Slots
<1>4. ASSUME NEW v \in Nat, WriteTail(v) PROVE RingInv'
  <2> USE <1>4 DEF WriteTail, TailOf, StartPass
  <2>1. ring_size \in 1 .. MaxRingSize
    BY LegalSizeRange
  <2>2. ring_tail' \in 0 .. ring_size - 1
    BY <2>1, ModBound
  <2>3. RingTypeOK' /\ IndexBounds'
    BY <2>1, <2>2 DEF Slots
  <2> QED
    BY <2>1, <2>3
<1>5. ASSUME NEW b \in BOOLEAN, WriteCtrl(b) PROVE RingInv'
  BY <1>5 DEF WriteCtrl, WorkWaits, StartPass
<1>6. ASSUME NEW bm \in BOOLEAN, NEW mx \in BOOLEAN, WriteConfig(bm, mx)
      PROVE  RingInv'
  BY <1>6 DEF WriteConfig
<1> QED
  BY <1>1, <1>2, <1>3, <1>4, <1>5, <1>6

\* So does everything the unconstrained host does.
LEMMA HostStepInv ==
  ASSUME RingInv, HostStep
  PROVE  RingInv'
<1> USE RingAssumption
<1>1. CASE \E v \in Halves : WriteAddrLo(v) \/ WriteAddrHi(v)
  BY <1>1, RegisterWriteInv
<1>2. CASE \E v \in RegVals : WriteSize(v) \/ WriteTail(v)
  BY <1>2, RegisterWriteInv
<1>3. CASE WriteTailNoSize
  BY <1>3 DEF WriteTailNoSize, RingInv, RingTypeOK, IndexBounds, OwnedSlot,
              SizeLegal, BufFilled, Busy, regVars, cfgVars, memVars
<1>4. CASE \E b \in BOOLEAN : WriteCtrl(b)
  BY <1>4, RegisterWriteInv
<1>5. CASE \E bm, mx \in BOOLEAN : WriteConfig(bm, mx)
  BY <1>5, RegisterWriteInv
<1>6. CASE ResetDevice
  BY <1>6, RegisterWriteInv DEF ResetDevice
<1> USE DEF RingInv, RingTypeOK, IndexBounds, OwnedSlot, SizeLegal, BufFilled,
            Busy, regVars, cfgVars, passVars, memVars
<1>7. ASSUME NEW i \in Slots, NEW d \in GuestDescs, StoreDesc(i, d)
      PROVE  RingInv'
  BY <1>7, GuestDescsAssumption DEF StoreDesc
<1>8. ASSUME NEW a \in Addrs, NEW x \in Data, StoreData(a, x)
      PROVE  RingInv'
  BY <1>8 DEF StoreData
<1>9. CASE TakeInterrupt
  BY <1>9 DEF TakeInterrupt
<1> QED
  BY <1>1, <1>2, <1>3, <1>4, <1>5, <1>6, <1>7, <1>8, <1>9 DEF HostStep

\* So every step keeps it.
LEMMA NextInv == RingInv /\ [RingNext]_ringVars => RingInv'
<1> SUFFICES ASSUME RingInv, [RingNext]_ringVars PROVE RingInv'
  OBVIOUS
<1>1. CASE PassStep
  BY <1>1, PassStepInv
<1>2. CASE HostStep
  BY <1>2, HostStepInv
<1>3. CASE UNCHANGED ringVars
  BY <1>3 DEF RingInv, RingTypeOK, IndexBounds, OwnedSlot, SizeLegal, BufFilled,
              ringVars, regVars, cfgVars, passVars, memVars
<1> QED
  BY <1>1, <1>2, <1>3 DEF RingNext

-----------------------------------------------------------------------------
(* The theorems.                                                            *)

\* The ring keeps its inductive invariant, whatever is written to its registers
\* (lines 656-701) and stored to its memory while a pass runs (548-640).
THEOREM Invariance == RingSpec => []RingInv
<1>1. RingInit => RingInv
  BY InitInv
<1>2. RingInv /\ [RingNext]_ringVars => RingInv'
  BY NextInv
<1> QED
  BY <1>1, <1>2, PTL DEF RingSpec

\* The engine's registers, locals and memory keep their types, whatever is
\* written to its registers and to memory (lines 656-701, 548-610).
THEOREM TypeCorrect == RingSpec => []RingTypeOK
<1>1. RingInv => RingTypeOK
  BY DEF RingInv
<1> QED
  BY <1>1, Invariance, PTL

\* Head and tail stay inside the ring, whatever sizes and tails are written
\* (lines 674-691, 603).
THEOREM IndicesInside == RingSpec => []IndexBounds
<1>1. RingInv => IndexBounds
  BY DEF RingInv
<1> QED
  BY <1>1, Invariance, PTL

\* The device works only on slots between head and tail of an enabled ring of
\* legal size, and never round the ring twice in a pass (lines 617-627).
THEOREM SlotsOwned == RingSpec => []OwnedSlot
<1>1. RingInv => OwnedSlot
  BY DEF RingInv
<1> QED
  BY <1>1, Invariance, PTL
-----------------------------------------------------------------------------
(* A doorbell is short, whatever memory holds: what PassTerminates rests on *)
(* besides the fairness of the pass.                                        *)

Running == pc \in Busy \cup {"loop"}

\* The steps a descriptor has behind it count down from the loop's test.
Stage == [loop |-> 1, read |-> 0, write |-> -1, writeback |-> -2, retire |-> -3]

\* The most steps the running pass still takes: five for every iteration left,
\* and the one that returns.
StepsLeft == IF Running THEN 5 * (ring_size - count) + Stage[pc] ELSE 0

\* Every step of a pass leaves fewer steps to take; nothing the host does
\* meanwhile adds to them; and a register write starts with at most five for each
\* slot of the ring and one (lines 613-630).
PassCountsDown ==
  /\ PassStep => StepsLeft' \in Nat /\ StepsLeft' < StepsLeft
  /\ Running /\ ~PassStep => StepsLeft' = StepsLeft
  /\ ~Running /\ Running' => StepsLeft' <= 5 * ring_size + 1

\* What the measure needs of the invariant.
LEMMA RoundUnused ==
  ASSUME RingInv
  PROVE  /\ ring_size \in Nat /\ count \in Nat
         /\ pc = "loop" => count <= ring_size
         /\ pc \in Busy => count + 1 <= ring_size
BY RingAssumption DEF RingInv, RingTypeOK, OwnedSlot, LegalSize

\* The steps of a pass count down: an iteration that moves nothing is counted like
\* one that retires a descriptor (lines 563-573, 624-627).
LEMMA PassStepCountsDown ==
  ASSUME RingInv, RingInv', PassStep
  PROVE  Running /\ StepsLeft' \in Nat /\ StepsLeft' < StepsLeft
<1>1. /\ ring_size \in Nat /\ count \in Nat
      /\ pc = "loop" => count <= ring_size
      /\ pc \in Busy => count + 1 <= ring_size
  BY RoundUnused
<1> USE DEF StepsLeft, Running, Stage, Busy, regVars
<1>2. CASE PassReturns
  BY <1>1, <1>2 DEF PassReturns
<1>3. CASE FetchFails \/ FetchInvalid
  BY <1>1, <1>3 DEF FetchFails, FetchInvalid, HasWork, NextIteration, Counted
<1>4. CASE FetchValid
  BY <1>1, <1>4 DEF FetchValid, HasWork
<1>5. CASE ReadSource \/ ReadSourceFails
  BY <1>1, <1>5 DEF ReadSource, ReadSourceFails
<1>6. CASE WriteDest \/ WriteDestFails
  BY <1>1, <1>6 DEF WriteDest, WriteDestFails
<1>7. CASE WriteStatus \/ WriteStatusFails
  BY <1>1, <1>7 DEF WriteStatus, WriteStatusFails
<1>8. CASE Retire
  BY <1>1, <1>8 DEF Retire, NextIteration, Counted
<1> QED
  BY <1>2, <1>3, <1>4, <1>5, <1>6, <1>7, <1>8, PassStepInv DEF PassStep

\* While a pass runs the host can only store to memory and take the interrupt,
\* and a pass that a register write starts has its whole round before it
\* (lines 617-622, 656-701).
LEMMA HostStepCounts ==
  ASSUME RingInv, HostStep
  PROVE  /\ Running => StepsLeft' = StepsLeft
         /\ ~Running /\ Running' => StepsLeft' <= 5 * ring_size + 1
<1>1. ring_size \in Nat /\ count \in Nat
  BY RoundUnused
<1> USE DEF StepsLeft, Running, Stage, Busy, regVars, passVars
<1>2. CASE pc # "idle"
  BY <1>1, <1>2
  DEF HostStep, WriteAddrLo, WriteAddrHi, WriteSize, WriteTail, WriteTailNoSize,
      WriteCtrl, WriteConfig, ResetDevice, StoreDesc, StoreData, TakeInterrupt
<1>3. CASE pc = "idle"
  <2> SUFFICES ASSUME pc' = "loop" PROVE StepsLeft' <= 5 * ring_size + 1
    BY <1>3 DEF HostStep, WriteAddrLo, WriteAddrHi, WriteSize, WriteTail,
       WriteTailNoSize, WriteCtrl, WriteConfig, ResetDevice, StoreDesc, StoreData,
       TakeInterrupt, StartPass
  <2>1. ring_size' = ring_size /\ count' = 0
    BY <1>3 DEF HostStep, WriteAddrLo, WriteAddrHi, WriteSize, WriteTail,
       WriteTailNoSize, WriteCtrl, WriteConfig, ResetDevice, StoreDesc, StoreData,
       TakeInterrupt, StartPass
  <2> QED
    BY <1>1, <2>1
<1> QED
  BY <1>2, <1>3

\* A doorbell returns to the guest after at most five steps for each slot of the
\* ring and one, whatever descriptors another vCPU stores meanwhile and whichever
\* accesses fail (lines 566-573, 613-630).
THEOREM PassIsShort == RingSpec => [][PassCountsDown]_ringVars
<1>1. ASSUME RingInv, RingInv', [RingNext]_ringVars
      PROVE  [PassCountsDown]_ringVars
  <2>1. CASE PassStep
    BY <1>1, <2>1, PassStepCountsDown DEF PassCountsDown
  <2>2. CASE ~PassStep /\ HostStep
    BY <1>1, <2>2, HostStepCounts DEF PassCountsDown
  <2> QED
    BY <1>1, <2>1, <2>2 DEF RingNext
<1> QED
  BY <1>1, Invariance, PTL DEF RingSpec
==============================================================================
