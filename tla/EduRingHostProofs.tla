-------------------------- MODULE EduRingHostProofs --------------------------
(***************************************************************************)
(* Proofs about the descriptor ring under its host: for every number of     *)
(* requests, every set of ring sizes the device accepts and every           *)
(* interleaving of posting, ringing, pausing, reaping and restarting with   *)
(* the device's pass.                                                       *)
(***************************************************************************)
EXTENDS EduRingHost, EduRingProofs

-----------------------------------------------------------------------------
(* The inductive invariant.                                                 *)

\* What the setup has done to the device when the session has come so far.
SetUp ==
  /\ pc # "dead"
  /\ session # "running" => pc = "idle" /\ base = nposted
  /\ session \notin {"closed", "config"} => bus_master /\ msix
  /\ session \in {"addr_hi", "size", "ctrl", "running"} =>
       ring_addr.lo = RingBase.lo
  /\ session \in {"size", "ctrl", "running"} => ring_addr = RingBase
  /\ session \in {"ctrl", "running"} => ring_size \in Sizes
  /\ session = "ctrl" => ring_head = 0 /\ ring_tail = 0

\* The counters of requests are in the order executed, rung for, posted, and
\* nothing is reaped before its status can have been written.
Reapable == IF pc = "retire" THEN Executed + 1 ELSE Executed

CountersOrdered ==
  /\ Executed \in base .. nrung
  /\ nreaped <= Reapable

\* The device's indices stand for the request to execute next and the one to
\* be rung for next, and fewer requests are under way than the ring has slots.
Window ==
  session = "running" =>
    /\ ring_head = SlotOf(Executed + 1)
    /\ ring_tail = SlotOf(nrung + 1)
    /\ nrung - Executed < ring_size
    /\ nposted - nreaped < ring_size

\* The slots from the head hold the posted requests, in order, and none has a
\* status but the one being retired.
Request(d, j) ==
  /\ d.tag = j
  /\ d.src = SrcOf(SlotOf(j)) /\ d.dst = DstOf(SlotOf(j)) /\ d.len = 1
  /\ d.valid

RequestsHeld ==
  session = "running" =>
    \A j \in Executed + 1 .. nposted :
      /\ Request(ring[SlotOf(j)], j)
      /\ ring[SlotOf(j)].status = "pending" \/ (j = Executed + 1 /\ pc = "retire")

\* After the copy the device's descriptor has a final status.
StatusFinal == pc \in {"writeback", "retire"} => desc.status # "pending"

HostInv ==
  /\ RingInv /\ HostTypeOK
  /\ SetUp
  /\ CountersOrdered
  /\ Window
  /\ RequestsHeld
  /\ NextInOrder /\ FetchedUnchanged
  /\ StatusFinal

\* What follows holds when no DMA write to mapped memory fails: the data of a
\* request on its way from its source to its destination.
DataHeld ==
  session = "running" =>
    /\ \A j \in nreaped + 1 .. nposted : data[SrcOf(SlotOf(j))] = j
    /\ pc = "write" => buf[0] = Executed + 1
    /\ pc \in {"writeback", "retire"} /\ desc.status = "complete" =>
         data[DstOf(ring_head)] = Executed + 1

\* When no fetch fails: a pass has iterations left for all that is pending,
\* and nothing is pending when it returns.
RoundsLeft ==
  /\ pc \in Busy \cup {"loop"} => count + (nrung - Executed) < ring_size
  /\ pc = "idle" /\ session = "running" /\ ring_enabled => Executed = nrung

\* When no status write fails: every request the device is done with shows it.
StatusShown ==
  session = "running" =>
    \A j \in nreaped + 1 .. Reapable : ring[SlotOf(j)].status # "pending"

-----------------------------------------------------------------------------
(* Lemmas about requests and their slots.                                   *)

\* A request's slot lies inside the ring (get_src_iova, get_dst_iova and the
\* index the descriptor is filled at).
LEMMA SlotRange ==
  ASSUME ring_size \in Nat, ring_size > 0, base \in Int, NEW j \in Int
  PROVE  SlotOf(j) \in 0 .. ring_size - 1
BY SMT DEF SlotOf

\* Requests less than a ring apart have different slots.
LEMMA SlotDistinct ==
  ASSUME ring_size \in Nat, ring_size > 0, base \in Int,
         NEW j \in Int, NEW k \in Int,
         j - k < ring_size, k - j < ring_size, SlotOf(j) = SlotOf(k)
  PROVE  j = k
<1> DEFINE a == j - base - 1
           b == k - base - 1
<1>1. a \in Int /\ b \in Int /\ a - b = j - k /\ b - a = k - j
  OBVIOUS
<1>2. a % ring_size = b % ring_size
  BY DEF SlotOf
<1> HIDE DEF a, b
<1>3. a = b
  BY <1>1, <1>2, ModDistinct
<1> QED
  BY <1>1, <1>3

\* The next request has the next slot, around the ring's end (line 603).
LEMMA SlotNext ==
  ASSUME ring_size \in Nat, ring_size > 0, base \in Int, NEW j \in Int
  PROVE  (SlotOf(j) + 1) % ring_size = SlotOf(j + 1)
<1>1. j - base - 1 \in Int /\ (j - base - 1) + 1 = (j + 1) - base - 1
  OBVIOUS
<1> QED
  BY <1>1, ModNext DEF SlotOf

\* The first request of a session has slot 0, where SIZE puts the head
\* (lines 675-679).
LEMMA SlotFirst ==
  ASSUME ring_size \in Nat, ring_size > 0, base \in Int
  PROVE  SlotOf(base + 1) = 0
<1>1. (base + 1) - base - 1 = ring_size * 0 + 0 /\ 0 \in 0 .. ring_size - 1
  OBVIOUS
<1> QED
  BY <1>1, ModOfSum DEF SlotOf

\* The sizes a session may choose are positive.
LEMMA SizesRange == \A n \in Sizes : n \in Nat /\ n > 0 /\ n <= MaxRingSize
BY HostAssumption, RingAssumption DEF LegalSize

\* The types of the numbers, and the ring of a running session is not empty.
LEMMA Numbers ==
  ASSUME HostInv
  PROVE  /\ NJobs \in Nat /\ ring_size \in Nat /\ MaxRingSize \in Nat
         /\ base \in Nat /\ nposted \in Nat /\ nrung \in Nat /\ nreaped \in Nat
         /\ Executed \in Nat /\ Executed <= nrung /\ base <= Executed
         /\ nrung <= nposted /\ nreaped <= nposted /\ base <= nreaped
         /\ nposted <= NJobs
         /\ session = "running" => ring_size > 0 /\ ring_size <= MaxRingSize
<1>1. NJobs \in Nat /\ MaxRingSize \in Nat /\ ring_size \in Nat
  BY HostAssumption, RingAssumption DEF HostInv, HostTypeOK, RingTypeOK
<1>2. /\ nposted \in Nat /\ base \in Nat /\ nrung \in Nat /\ nreaped \in Nat
      /\ nrung <= nposted /\ nreaped <= nposted /\ base <= nreaped
      /\ nposted <= NJobs
  BY <1>1 DEF HostInv, HostTypeOK
<1>3. Executed \in Nat /\ Executed <= nrung /\ base <= Executed
  BY <1>2 DEF HostInv, CountersOrdered
<1>4. session = "running" => ring_size > 0 /\ ring_size <= MaxRingSize
  BY SizesRange DEF HostInv, SetUp
<1> QED
  BY <1>1, <1>2, <1>3, <1>4

\* The slots of requests, and the types of what the device takes from them.
LEMMA SlotTypes ==
  ASSUME HostInv, session = "running"
  PROVE  /\ ring \in [Slots -> Descs] /\ desc \in Descs /\ ring_head \in Slots
         /\ \A j \in Int : SlotOf(j) \in Slots
<1>1. ring \in [Slots -> Descs] /\ desc \in Descs /\ ring_head \in Slots
  BY DEF HostInv, RingInv, RingTypeOK
<1>2. \A j \in Int : SlotOf(j) \in 0 .. ring_size - 1
  BY SlotRange, Numbers
<1>3. \A j \in Int : SlotOf(j) \in Slots
  BY <1>2, Numbers DEF Slots
<1> QED
  BY <1>1, <1>3

\* What a step of the pass leaves alone (lines 548-640): the configuration
\* always, the head until the descriptor is retired, descriptors but for the
\* status written back.
LEMMA PassLeaves ==
  ASSUME PassStep
  PROVE  /\ UNCHANGED <<ring_addr, ring_size, ring_tail, ring_enabled, bus_master, msix>>
         /\ pc # "retire" => ring_head' = ring_head /\ irq' = irq
         /\ pc # "writeback" => ring' = ring
         /\ pc \in Busy \cup {"loop"} /\ pc' # "dead"
BY DEF PassStep, PassReturns, FetchFails, FetchInvalid, FetchValid, ReadSource,
       ReadSourceFails, WriteDest, WriteDestFails, WriteStatus, WriteStatusFails,
       Retire, NextIteration, HeadUnread, regVars, cfgVars, memVars, Busy

-----------------------------------------------------------------------------
(* The initial states.                                                      *)

\* Before any program has opened the device nothing is posted or executed.
LEMMA HostInitInv == HostInit => HostInv
<1> SUFFICES ASSUME HostInit PROVE HostInv
  OBVIOUS
<1> USE DEF HostInit
<1>1. RingInv
  BY InitInv
<1>2. HostTypeOK
  BY <1>1, HostAssumption DEF HostTypeOK, RingInv
<1>3. Executed = 0
  BY DEF Executed
<1>4. pc = "idle" /\ bus_master = FALSE
  BY DEF RingInit
<1> QED
  BY <1>1, <1>2, <1>3, <1>4
  DEF HostInv, SetUp, CountersOrdered, Reapable, Window, RequestsHeld,
      NextInOrder, FetchedUnchanged, StatusFinal, Busy

-----------------------------------------------------------------------------
(* The steps of the device.                                                 *)

\* Retiring a descriptor makes its request the one executed last.
LEMMA RetireExecutes ==
  ASSUME HostInv, Device, pc = "retire"
  PROVE  /\ log' = Append(log, Executed + 1) /\ Executed' = Executed + 1
         /\ desc.tag = Executed + 1
<1>1. log' = Append(log, desc.tag) /\ base' = base
  BY DEF Device, hostVars
<1>2. desc.tag = Executed + 1 /\ Executed < nrung
  BY DEF HostInv, NextInOrder, Busy
<1>3. log \in Seq(Tags)
  BY DEF HostInv, HostTypeOK
<1>4. log' # <<>> /\ log'[Len(log')] = Executed + 1
  BY <1>1, <1>2, <1>3
<1>5. Executed + 1 > base
  BY Numbers
<1> QED
  BY <1>1, <1>2, <1>4, <1>5 DEF Executed

\* A step of the device (lines 548-640) executes the next request, or none, and
\* keeps what the host has posted.
LEMMA DeviceInv ==
  ASSUME HostInv, Device
  PROVE  HostInv'
<1> PassStep /\ UNCHANGED <<session, base, nposted, nrung, nreaped>>
  BY DEF Device, hostVars
<1>1. session = "running"
  BY PassLeaves DEF HostInv, SetUp, Busy
<1>2. RingInv'
  BY PassStepInv DEF HostInv
<1>3. HostTypeOK'
  <2>1. desc.tag \in Tags /\ log \in Seq(Tags)
    BY DEF HostInv, RingInv, RingTypeOK, HostTypeOK, Descs
  <2>2. log' \in Seq(Tags)
    BY <2>1 DEF Device
  <2> QED
    BY <1>2, <2>2 DEF HostInv, HostTypeOK, RingInv
<1>4. SetUp'
  BY <1>1, PassLeaves DEF HostInv, SetUp
<1>5. \A j : SlotOf(j)' = SlotOf(j)
  BY PassLeaves DEF SlotOf
<1>6. CASE pc = "retire"
  <2>1. Executed' = Executed + 1 /\ Executed < nrung
    BY <1>6, RetireExecutes DEF HostInv, NextInOrder, Busy
  <2>2. /\ ring' = ring /\ pc' = "loop"
        /\ ring_head' = (ring_head + 1) % ring_size /\ ring_tail' = ring_tail
    BY <1>6, PassLeaves
    DEF PassStep, PassReturns, FetchFails, FetchInvalid, FetchValid, ReadSource,
        ReadSourceFails, WriteDest, WriteDestFails, WriteStatus,
        WriteStatusFails, Retire, NextIteration
  <2>3. CountersOrdered'
    BY <1>6, <2>1, <2>2, Numbers DEF HostInv, CountersOrdered, Reapable
  <2>4. ring_head' = SlotOf(Executed + 2)
    BY <1>1, <2>2, SlotNext, Numbers DEF HostInv, Window
  <2>5. Window'
    BY <1>1, <1>5, <2>1, <2>2, <2>4, PassLeaves, Numbers DEF HostInv, Window
  <2>6. RequestsHeld'
    BY <1>1, <1>5, <2>1, <2>2, Numbers DEF HostInv, RequestsHeld, Request
  <2>7. NextInOrder' /\ FetchedUnchanged' /\ StatusFinal'
    BY <2>2 DEF NextInOrder, FetchedUnchanged, StatusFinal, Busy
  <2> QED
    BY <1>2, <1>3, <1>4, <2>3, <2>5, <2>6, <2>7 DEF HostInv
<1>7. CASE pc # "retire"
  <2>1. log' = log /\ Executed' = Executed /\ ring_head' = ring_head
    BY <1>7, PassLeaves DEF Device, Executed
  <2>2. Reapable = Executed /\ Reapable' \in {Executed, Executed + 1}
    BY <1>7, <2>1 DEF Reapable
  <2>3. CountersOrdered'
    BY <2>1, <2>2, Numbers DEF HostInv, CountersOrdered
  <2>4. Window'
    BY <1>5, <2>1, PassLeaves DEF HostInv, Window
  <2>5. ring_head = SlotOf(Executed + 1)
    BY <1>1 DEF HostInv, Window
  <2>6. RequestsHeld' /\ NextInOrder' /\ FetchedUnchanged' /\ StatusFinal'
    <3> USE DEF RequestsHeld, NextInOrder, FetchedUnchanged, StatusFinal, Request
    <3>1. /\ ring \in [Slots -> Descs] /\ desc \in Descs
          /\ ring_head \in Slots
          /\ \A k \in Executed + 1 .. nposted : SlotOf(k) \in Slots
      BY <1>1, SlotTypes, Numbers
    <3>2. CASE WriteStatus
      <4> USE <3>2 DEF WriteStatus, passVars
      <4>1. /\ ring' = [ring EXCEPT ![ring_head].status = desc.status]
            /\ pc = "writeback" /\ pc' = "retire" /\ desc' = desc
        OBVIOUS
      <4>2. \A k \in Executed + 1 .. nposted :
              k # Executed + 1 => SlotOf(k) # ring_head
        BY <1>1, <2>2, <2>5, SlotDistinct, Numbers
        DEF HostInv, CountersOrdered, Window
      <4>3. RequestsHeld'
        BY <1>1, <1>5, <2>1, <3>1, <4>1, <4>2 DEF HostInv, Descs
      <4>4. NextInOrder' /\ StatusFinal'
        BY <2>1, <4>1 DEF HostInv, Busy
      <4>5. FetchedUnchanged'
        BY <2>1, <3>1, <4>1 DEF HostInv, Busy, Descs
      <4> QED
        BY <4>3, <4>4, <4>5
    <3>3. CASE FetchValid
      <4> USE <3>3 DEF FetchValid, HasWork, memVars
      <4>1. /\ ring' = ring /\ desc' = ring[ring_head]
            /\ pc = "loop" /\ pc' = "read"
        OBVIOUS
      <4>2. Executed < nrung
        BY <1>1, Numbers DEF HostInv, Window
      <4>3. ring[ring_head].tag = Executed + 1
        BY <1>1, <2>5, <4>2, Numbers DEF HostInv
      <4>4. RequestsHeld' /\ NextInOrder' /\ StatusFinal'
        BY <1>5, <2>1, <4>1, <4>2, <4>3 DEF HostInv, Busy
      <4>5. FetchedUnchanged'
        BY <2>1, <3>1, <4>1 DEF HostInv, Descs
      <4> QED
        BY <4>4, <4>5
    <3>4. CASE pc = "loop" /\ pc' \notin Busy
      <4>1. ring' = ring
        BY <3>4, PassLeaves
      <4> QED
        BY <1>5, <2>1, <3>4, <4>1 DEF HostInv, Busy
    <3>5. CASE WriteStatusFails
      BY <1>5, <2>1, <3>5 DEF HostInv, WriteStatusFails, passVars, memVars, Busy
    <3>6. CASE ReadSource \/ ReadSourceFails \/ WriteDest \/ WriteDestFails
      <4>1. /\ ring' = ring /\ pc \in {"read", "write"} /\ pc' \in {"write", "writeback"}
            /\ desc' \in {desc, [desc EXCEPT !.status = "complete"],
                          [desc EXCEPT !.status = "error"]}
            /\ pc' = "writeback" => desc'.status # "pending"
        BY <3>1, <3>6
        DEF ReadSource, ReadSourceFails, WriteDest, WriteDestFails, FailStatus,
            memVars, Descs
      <4>2. RequestsHeld' /\ NextInOrder'
        BY <1>5, <2>1, <3>1, <4>1 DEF HostInv, Busy, Descs
      <4>3. StatusFinal'
        BY <4>1
      <4>4. FetchedUnchanged'
        BY <2>1, <3>1, <4>1 DEF HostInv, Busy, Descs
      <4> QED
        BY <4>2, <4>3, <4>4
    <3> QED
      BY <1>7, <3>2, <3>3, <3>4, <3>5, <3>6
      DEF PassStep, PassReturns, FetchFails, FetchInvalid, NextIteration,
          Retire, Busy
  <2> QED
    BY <1>2, <1>3, <1>4, <2>3, <2>4, <2>6 DEF HostInv
<1> QED
  BY <1>6, <1>7

-----------------------------------------------------------------------------
(* The steps of the host outside a running session.                         *)

\* Opening the device maps a fresh ring and clears config space; the device's
\* own registers stay (edu_pci_class_init sets no reset handler).
LEMMA OpenInv ==
  ASSUME HostInv, Open
  PROVE  HostInv'
<1> USE DEF Open, regVars, passVars
<1>1. RingInv'
  <2>1. /\ ring' \in [Slots -> Descs] /\ data' \in [Addrs -> Data]
    BY BlankInDescs, RingAssumption
  <2> QED
    BY <2>1
    DEF HostInv, RingInv, RingTypeOK, IndexBounds, OwnedSlot, SizeLegal,
        BufFilled, Busy
<1>2. HostTypeOK'
  BY <1>1 DEF HostInv, HostTypeOK, RingInv
<1>3. SetUp'
  BY DEF HostInv, SetUp
<1>4. CountersOrdered'
  BY DEF HostInv, CountersOrdered, Reapable, Executed
<1> QED
  BY <1>1, <1>2, <1>3, <1>4
  DEF HostInv, Window, RequestsHeld, NextInOrder, FetchedUnchanged, StatusFinal, Busy

\* A process that dies abandons what it posted: as far as the next session is
\* concerned, all of it is behind the request to execute next.
LEMMA DieExecuted ==
  ASSUME HostInv, Die
  PROVE  Executed' = nposted
<1>1. base' = nposted /\ log' = log
  BY DEF Die
<1>2. Executed <= nposted /\ nposted \in Nat /\ base <= nposted /\ base \in Nat
  BY Numbers
<1>3. log # <<>> => log[Len(log)] \in Nat
  BY HostAssumption DEF HostInv, HostTypeOK
<1>4. log # <<>> => ~(log[Len(log)] > nposted)
  BY <1>2, <1>3 DEF Executed
<1> QED
  BY <1>1, <1>4 DEF Executed

\* The program may die between any two of its steps: what it had posted is
\* forgotten, and the device's registers stay.
LEMMA DieInv ==
  ASSUME HostInv, Die
  PROVE  HostInv'
<1> USE DEF Die, ringVars, regVars, cfgVars, passVars, memVars
<1>1. RingInv'
  BY DEF HostInv, RingInv, RingTypeOK, IndexBounds, OwnedSlot, SizeLegal,
         BufFilled, Busy
<1>2. HostTypeOK'
  BY <1>1, Numbers DEF HostInv, HostTypeOK, RingInv
<1>3. SetUp'
  BY DEF HostInv, SetUp
<1>4. CountersOrdered'
  BY DieExecuted, Numbers DEF CountersOrdered, Reapable
<1> QED
  BY <1>1, <1>2, <1>3, <1>4
  DEF HostInv, Window, RequestsHeld, NextInOrder, FetchedUnchanged, StatusFinal, Busy

\* Each step of the setup establishes its part of SetUp, on whatever registers
\* an earlier session left (lines 656-701).
LEMMA SetupRingInv ==
  ASSUME HostInv, SetupRing
  PROVE  HostInv'
<1>1. /\ session \in {"config", "addr_lo", "addr_hi", "size", "ctrl"}
      /\ UNCHANGED <<base, nposted, nrung, nreaped, log>>
  BY DEF SetupRing, Setup
<1>2. pc = "idle" /\ base = nposted /\ RingInv /\ SetUp /\ HostTypeOK
  BY <1>1 DEF HostInv, SetUp
<1>3. Executed' = Executed /\ Executed = base /\ nrung = base /\ nreaped = base
  BY <1>1, <1>2, Numbers DEF Executed
<1>4. RingBase \in [hi : Halves, lo : Halves] /\ RingBase = [hi |-> RingBase.hi, lo |-> RingBase.lo]
  BY RingAssumption
<1>5. ring_addr = [hi |-> ring_addr.hi, lo |-> ring_addr.lo]
  BY <1>2 DEF RingInv, RingTypeOK
<1>6. RingInv'
  <2>1. \A n \in Sizes : n \in Nat
    BY SizesRange
  <2> QED
    BY <1>2, <1>4, <2>1, RegisterWriteInv DEF SetupRing, Setup
<1>7. HostTypeOK' /\ CountersOrdered'
  <2>1. session' \in {"addr_lo", "addr_hi", "size", "ctrl", "running"}
    BY DEF SetupRing, Setup
  <2>2. HostTypeOK'
    BY <1>1, <1>2, <1>6, <2>1 DEF HostTypeOK, RingInv
  <2>3. CountersOrdered'
    BY <1>1, <1>3, Numbers DEF CountersOrdered, Reapable
  <2> QED
    BY <2>2, <2>3
<1>8. ASSUME session # "ctrl"
      PROVE  SetUp' /\ pc' = "idle" /\ session' # "running"
  BY <1>1, <1>2, <1>4, <1>5, <1>8
  DEF SetUp, SetupRing, Setup, WriteConfig, WriteAddrLo, WriteAddrHi, WriteSize,
      Resized, cfgVars, regVars, passVars
<1>9. ASSUME session = "ctrl"
      PROVE  SetUp' /\ Window' /\ pc' = "idle" /\ session' = "running"
  <2>1. /\ session' = "running" /\ pc' = "idle"
        /\ UNCHANGED <<ring_addr, ring_size, ring_head, ring_tail, cfgVars>>
    BY <1>2, <1>9
    DEF SetUp, SetupRing, Setup, WriteCtrl, WorkWaits, passVars
  <2>2. SetUp'
    BY <1>2, <1>9, <2>1 DEF SetUp, cfgVars
  <2>3. ring_size \in Nat /\ ring_size > 0
    BY <1>2, <1>9, SizesRange DEF SetUp
  <2>4. SlotOf(base + 1) = 0 /\ ring_head = 0 /\ ring_tail = 0
    BY <1>2, <1>9, <2>3, SlotFirst, Numbers DEF SetUp
  <2>5. SlotOf(base + 1)' = SlotOf(base + 1)
    BY <1>1, <2>1 DEF SlotOf
  <2>6. Window'
    BY <1>1, <1>2, <1>3, <2>1, <2>3, <2>4, <2>5, Numbers DEF Window
  <2> QED
    BY <2>1, <2>2, <2>6
<1>10. RequestsHeld'
  BY <1>1, <1>2, <1>3, Numbers DEF RequestsHeld
<1> QED
  BY <1>6, <1>7, <1>8, <1>9, <1>10
  DEF HostInv, Window, NextInOrder, FetchedUnchanged, StatusFinal, Busy

-----------------------------------------------------------------------------
(* The steps of the host in a running session.                              *)

\* While there is room, the slot to post in is none of the slots of requests
\* that are not reaped, nor the one the device works on.
LEMMA RoomIsFree ==
  ASSUME HostInv, session = "running", Room
  PROVE  /\ nposted + 1 - nreaped < ring_size
         /\ \A j \in nreaped + 1 .. nposted : SlotOf(nposted + 1) # SlotOf(j)
         /\ \A j \in Executed + 1 .. nposted : SlotOf(nposted + 1) # SlotOf(j)
         /\ Executed < nposted => SlotOf(nposted + 1) # ring_head
<1>1. /\ nposted + 1 - nreaped < ring_size
      /\ nreaped <= Executed + 1
  BY Numbers DEF Room, HostInv, CountersOrdered, Reapable
<1>2. \A j \in nreaped + 1 .. nposted : SlotOf(nposted + 1) # SlotOf(j)
  BY <1>1, SlotDistinct, Numbers
<1>3. \A j \in Executed + 1 .. nposted : SlotOf(nposted + 1) # SlotOf(j)
  BY <1>1, SlotDistinct, Numbers
<1>4. ring_head = SlotOf(Executed + 1)
  BY DEF HostInv, Window
<1> QED
  BY <1>1, <1>2, <1>3, <1>4, Numbers

\* What posting a request does to memory, by type (the fill loop of
\* test_ring_dma.cpp).
LEMMA PostTypes ==
  ASSUME HostInv, NEW int \in BOOLEAN, Post(int)
  PROVE  /\ RingInv'
         /\ SlotOf(nposted + 1) \in Slots
         /\ SrcOf(SlotOf(nposted + 1)) \in Addrs
         /\ DstOf(SlotOf(nposted + 1)) \in Addrs
<1> DEFINE i == SlotOf(nposted + 1)
<1>1. i \in Slots
  BY SlotRange, Numbers DEF Post, Slots
<1>2. SrcOf(i) \in Addrs /\ DstOf(i) \in Addrs
  <2>1. i \in Int /\ 0 <= i /\ i <= MaxRingSize - 1 /\ MaxRingSize \in Nat
    BY <1>1, Numbers DEF Slots
  <2> HIDE DEF i
  <2>2. 2 * i \in 0 .. 2 * MaxRingSize - 1 /\ 2 * i + 1 \in 0 .. 2 * MaxRingSize - 1
    BY <2>1
  <2> QED
    BY <2>2, HostAssumption DEF SrcOf, DstOf, Addrs
<1>3. nposted + 1 \in Data /\ nposted + 1 \in Tags /\ 0 \in Data /\ 1 \in Lens
  BY HostAssumption, Numbers DEF Post
<1> DEFINE d == [tag |-> nposted + 1, src |-> SrcOf(i), dst |-> DstOf(i),
                 len |-> 1, valid |-> TRUE, int |-> int, status |-> "pending"]
<1>4. d \in Descs
  BY <1>2, <1>3 DEF Descs
<1>5. /\ ring' = [ring EXCEPT ![i] = d]
      /\ data' = [data EXCEPT ![SrcOf(i)] = nposted + 1, ![DstOf(i)] = 0]
  BY DEF Post, Fill
<1> HIDE DEF d, i
<1>6. ring' \in [Slots -> Descs] /\ data' \in [Addrs -> Data]
  BY <1>3, <1>4, <1>5 DEF HostInv, RingInv, RingTypeOK
<1>7. RingInv'
  BY <1>6
  DEF Post, HostInv, RingInv, RingTypeOK, IndexBounds, OwnedSlot, SizeLegal,
      BufFilled, Busy, regVars, cfgVars, passVars
<1> QED
  BY <1>1, <1>2, <1>7 DEF i

\* Filling the next slot disturbs no request that waits (test_ring_dma.cpp).
LEMMA PostInv ==
  ASSUME HostInv, NEW int \in BOOLEAN, Post(int)
  PROVE  HostInv'
<1>1. /\ session = "running" /\ Room /\ nposted < NJobs /\ nposted' = nposted + 1
      /\ UNCHANGED <<regVars, cfgVars, passVars, session, base, nrung, nreaped, log>>
  BY DEF Post
<1>2. RingInv' /\ SlotOf(nposted + 1) \in Slots
  BY PostTypes
<1>3. Executed' = Executed /\ \A j : SlotOf(j)' = SlotOf(j)
  BY <1>1 DEF Executed, SlotOf, regVars
<1>4. HostTypeOK'
  BY <1>1, <1>2, Numbers DEF HostInv, HostTypeOK, RingInv
<1>5. SetUp'
  BY <1>1 DEF HostInv, SetUp, regVars, cfgVars, passVars
<1>6. CountersOrdered'
  BY <1>1, <1>3 DEF HostInv, CountersOrdered, Reapable, passVars
<1>7. Window'
  BY <1>1, <1>3, RoomIsFree, Numbers DEF HostInv, Window, regVars
<1>8. /\ \A i \in Slots : i # SlotOf(nposted + 1) => ring'[i] = ring[i]
      /\ ring'[SlotOf(nposted + 1)] =
           [tag |-> nposted + 1, src |-> SrcOf(SlotOf(nposted + 1)),
            dst |-> DstOf(SlotOf(nposted + 1)), len |-> 1, valid |-> TRUE,
            int |-> int, status |-> "pending"]
  BY <1>2 DEF Post, Fill, HostInv, RingInv, RingTypeOK
<1>9. RequestsHeld'
  <2> SUFFICES ASSUME NEW j \in Executed + 1 .. nposted + 1
               PROVE  /\ Request(ring'[SlotOf(j)], j)
                      /\ ring'[SlotOf(j)].status = "pending"
                         \/ (j = Executed + 1 /\ pc = "retire")
    BY <1>1, <1>3 DEF RequestsHeld, Request, passVars
  <2>1. CASE j = nposted + 1
    BY <1>8, <2>1 DEF Request
  <2>2. CASE j \in Executed + 1 .. nposted
    <3>1. ring'[SlotOf(j)] = ring[SlotOf(j)]
      BY <1>1, <1>8, <2>2, RoomIsFree, SlotRange, Numbers DEF Slots
    <3> QED
      BY <1>1, <2>2, <3>1 DEF HostInv, RequestsHeld
  <2> QED
    BY <2>1, <2>2, Numbers
<1>10. NextInOrder' /\ StatusFinal'
  BY <1>1, <1>3 DEF HostInv, NextInOrder, StatusFinal, passVars
<1>11. FetchedUnchanged'
  <2>1. pc \in Busy => ring'[ring_head] = ring[ring_head]
    BY <1>1, <1>8, RoomIsFree, Numbers
    DEF HostInv, NextInOrder, RingInv, RingTypeOK
  <2> QED
    BY <1>1, <2>1 DEF HostInv, FetchedUnchanged, passVars, regVars
<1> QED
  BY <1>2, <1>4, <1>5, <1>6, <1>7, <1>9, <1>10, <1>11 DEF HostInv

\* Ringing the doorbell hands over what was posted; it finds the device idle,
\* and the tail it writes is a slot, so the device takes it as it is
\* (lines 685-694).
LEMMA DoorbellInv ==
  ASSUME HostInv, RingDoorbell
  PROVE  HostInv'
<1>1. /\ session = "running" /\ pc = "idle" /\ pc' \in {"idle", "loop"}
      /\ ring_tail' = SlotOf(nposted + 1) % ring_size /\ nrung' = nposted
      /\ UNCHANGED <<ring_addr, ring_size, ring_head, ring_enabled, cfgVars,
                     memVars, session, base, nposted, nreaped, log>>
  BY DEF RingDoorbell, WriteTail, TailOf, StartPass, passVars
<1>2. SlotOf(nposted + 1) \in 0 .. ring_size - 1
  BY <1>1, SlotRange, Numbers
<1>3. RingInv'
  BY <1>2, RegisterWriteInv DEF HostInv, RingDoorbell
<1>4. ring_tail' = SlotOf(nposted + 1)
  <2>1. SlotOf(nposted + 1) = ring_size * 0 + SlotOf(nposted + 1)
    BY <1>2, Numbers
  <2> QED
    BY <1>1, <1>2, <2>1, ModOfSum, Numbers
<1>5. Executed' = Executed /\ \A j : SlotOf(j)' = SlotOf(j)
  BY <1>1 DEF Executed, SlotOf
<1>6. HostTypeOK'
  BY <1>1, <1>3, Numbers DEF HostInv, HostTypeOK, RingInv
<1>7. SetUp'
  BY <1>1 DEF HostInv, SetUp, cfgVars
<1>8. nreaped <= Executed
  BY <1>1 DEF HostInv, CountersOrdered, Reapable
<1>9. CountersOrdered' /\ Window'
  BY <1>1, <1>4, <1>5, <1>8, Numbers
  DEF HostInv, CountersOrdered, Reapable, Window
<1>10. RequestsHeld'
  BY <1>1, <1>5 DEF HostInv, RequestsHeld, Request, memVars
<1> QED
  BY <1>1, <1>3, <1>6, <1>7, <1>9, <1>10
  DEF HostInv, NextInOrder, FetchedUnchanged, StatusFinal, Busy

\* Pausing or resuming the ring changes none of its indices (lines 696-701).
LEMMA ControlInv ==
  ASSUME HostInv, NEW enable \in BOOLEAN, Control(enable)
  PROVE  HostInv'
<1>1. /\ session = "running" /\ pc = "idle" /\ pc' \in {"idle", "loop"}
      /\ UNCHANGED <<ring_addr, ring_size, ring_head, ring_tail, cfgVars,
                     memVars, hostVars, log>>
  BY DEF Control, WriteCtrl, StartPass, passVars
<1>2. RingInv'
  BY RegisterWriteInv DEF HostInv, Control
<1>3. Executed' = Executed /\ \A j : SlotOf(j)' = SlotOf(j)
  BY <1>1 DEF Executed, SlotOf, hostVars
<1>4. HostTypeOK' /\ SetUp'
  BY <1>1, <1>2 DEF HostInv, HostTypeOK, SetUp, RingInv, cfgVars, hostVars
<1>5. CountersOrdered' /\ Window'
  BY <1>1, <1>3, Numbers DEF HostInv, CountersOrdered, Reapable, Window, hostVars
<1>6. RequestsHeld'
  BY <1>1, <1>3 DEF HostInv, RequestsHeld, Request, memVars, hostVars
<1> QED
  BY <1>1, <1>2, <1>4, <1>5, <1>6
  DEF HostInv, NextInOrder, FetchedUnchanged, StatusFinal, Busy

\* The request whose status has changed is one the device has retired, or is
\* retiring.
LEMMA ReapIsReapable ==
  ASSUME HostInv, Reap
  PROVE  nreaped + 1 <= Reapable
<1>1. nreaped \in Nat /\ nreaped < nposted /\ nreaped <= Reapable
      /\ Executed \in Nat /\ Reapable \in {Executed, Executed + 1}
  BY Numbers DEF Reap, Outstanding, HostInv, CountersOrdered, Reapable
<1> SUFFICES ASSUME nreaped = Reapable PROVE FALSE
  BY <1>1
<1>2. nreaped + 1 \in Executed + 1 .. nposted
  BY <1>1, Numbers
<1>3. nreaped + 1 = Executed + 1 /\ pc = "retire"
  BY <1>2 DEF Reap, HostInv, RequestsHeld
<1> QED
  BY <1>1, <1>3 DEF Reapable

\* Taking a request whose status was written frees a slot behind the head.
LEMMA ReapInv ==
  ASSUME HostInv, Reap
  PROVE  HostInv'
<1>1. /\ session = "running" /\ nreaped' = nreaped + 1 /\ nreaped < nposted
      /\ UNCHANGED <<ringVars, session, base, nposted, nrung, log>>
  BY DEF Reap, Outstanding
<1> USE <1>1 DEF ringVars, regVars, cfgVars, passVars, memVars
<1>2. Executed' = Executed /\ Reapable' = Reapable /\ \A j : SlotOf(j)' = SlotOf(j)
  BY DEF Executed, Reapable, SlotOf
<1>3. RingInv'
  BY DEF HostInv, RingInv, RingTypeOK, IndexBounds, OwnedSlot, SizeLegal,
         BufFilled, Busy
<1>4. HostTypeOK' /\ SetUp'
  BY <1>3, Numbers DEF HostInv, HostTypeOK, SetUp, RingInv
<1>5. CountersOrdered' /\ Window'
  BY <1>2, ReapIsReapable, Numbers DEF HostInv, CountersOrdered, Window
<1>6. RequestsHeld' /\ NextInOrder' /\ FetchedUnchanged' /\ StatusFinal'
  BY <1>2
  DEF HostInv, RequestsHeld, Request, NextInOrder, FetchedUnchanged, StatusFinal
<1> QED
  BY <1>3, <1>4, <1>5, <1>6 DEF HostInv

\* Taking the interrupt touches nothing the requests depend on, and a step
\* that changes nothing keeps everything.
LEMMA QuietInv ==
  ASSUME HostInv, WaitInterrupt \/ UNCHANGED vars
  PROVE  HostInv'
<1>1. /\ irq' \in BOOLEAN
      /\ UNCHANGED <<regVars, cfgVars, passVars, memVars, hostVars, log>>
  BY DEF WaitInterrupt, TakeInterrupt, vars, ringVars, HostInv, RingInv, RingTypeOK
<1> USE <1>1 DEF regVars, cfgVars, passVars, memVars, hostVars
<1>2. Executed' = Executed /\ Reapable' = Reapable /\ \A j : SlotOf(j)' = SlotOf(j)
  BY DEF Executed, Reapable, SlotOf
<1>3. RingInv'
  BY DEF HostInv, RingInv, RingTypeOK, IndexBounds, OwnedSlot, SizeLegal,
         BufFilled, Busy
<1>4. HostTypeOK' /\ SetUp' /\ CountersOrdered' /\ Window'
  BY <1>2, <1>3
  DEF HostInv, HostTypeOK, SetUp, RingInv, CountersOrdered, Window
<1>5. RequestsHeld' /\ NextInOrder' /\ FetchedUnchanged' /\ StatusFinal'
  BY <1>2
  DEF HostInv, RequestsHeld, Request, NextInOrder, FetchedUnchanged, StatusFinal
<1> QED
  BY <1>3, <1>4, <1>5 DEF HostInv

-----------------------------------------------------------------------------
(* The invariant.                                                           *)

\* Every step of the ring and its host keeps the invariant.
LEMMA HostNextInv ==
  ASSUME HostInv, [Next]_vars
  PROVE  HostInv'
BY DeviceInv, OpenInv, SetupRingInv, DieInv, PostInv, DoorbellInv, ControlInv,
   ReapInv, QuietInv
DEF Next, Host

\* The ring and its host keep the inductive invariant.
THEOREM HostInvariance == Spec => []HostInv
<1>1. HostInit => HostInv
  BY HostInitInv
<1>2. HostInv /\ [Next]_vars => HostInv'
  BY HostNextInv
<1> QED
  BY <1>1, <1>2, PTL DEF Spec

\* The host's counters keep their order and the device its types, in every
\* session.
THEOREM HostTypeCorrect == Spec => []HostTypeOK
<1>1. HostInv => HostTypeOK
  BY DEF HostInv
<1> QED
  BY <1>1, HostInvariance, PTL

\* The device executes the requests of the session in order, each once, and
\* only those rung for (lines 612-640).
THEOREM ExecutesInOrder == Spec => []NextInOrder
<1>1. HostInv => NextInOrder
  BY DEF HostInv
<1> QED
  BY <1>1, HostInvariance, PTL

\* The descriptor the device has copied stays the one in the ring until it is
\* retired (lines 563, 599).
THEOREM FetchedStays == Spec => []FetchedUnchanged
<1>1. HostInv => FetchedUnchanged
  BY DEF HostInv
<1> QED
  BY <1>1, HostInvariance, PTL

-----------------------------------------------------------------------------
(* The queue the ring implements.                                           *)

\* The requests after e up to n.
Numbered(e, n) == [i \in 1 .. n - e |-> e + i]

\* The first of the waiting requests is the one after the last executed, and
\* without it the others wait (edu_ring_process_one takes the head's).
LEMMA NumberedTail ==
  ASSUME NEW e \in Nat, NEW n \in Nat, e < n
  PROVE  /\ Numbered(e, n) # <<>> /\ Head(Numbered(e, n)) = e + 1
         /\ Tail(Numbered(e, n)) = Numbered(e + 1, n)
<1> DEFINE s == Numbered(e, n)
<1>1. n - e \in Nat /\ n - e > 0 /\ s = [i \in 1 .. n - e |-> e + i]
  BY DEF Numbered
<1>2. s \in Seq(Nat) /\ Len(s) = n - e
  <2>1. \A i \in 1 .. n - e : e + i \in Nat
    BY <1>1
  <2> HIDE DEF s
  <2> QED
    BY <1>1, <2>1
<1> HIDE DEF s
<1>3. s # <<>> /\ Head(s) = e + 1
  BY <1>1, <1>2
<1>4. Tail(s) = [i \in 1 .. n - e - 1 |-> s[i + 1]]
  BY <1>1, <1>2
<1>5. \A i \in 1 .. n - e - 1 : s[i + 1] = (e + 1) + i
  BY <1>1
<1>6. [i \in 1 .. n - e - 1 |-> s[i + 1]] = Numbered(e + 1, n)
  <2>1. n - e - 1 = n - (e + 1)
    OBVIOUS
  <2> QED
    BY <1>5, <2>1 DEF Numbered
<1> QED
  BY <1>3, <1>4, <1>6 DEF s

\* A request posted waits behind the others.
LEMMA NumberedAppend ==
  ASSUME NEW e \in Nat, NEW n \in Nat, e <= n
  PROVE  Numbered(e, n + 1) = Append(Numbered(e, n), n + 1)
<1> DEFINE s == Numbered(e, n)
<1>1. n - e \in Nat /\ s = [i \in 1 .. n - e |-> e + i]
  BY DEF Numbered
<1>2. s \in Seq(Nat) /\ Len(s) = n - e
  <2>1. \A i \in 1 .. n - e : e + i \in Nat
    BY <1>1
  <2> HIDE DEF s
  <2> QED
    BY <1>1, <2>1
<1> HIDE DEF s
<1>3. Append(s, n + 1) =
        [i \in 1 .. n - e + 1 |-> IF i = n - e + 1 THEN n + 1 ELSE s[i]]
  BY <1>1, <1>2
<1>4. \A i \in 1 .. n - e + 1 :
        (IF i = n - e + 1 THEN n + 1 ELSE s[i]) = e + i
  BY <1>1
<1>5. [i \in 1 .. n - e + 1 |-> IF i = n - e + 1 THEN n + 1 ELSE s[i]]
      = Numbered(e, n + 1)
  <2>1. (n + 1) - e = n - e + 1
    OBVIOUS
  <2> QED
    BY <1>4, <2>1 DEF Numbered
<1> QED
  BY <1>3, <1>5 DEF s

\* Every step of the ring is a step of the queue or leaves it alone: a request
\* is posted, the oldest is executed, or a session ends and abandons what it
\* posted.
LEMMA StepRefines ==
  ASSUME HostInv, [Next]_vars
  PROVE  [Queue!Next]_Queue!vars
<1> SUFFICES Queue!Next \/ UNCHANGED Queue!vars
  OBVIOUS
<1>1. CASE Device
  <2>1. UNCHANGED <<base, nposted>>
    BY <1>1 DEF Device, hostVars
  <2>2. CASE pc = "retire"
    <3>1. /\ log' = Append(log, Executed + 1) /\ Executed' = Executed + 1
          /\ Executed < nposted
      BY <1>1, <2>2, RetireExecutes, Numbers DEF HostInv, NextInOrder, Busy
    <3>2. /\ Waiting # <<>> /\ Head(Waiting) = Executed + 1
          /\ Waiting' = Tail(Waiting)
      <4>1. /\ Waiting = Numbered(Executed, nposted)
            /\ Waiting' = Numbered(Executed + 1, nposted)
        BY <2>1, <3>1 DEF Waiting, Numbered
      <4> QED
        BY <3>1, <4>1, NumberedTail, Numbers
    <3> QED
      BY <2>1, <3>1, <3>2 DEF Queue!Execute, Queue!Next, Unposted
  <2>3. CASE pc # "retire"
    BY <1>1, <2>1, <2>3 DEF Device, Executed, Waiting, Unposted, Queue!vars
  <2> QED
    BY <2>2, <2>3
<1>2. CASE \E int \in BOOLEAN : Post(int)
  <2>1. /\ nposted < NJobs /\ nposted' = nposted + 1
        /\ UNCHANGED <<base, log>> /\ Executed' = Executed
    BY <1>2 DEF Post, Executed
  <2>2. Waiting' = Append(Waiting, nposted + 1)
    <3>1. /\ Waiting = Numbered(Executed, nposted)
          /\ Waiting' = Numbered(Executed, nposted + 1)
      BY <2>1 DEF Waiting, Numbered
    <3>2. Executed <= nposted
      BY Numbers
    <3> QED
      BY <3>1, <3>2, NumberedAppend, Numbers
  <2>3. /\ nposted + 1 \in 1 .. NJobs /\ nposted + 1 \in Unposted
        /\ Unposted' = Unposted \ {nposted + 1}
    BY <2>1, Numbers DEF Unposted
  <2>4. Queue!Post(nposted + 1)
    BY <2>1, <2>2, <2>3 DEF Queue!Post
  <2> QED
    BY <2>3, <2>4 DEF Queue!Next
<1>3. CASE Die
  <2>1. nposted' = nposted /\ log' = log /\ base' = nposted
    BY <1>3 DEF Die
  <2>2. Executed' = nposted
    BY <1>3, DieExecuted
  <2>3. Waiting' = <<>>
    BY <2>1, <2>2, Numbers DEF Waiting
  <2> QED
    BY <2>1, <2>3 DEF Queue!Abandon, Queue!Next, Unposted
<1>4. CASE UNCHANGED <<base, nposted, log>>
  BY <1>4 DEF Executed, Waiting, Unposted, Queue!vars
<1> QED
  BY <1>1, <1>2, <1>3, <1>4
  DEF Next, Host, Open, SetupRing, Setup, RingDoorbell, Control, Reap,
      WaitInterrupt, hostVars, vars

\* The ring with its host implements the queue of JobQueue: whatever the
\* interleaving, the device executes posted requests in order, each at most
\* once, and none of an earlier session (lines 548-640).
THEOREM RefinesQueue == Spec => ImplementsQueue
<1>1. HostInit => Queue!Init
  <2> SUFFICES ASSUME HostInit PROVE Queue!Init
    OBVIOUS
  <2>1. nposted = 0 /\ log = <<>> /\ Executed = 0
    BY DEF HostInit, Executed
  <2>2. Unposted = 1 .. NJobs /\ Waiting = <<>>
    BY <2>1 DEF Unposted, Waiting
  <2> QED
    BY <2>1, <2>2 DEF Queue!Init
<1>2. HostInv /\ [Next]_vars => [Queue!Next]_Queue!vars
  BY StepRefines
<1> QED
  BY <1>1, <1>2, HostInvariance, PTL DEF Spec, ImplementsQueue, Queue!Spec

\* What is proved of the queue, of the ring.
QueueProofs == INSTANCE JobQueueProofs WITH
  Jobs <- 1 .. NJobs, fresh <- Unposted, todo <- Waiting, done <- log

\* No request is executed twice by the device, and none that still waits was
\* executed: over wrap-around, repeated doorbells, pauses and restarts.
THEOREM RequestsExecutedOnce == Spec => []QueueProofs!AtMostOnce
<1>1. HostInit => QueueProofs!Init
  <2> SUFFICES ASSUME HostInit PROVE QueueProofs!Init
    OBVIOUS
  <2>1. nposted = 0 /\ log = <<>> /\ Executed = 0
    BY DEF HostInit, Executed
  <2>2. Unposted = 1 .. NJobs /\ Waiting = <<>>
    BY <2>1 DEF Unposted, Waiting
  <2> QED
    BY <2>1, <2>2 DEF QueueProofs!Init
<1>2. HostInv /\ [Next]_vars => [QueueProofs!Next]_QueueProofs!vars
  BY StepRefines
  DEF Queue!Next, Queue!vars, Queue!Post, Queue!Execute, Queue!Abandon,
      QueueProofs!Next, QueueProofs!vars, QueueProofs!Post,
      QueueProofs!Execute, QueueProofs!Abandon
<1>3. QueueProofs!Spec => []QueueProofs!AtMostOnce
  BY QueueProofs!ExecutedOnce
<1> QED
  BY <1>1, <1>2, <1>3, HostInvariance, PTL DEF Spec, QueueProofs!Spec

-----------------------------------------------------------------------------
(* A pass drains the ring when no fetch fails.                              *)

\* A pass has iterations left for every request that waits, and each one that
\* it uses retires a request (lines 617-627).
LEMMA RoundsLeftStep ==
  ASSUME "fetch" \notin Faulty, HostInv, RoundsLeft, [Next]_vars
  PROVE  RoundsLeft'
<1> USE DEF RoundsLeft, Busy
<1>1. CASE Device
  <2>1. PassStep /\ session = "running" /\ UNCHANGED <<session, base, nrung>>
    BY <1>1, PassLeaves DEF Device, hostVars, HostInv, SetUp, Busy
  <2>2. ring_size' = ring_size /\ ring_enabled' = ring_enabled /\ count \in Nat
    BY <2>1, PassLeaves DEF HostInv, RingInv, RingTypeOK
  <2>3. CASE pc = "retire"
    <3>1. Executed' = Executed + 1 /\ Executed < nrung
      BY <1>1, <2>3, RetireExecutes DEF HostInv, NextInOrder
    <3>2. count' = count + 1 /\ pc' = "loop"
      BY <2>1, <2>3
      DEF PassStep, PassReturns, FetchFails, FetchInvalid, FetchValid,
          ReadSource, ReadSourceFails, WriteDest, WriteDestFails, WriteStatus,
          WriteStatusFails, Retire, NextIteration, Counted
    <3> QED
      BY <2>1, <2>2, <2>3, <3>1, <3>2, Numbers
  <2>4. CASE PassReturns
    <3>1. pc = "loop" /\ ~HasWork
      BY <2>4 DEF PassReturns
    <3>2. count < ring_size
      BY <2>2, <3>1, Numbers
    <3>3. ring_head = ring_tail
      BY <3>1, <3>2 DEF HasWork
    <3>4. Executed = nrung
      BY <2>1, <3>3, SlotDistinct, Numbers DEF HostInv, Window
    <3>5. Executed' = Executed /\ pc' = "idle"
      BY <1>1, <3>1, <2>4 DEF Device, Executed, hostVars, PassReturns
    <3> QED
      BY <2>1, <3>4, <3>5
  <2>5. CASE pc # "retire" /\ ~PassReturns
    <3>1. Executed' = Executed
      BY <1>1, <2>5 DEF Device, Executed, hostVars
    <3>2. ~FetchFails /\ ~FetchInvalid
      <4>1. DmaOk(RingMapped) /\ ~DmaErr("fetch", RingMapped)
        BY <2>1 DEF HostInv, SetUp, DmaOk, DmaErr, RingMapped
      <4>2. ASSUME pc = "loop", HasWork PROVE ring[ring_head].valid
        <5>1. Executed + 1 \in Executed + 1 .. nposted /\ ring_head = SlotOf(Executed + 1)
          BY <2>1, <4>2, Numbers DEF HasWork, HostInv, Window
        <5> QED
          BY <2>1, <5>1 DEF HostInv, RequestsHeld, Request
      <4> QED
        BY <4>1, <4>2 DEF FetchFails, FetchInvalid
    <3>3. count' = count /\ pc' \in Busy
      BY <2>1, <2>5, <3>2
      DEF PassStep, FetchValid, ReadSource, ReadSourceFails, WriteDest,
          WriteDestFails, WriteStatus, WriteStatusFails, Retire
    <3> QED
      BY <2>1, <2>2, <3>1, <3>3, PassLeaves
  <2> QED
    BY <2>3, <2>4, <2>5
<1>2. CASE RingDoorbell
  <2>1. Executed' = Executed /\ nreaped <= Executed /\ session = "running"
    BY <1>2 DEF RingDoorbell, WriteTail, Executed, HostInv, CountersOrdered, Reapable
  <2>2. nposted - Executed < ring_size
    BY <2>1, Numbers DEF HostInv, Window
  <2>3. /\ pc' = IF ring_enabled THEN "loop" ELSE "idle"
        /\ pc' = "loop" => count' = 0
        /\ nrung' = nposted /\ UNCHANGED <<ring_size, ring_enabled>>
    BY <1>2, <2>1, Numbers DEF RingDoorbell, WriteTail, StartPass, passVars
  <2> QED
    BY <2>1, <2>2, <2>3, Numbers
<1>3. ASSUME NEW b \in BOOLEAN, Control(b) PROVE RoundsLeft'
  <2>1. /\ Executed' = Executed /\ session = "running" /\ pc = "idle"
        /\ UNCHANGED <<nrung, ring_size>> /\ ring_enabled' = b
    BY <1>3 DEF Control, WriteCtrl, Executed, hostVars
  <2>2. ring_size > 0 /\ ring_size \in Nat
    BY <2>1, Numbers
  <2>3. CASE b /\ ring_head # ring_tail
    <3>1. pc' = "loop" /\ count' = 0
      BY <1>3, <2>2, <2>3 DEF Control, WriteCtrl, WorkWaits, StartPass
    <3> QED
      BY <2>1, <3>1, Numbers DEF HostInv, Window
  <2>4. CASE ~(b /\ ring_head # ring_tail)
    <3>1. pc' = "idle"
      BY <1>3, <2>1, <2>4 DEF Control, WriteCtrl, WorkWaits, passVars
    <3>2. b => Executed = nrung
      BY <2>1, <2>2, <2>4, SlotDistinct, Numbers DEF HostInv, Window
    <3> QED
      BY <2>1, <3>1, <3>2
  <2> QED
    BY <2>3, <2>4
<1>4. CASE Open \/ Die
  BY <1>4 DEF Open, Die, ringVars, passVars
<1>5. CASE SetupRing
  <2>1. HostInv'
    BY <1>5, SetupRingInv
  <2>2. pc' = "idle" /\ (session' = "running" => Executed' = nrung')
    <3>1. session # "running" /\ UNCHANGED <<base, nrung, nposted, log>>
      BY <1>5 DEF SetupRing, Setup
    <3>2. pc = "idle" /\ base = nposted /\ (session = "ctrl" => ring_head = ring_tail)
      BY <3>1 DEF HostInv, SetUp
    <3>3. Executed' = Executed /\ Executed = nrung
      BY <3>1, <3>2, Numbers DEF Executed
    <3>4. pc' = "idle"
      BY <1>5, <3>2
      DEF SetupRing, Setup, WriteConfig, WriteAddrLo, WriteAddrHi, WriteSize,
          WriteCtrl, WorkWaits, passVars
    <3> QED
      BY <3>1, <3>3, <3>4
  <2> QED
    BY <2>2
<1>6. CASE UNCHANGED <<pc, count, nrung, base, log, session, ring_size, ring_enabled>>
  BY <1>6 DEF Executed
<1> QED
  BY <1>1, <1>2, <1>3, <1>4, <1>5, <1>6
  DEF Next, Host, Post, Reap, WaitInterrupt, TakeInterrupt, vars, ringVars,
      regVars, passVars, hostVars

\* Control returns to a host with the ring enabled only when all it rang for is
\* executed, if no fetch of a descriptor fails: no doorbell and no resume is
\* lost (lines 612-640, 685-701).
THEOREM DrainedWhenIdle == "fetch" \notin Faulty => (Spec => []DrainedAtIdle)
<1> SUFFICES ASSUME "fetch" \notin Faulty PROVE Spec => []DrainedAtIdle
  OBVIOUS
<1>1. HostInit => RoundsLeft
  BY DEF HostInit, RingInit, RoundsLeft, Busy
<1>2. HostInv /\ RoundsLeft /\ [Next]_vars => RoundsLeft'
  BY RoundsLeftStep
<1>3. HostInv /\ RoundsLeft => DrainedAtIdle
  BY DEF HostInv, RoundsLeft, Window, DrainedAtIdle, ReadRegs
<1> QED
  BY <1>1, <1>2, <1>3, HostInvariance, PTL DEF Spec

-----------------------------------------------------------------------------
(* The interrupt comes after the status when no status write fails.         *)

\* What the device is done with shows a final status until it is reaped and
\* its slot used again (lines 593-608).
LEMMA StatusShownStep ==
  ASSUME "status" \notin Faulty, HostInv, StatusShown, [Next]_vars
  PROVE  StatusShown'
<1> USE DEF StatusShown
<1>1. CASE Device
  <2>1. /\ PassStep /\ session = "running"
        /\ UNCHANGED <<session, base, nposted, nrung, nreaped>>
    BY <1>1, PassLeaves DEF Device, hostVars, HostInv, SetUp, Busy
  <2>2. \A j : SlotOf(j)' = SlotOf(j)
    BY <2>1, PassLeaves DEF SlotOf
  <2>3. CASE pc = "retire"
    <3>1. Executed' = Executed + 1 /\ ring' = ring
      BY <1>1, <2>1, <2>3, RetireExecutes, PassLeaves
    <3>2. pc' = "loop"
      BY <2>1, <2>3
      DEF PassStep, PassReturns, FetchFails, FetchInvalid, FetchValid,
          ReadSource, ReadSourceFails, WriteDest, WriteDestFails, WriteStatus,
          WriteStatusFails, Retire, NextIteration
    <3> QED
      BY <2>1, <2>2, <2>3, <3>1, <3>2 DEF Reapable
  <2>4. CASE WriteStatus
    <3>1. /\ pc = "writeback" /\ pc' = "retire" /\ desc.status # "pending"
          /\ ring' = [ring EXCEPT ![ring_head].status = desc.status]
      BY <2>4 DEF WriteStatus, HostInv, StatusFinal
    <3>2. Executed' = Executed /\ ring_head = SlotOf(Executed + 1)
      BY <1>1, <2>1, <3>1 DEF Device, Executed, HostInv, Window
    <3>3. ring \in [Slots -> Descs] /\ \A j \in Int : SlotOf(j) \in Slots
      BY <2>1, SlotTypes
    <3> SUFFICES ASSUME NEW j \in nreaped + 1 .. Executed + 1
                 PROVE  ring'[SlotOf(j)].status # "pending"
      BY <2>1, <2>2, <3>1, <3>2 DEF Reapable
    <3>4. CASE SlotOf(j) = ring_head
      BY <3>1, <3>3, <3>4, Numbers DEF Descs
    <3>5. CASE SlotOf(j) # ring_head
      <4>1. j \in nreaped + 1 .. Executed
        BY <3>2, <3>5, Numbers
      <4> QED
        BY <2>1, <3>1, <3>3, <3>5, <4>1, Numbers DEF Reapable
    <3> QED
      BY <3>4, <3>5
  <2>5. CASE pc # "retire" /\ ~WriteStatus
    <3>1. ring' = ring /\ pc' # "retire"
      <4>1. ~WriteStatusFails
        BY <2>1 DEF WriteStatusFails, DmaErr, RingMapped, HostInv, SetUp
      <4> QED
        BY <2>1, <2>5, <4>1
        DEF PassStep, PassReturns, FetchFails, FetchInvalid, FetchValid,
            ReadSource, ReadSourceFails, WriteDest, WriteDestFails, Retire,
            NextIteration, memVars
    <3> QED
      BY <1>1, <2>1, <2>2, <2>5, <3>1 DEF Device, Executed, Reapable
  <2> QED
    BY <2>3, <2>4, <2>5
<1>2. ASSUME NEW int \in BOOLEAN, Post(int) PROVE StatusShown'
  <2>1. /\ session = "running" /\ Room
        /\ UNCHANGED <<ring_size, pc, session, base, nreaped, log>>
    BY <1>2 DEF Post, regVars, passVars
  <2>2. Reapable' = Reapable /\ \A j : SlotOf(j)' = SlotOf(j)
    BY <2>1 DEF Reapable, Executed, SlotOf
  <2>3. ring \in [Slots -> Descs] /\ \A j \in Int : SlotOf(j) \in Slots
    BY <2>1, SlotTypes
  <2>4. Reapable <= nposted /\ Reapable \in Int
    BY Numbers DEF Reapable, HostInv, NextInOrder, Busy
  <2>5. \A j \in nreaped + 1 .. Reapable : ring'[SlotOf(j)] = ring[SlotOf(j)]
    BY <1>2, <2>1, <2>3, <2>4, RoomIsFree, Numbers DEF Post, Fill
  <2> QED
    BY <2>1, <2>2, <2>5
<1>3. CASE Open \/ SetupRing \/ Die
  <2>1. CASE session' # "running"
    BY <2>1
  <2>2. CASE session' = "running"
    <3>1. pc = "idle" /\ base = nposted /\ UNCHANGED <<base, nreaped, nposted, log>>
      BY <1>3, <2>2 DEF Open, SetupRing, Setup, Die, HostInv, SetUp
    <3>2. Executed' = nreaped' /\ nreaped' \in Nat
      BY <3>1, Numbers DEF Executed
    <3>3. pc' # "retire"
      BY <1>3, <2>2, <3>1 DEF Open, SetupRing, Setup, Die, WriteCtrl, StartPass, passVars
    <3>4. Reapable' = nreaped'
      BY <3>2, <3>3 DEF Reapable
    <3>5. \A n \in Nat : \A j \in n + 1 .. n : FALSE
      OBVIOUS
    <3>6. \A j \in nreaped' + 1 .. Reapable' : FALSE
      BY <3>2, <3>4, <3>5, Zenon
    <3> QED
      BY <3>6
  <2> QED
    BY <2>1, <2>2
<1>4. CASE RingDoorbell \/ \E b \in BOOLEAN : Control(b)
  <2>1. /\ pc = "idle" /\ pc' \in {"idle", "loop"}
        /\ UNCHANGED <<ring, ring_size, session, base, nreaped, log>>
    BY <1>4
    DEF RingDoorbell, Control, WriteTail, WriteCtrl, StartPass, passVars,
        memVars, hostVars
  <2> QED
    BY <2>1 DEF Reapable, Executed, SlotOf
<1>5. CASE Reap
  <2>1. /\ nreaped' = nreaped + 1
        /\ UNCHANGED <<ring, pc, ring_size, session, base, log>>
    BY <1>5 DEF Reap, ringVars, regVars, passVars, memVars
  <2>2. Reapable' = Reapable /\ \A j : SlotOf(j)' = SlotOf(j)
    BY <2>1 DEF Reapable, Executed, SlotOf
  <2> QED
    BY <2>1, <2>2, Numbers
<1>6. CASE UNCHANGED <<ring, pc, ring_size, session, base, nreaped, log>>
  BY <1>6 DEF Reapable, Executed, SlotOf
<1> QED
  BY <1>1, <1>2, <1>3, <1>4, <1>5, <1>6
  DEF Next, Host, WaitInterrupt, TakeInterrupt, vars, ringVars, regVars,
      passVars, memVars, hostVars

\* When the interrupt is raised, no request up to the one that asked for it
\* still reads pending, if no write of a status fails (lines 593-608).
THEOREM InterruptLast == "status" \notin Faulty => (Spec => InterruptAfterStatus)
<1> SUFFICES ASSUME "status" \notin Faulty PROVE Spec => InterruptAfterStatus
  OBVIOUS
<1>1. HostInit => StatusShown
  BY DEF HostInit, StatusShown
<1>2. HostInv /\ StatusShown /\ [Next]_vars => StatusShown'
  BY StatusShownStep
<1>3. HostInv /\ StatusShown /\ [Next]_vars =>
        [irq' /\ ~irq =>
           \A j \in nreaped + 1 .. desc.tag : ring[SlotOf(j)].status # "pending"]_vars
  <2> SUFFICES ASSUME HostInv, StatusShown, Next, irq', ~irq
               PROVE  \A j \in nreaped + 1 .. desc.tag :
                        ring[SlotOf(j)].status # "pending"
    OBVIOUS
  <2>1. Device
    <3>1. ASSUME Host PROVE irq' => irq
      BY <3>1
      DEF Host, Open, SetupRing, Setup, WriteConfig, WriteAddrLo, WriteAddrHi,
          WriteSize, WriteCtrl, WriteTail, Die, Post, RingDoorbell, Control,
          Reap, WaitInterrupt, TakeInterrupt, ringVars
    <3> QED
      BY <3>1 DEF Next
  <2>2. pc = "retire"
    <3>1. pc # "retire" => irq' = irq
      BY <2>1, PassLeaves DEF Device
    <3> QED
      BY <3>1
  <2>3. session = "running" /\ desc.tag = Executed + 1
    BY <2>2 DEF HostInv, SetUp, NextInOrder, Busy
  <2> QED
    BY <2>2, <2>3 DEF StatusShown, Reapable
<1> QED
  BY <1>1, <1>2, <1>3, HostInvariance, PTL DEF Spec, InterruptAfterStatus

\* A request the device has executed reads as finished from then until it is
\* reaped, whatever is posted, paused or resumed meanwhile, if no write of a
\* status fails (lines 593-608).
THEOREM ExecutedIsShown == "status" \notin Faulty => (Spec => []StatusShown)
<1> SUFFICES ASSUME "status" \notin Faulty PROVE Spec => []StatusShown
  OBVIOUS
<1>1. HostInit => StatusShown
  BY DEF HostInit, StatusShown
<1>2. HostInv /\ StatusShown /\ [Next]_vars => StatusShown'
  BY StatusShownStep
<1> QED
  BY <1>1, <1>2, HostInvariance, PTL DEF Spec

-----------------------------------------------------------------------------
(* The safety part of EveryRequestReaped: while a request is outstanding one *)
(* of the steps the fairness of Spec is about is open, and the device's       *)
(* passes count down.                                                        *)

\* With a request outstanding, a pass is under way, or the doorbell is to be
\* rung, or the ring to be resumed, or the oldest request can be reaped.
NeverStuck ==
  session = "running" /\ Outstanding =>
    \/ Running
    \/ nrung < nposted
    \/ ~ring_enabled
    \/ ring[SlotOf(nreaped + 1)].status # "pending"

\* The host and the device never wait for each other, if no fetch and no write
\* of a status fails: an enabled ring that is idle with everything rung for has
\* finished the oldest request not reaped (lines 593-640).
THEOREM RequestsMoveOn ==
  "fetch" \notin Faulty /\ "status" \notin Faulty => (Spec => []NeverStuck)
<1> SUFFICES ASSUME "fetch" \notin Faulty, "status" \notin Faulty
             PROVE  Spec => []NeverStuck
  OBVIOUS
<1>1. HostInit => RoundsLeft
  BY DEF HostInit, RingInit, RoundsLeft, Busy
<1>2. HostInv /\ RoundsLeft /\ [Next]_vars => RoundsLeft'
  BY RoundsLeftStep
<1>3. ASSUME HostInv, RoundsLeft, StatusShown
      PROVE  NeverStuck
  <2> SUFFICES ASSUME session = "running", Outstanding, ~Running,
                      ~(nrung < nposted), ring_enabled
               PROVE  ring[SlotOf(nreaped + 1)].status # "pending"
    BY DEF NeverStuck
  <2>1. pc = "idle"
    BY <1>3 DEF Running, Busy, HostInv, SetUp, RingInv, RingTypeOK
  <2>2. Executed = nrung /\ Reapable = Executed
    BY <1>3, <2>1 DEF RoundsLeft, Reapable
  <2>3. nreaped + 1 \in nreaped + 1 .. Reapable
    BY <1>3, <2>2, Numbers DEF Outstanding
  <2> QED
    BY <1>3, <2>3 DEF StatusShown
<1> QED
  BY <1>1, <1>2, <1>3, ExecutedIsShown, HostInvariance, PTL DEF Spec

\* A pass counts down to its end at the device's steps, at no other, and starts
\* with at most five steps for each slot of the ring and one.
PassUnderHost ==
  /\ Device => StepsLeft' \in Nat /\ StepsLeft' < StepsLeft
  /\ Running /\ ~Device => StepsLeft' = StepsLeft
  /\ ~Running /\ Running' => StepsLeft' <= 5 * ring_size + 1

\* Whatever the host posts, reaps and restarts meanwhile, a pass ends: the device
\* never runs on behind the requests that come in (lines 613-630).
THEOREM PassIsShortUnderHost == Spec => [][PassUnderHost]_vars
<1>1. ASSUME HostInv, HostInv', [Next]_vars
      PROVE  [PassUnderHost]_vars
  <2>1. RingInv /\ RingInv' /\ ring_size \in Nat
    BY <1>1, Numbers DEF HostInv
  <2>2. CASE Device
    BY <2>1, <2>2, PassStepCountsDown DEF Device, PassUnderHost
  <2>3. CASE ~Device /\ Host
    <3>1. /\ pc' # pc => pc = "idle" /\ pc' = "loop" /\ count' = 0
          /\ pc' = pc /\ pc # "idle" => UNCHANGED <<count, ring_size>>
      BY <2>3
      DEF Host, Open, SetupRing, Setup, WriteConfig, WriteAddrLo, WriteAddrHi,
          WriteSize, WriteCtrl, WriteTail, StartPass, Die, Post, RingDoorbell,
          Control, Reap, WaitInterrupt, TakeInterrupt, ringVars, regVars, passVars
    <3>2. pc' # pc => ring_size' = ring_size
      BY <2>3
      DEF Host, Open, SetupRing, Setup, WriteConfig, WriteAddrLo, WriteAddrHi,
          WriteSize, WriteCtrl, WriteTail, StartPass, Die, Post, RingDoorbell,
          Control, Reap, WaitInterrupt, TakeInterrupt, ringVars, regVars, passVars
    <3>3. Running => pc' = pc
      BY <3>1 DEF Running, Busy
    <3> QED
      BY <2>1, <2>3, <3>1, <3>2, <3>3 DEF PassUnderHost, StepsLeft, Running, Stage, Busy
  <2> QED
    BY <1>1, <2>2, <2>3 DEF Next
<1> QED
  BY <1>1, HostInvariance, PTL DEF Spec

-----------------------------------------------------------------------------
(* A completed request has its data when no DMA write fails.                *)

DataInv == DataHeld /\ CompleteHasData

\* The buffers of different slots, and the two of one slot, do not meet
\* (get_src_iova, get_dst_iova).
LEMMA BuffersApart ==
  ASSUME NEW i \in Slots, NEW k \in Slots
  PROVE  /\ SrcOf(i) \in Addrs /\ DstOf(i) \in Addrs
         /\ SrcOf(i) # DstOf(k)
         /\ i # k => SrcOf(i) # SrcOf(k) /\ DstOf(i) # DstOf(k)
<1>1. i \in Nat /\ k \in Nat /\ i <= MaxRingSize - 1 /\ MaxRingSize \in Nat
  BY RingAssumption DEF Slots
<1>2. 2 * i \in 0 .. 2 * MaxRingSize - 1 /\ 2 * i + 1 \in 0 .. 2 * MaxRingSize - 1
  BY <1>1
<1>3. SrcOf(i) \in Addrs /\ DstOf(i) \in Addrs
  BY <1>2, HostAssumption DEF SrcOf, DstOf, Addrs
<1>4. 2 * i # 2 * k + 1 /\ (i # k => 2 * i # 2 * k /\ 2 * i + 1 # 2 * k + 1)
  BY <1>1
<1> QED
  BY <1>3, <1>4 DEF SrcOf, DstOf

\* The request the device works on is the one after the last executed, it has
\* its own two buffers, and is one unit long.
LEMMA WorkedOn ==
  ASSUME HostInv, pc \in {"read", "write", "writeback"}
  PROVE  /\ session = "running" /\ ring_head = SlotOf(Executed + 1)
         /\ Executed + 1 \in nreaped + 1 .. nposted
         /\ desc.src = SrcOf(ring_head) /\ desc.dst = DstOf(ring_head)
         /\ CopyLen(desc) = 1
         /\ ring[ring_head].status = "pending"
<1>1. session = "running" /\ nreaped <= Executed /\ Executed < nposted
  BY Numbers DEF HostInv, SetUp, CountersOrdered, Reapable, NextInOrder, Busy
<1>2. ring_head = SlotOf(Executed + 1) /\ Executed + 1 \in Executed + 1 .. nposted
  BY <1>1, Numbers DEF HostInv, Window
<1>3. /\ Request(ring[ring_head], Executed + 1)
      /\ ring[ring_head].status = "pending"
  BY <1>1, <1>2 DEF HostInv, RequestsHeld
<1>4. [ring[ring_head] EXCEPT !.status = desc.status] = desc
  BY DEF HostInv, FetchedUnchanged, Busy
<1>5. ring[ring_head] \in Descs /\ desc \in Descs
  BY <1>1, SlotTypes
<1>6. desc.src = SrcOf(ring_head) /\ desc.dst = DstOf(ring_head) /\ desc.len = 1
  BY <1>2, <1>3, <1>4, <1>5 DEF Request, Descs
<1> QED
  BY <1>1, <1>2, <1>3, <1>6, RingAssumption, Numbers DEF CopyLen

\* The device copies a request's data before it shows a status, and its writes go
\* to that request's destination only, if none fails (lines 575-599).
LEMMA DeviceData ==
  ASSUME "write" \notin Faulty, HostInv, DataInv, Device
  PROVE  DataInv'
<1> USE DEF DataInv, DataHeld, CompleteHasData
<1>1. /\ PassStep /\ session = "running" /\ session' = session
      /\ UNCHANGED <<base, nposted, nrung, nreaped>>
      /\ \A j : SlotOf(j)' = SlotOf(j)
  BY PassLeaves DEF Device, hostVars, HostInv, SetUp, Busy, SlotOf
<1>2. /\ ring \in [Slots -> Descs] /\ data \in [Addrs -> Data]
      /\ \A j \in nreaped + 1 .. nposted : SlotOf(j) \in Slots
      /\ ring_head \in Slots
  BY <1>1, SlotTypes, Numbers DEF HostInv, RingInv, RingTypeOK
<1>3. CASE ReadSource
  <2>1. /\ pc = "read" /\ pc' = "write" /\ ring' = ring /\ data' = data
        /\ buf' = [i \in 0 .. CopyLen(desc) - 1 |-> data[desc.src + i]]
        /\ log' = log
    BY <1>3 DEF ReadSource, memVars, Device
  <2>2. /\ data[desc.src] = Executed + 1 /\ CopyLen(desc) = 1
        /\ desc.src \in Int
    BY <1>1, <2>1, WorkedOn, BuffersApart, <1>2 DEF Addrs
  <2>3. buf'[0] = Executed + 1
    BY <2>1, <2>2
  <2>4. Executed' = Executed
    BY <1>1, <2>1 DEF Executed
  <2> QED
    BY <1>1, <2>1, <2>3, <2>4 DEF SrcOf, DstOf
<1>4. CASE WriteDest
  <2>1. /\ pc = "write" /\ pc' = "writeback" /\ ring' = ring
        /\ data' = Stored(desc.dst, CopyLen(desc))
        /\ ring_head' = ring_head /\ log' = log
    BY <1>4 DEF WriteDest, regVars, Device
  <2>2. buf[0] = Executed + 1 /\ Executed' = Executed
    BY <1>1, <2>1 DEF Executed
  <2>3. data' = [a \in Addrs |-> IF a = DstOf(ring_head) THEN Executed + 1 ELSE data[a]]
    <3>1. desc.dst = DstOf(ring_head) /\ CopyLen(desc) = 1 /\ desc.dst \in Int
      BY <2>1, <1>2, WorkedOn, BuffersApart DEF Addrs
    <3>2. \A a \in Addrs : a \in desc.dst .. desc.dst + CopyLen(desc) - 1 <=> a = desc.dst
      BY <3>1 DEF Addrs
    <3>3. desc.dst - desc.dst = 0
      BY <3>1
    <3> QED
      BY <2>1, <2>2, <3>1, <3>2, <3>3 DEF Stored
  <2>4. data'[DstOf(ring_head)] = Executed + 1
    BY <1>2, <2>3, BuffersApart
  <2>5. \A j \in nreaped + 1 .. nposted : data'[SrcOf(SlotOf(j))] = j
    BY <1>1, <1>2, <2>3, BuffersApart
  <2>6. ASSUME NEW j \in nreaped + 1 .. nposted,
               ring[SlotOf(j)].status = "complete"
        PROVE  data'[DstOf(SlotOf(j))] = j
    <3>1. SlotOf(j) # ring_head
      BY <2>1, <2>6, WorkedOn
    <3>2. data[DstOf(SlotOf(j))] = j
      BY <1>1, <2>6
    <3> QED
      BY <1>2, <2>3, <3>1, <3>2, BuffersApart
  <2> QED
    BY <1>1, <2>1, <2>2, <2>4, <2>5, <2>6 DEF SrcOf, DstOf
<1>5. CASE WriteStatus
  <2>1. /\ pc = "writeback" /\ pc' = "retire"
        /\ ring' = [ring EXCEPT ![ring_head].status = desc.status]
        /\ UNCHANGED <<data, ring_head, desc, log>>
    BY <1>5 DEF WriteStatus, regVars, passVars, Device
  <2>2. /\ Executed' = Executed /\ ring_head = SlotOf(Executed + 1)
        /\ Executed + 1 \in nreaped + 1 .. nposted
    BY <1>1, <2>1, WorkedOn DEF Executed
  <2>3. ASSUME NEW j \in nreaped + 1 .. nposted,
               ring'[SlotOf(j)].status = "complete"
        PROVE  data[DstOf(SlotOf(j))] = j
    <3>1. CASE j = Executed + 1
      BY <1>1, <1>2, <2>1, <2>2, <2>3, <3>1 DEF Descs
    <3>2. CASE j # Executed + 1
      <4>1. SlotOf(j) # ring_head
        BY <1>1, <2>2, <3>2, SlotDistinct, Numbers DEF HostInv, Window
      <4>2. ring'[SlotOf(j)] = ring[SlotOf(j)]
        BY <1>2, <2>1, <4>1
      <4> QED
        BY <1>1, <2>3, <4>2
    <3> QED
      BY <3>1, <3>2
  <2> QED
    BY <1>1, <2>1, <2>2, <2>3 DEF SrcOf, DstOf
<1>6. CASE ReadSourceFails
  <2>1. /\ ring' = ring /\ data' = data /\ pc' = "writeback" /\ desc'.status = "error"
    BY <1>1, <1>6, SlotTypes DEF ReadSourceFails, FailStatus, memVars, Descs
  <2> QED
    BY <1>1, <2>1 DEF SrcOf, DstOf
<1>7. CASE WriteDestFails
  <2>1. bus_master /\ "write" \notin Faulty
    BY <1>1 DEF HostInv, SetUp
  <2>2. DataMapped(desc.dst, CopyLen(desc))
    BY <1>2, <1>7, WorkedOn, BuffersApart, RingAssumption
    DEF WriteDestFails, DataMapped, Addrs
  <2> QED
    BY <1>7, <2>1, <2>2 DEF WriteDestFails, DmaErr
<1>8. CASE WriteStatusFails
  BY <1>1, <1>8
  DEF WriteStatusFails, memVars, passVars, regVars, Device, Executed, SrcOf, DstOf
<1>9. CASE PassReturns \/ FetchFails \/ FetchInvalid \/ FetchValid \/ Retire
  <2>1. ring' = ring /\ data' = data /\ pc' \in {"idle", "loop", "read"}
    BY <1>9
    DEF PassReturns, FetchFails, FetchInvalid, FetchValid, Retire,
        NextIteration, memVars
  <2> QED
    BY <1>1, <2>1 DEF SrcOf, DstOf
<1> QED
  BY <1>1, <1>3, <1>4, <1>5, <1>6, <1>7, <1>8, <1>9 DEF PassStep

\* Posting a request prepares its own two buffers, which no executed request
\* that is not reaped yet shares.
LEMMA PostData ==
  ASSUME HostInv, DataInv, NEW int \in BOOLEAN, Post(int)
  PROVE  DataInv'
<1> DEFINE i == SlotOf(nposted + 1)
<1>1. /\ session = "running" /\ Room /\ nposted' = nposted + 1
      /\ UNCHANGED <<ring_size, ring_head, pc, desc, buf, session, base, nreaped, log>>
  BY DEF Post, regVars, passVars
<1>2. /\ ring \in [Slots -> Descs] /\ data \in [Addrs -> Data]
      /\ \A j \in Int : SlotOf(j) \in Slots
      /\ ring_head \in Slots /\ i \in Slots
  BY <1>1, SlotTypes, Numbers DEF HostInv, RingInv, RingTypeOK
<1>3. Executed' = Executed /\ \A j : SlotOf(j)' = SlotOf(j)
  BY <1>1 DEF Executed, SlotOf
<1>4. /\ data' = [data EXCEPT ![SrcOf(i)] = nposted + 1, ![DstOf(i)] = 0]
      /\ ring'[i].status = "pending"
      /\ \A k \in Slots : k # i => ring'[k] = ring[k]
  BY <1>2 DEF Post, Fill
<1>5. \A j \in nreaped + 1 .. nposted : SlotOf(j) \in Slots /\ SlotOf(j) # i
  BY <1>1, <1>2, RoomIsFree, Numbers
<1>6. pc \in {"writeback", "retire"} => ring_head # i
  BY <1>1, RoomIsFree, Numbers DEF HostInv, NextInOrder, Busy
<1> HIDE DEF i
<1>7. data'[SrcOf(i)] = nposted + 1
  BY <1>2, <1>4, BuffersApart
<1>8. \A k \in Slots : k # i =>
        data'[SrcOf(k)] = data[SrcOf(k)] /\ data'[DstOf(k)] = data[DstOf(k)]
  BY <1>2, <1>4, BuffersApart
<1>9. \A j \in nreaped + 1 .. nposted + 1 :
        /\ data'[SrcOf(SlotOf(j))] = j
        /\ ring'[SlotOf(j)].status = "complete" => data'[DstOf(SlotOf(j))] = j
  <2> SUFFICES ASSUME NEW j \in nreaped + 1 .. nposted + 1
               PROVE  /\ data'[SrcOf(SlotOf(j))] = j
                      /\ ring'[SlotOf(j)].status = "complete" =>
                           data'[DstOf(SlotOf(j))] = j
    OBVIOUS
  <2>1. CASE j = nposted + 1
    BY <1>4, <1>7, <2>1 DEF i
  <2>2. CASE j \in nreaped + 1 .. nposted
    BY <1>1, <1>4, <1>5, <1>8, <2>2 DEF DataInv, DataHeld, CompleteHasData
  <2> QED
    BY <2>1, <2>2, Numbers
<1>10. pc \in {"writeback", "retire"} => data'[DstOf(ring_head)] = data[DstOf(ring_head)]
  BY <1>2, <1>6, <1>8
<1> QED
  BY <1>1, <1>3, <1>9, <1>10
  DEF DataInv, DataHeld, CompleteHasData, SrcOf, DstOf

\* Every step keeps the data of the executed requests.
LEMMA DataStep ==
  ASSUME "write" \notin Faulty, HostInv, DataInv, [Next]_vars
  PROVE  DataInv'
<1>1. CASE Device
  BY <1>1, DeviceData
<1>2. CASE \E int \in BOOLEAN : Post(int)
  BY <1>2, PostData
<1>3. CASE Open \/ SetupRing \/ Die
  <2>1. CASE session' # "running"
    BY <2>1 DEF DataInv, DataHeld, CompleteHasData
  <2>2. CASE session' = "running"
    <3>1. pc = "idle" /\ base = nposted /\ UNCHANGED <<base, nreaped, nposted>>
      BY <1>3, <2>2 DEF Open, SetupRing, Setup, Die, HostInv, SetUp
    <3>2. nreaped' = nposted' /\ nreaped' \in Nat
      BY <3>1, Numbers
    <3>3. pc' \in {"idle", "loop"}
      BY <1>3, <2>2, <3>1
      DEF Open, SetupRing, Setup, Die, WriteCtrl, StartPass, passVars
    <3>4. \A n \in Nat : \A j \in n + 1 .. n : FALSE
      OBVIOUS
    <3>5. \A j \in nreaped' + 1 .. nposted' : FALSE
      BY <3>2, <3>4
    <3> QED
      BY <3>3, <3>5 DEF DataInv, DataHeld, CompleteHasData
  <2> QED
    BY <2>1, <2>2
<1>4. CASE RingDoorbell \/ \E b \in BOOLEAN : Control(b)
  <2>1. /\ pc' \in {"idle", "loop"}
        /\ UNCHANGED <<ring, data, ring_size, session, base, nreaped, nposted>>
    BY <1>4
    DEF RingDoorbell, Control, WriteTail, WriteCtrl, StartPass, passVars,
        memVars, hostVars
  <2> QED
    BY <2>1 DEF DataInv, DataHeld, CompleteHasData, SlotOf, SrcOf, DstOf
<1>5. CASE Reap
  <2>1. /\ nreaped' = nreaped + 1
        /\ UNCHANGED <<ring, data, buf, desc, pc, ring_size, ring_head, session,
                       base, nposted, log>>
    BY <1>5 DEF Reap, ringVars, regVars, passVars, memVars
  <2>2. \A j \in nreaped' + 1 .. nposted' : j \in nreaped + 1 .. nposted
    BY <2>1, Numbers
  <2> QED
    BY <2>1, <2>2 DEF DataInv, DataHeld, CompleteHasData, SlotOf, SrcOf, DstOf, Executed
<1>6. CASE UNCHANGED <<ring, data, buf, desc, pc, ring_size, ring_head, session,
                       base, nposted, nreaped, log>>
  BY <1>6 DEF DataInv, DataHeld, CompleteHasData, SlotOf, SrcOf, DstOf, Executed
<1> QED
  BY <1>1, <1>2, <1>3, <1>4, <1>5, <1>6
  DEF Next, Host, WaitInterrupt, TakeInterrupt, vars, ringVars, regVars,
      passVars, memVars, hostVars

\* A request whose status reads complete has its own data in its destination
\* until it is reaped, if no DMA write of data fails (lines 575-599).
THEOREM CompletedData == "write" \notin Faulty => (Spec => []CompleteHasData)
<1> SUFFICES ASSUME "write" \notin Faulty PROVE Spec => []CompleteHasData
  OBVIOUS
<1>1. HostInit => DataInv
  BY DEF HostInit, DataInv, DataHeld, CompleteHasData
<1>2. HostInv /\ DataInv /\ [Next]_vars => DataInv'
  BY DataStep
<1>3. DataInv => CompleteHasData
  BY DEF DataInv
<1> QED
  BY <1>1, <1>2, <1>3, HostInvariance, PTL DEF Spec
==============================================================================
