---------------------------- MODULE EduNvmeProofs ----------------------------
(***************************************************************************)
(* Proofs about the NVMe controller: under an unconstrained host, and under *)
(* the host program of tests/nvme/test_nvme.cpp, for every number of        *)
(* commands, sessions and timeouts and every size of queues, disk and       *)
(* memory.                                                                  *)
(*                                                                         *)
(* Types hold whatever fails.  That completions are told apart, come in     *)
(* order and mean what they say needs the accesses to the queues, which the *)
(* program has mapped, to work; data transfers may fail.                    *)
(***************************************************************************)
EXTENDS EduNvmeHost, Remainders

-----------------------------------------------------------------------------
(* Inductive invariants.                                                    *)

\* The controller's: the queues have one entry per slot.
NvmeInv == NvmeTypeOK /\ DOMAIN sq = Queue /\ DOMAIN cq = Queue

TypeInv == HostTypeOK /\ NvmeInv /\ \A i \in Queue : cq[i].cid \in Nat

Configuring == {"config", "aqa", "asq", "asq_hi", "acq", "acq_hi", "cc"}
Enabled == {"ready", "running"}
Sizes == [sq |-> QueueSize, cq |-> QueueSize]

\* How far the program is tells what of the device is set up, and before its
\* first command nothing is under way and its queue memory is new.
SetUp ==
  /\ session # "running" => pc = "idle"
  /\ session \in Configuring \cup {"ready"} =>
       /\ ~msi /\ ~irq /\ pending = ZeroCmd
       /\ cmd_id = 1 /\ h_tail = 0 /\ h_head = 0 /\ ntimeouts = 0
       /\ cq = [i \in Queue |-> ZeroCqe]
  /\ session \in (Configuring \cup Enabled) \ {"config"} => bus_master /\ msix
  /\ session \in {"asq", "asq_hi", "acq", "acq_hi", "cc"} \cup Enabled => aqa = Sizes
  /\ session = "asq_hi" => asq.lo = SqBase.lo
  /\ session \in {"acq", "acq_hi", "cc"} \cup Enabled => asq = SqBase
  /\ session = "acq_hi" => acq.lo = CqBase.lo
  /\ session \in {"cc"} \cup Enabled => acq = CqBase

\* PhaseTellsNew, and what it becomes while an entry is written and the tail
\* is not advanced yet.
Phases ==
  session \in Enabled =>
    /\ cq_tail < QueueSize
    /\ \A i \in 0 .. QueueSize - 1 :
         cq[i].phase = cq_phase <=> i < cq_tail \/ (pc = "advance" /\ i = cq_tail)

PhaseInv == TypeInv /\ SetUp /\ Phases

\* The command under way has been completed.
AllRan == ran = cmd_id - 1

\* All four indices follow from two counts: the commands submitted and those
\* completed, of which the latter is at most one behind.
Counted ==
  session \in Enabled =>
    /\ h_tail = (cmd_id - 1) % QueueSize /\ sq_tail = h_tail
    /\ cq_tail = ran % QueueSize /\ sq_head = ran % QueueSize
    /\ pc = "idle" => AllRan
    /\ pc = "loop" => AllRan \/ ran = cmd_id - 2
    /\ pc \in {"exec", "complete", "advance", "astray"} => ran = cmd_id - 2

\* The command under way is the one the program waits for.
UnderWay ==
  /\ pending # ZeroCmd =>
       /\ pending.cid = cmd_id - 1 /\ pending.cid > 0
       /\ pending.prp1 = 1 /\ pending.nlb = 1
  /\ pc # "idle" => pending # ZeroCmd
  /\ pc = "loop" /\ ~AllRan => sq[sq_head] = pending
  /\ pc \in {"exec", "complete", "advance", "astray"} => cmd = pending

\* CompletionsInOrder, at every point of a pass, and no entry is ahead of the
\* count.
Entries ==
  session \in Enabled =>
    /\ \A k \in 1 .. ran :
         k > ran - QueueSize /\ ~(pc = "advance" /\ k = ran + 1 - QueueSize)
           => cq[(k - 1) % QueueSize].cid = k
    /\ pc = "advance" => cq[cq_tail].cid = ran + 1 /\ cq[cq_tail].status = status
    /\ \A i \in 0 .. QueueSize - 1 :
         cq[i].cid <= ran \/ (pc = "advance" /\ i = cq_tail)

\* While no wait has timed out the host's index is at the entry it waits for,
\* and an interrupt means that entry is there.
InStep ==
  session \in Enabled /\ ntimeouts = 0 =>
    /\ h_head = (IF Waiting THEN cmd_id - 2 ELSE cmd_id - 1) % QueueSize
    /\ msi \/ irq => Waiting /\ AllRan
    /\ ~(msi /\ irq)

OrderInv == TypeInv /\ SetUp /\ Counted /\ UnderWay /\ Entries /\ InStep

\* What the program knows of the disk is true of it, and stays so if the write
\* under way happens, half happens or fails.
DiskKnown ==
  /\ \A b \in Blocks : storage[b] \in shadow[b]
  /\ pc # "idle" /\ pending.opcode = "write" /\ pending.lba \in Blocks =>
       {0, mem[1]} \subseteq shadow[pending.lba]

\* The data of a successful transfer is both in the memory and on the disk.
Transferred ==
  pending.opcode \in {"read", "write"} =>
    pending.lba \in Blocks /\ storage[pending.lba] = mem[1]

\* A completion of the command the program waits for that reads ok, or is about
\* to be written, tells that.
Reported ==
  /\ pc \in {"complete", "advance"} /\ status = "ok" => Transferred
  /\ session = "running" /\ pending # ZeroCmd =>
       \A i \in 0 .. QueueSize - 1 :
         cq[i].cid = pending.cid /\ cq[i].status = "ok" => Transferred

DiskInv == OrderInv /\ DiskKnown /\ Reported

-----------------------------------------------------------------------------
(* Lemmas about the operators.                                              *)

\* The index after one inside the queue: wherever uint16_t cuts it, it is 0 as at
\* the end of the queue, but it does not look past the end then (lines 172-175 and
\* 197-200).
LEMMA AfterIs ==
  ASSUME NEW i \in Queue, NEW n \in 1 .. QueueMax
  PROVE  /\ After(i, n) \in 0 .. n - 1
         /\ After(i, n) = IF i + 1 >= n THEN 0 ELSE i + 1
         /\ (i + 1) % IndexSpan >= n <=> i + 1 >= n /\ i + 1 < IndexSpan
<1>1. /\ i + 1 \in 1 .. IndexSpan /\ IndexSpan \in Nat /\ IndexSpan > 0
      /\ n \in 1 .. IndexSpan
  BY NvmeAssumption DEF Queue
<1>2. CASE i + 1 < IndexSpan
  <2>1. (i + 1) % IndexSpan = i + 1
    BY <1>1, <1>2, ModSmall
  <2> QED
    BY <1>1, <1>2, <2>1 DEF After
<1>3. CASE i + 1 = IndexSpan
  <2>1. i + 1 = IndexSpan * 1 + 0 /\ 0 \in 0 .. IndexSpan - 1
    BY <1>1, <1>3
  <2>2. (i + 1) % IndexSpan = 0
    BY <1>1, <2>1, ModOfSum
  <2> QED
    BY <1>1, <1>3, <2>2 DEF After
<1> QED
  BY <1>1, <1>2, <1>3

\* What a register of 16 bits keeps of a number (lines 270 and 275).
LEMMA Cut ==
  ASSUME NEW v \in Nat
  PROVE  v % IndexSpan \in 0 .. IndexSpan - 1
<1>1. IndexSpan \in Nat \ {0}
  BY NvmeAssumption
<1> QED
  BY <1>1, ModBound

\* A transfer into data memory leaves contents there (lines 122 and 137).
LEMMA StoredTyped ==
  ASSUME mem \in [Addrs -> Data], NEW a \in Nat, NEW n \in Nat, NEW blocks,
         \A i \in 0 .. n - 1 : blocks[i] \in Data
  PROVE  Stored(a, n, blocks) \in [Addrs -> Data]
<1> SUFFICES ASSUME NEW x \in Addrs, x \in a .. a + n - 1
             PROVE  blocks[x - a] \in Data
  BY DEF Stored
<1>1. x - a \in 0 .. n - 1
  BY NvmeAssumption DEF Addrs
<1> QED
  BY <1>1

\* A command of zeroes is a command.
LEMMA ZeroIsCmd == IsCmd(ZeroCmd)
BY NvmeAssumption DEF IsCmd, ZeroCmd

-----------------------------------------------------------------------------
(* The controller.                                                          *)

\* A controller just realized, and new queue memory.
LEMMA NvmeInitInv == NvmeInit => NvmeInv
<1> SUFFICES ASSUME NvmeInit PROVE NvmeInv
  OBVIOUS
<1>1. /\ enabled \in BOOLEAN /\ bus_master \in BOOLEAN /\ msix \in BOOLEAN
      /\ msi \in BOOLEAN /\ fetched \in BOOLEAN
  BY DEF NvmeInit
<1>2. /\ aqa \in [sq : 1 .. QueueMax, cq : 1 .. QueueMax]
      /\ asq \in [hi : Halves, lo : Halves] /\ acq \in [hi : Halves, lo : Halves]
  BY NvmeAssumption DEF NvmeInit
<1>3. /\ sq_head \in Queue /\ cq_tail \in Queue /\ cq_phase \in {0, 1}
      /\ sq_tail \in 0 .. IndexSpan - 1 /\ cq_head \in 0 .. IndexSpan - 1
  BY NvmeAssumption DEF NvmeInit, Queue
<1>4. storage \in [Blocks -> Data] /\ mem \in [Addrs -> Data]
  BY NvmeAssumption DEF NvmeInit
<1>5. /\ pc = "idle" /\ IsCmd(cmd) /\ status \in Statuses
  BY ZeroIsCmd DEF NvmeInit, Statuses
<1>6. /\ DOMAIN sq = Queue /\ DOMAIN cq = Queue
      /\ \A i \in Queue : IsCmd(sq[i]) /\ cq[i].status \in Statuses /\ cq[i].phase \in {0, 1}
  BY ZeroIsCmd DEF NvmeInit, ZeroCqe, Statuses
<1> QED
  BY <1>1, <1>2, <1>3, <1>4, <1>5, <1>6 DEF NvmeInv, NvmeTypeOK

\* Every step of a doorbell's loop keeps types and bounds (lines 96-202).
LEMMA PassStepInv ==
  ASSUME NvmeInv, PassStep
  PROVE  NvmeInv'
<1>1. /\ sq_head \in Queue /\ cq_tail \in Queue /\ cq_phase \in {0, 1}
      /\ aqa \in [sq : 1 .. QueueMax, cq : 1 .. QueueMax]
      /\ mem \in [Addrs -> Data] /\ storage \in [Blocks -> Data]
      /\ IsCmd(cmd) /\ status \in Statuses
      /\ \A i \in Queue : IsCmd(sq[i])
  BY DEF NvmeInv, NvmeTypeOK
<1>2. CASE PassReturns \/ Fetch \/ FetchFails \/ OutOfRange \/ Astray \/ OtherOpcode
           \/ WriteCqeFails
  <2>1. /\ UNCHANGED <<regVars, queueVars, storage, cfgVars, memVars, msi>>
        /\ pc' \in {"idle", "loop", "exec", "complete", "advance", "astray"}
    BY <1>2
    DEF PassReturns, Fetch, FetchFails, OutOfRange, Astray, OtherOpcode, WriteCqeFails,
        Finish, memVars
  <2>2. IsCmd(cmd')
    BY <1>1, <1>2, ZeroIsCmd, CmdsAssumption
    DEF PassReturns, Fetch, FetchFails, OutOfRange, Astray, OtherOpcode, WriteCqeFails,
        Finish
  <2>3. fetched' \in BOOLEAN /\ status' \in Statuses
    BY <1>2
    DEF PassReturns, Fetch, FetchFails, OutOfRange, Astray, OtherOpcode, WriteCqeFails,
        Finish, NvmeInv, NvmeTypeOK, Statuses
  <2> QED
    BY <2>1, <2>2, <2>3
    DEF NvmeInv, NvmeTypeOK, regVars, queueVars, cfgVars, memVars
<1>3. CASE Identify \/ Read \/ ReadFails \/ Write \/ WriteFails
  <2>1. /\ UNCHANGED <<regVars, queueVars, cfgVars, sq, cq, msi, cmd, fetched>>
        /\ pc' = "complete" /\ status' \in Statuses
    BY <1>3
    DEF Identify, Read, ReadFails, Write, WriteFails, Finish, Statuses, FailStatus
  <2>2. cmd.prp1 \in Nat /\ cmd.lba \in Nat /\ cmd.nlb \in Nat \ {0}
    BY <1>1, NvmeAssumption DEF IsCmd
  <2>3. OnDisk => \A i \in 0 .. cmd.nlb - 1 : DiskBlocks[i] \in Data
    BY <1>1, <2>2, NvmeAssumption DEF OnDisk, DiskBlocks, Blocks
  <2>4. mem' \in [Addrs -> Data]
    <3>1. CASE Identify
      <4> PICK n \in 0 .. IdLen : mem' = Stored(cmd.prp1, n, [i \in 0 .. n - 1 |-> IdData])
        BY <3>1 DEF Identify
      <4> n \in Nat /\ IdData \in Data
        BY NvmeAssumption
      <4> QED
        BY <1>1, <2>2, StoredTyped
    <3>2. CASE Read
      BY <1>1, <2>2, <2>3, <3>2, StoredTyped DEF Read, Accepted
    <3>3. CASE ReadFails
      <4> PICK n \in 0 .. cmd.nlb : mem' = Stored(cmd.prp1, n, DiskBlocks)
        BY <3>3 DEF ReadFails
      <4>1. n \in Nat /\ \A i \in 0 .. n - 1 : DiskBlocks[i] \in Data
        BY <2>2, <2>3, <3>3 DEF ReadFails, Accepted
      <4> QED
        BY <1>1, <2>2, <4>1, StoredTyped
    <3>4. CASE Write \/ WriteFails
      BY <1>1, <3>4 DEF Write, WriteFails
    <3> QED
      BY <1>3, <3>1, <3>2, <3>3, <3>4
  <2>5. storage' \in [Blocks -> Data]
    <3>1. CASE Write
      <4>1. \A b \in Blocks : InCmd(b) => cmd.prp1 + b - cmd.lba \in Addrs
        BY <2>2, <3>1, NvmeAssumption
        DEF Write, DmaOk, DataMapped, InCmd, Blocks, Addrs
      <4> QED
        BY <1>1, <3>1, <4>1 DEF Write
    <3>2. CASE WriteFails
      <4> PICK lost, copied \in SUBSET {b \in Blocks : InCmd(b)} :
             /\ \A b \in copied : bus_master /\ cmd.prp1 + b - cmd.lba \in Addrs
             /\ storage' = [b \in Blocks |->
                  IF b \in copied THEN mem[cmd.prp1 + b - cmd.lba]
                  ELSE IF b \in lost THEN 0 ELSE storage[b]]
        BY <3>2 DEF WriteFails
      <4>1. \A b \in Blocks : b \in copied => mem[cmd.prp1 + b - cmd.lba] \in Data
        BY <1>1 DEF NvmeInv, NvmeTypeOK
      <4> QED
        BY <1>1, <4>1, NvmeAssumption DEF NvmeInv, NvmeTypeOK
    <3> QED
      BY <1>1, <1>3, <3>1, <3>2 DEF Identify, Read, ReadFails
  <2> QED
    BY <2>1, <2>4, <2>5 DEF NvmeInv, NvmeTypeOK, regVars, queueVars, cfgVars
<1>4. CASE WriteCqe
  <2>1. /\ UNCHANGED <<regVars, queueVars, storage, cfgVars, sq, mem, msi, cmd, fetched, status>>
        /\ pc' = "advance"
        /\ cq' = [cq EXCEPT ![cq_tail] = [cid |-> cmd.cid, sq_head |-> sq_head,
                                         status |-> status, phase |-> cq_phase]]
    BY <1>4 DEF WriteCqe, CqeSlot
  <2>2. /\ DOMAIN cq' = Queue
        /\ \A i \in Queue : cq'[i].status \in Statuses /\ cq'[i].phase \in {0, 1}
    BY <1>1, <2>1 DEF NvmeInv, NvmeTypeOK
  <2> QED
    BY <2>1, <2>2 DEF NvmeInv, NvmeTypeOK, regVars, queueVars, cfgVars
<1>5. CASE Advance
  <2>1. /\ UNCHANGED <<regVars, sq_tail, cq_head, storage, cfgVars, memVars, cmd,
                       fetched, status>>
        /\ cq_tail' = After(cq_tail, aqa.cq) /\ sq_head' = After(sq_head, aqa.sq)
        /\ cq_phase' \in {cq_phase, 1 - cq_phase}
        /\ msi' = (msi \/ Notifies) /\ pc' = "loop"
    BY <1>5 DEF Advance
  <2>2. cq_tail' \in Queue /\ sq_head' \in Queue
    <3>1. aqa.cq \in 1 .. QueueMax /\ aqa.sq \in 1 .. QueueMax
      BY <1>1
    <3> QED
      BY <1>1, <2>1, <3>1, AfterIs, NvmeAssumption DEF Queue
  <2>3. cq_phase' \in {0, 1}
    BY <1>1, <2>1
  <2>4. msi' \in BOOLEAN
    BY <2>1
  <2> QED
    BY <2>1, <2>2, <2>3, <2>4 DEF NvmeInv, NvmeTypeOK, regVars, cfgVars, memVars
<1> QED
  BY <1>2, <1>3, <1>4, <1>5 DEF PassStep

\* Register and config writes keep them, whatever is written (lines 236-277).
LEMMA RegisterWriteInv ==
  ASSUME NvmeInv,
         \/ \E b \in BOOLEAN : WriteCC(b)
         \/ \E a \in [sq : 1 .. QueueMax, cq : 1 .. QueueMax] : WriteAqa(a)
         \/ \E v \in Halves : WriteAsqLo(v) \/ WriteAsqHi(v) \/ WriteAcqLo(v) \/ WriteAcqHi(v)
         \/ \E v \in Nat : WriteSqTail(v) \/ WriteCqHead(v)
         \/ \E bm, mx \in BOOLEAN : WriteConfig(bm, mx)
  PROVE  NvmeInv'
<1>1. CASE \E b \in BOOLEAN : WriteCC(b)
  <2> PICK b \in BOOLEAN : WriteCC(b)
    BY <1>1
  <2>1. /\ UNCHANGED <<aqa, asq, acq, storage, cfgVars, passVars, memVars, msi>>
        /\ enabled' = b
    BY DEF WriteCC
  <2>2. /\ sq_head' \in Queue /\ cq_tail' \in Queue /\ cq_phase' \in {0, 1}
        /\ sq_tail' \in 0 .. IndexSpan - 1 /\ cq_head' \in 0 .. IndexSpan - 1
    BY NvmeAssumption DEF WriteCC, queueVars, EnabledCq, Queue, NvmeInv, NvmeTypeOK
  <2> QED
    BY <2>1, <2>2 DEF NvmeInv, NvmeTypeOK, cfgVars, passVars, memVars
<1>2. CASE \E a \in [sq : 1 .. QueueMax, cq : 1 .. QueueMax] : WriteAqa(a)
  BY <1>2
  DEF NvmeInv, NvmeTypeOK, WriteAqa, queueVars, cfgVars, passVars, memVars
<1>3. CASE \E v \in Halves : WriteAsqLo(v) \/ WriteAsqHi(v) \/ WriteAcqLo(v) \/ WriteAcqHi(v)
  <2>1. \/ \E q : WriteAsq(q) /\ q \in [hi : Halves, lo : Halves]
        \/ \E q : WriteAcq(q) /\ q \in [hi : Halves, lo : Halves]
    BY <1>3 DEF WriteAsqLo, WriteAsqHi, WriteAcqLo, WriteAcqHi, NvmeInv, NvmeTypeOK
  <2> QED
    BY <2>1
    DEF NvmeInv, NvmeTypeOK, WriteAsq, WriteAcq, queueVars, cfgVars, passVars, memVars
<1>4. CASE \E v \in Nat : WriteSqTail(v) \/ WriteCqHead(v)
  BY <1>4, Cut
  DEF NvmeInv, NvmeTypeOK, WriteSqTail, WriteCqHead, regVars, cfgVars, passVars, memVars
<1>5. CASE \E bm, mx \in BOOLEAN : WriteConfig(bm, mx)
  BY <1>5
  DEF NvmeInv, NvmeTypeOK, WriteConfig, regVars, queueVars, passVars, memVars
<1> QED
  BY <1>1, <1>2, <1>3, <1>4, <1>5

\* So does everything the unconstrained host does.
LEMMA HostStepInv ==
  ASSUME NvmeInv, HostStep
  PROVE  NvmeInv'
<1>1. CASE \E i \in Queue, c \in Cmds : StoreCmd(i, c)
  <2> PICK i \in Queue, c \in Cmds : StoreCmd(i, c)
    BY <1>1
  <2>1. DOMAIN sq' = Queue /\ \A j \in Queue : IsCmd(sq'[j])
    BY CmdsAssumption DEF StoreCmd, NvmeInv, NvmeTypeOK
  <2>2. UNCHANGED <<regVars, queueVars, storage, cfgVars, passVars, cq, mem, msi>>
    BY DEF StoreCmd
  <2> QED
    BY <2>1, <2>2 DEF NvmeInv, NvmeTypeOK, regVars, queueVars, cfgVars, passVars
<1>2. CASE \E a \in Addrs, x \in Data : StoreData(a, x)
  BY <1>2
  DEF StoreData, NvmeInv, NvmeTypeOK, regVars, queueVars, cfgVars, passVars
<1>3. CASE Arrive
  BY <1>3
  DEF Arrive, NvmeInv, NvmeTypeOK, regVars, queueVars, cfgVars, passVars, memVars
<1> QED
  BY <1>1, <1>2, <1>3, RegisterWriteInv, NvmeAssumption DEF HostStep

\* So does every step.
LEMMA NvmeNextInv == NvmeInv /\ [NvmeNext]_nvmeVars => NvmeInv'
<1>1. NvmeInv /\ UNCHANGED nvmeVars => NvmeInv'
  BY DEF NvmeInv, NvmeTypeOK, nvmeVars, regVars, queueVars, cfgVars, passVars, memVars
<1> QED
  BY <1>1, PassStepInv, HostStepInv DEF NvmeNext

\* Whatever is written to the controller's registers and whatever commands the
\* queue holds, its indices stay slots of the queues, and memory and disk hold
\* data (lines 96-202, 236-277).
THEOREM NvmeTypeCorrect == NvmeSpec => []NvmeTypeOK
<1>1. NvmeInv => NvmeTypeOK
  BY DEF NvmeInv
<1> QED
  BY <1>1, NvmeInitInv, NvmeNextInv, PTL DEF NvmeSpec

\* Only the end of a command takes the loop back to its start (lines 171-200).
LEMMA OnlyAdvance ==
  ASSUME NvmeNext, pc = "advance", pc' = "loop"
  PROVE  Advance
BY DEF NvmeNext, PassStep, PassReturns, Fetch, FetchFails, Identify, OutOfRange, Astray,
       Read, ReadFails, Write, WriteFails, Accepted, OtherOpcode, WriteCqe, WriteCqeFails,
       HostStep, WriteCC, WriteAqa, WriteAsqLo, WriteAsqHi, WriteAcqLo, WriteAcqHi,
       WriteAsq, WriteAcq, WriteSqTail, WriteCqHead, WriteConfig, StoreCmd, StoreData,
       Arrive, passVars

\* Each completed command leaves both indices inside the queues of the sizes they
\* have now, however the sizes were rewritten (lines 172-175 and 197-200).
THEOREM IndicesComeBack == NvmeSpec => IndicesReturn
<1>1. NvmeInv /\ [NvmeNext]_nvmeVars
        => [pc = "advance" /\ pc' = "loop" => cq_tail' < aqa.cq /\ sq_head' < aqa.sq]_nvmeVars
  <2> SUFFICES ASSUME NvmeInv, NvmeNext, pc = "advance", pc' = "loop"
               PROVE  cq_tail' < aqa.cq /\ sq_head' < aqa.sq
    BY DEF nvmeVars, passVars
  <2>1. Advance
    BY OnlyAdvance
  <2>2. /\ aqa.cq \in 1 .. QueueMax /\ aqa.sq \in 1 .. QueueMax
        /\ cq_tail \in Queue /\ sq_head \in Queue
    BY DEF NvmeInv, NvmeTypeOK
  <2>3. After(cq_tail, aqa.cq) \in 0 .. aqa.cq - 1 /\ After(sq_head, aqa.sq) \in 0 .. aqa.sq - 1
    BY <2>2, AfterIs
  <2> QED
    BY <2>1, <2>2, <2>3 DEF Advance
<1> QED
  BY <1>1, NvmeInitInv, NvmeNextInv, PTL DEF NvmeSpec, IndicesReturn

\* The phase turns where the index returns to the start of the queue, but not
\* where the 16 bits of the index themselves end: in a queue of 65536 entries,
\* the largest AQA can give, it never turns (lines 171-175).
PhaseTurns ==
  pc = "advance" /\ pc' = "loop" =>
    /\ cq_phase' # cq_phase <=> cq_tail' = 0 /\ cq_tail + 1 < IndexSpan
    /\ aqa.cq = IndexSpan => cq_phase' = cq_phase

\* The completion queue's phase turns at each wrap that the code makes and at none
\* that the width of the index makes, whatever is written to AQA (lines 171-175).
THEOREM PhaseTurnsAtWrap == NvmeSpec => [][PhaseTurns]_nvmeVars
<1>1. NvmeInv /\ [NvmeNext]_nvmeVars => [PhaseTurns]_nvmeVars
  <2> SUFFICES ASSUME NvmeInv, NvmeNext, pc = "advance", pc' = "loop"
               PROVE  /\ cq_phase' # cq_phase <=> cq_tail' = 0 /\ cq_tail + 1 < IndexSpan
                      /\ aqa.cq = IndexSpan => cq_phase' = cq_phase
    BY DEF PhaseTurns, nvmeVars, passVars
  <2>1. Advance
    BY OnlyAdvance
  <2>2. /\ aqa.cq \in 1 .. QueueMax /\ cq_tail \in Queue /\ cq_phase \in {0, 1}
        /\ cq_tail \in Nat /\ IndexSpan \in Nat /\ aqa.cq \in Nat
    BY NvmeAssumption DEF NvmeInv, NvmeTypeOK, Queue
  <2>3. /\ After(cq_tail, aqa.cq) = IF cq_tail + 1 >= aqa.cq THEN 0 ELSE cq_tail + 1
        /\ (cq_tail + 1) % IndexSpan >= aqa.cq
             <=> cq_tail + 1 >= aqa.cq /\ cq_tail + 1 < IndexSpan
    BY <2>2, AfterIs
  <2>4. /\ cq_tail' = IF cq_tail + 1 >= aqa.cq THEN 0 ELSE cq_tail + 1
        /\ cq_phase' = IF cq_tail + 1 >= aqa.cq /\ cq_tail + 1 < IndexSpan
                       THEN 1 - cq_phase ELSE cq_phase
    BY <2>1, <2>3 DEF Advance
  <2> QED
    BY <2>2, <2>4
<1> QED
  BY <1>1, NvmeInitInv, NvmeNextInv, PTL DEF NvmeSpec

\* A command that passes the range check and lies outside the disk is one whose
\* end does not fit 64 bits.
AstrayOnlyByWrap == pc = "astray" => cmd.lba + cmd.nlb >= LbaSpan

\* The check of the block range is right but for the width of its sum: no command
\* whose end fits 64 bits reaches outside the disk (lines 132 and 148).
THEOREM OnlyWrapGoesAstray == NvmeSpec => []AstrayOnlyByWrap
<1> DEFINE Inv == NvmeInv /\ AstrayOnlyByWrap
<1>1. NvmeInit => Inv
  BY NvmeInitInv DEF NvmeInit, AstrayOnlyByWrap
<1>2. Inv /\ [NvmeNext]_nvmeVars => Inv'
  <2> SUFFICES ASSUME Inv, [NvmeNext]_nvmeVars, pc' = "astray"
               PROVE  cmd'.lba + cmd'.nlb >= LbaSpan
    BY NvmeNextInv DEF AstrayOnlyByWrap
  <2>1. CASE Astray
    <3>1. cmd' = cmd /\ InRange /\ ~OnDisk
      BY <2>1 DEF Astray
    <3>2. /\ cmd.lba \in Nat /\ cmd.nlb \in Nat /\ LbaSpan \in Nat /\ LbaSpan > 0
          /\ NumBlocks \in Nat
      BY NvmeAssumption DEF NvmeInv, NvmeTypeOK, IsCmd
    <3>3. CASE cmd.lba + cmd.nlb < LbaSpan
      <4>1. (cmd.lba + cmd.nlb) % LbaSpan = cmd.lba + cmd.nlb
        BY <3>2, <3>3, ModSmall
      <4> QED
        BY <3>1, <4>1 DEF InRange, OnDisk
    <3> QED
      BY <3>1, <3>2, <3>3
  <2>2. CASE ~Astray
    <3>1. UNCHANGED <<pc, cmd>>
      BY <2>2
      DEF NvmeNext, PassStep, PassReturns, Fetch, FetchFails, Identify, OutOfRange, Read,
          ReadFails, Write, WriteFails, OtherOpcode, WriteCqe, WriteCqeFails, Advance, Finish,
          HostStep, WriteCC, WriteAqa, WriteAsqLo, WriteAsqHi, WriteAcqLo, WriteAcqHi,
          WriteAsq, WriteAcq, WriteSqTail, WriteCqHead, WriteConfig, StoreCmd, StoreData,
          Arrive, nvmeVars, passVars
    <3> QED
      BY <2>2, <3>1 DEF AstrayOnlyByWrap
  <2> QED
    BY <2>1, <2>2
<1>3. Inv => AstrayOnlyByWrap
  OBVIOUS
<1> QED
  BY <1>1, <1>2, <1>3, PTL DEF NvmeSpec

-----------------------------------------------------------------------------
(* The doorbell returns: the end of a pass, without fairness.               *)

\* The commands between a head and a tail inside a queue of n slots; a head left
\* past the end by a larger queue goes to its start first.
ToGo(head, tail, n) ==
  IF head <= tail THEN tail - head
  ELSE IF head < n THEN n - head + tail ELSE tail + 1

\* The steps the pass still has, four for a command and one to return.
StepsLeft ==
  IF pc \in {"idle", "astray"} THEN 0
  ELSE 4 * ToGo(sq_head, sq_tail, aqa.sq) + 1
       - (CASE pc = "loop" -> 0 [] pc = "exec" -> 1 [] pc = "complete" -> 2
            [] pc = "advance" -> 3)

\* With a tail inside the queue each step of the pass brings its end nearer, no
\* store of another vCPU puts it off, and it has at most four for each slot of
\* the queue and one to return.
PassCountsDown ==
  pc # "idle" /\ sq_tail < aqa.sq =>
    /\ StepsLeft \in 0 .. 4 * aqa.sq + 1
    /\ StepsLeft' = 0 => pc' \in {"idle", "astray"}
    /\ IF PassStep THEN StepsLeft' \in 0 .. StepsLeft - 1 ELSE StepsLeft' = StepsLeft

\* A command is taken only while head and tail differ.
Busy == pc \in {"exec", "complete", "advance"} => sq_head # sq_tail

\* Taking a command brings the head one nearer to a tail inside the queue, also a
\* head past its end (lines 197-200).
LEMMA OneNearer ==
  ASSUME NEW i \in Queue, NEW n \in 1 .. QueueMax, NEW t \in 0 .. n - 1, i # t
  PROVE  ToGo(After(i, n), t, n) = ToGo(i, t, n) - 1
<1>1. i \in Nat /\ n \in Nat /\ t \in Nat /\ t < n
  BY NvmeAssumption DEF Queue
<1>2. After(i, n) = IF i + 1 >= n THEN 0 ELSE i + 1
  BY AfterIs
<1> HIDE DEF After
<1> QED
  BY <1>1, <1>2 DEF ToGo

\* How many commands there are at most, and when there is one (line 189).
LEMMA ToGoIs ==
  ASSUME NEW i \in Nat, NEW n \in Nat, NEW t \in 0 .. n - 1
  PROVE  ToGo(i, t, n) \in 0 .. n /\ (i # t => ToGo(i, t, n) > 0)
         /\ (i < n => ToGo(i, t, n) < n)
BY DEF ToGo

\* The order of the steps of a pass (lines 96-202).
LEMMA PassOrder ==
  ASSUME PassStep
  PROVE  /\ pc = "loop" => \/ pc' = "idle"
                           \/ pc' = "exec" /\ sq_head # sq_tail
         /\ pc = "exec" => pc' \in {"complete", "astray"}
         /\ pc = "complete" => pc' = "advance"
         /\ pc = "advance" => pc' = "loop" /\ sq_head' = After(sq_head, aqa.sq)
         /\ pc # "advance" => sq_head' = sq_head
         /\ pc \in {"loop", "exec", "complete", "advance"}
         /\ sq_tail' = sq_tail /\ aqa' = aqa
BY DEF PassStep, PassReturns, Fetch, FetchFails, Identify, OutOfRange, Astray, Read, ReadFails,
       Write, WriteFails, Accepted, OtherOpcode, WriteCqe, WriteCqeFails, Advance, Finish,
       regVars, queueVars

\* During a pass the host writes no register (lines 268-272).
LEMMA HostWaits ==
  ASSUME HostStep
  PROVE  pc = "idle" \/ UNCHANGED <<pc, sq_head, sq_tail, aqa>>
BY DEF HostStep, WriteCC, WriteAqa, WriteAsqLo, WriteAsqHi, WriteAcqLo, WriteAcqHi, WriteAsq,
       WriteAcq, WriteSqTail, WriteCqHead, WriteConfig, StoreCmd, StoreData, Arrive,
       passVars, queueVars, regVars

\* No step leaves a command taken with head and tail equal (lines 189-200).
LEMMA BusyStep == NvmeInv /\ Busy /\ [NvmeNext]_nvmeVars => Busy'
<1> SUFFICES ASSUME NvmeInv, Busy, [NvmeNext]_nvmeVars PROVE Busy'
  OBVIOUS
<1>1. CASE PassStep
  BY <1>1, PassOrder DEF Busy
<1>2. CASE HostStep
  <2>1. pc = "idle" => pc' \in {"idle", "loop"}
    BY <1>2 DEF HostStep, WriteCC, WriteAqa, WriteAsqLo, WriteAsqHi, WriteAcqLo, WriteAcqHi,
       WriteAsq, WriteAcq, WriteSqTail, WriteCqHead, WriteConfig, StoreCmd, StoreData, Arrive,
       passVars
  <2> QED
    BY <1>2, <2>1, HostWaits DEF Busy
<1>3. CASE UNCHANGED nvmeVars
  BY <1>3 DEF Busy, nvmeVars, queueVars, passVars
<1> QED
  BY <1>1, <1>2, <1>3 DEF NvmeNext

\* What DoorbellReturns rests on beside fairness: a pass to a tail inside the
\* queue has a bounded number of steps, whatever a change of AQA left of the head
\* and whatever fails, and ends in the return of the doorbell (lines 187-202,
\* 268-272).
THEOREM DoorbellIsShort == NvmeSpec => [][PassCountsDown]_nvmeVars
<1> DEFINE Inv == NvmeInv /\ Busy
           In == pc \in {"loop", "exec", "complete", "advance"}
<1>1. NvmeInit => Inv
  BY NvmeInitInv DEF NvmeInit, Busy
<1>2. Inv /\ [NvmeNext]_nvmeVars => Inv'
  BY NvmeNextInv, BusyStep
<1>3. Inv /\ [NvmeNext]_nvmeVars => [PassCountsDown]_nvmeVars
  <2> SUFFICES ASSUME NvmeInv, Busy, NvmeNext, pc # "idle", sq_tail < aqa.sq
               PROVE  /\ StepsLeft \in 0 .. 4 * aqa.sq + 1
                      /\ StepsLeft' = 0 => pc' \in {"idle", "astray"}
                      /\ IF PassStep THEN StepsLeft' \in 0 .. StepsLeft - 1
                                     ELSE StepsLeft' = StepsLeft
    BY DEF PassCountsDown
  <2> DEFINE n == aqa.sq
             g == ToGo(sq_head, sq_tail, n)
  <2>1. /\ n \in Nat /\ n \in 1 .. QueueMax /\ sq_head \in Queue /\ sq_head \in Nat
        /\ sq_tail \in 0 .. n - 1
        /\ In \/ pc = "astray"
    BY NvmeAssumption DEF NvmeInv, NvmeTypeOK, Queue
  <2>2. g \in 0 .. n /\ (sq_head # sq_tail => g > 0)
    BY <2>1, ToGoIs
  <2>3. /\ pc = "loop" => StepsLeft = 4 * g + 1
        /\ pc = "exec" => StepsLeft = 4 * g /\ g > 0
        /\ pc = "complete" => StepsLeft = 4 * g - 1 /\ g > 0
        /\ pc = "advance" => StepsLeft = 4 * g - 2 /\ g > 0
        /\ pc = "astray" => StepsLeft = 0
    <3> HIDE DEF g
    <3>1. In => StepsLeft = 4 * g + 1 - (CASE pc = "loop" -> 0 [] pc = "exec" -> 1
                                          [] pc = "complete" -> 2 [] pc = "advance" -> 3)
      BY DEF StepsLeft, g
    <3> QED
      BY <2>2, <3>1 DEF StepsLeft, Busy
  <2>4. CASE PassStep
    <3> DEFINE h == ToGo(sq_head', sq_tail', aqa'.sq)
    <3>1. /\ pc = "advance" => h = g - 1
          /\ pc # "advance" => h = g
      <4>1. pc = "advance" => h = ToGo(After(sq_head, n), sq_tail, n)
        BY <2>4, PassOrder
      <4>2. pc = "advance" => ToGo(After(sq_head, n), sq_tail, n) = g - 1
        BY <2>1, OneNearer DEF Busy
      <4> QED
        BY <2>4, <4>1, <4>2, PassOrder
    <3>2. /\ pc' = "loop" => StepsLeft' = 4 * h + 1
          /\ pc' = "exec" => StepsLeft' = 4 * h
          /\ pc' = "complete" => StepsLeft' = 4 * h - 1
          /\ pc' = "advance" => StepsLeft' = 4 * h - 2
          /\ pc' \in {"idle", "astray"} => StepsLeft' = 0
      <4> HIDE DEF h
      <4>1. pc' \in {"loop", "exec", "complete", "advance"} =>
              StepsLeft' = 4 * h + 1 - (CASE pc' = "loop" -> 0 [] pc' = "exec" -> 1
                                         [] pc' = "complete" -> 2 [] pc' = "advance" -> 3)
        BY DEF StepsLeft, h
      <4>2. h \in Int
        BY <2>2, <3>1
      <4> QED
        BY <4>1, <4>2 DEF StepsLeft
    <3> HIDE DEF g, h
    <3> QED
      BY <2>1, <2>2, <2>3, <2>4, <3>1, <3>2, PassOrder
  <2>5. CASE ~PassStep
    <3>1. UNCHANGED <<pc, sq_head, sq_tail, aqa>>
      BY <2>5, HostWaits DEF NvmeNext
    <3>2. StepsLeft' = StepsLeft
      BY <3>1 DEF StepsLeft
    <3> HIDE DEF g
    <3> QED
      BY <2>1, <2>2, <2>3, <2>5, <3>1, <3>2
  <2> QED
    BY <2>4, <2>5
<1> QED
  BY <1>1, <1>2, <1>3, PTL DEF NvmeSpec

-----------------------------------------------------------------------------
(* The program: types.                                                      *)

\* The program's queues fit the mapped memory and its indices the device's
\* registers.
LEMMA QueueFits ==
  /\ QueueSize \in Nat /\ QueueSize >= 2 /\ QueueSize <= QueueMax /\ QueueSize < IndexSpan
  /\ Sizes \in [sq : 1 .. QueueMax, cq : 1 .. QueueMax]
  /\ 0 .. QueueSize - 1 \subseteq Queue /\ 0 .. QueueSize - 1 \subseteq 0 .. IndexSpan - 1
  /\ QueueMax \in Nat /\ IndexSpan \in Nat
BY NvmeAssumption, HostAssumption DEF Sizes, Queue

\* What a step of the device leaves alone: the registers, the config space, the
\* host's indices, the submission queue, and the completion queue but for the
\* entry it writes (lines 96-202).
LEMMA PassLeaves ==
  ASSUME PassStep
  PROVE  /\ UNCHANGED <<regVars, cfgVars, sq_tail, cq_head, sq>>
         /\ ~WriteCqe => cq' = cq
         /\ ~Advance => UNCHANGED <<sq_head, cq_tail, cq_phase, msi>>
         /\ pc \in {"loop", "exec", "complete", "advance"}
         /\ pc' \in {"idle", "loop", "exec", "complete", "advance", "astray"}
         /\ pc' = "advance" => WriteCqe \/ WriteCqeFails
         /\ pc = "advance" => Advance
BY DEF PassStep, PassReturns, Fetch, FetchFails, Identify, OutOfRange, Astray, Read, ReadFails,
       Write, WriteFails, Accepted, OtherOpcode, WriteCqe, WriteCqeFails, Advance, Finish,
       regVars, cfgVars, queueVars, memVars

\* Before the program has opened the device.
LEMMA HostInitTyped == HostInit => TypeInv
<1> SUFFICES ASSUME HostInit PROVE TypeInv
  OBVIOUS
<1>1. NvmeInv /\ \A i \in Queue : cq[i].cid \in Nat
  BY NvmeInitInv DEF HostInit, NvmeInit, ZeroCqe
<1>2. shadow \in [Blocks -> SUBSET Data]
  BY NvmeAssumption DEF HostInit
<1>3. /\ nsessions \in 0 .. NSessions /\ ntimeouts \in 0 .. MaxTimeouts
      /\ cmd_id \in 1 .. NCmds + 1
      /\ h_tail \in 0 .. QueueSize - 1 /\ h_head \in 0 .. QueueSize - 1
  BY HostAssumption, QueueFits DEF HostInit
<1>4. /\ session = "closed" /\ IsCmd(pending) /\ irq \in BOOLEAN /\ ran \in Nat
  BY ZeroIsCmd DEF HostInit
<1>5. HostTypeOK
  BY <1>1, <1>2, <1>3, <1>4 DEF HostTypeOK, NvmeInv
<1> QED
  BY <1>1, <1>5 DEF TypeInv

\* The device keeps the types (lines 96-202).
LEMMA DeviceTyped ==
  ASSUME TypeInv, Device
  PROVE  TypeInv'
<1>1. NvmeInv'
  BY PassStepInv DEF TypeInv, Device
<1>2. \A i \in Queue : cq'[i].cid \in Nat
  <2>1. CASE WriteCqe
    BY <2>1 DEF TypeInv, NvmeInv, NvmeTypeOK, IsCmd, WriteCqe
  <2>2. CASE ~WriteCqe
    BY <2>2, PassLeaves DEF TypeInv, Device
  <2> QED
    BY <2>1, <2>2
<1>3. ran' \in Nat
  BY DEF Device, TypeInv, HostTypeOK
<1> QED
  BY <1>1, <1>2, <1>3 DEF TypeInv, HostTypeOK, NvmeInv, Device, hostVars

\* Opening the device makes its memory anew (edu_nvme_class_init sets no reset
\* handler, so the registers stay).
LEMMA OpenTyped ==
  ASSUME TypeInv, Open
  PROVE  TypeInv'
<1>1. /\ DOMAIN sq' = Queue /\ DOMAIN cq' = Queue
      /\ \A i \in Queue : /\ IsCmd(sq'[i])
                          /\ cq'[i].status \in Statuses /\ cq'[i].phase \in {0, 1}
                          /\ cq'[i].cid \in Nat
  BY ZeroIsCmd DEF Open, ZeroCqe, Statuses
<1>2. mem' \in [Addrs -> Data]
  BY NvmeAssumption DEF Open
<1>3. NvmeInv'
  BY <1>1, <1>2 DEF TypeInv, NvmeInv, NvmeTypeOK, Open, regVars, queueVars, passVars
<1>4. /\ ntimeouts' \in 0 .. MaxTimeouts /\ cmd_id' \in 1 .. NCmds + 1
      /\ h_tail' \in 0 .. QueueSize - 1 /\ h_head' \in 0 .. QueueSize - 1
  BY HostAssumption, QueueFits DEF Open
<1>5. nsessions' \in 0 .. NSessions
  BY HostAssumption DEF Open, TypeInv, HostTypeOK
<1>6. /\ session' = "config" /\ IsCmd(pending') /\ irq' = FALSE
      /\ shadow' = shadow /\ ran' = ran
  BY ZeroIsCmd DEF Open
<1>7. HostTypeOK'
  BY <1>3, <1>4, <1>5, <1>6 DEF TypeInv, HostTypeOK, NvmeInv
<1> QED
  BY <1>1, <1>3, <1>7 DEF TypeInv

\* Setting up writes legal values to the registers (test_nvme.cpp lines 226-235).
LEMMA SetupTyped ==
  ASSUME TypeInv, SetupController
  PROVE  TypeInv'
<1>1. \/ WriteConfig(TRUE, TRUE) \/ WriteAqa(Sizes)
      \/ WriteAsqLo(SqBase.lo) \/ WriteAsqHi(SqBase.hi)
      \/ WriteAcqLo(CqBase.lo) \/ WriteAcqHi(CqBase.hi) \/ WriteCC(TRUE)
  BY DEF SetupController, Setup, Sizes
<1>2. SqBase.lo \in Halves /\ SqBase.hi \in Halves /\ CqBase.lo \in Halves /\ CqBase.hi \in Halves
  BY NvmeAssumption
<1>3. NvmeInv'
  BY <1>1, <1>2, QueueFits, RegisterWriteInv DEF TypeInv
<1>4. cq' = cq
  BY <1>1
  DEF WriteConfig, WriteAqa, WriteAsqLo, WriteAsqHi, WriteAcqLo, WriteAcqHi, WriteAsq,
      WriteAcq, WriteCC, memVars
<1>5. /\ UNCHANGED <<nsessions, h_tail, h_head, cmd_id, pending, irq, ntimeouts, shadow>>
      /\ session' \in {"aqa", "asq", "asq_hi", "acq", "acq_hi", "cc", "ready"}
      /\ ran' \in {0, ran}
  BY DEF SetupController, Setup
<1> QED
  BY <1>3, <1>4, <1>5 DEF TypeInv, HostTypeOK, NvmeInv

\* A command of the program (test_nvme.cpp lines 249-256).
Request(op, lba) == [opcode |-> op, cid |-> cmd_id, prp1 |-> 1, lba |-> lba, nlb |-> 1]

\* What the program submits: a write or a read of one block, which may be just
\* beyond the disk, or identify.
Submits ==
  \E op \in {"write", "read", "identify"}, lba \in 0 .. NumBlocks, x \in Data :
    Submit(op, lba, x)

\* Submitting puts a command into the next slot and rings the doorbell
\* (test_nvme.cpp lines 249-256).
LEMMA SubmitTyped ==
  ASSUME TypeInv, Submits
  PROVE  TypeInv'
<1> PICK op \in {"write", "read", "identify"}, lba \in 0 .. NumBlocks, x \in Data :
      Submit(op, lba, x)
  BY DEF Submits
<1>1. /\ sq' = [sq EXCEPT ![h_tail] = Request(op, lba)]
      /\ pending' = Request(op, lba)
      /\ mem' = (CASE op = "write" -> [mem EXCEPT ![1] = x]
                   [] op = "read"  -> [mem EXCEPT ![1] = 0]
                   [] OTHER        -> mem)
      /\ shadow' = (IF op = "write" /\ lba \in Blocks
                    THEN [shadow EXCEPT ![lba] = @ \cup {0, x}] ELSE shadow)
      /\ cmd_id <= NCmds /\ cmd_id' = cmd_id + 1
      /\ h_tail' = (h_tail + 1) % QueueSize /\ sq_tail' = h_tail'
      /\ pc = "idle" /\ pc' = "loop"
      /\ UNCHANGED <<regVars, sq_head, cq_tail, cq_head, cq_phase, storage, cfgVars,
                     cmd, fetched, status, cq, msi, session, nsessions, h_head, irq,
                     ntimeouts, ran>>
  BY DEF Submit, Request
<1>2. cmd_id \in 1 .. NCmds + 1 /\ h_tail \in 0 .. QueueSize - 1
  BY DEF TypeInv, HostTypeOK
<1>3. IsCmd(Request(op, lba))
  BY <1>2, HostAssumption, NvmeAssumption DEF IsCmd, Request
<1>4. DOMAIN sq' = Queue /\ \A i \in Queue : IsCmd(sq'[i])
  BY <1>1, <1>3 DEF TypeInv, NvmeInv, NvmeTypeOK
<1>5. mem' \in [Addrs -> Data]
  BY <1>1, NvmeAssumption DEF TypeInv, NvmeInv, NvmeTypeOK
<1>6. shadow' \in [Blocks -> SUBSET Data]
  BY <1>1, NvmeAssumption DEF TypeInv, HostTypeOK
<1>7. h_tail' \in 0 .. QueueSize - 1 /\ sq_tail' \in 0 .. IndexSpan - 1
  <2>1. h_tail + 1 \in Nat /\ QueueSize \in Nat \ {0}
    BY <1>2, QueueFits
  <2> QED
    BY <1>1, <2>1, ModBound, QueueFits
<1>8. cmd_id' \in 1 .. NCmds + 1
  BY <1>1, <1>2, HostAssumption
<1>9. NvmeInv'
  BY <1>1, <1>4, <1>5, <1>7 DEF TypeInv, NvmeInv, NvmeTypeOK, regVars, cfgVars
<1>10. HostTypeOK'
  BY <1>1, <1>3, <1>6, <1>7, <1>8, <1>9 DEF TypeInv, NvmeInv, HostTypeOK
<1> QED
  BY <1>1, <1>9, <1>10 DEF TypeInv

\* Taking a completion rings the completion doorbell (test_nvme.cpp lines
\* 258-267).
LEMMA TakeTyped ==
  ASSUME TypeInv, TakeCompletion
  PROVE  TypeInv'
<1>1. h_head' \in 0 .. QueueSize - 1
  <2>1. h_head + 1 \in Nat /\ QueueSize \in Nat \ {0}
    BY QueueFits DEF TypeInv, HostTypeOK
  <2> QED
    BY <2>1, ModBound DEF TakeCompletion
<1>2. NvmeInv'
  <2>1. h_head' \in Nat
    BY <1>1, QueueFits
  <2> QED
    BY <2>1, RegisterWriteInv DEF TakeCompletion, TypeInv
<1>3. shadow' \in [Blocks -> SUBSET Data]
  <2>1. mem[1] \in Data
    BY NvmeAssumption DEF TypeInv, NvmeInv, NvmeTypeOK, Addrs
  <2> QED
    BY <2>1 DEF TakeCompletion, Learnt, TypeInv, HostTypeOK
<1>4. cq' = cq
  BY DEF TakeCompletion, WriteCqHead, memVars
<1>5. /\ irq' = FALSE /\ pending' = ZeroCmd
      /\ UNCHANGED <<session, nsessions, h_tail, cmd_id, ntimeouts, ran>>
  BY DEF TakeCompletion
<1> QED
  BY <1>1, <1>2, <1>3, <1>4, <1>5, ZeroIsCmd DEF TypeInv, HostTypeOK, NvmeInv

\* The other steps change neither registers nor memory.
LEMMA QuietTyped ==
  ASSUME TypeInv, AwaitReady \/ Die \/ Timeout \/ Interrupt \/ UNCHANGED vars
  PROVE  TypeInv'
<1>1. /\ UNCHANGED <<regVars, queueVars, storage, cfgVars, passVars, memVars>>
      /\ UNCHANGED <<nsessions, h_tail, h_head, cmd_id, shadow, ran>>
      /\ pending' \in {pending, ZeroCmd} /\ session' \in {session, "running", "closed"}
  BY DEF AwaitReady, Die, Timeout, Interrupt, Arrive, vars, nvmeVars, hostVars
<1>2. ntimeouts' \in 0 .. MaxTimeouts
  BY HostAssumption
  DEF AwaitReady, Die, Timeout, Interrupt, vars, hostVars, TypeInv, HostTypeOK
<1>3. msi' \in BOOLEAN
  BY DEF AwaitReady, Die, Timeout, Interrupt, Arrive, vars, nvmeVars, TypeInv, NvmeInv, NvmeTypeOK
<1>4. irq' \in BOOLEAN
  BY DEF AwaitReady, Die, Timeout, Interrupt, vars, hostVars, TypeInv, HostTypeOK
<1>5. NvmeInv'
  BY <1>1, <1>3
  DEF TypeInv, NvmeInv, NvmeTypeOK, regVars, queueVars, cfgVars, passVars, memVars
<1>6. HostTypeOK'
  BY <1>1, <1>2, <1>4, <1>5, ZeroIsCmd DEF TypeInv, NvmeInv, HostTypeOK
<1> QED
  BY <1>1, <1>5, <1>6 DEF TypeInv, memVars

\* What the program's commands are, for every use of Submit in Host.
LEMMA SubmitsAll ==
  ASSUME \/ \E lba \in 0 .. NumBlocks, x \in Data : Submit("write", lba, x)
         \/ \E lba \in Blocks : Submit("read", lba, 0)
         \/ Submit("identify", 0, 0)
  PROVE  Submits
<1>1. 0 \in Data /\ Blocks \subseteq 0 .. NumBlocks /\ 0 \in 0 .. NumBlocks
  BY NvmeAssumption DEF Blocks
<1> QED
  BY <1>1 DEF Submits

\* A step of Spec is one of these.
LEMMA StepCases ==
  ASSUME [Next]_vars
  PROVE  \/ Device \/ Open \/ SetupController \/ Submits \/ TakeCompletion
         \/ AwaitReady \/ Die \/ Timeout \/ Interrupt \/ UNCHANGED vars
BY SubmitsAll DEF Next, Host

\* Every step keeps the types.
LEMMA StepTyped == TypeInv /\ [Next]_vars => TypeInv'
BY StepCases, DeviceTyped, OpenTyped, SetupTyped, SubmitTyped, TakeTyped, QuietTyped

\* Types and bounds of the controller and its host program hold, whichever
\* access fails, however often the program times out, dies and starts again.
THEOREM HostTypeCorrect == Spec => []HostTypeOK
<1>1. TypeInv => HostTypeOK
  BY DEF TypeInv
<1> QED
  BY <1>1, HostInitTyped, StepTyped, PTL DEF Spec

-----------------------------------------------------------------------------
(* The program: set-up and phases.                                          *)

\* A pass runs in a running session, where SetUp speaks of the registers only.
LEMMA RunningStays ==
  ASSUME SetUp, session = "running", session' = "running",
         UNCHANGED <<regVars, cfgVars>>
  PROVE  SetUp'
BY DEF SetUp, regVars, cfgVars, Configuring, Enabled

\* The set-up sequence leaves the registers as the program wants them, whatever
\* an earlier session left in them (test_nvme.cpp lines 226-235).
LEMMA SetupSetsUp ==
  ASSUME TypeInv, SetUp, SetupController
  PROVE  SetUp'
<1> USE DEF Configuring, Enabled
<1>1. /\ UNCHANGED <<nsessions, h_tail, h_head, cmd_id, pending, irq, ntimeouts, shadow>>
      /\ session \in Configuring /\ session' \in (Configuring \ {"config"}) \cup {"ready"}
  BY DEF SetupController, Setup
<1>2. /\ pc' = "idle" /\ ~msi' /\ cq' = cq
  BY <1>1
  DEF SetUp, SetupController, Setup, WriteConfig, WriteAqa, WriteAsqLo, WriteAsqHi, WriteAcqLo,
      WriteAcqHi, WriteAsq, WriteAcq, WriteCC, memVars, passVars
<1>3. /\ pc' = "idle" /\ ~msi' /\ ~irq' /\ pending' = ZeroCmd
      /\ cmd_id' = 1 /\ h_tail' = 0 /\ h_head' = 0 /\ ntimeouts' = 0
      /\ cq' = [i \in Queue |-> ZeroCqe]
  BY <1>1, <1>2 DEF SetUp
<1>4. /\ asq \in [hi : Halves, lo : Halves] /\ acq \in [hi : Halves, lo : Halves]
      /\ SqBase \in [hi : Halves, lo : Halves] /\ CqBase \in [hi : Halves, lo : Halves]
  BY NvmeAssumption DEF TypeInv, NvmeInv, NvmeTypeOK
<1>5. bus_master' /\ msix'
  BY <1>1
  DEF SetUp, SetupController, Setup, WriteConfig, WriteAqa, WriteAsqLo, WriteAsqHi, WriteAcqLo,
      WriteAcqHi, WriteAsq, WriteAcq, WriteCC, cfgVars
<1>6. session' # "aqa" => aqa' = Sizes
  BY <1>1
  DEF SetUp, SetupController, Setup, WriteConfig, WriteAqa, WriteAsqLo, WriteAsqHi, WriteAcqLo,
      WriteAcqHi, WriteAsq, WriteAcq, WriteCC, Sizes
<1>7. session' = "asq_hi" => asq'.lo = SqBase.lo
  BY <1>4 DEF SetupController, Setup, WriteAsqLo, WriteAsq
<1>8. session' \in {"acq", "acq_hi", "cc", "ready"} => asq' = SqBase
  <2>1. CASE Setup("asq_hi", WriteAsqHi(SqBase.hi), "acq")
    BY <2>1, <1>4 DEF Setup, SetUp, WriteAsqHi, WriteAsq
  <2>2. CASE ~Setup("asq_hi", WriteAsqHi(SqBase.hi), "acq")
    BY <2>2
    DEF SetUp, SetupController, Setup, WriteConfig, WriteAqa, WriteAcqLo, WriteAcqHi, WriteAcq,
        WriteCC
  <2> QED
    BY <2>1, <2>2
<1>9. session' = "acq_hi" => acq'.lo = CqBase.lo
  BY <1>4 DEF SetupController, Setup, WriteAcqLo, WriteAcq
<1>10. session' \in {"cc", "ready"} => acq' = CqBase
  <2>1. CASE Setup("acq_hi", WriteAcqHi(CqBase.hi), "cc")
    BY <2>1, <1>4 DEF Setup, SetUp, WriteAcqHi, WriteAcq
  <2>2. CASE ~Setup("acq_hi", WriteAcqHi(CqBase.hi), "cc")
    BY <2>2
    DEF SetUp, SetupController, Setup, WriteConfig, WriteAqa, WriteAsqLo, WriteAsqHi, WriteAsq,
        WriteAcqLo, WriteAcq, WriteCC
  <2> QED
    BY <2>1, <2>2
<1> QED
  BY <1>1, <1>3, <1>5, <1>6, <1>7, <1>8, <1>9, <1>10 DEF SetUp

\* Every step keeps what the stages of the program say.
LEMMA StepSetUp ==
  ASSUME TypeInv, SetUp, [Next]_vars
  PROVE  SetUp'
<1>1. CASE Device
  <2>1. session = "running" /\ session' = "running" /\ UNCHANGED <<regVars, cfgVars>>
    BY <1>1, PassLeaves DEF SetUp, Device, hostVars
  <2> QED
    BY <2>1, RunningStays
<1>2. CASE Open
  BY <1>2 DEF Open, SetUp, passVars, Configuring, Enabled
<1>3. CASE SetupController
  BY <1>3, SetupSetsUp
<1>4. CASE Submits
  <2>1. session = "running" /\ session' = "running" /\ UNCHANGED <<regVars, cfgVars>>
    BY <1>4 DEF Submits, Submit
  <2> QED
    BY <2>1, RunningStays
<1>5. CASE TakeCompletion \/ Timeout
  <2>1. session = "running" /\ session' = "running" /\ UNCHANGED <<regVars, cfgVars>>
    BY <1>5 DEF TakeCompletion, Timeout, Waiting, WriteCqHead, nvmeVars
  <2> QED
    BY <2>1, RunningStays
<1>6. CASE AwaitReady
  BY <1>6
  DEF AwaitReady, SetUp, nvmeVars, regVars, cfgVars, passVars, memVars, Configuring, Enabled
<1>7. CASE Die
  BY <1>7 DEF Die, SetUp, nvmeVars, regVars, cfgVars, passVars, memVars, Configuring, Enabled
<1>8. CASE Interrupt
  <2>1. session \notin Configuring \cup {"ready"}
    BY <1>8 DEF Interrupt, Arrive, SetUp
  <2> QED
    BY <1>8, <2>1
    DEF Interrupt, Arrive, SetUp, regVars, cfgVars, passVars, memVars, Configuring, Enabled
<1>9. CASE UNCHANGED vars
  BY <1>9
  DEF SetUp, vars, nvmeVars, hostVars, regVars, cfgVars, passVars, memVars, Configuring, Enabled
<1> QED
  BY <1>1, <1>2, <1>3, <1>4, <1>5, <1>6, <1>7, <1>8, <1>9, StepCases

\* Before the first session there is nothing to say.
LEMMA InitSetUp == HostInit => SetUp /\ Phases
BY DEF HostInit, NvmeInit, SetUp, Phases, Configuring, Enabled

\* What enables the controller (edu_nvme.c lines 242-249).
LEMMA Enabling ==
  ASSUME TypeInv, SetUp, session \notin Enabled, session' \in Enabled, [Next]_vars
  PROVE  /\ cq_tail' = 0 /\ cq_phase' = 1 /\ sq_tail' = 0 /\ sq_head' = 0 /\ ran' = 0
         /\ session' = "ready" /\ pc' = "idle"
         /\ cq' = [i \in Queue |-> ZeroCqe]
<1>1. Setup("cc", WriteCC(TRUE), "ready") /\ ran' = 0
  BY StepCases
  DEF Enabled, Device, hostVars, Open, SetupController, Setup, Submits, Submit, TakeCompletion,
      Waiting, AwaitReady, Die, Timeout, Interrupt, vars
<1>2. pc = "idle" /\ cq = [i \in Queue |-> ZeroCqe]
  BY <1>1 DEF Setup, SetUp, Configuring
<1> QED
  BY <1>1, <1>2 DEF Setup, WriteCC, EnabledCq, passVars, memVars

\* What changes the queues in an enabled session is the device and Submit.
LEMMA EnabledLeaves ==
  ASSUME TypeInv, SetUp, session \in Enabled, session' \in Enabled, [Next]_vars,
         ~Device, ~Submits
  PROVE  /\ UNCHANGED <<pc, cq, sq, cq_tail, cq_phase, sq_tail, sq_head, cmd, status>>
         /\ UNCHANGED <<h_tail, cmd_id, ran, storage, mem>>
<1>1. TakeCompletion \/ AwaitReady \/ Timeout \/ Interrupt \/ UNCHANGED vars
  BY StepCases DEF Enabled, Open, SetupController, Setup, Die
<1>2. UNCHANGED <<pc, cq, sq, cq_tail, cq_phase, sq_tail, sq_head, cmd, status>>
  BY <1>1
  DEF TakeCompletion, WriteCqHead, AwaitReady, Timeout, Interrupt, Arrive, vars, nvmeVars,
      queueVars, passVars, memVars
<1>3. UNCHANGED <<h_tail, cmd_id, ran, storage, mem>>
  BY <1>1
  DEF TakeCompletion, WriteCqHead, AwaitReady, Timeout, Interrupt, Arrive, vars, nvmeVars,
      hostVars, memVars
<1> QED
  BY <1>2, <1>3

\* In an enabled session both queue accesses reach the mapped memory.
LEMMA QueuesReached ==
  ASSUME SetUp, session \in Enabled
  PROVE  /\ "cqe" \notin Faulty => ~WriteCqeFails
         /\ "fetch" \notin Faulty => ~FetchFails
         /\ Notifies
         /\ aqa = Sizes
BY DEF SetUp, WriteCqeFails, FetchFails, DmaErr, Notifies, Enabled, Configuring

\* An entry is written with the current phase where the last lap left the other
\* one, and at the end of the queue the phase turns (lines 164-175).
LEMMA StepPhases ==
  ASSUME "cqe" \notin Faulty, TypeInv, SetUp, Phases, [Next]_vars
  PROVE  Phases'
<1> SUFFICES ASSUME session' \in Enabled
             PROVE  /\ cq_tail' < QueueSize
                    /\ \A i \in 0 .. QueueSize - 1 :
                         cq'[i].phase = cq_phase'
                           <=> i < cq_tail' \/ (pc' = "advance" /\ i = cq_tail')
  BY DEF Phases
<1>1. CASE session \notin Enabled
  BY <1>1, Enabling, QueueFits DEF ZeroCqe
<1>2. CASE session \in Enabled /\ ~Device
  <2>1. CASE Submits
    BY <1>2, <2>1 DEF Phases, Submits, Submit
  <2>2. CASE ~Submits
    BY <1>2, <2>2, EnabledLeaves DEF Phases
  <2> QED
    BY <2>1, <2>2
<1>3. CASE session \in Enabled /\ Device
  <2>1. /\ cq_tail \in Nat /\ cq_tail < QueueSize /\ QueueSize \in Nat
        /\ cq_tail \in Queue /\ cq_phase \in {0, 1}
        /\ \A i \in 0 .. QueueSize - 1 : i \in Queue /\ cq[i].phase \in {0, 1}
        /\ \A i \in 0 .. QueueSize - 1 :
             cq[i].phase = cq_phase <=> i < cq_tail \/ (pc = "advance" /\ i = cq_tail)
    BY <1>3, QueueFits DEF Phases, TypeInv, NvmeInv, NvmeTypeOK, Queue
  <2>2. PassStep /\ ~WriteCqeFails
    BY <1>3, QueuesReached DEF Device
  <2>3. CASE WriteCqe
    <3>1. /\ pc = "complete" /\ pc' = "advance" /\ UNCHANGED <<cq_tail, cq_phase>>
          /\ cq' = [cq EXCEPT ![cq_tail] = [cid |-> cmd.cid, sq_head |-> sq_head,
                                            status |-> status, phase |-> cq_phase]]
      BY <2>3 DEF WriteCqe, CqeSlot, queueVars
    <3>2. \A i \in Queue : cq'[i].phase = IF i = cq_tail THEN cq_phase ELSE cq[i].phase
      BY <3>1 DEF TypeInv, NvmeInv
    <3> QED
      BY <2>1, <3>1, <3>2
  <2>4. CASE Advance
    <3>1. aqa.cq = QueueSize /\ QueueSize \in 1 .. QueueMax
      BY <1>3, QueuesReached, QueueFits DEF Sizes
    <3>2. /\ pc = "advance" /\ pc' = "loop" /\ cq' = cq
          /\ cq_tail' = (IF cq_tail + 1 >= QueueSize THEN 0 ELSE cq_tail + 1)
          /\ cq_phase' = (IF cq_tail + 1 >= QueueSize THEN 1 - cq_phase ELSE cq_phase)
      <4>1. (cq_tail + 1) % IndexSpan >= QueueSize <=> cq_tail + 1 >= QueueSize
        <5>1. cq_tail + 1 < IndexSpan
          BY <2>1, QueueFits
        <5> QED
          BY <2>1, <3>1, <5>1, AfterIs
      <4> QED
        BY <2>1, <2>4, <3>1, <4>1, AfterIs DEF Advance, memVars
    <3>3. CASE cq_tail + 1 >= QueueSize
      <4>1. cq_tail' = 0 /\ cq_phase' = 1 - cq_phase /\ cq_tail = QueueSize - 1
        BY <2>1, <3>2, <3>3
      <4>2. \A i \in 0 .. QueueSize - 1 : cq[i].phase = cq_phase
        BY <2>1, <3>2, <4>1
      <4> QED
        BY <2>1, <3>2, <4>1, <4>2
    <3>4. CASE ~(cq_tail + 1 >= QueueSize)
      BY <2>1, <3>2, <3>4
    <3> QED
      BY <3>3, <3>4
  <2>5. CASE ~WriteCqe /\ ~Advance
    <3>1. UNCHANGED <<cq, cq_tail, cq_phase>> /\ pc # "advance" /\ pc' # "advance"
      BY <2>2, <2>5, PassLeaves
    <3> QED
      BY <2>1, <3>1
  <2> QED
    BY <2>3, <2>4, <2>5
<1> QED
  BY <1>1, <1>2, <1>3

\* In a running session the phase bit tells the entries of this lap from older
\* ones, also after restarts that found phase and index of the last session, if
\* no write of a completion fails (lines 164-175, 242-249).
THEOREM PhaseTells == "cqe" \notin Faulty => (Spec => []PhaseTellsNew)
<1> SUFFICES ASSUME "cqe" \notin Faulty PROVE Spec => []PhaseTellsNew
  OBVIOUS
<1>1. HostInit => PhaseInv
  BY HostInitTyped, InitSetUp DEF PhaseInv
<1>2. PhaseInv /\ [Next]_vars => PhaseInv'
  BY StepTyped, StepSetUp, StepPhases DEF PhaseInv
<1>3. PhaseInv => PhaseTellsNew
  BY DEF PhaseInv, Phases, PhaseTellsNew, Enabled
<1> QED
  BY <1>1, <1>2, <1>3, PTL DEF Spec

-----------------------------------------------------------------------------
(* The program: commands and completions.                                   *)

\* The counts are numbers, and indices of the two queues are slots.
LEMMA CountTypes ==
  ASSUME TypeInv
  PROVE  /\ ran \in Nat /\ cmd_id \in Nat /\ cmd_id >= 1 /\ ntimeouts \in Nat
         /\ h_head \in 0 .. QueueSize - 1 /\ h_tail \in 0 .. QueueSize - 1
         /\ QueueSize \in Nat /\ QueueSize >= 2 /\ QueueSize > 0
         /\ sq_head \in Queue /\ cq_tail \in Queue
         /\ \A i \in 0 .. QueueSize - 1 : i \in Queue /\ cq[i].cid \in Nat
         /\ \A a \in Int : a % QueueSize \in 0 .. QueueSize - 1
<1>1. /\ QueueSize \in Nat /\ QueueSize >= 2 /\ QueueSize > 0
      /\ 0 .. QueueSize - 1 \subseteq Queue
  BY QueueFits
<1>2. \A a \in Int : a % QueueSize \in 0 .. QueueSize - 1
  BY <1>1, SMT
<1>3. cmd_id \in 1 .. NCmds + 1 /\ ntimeouts \in 0 .. MaxTimeouts
  BY DEF TypeInv, HostTypeOK
<1>4. cmd_id \in Nat /\ cmd_id >= 1 /\ ntimeouts \in Nat
  BY <1>3, HostAssumption
<1> QED
  BY <1>1, <1>2, <1>4 DEF TypeInv, HostTypeOK, NvmeInv, NvmeTypeOK

\* The controller's way of stepping an index, comparing with the size, and the
\* host's, reducing modulo it, agree (edu_nvme.c lines 172-175 and 197-200,
\* test_nvme.cpp lines 253 and 264).
LEMMA AfterNext ==
  ASSUME NEW a \in Int
  PROVE  After(a % QueueSize, QueueSize) = (a + 1) % QueueSize
<1>1. QueueSize \in Nat /\ QueueSize > 0 /\ QueueSize \in 1 .. QueueMax
  BY QueueFits
<1> DEFINE i == a % QueueSize
<1>2. i \in 0 .. QueueSize - 1 /\ i \in Queue
  BY <1>1, QueueFits, SMT
<1>3. (a + 1) % QueueSize = (i + 1) % QueueSize
  BY <1>1, ModNext
<1> HIDE DEF i
<1>4. After(i, QueueSize) = IF i + 1 >= QueueSize THEN 0 ELSE i + 1
  BY <1>1, <1>2, AfterIs
<1>5. CASE i + 1 >= QueueSize
  <2>1. i + 1 = QueueSize * 1 + 0 /\ 0 \in 0 .. QueueSize - 1
    BY <1>1, <1>2, <1>5
  <2>2. (i + 1) % QueueSize = 0
    BY <1>1, <2>1, ModOfSum
  <2> QED
    BY <1>3, <1>4, <1>5, <2>2 DEF i
<1>6. CASE ~(i + 1 >= QueueSize)
  <2>1. i + 1 \in 0 .. QueueSize - 1
    BY <1>1, <1>2, <1>6
  <2>2. (i + 1) % QueueSize = i + 1
    BY <1>1, <2>1, ModSmall
  <2> QED
    BY <1>3, <1>4, <1>6, <2>2 DEF i
<1> QED
  BY <1>5, <1>6

\* The doorbell's loop goes on exactly while the command under way has not been
\* completed: head and tail are one apart then (line 189).
LEMMA LoopEnds ==
  ASSUME TypeInv, Counted, session \in Enabled, pc = "loop"
  PROVE  sq_head = sq_tail <=> AllRan
<1>1. /\ ran \in Int /\ cmd_id - 1 \in Int /\ QueueSize \in Nat /\ QueueSize > 0
      /\ QueueSize >= 2
  BY CountTypes
<1>2. /\ sq_tail = (cmd_id - 1) % QueueSize /\ sq_head = ran % QueueSize
      /\ AllRan \/ ran = cmd_id - 2
  BY DEF Counted
<1>3. CASE ran = cmd_id - 2
  <2>1. ran - (cmd_id - 1) < QueueSize /\ (cmd_id - 1) - ran < QueueSize /\ ran # cmd_id - 1
    BY <1>1, <1>3, CountTypes
  <2>2. ran % QueueSize # (cmd_id - 1) % QueueSize
    BY <1>1, <2>1, ModDistinct
  <2> QED
    BY <1>2, <2>1, <2>2 DEF AllRan
<1>4. CASE AllRan
  BY <1>2, <1>4 DEF AllRan
<1> QED
  BY <1>2, <1>3, <1>4

\* Every step keeps the indices in step with the counts.
LEMMA StepCounted ==
  ASSUME "cqe" \notin Faulty, TypeInv, SetUp, Counted, [Next]_vars
  PROVE  Counted'
<1> SUFFICES ASSUME session' \in Enabled PROVE Counted'
  BY DEF Counted
<1>0. /\ ran \in Nat /\ cmd_id \in Nat /\ cmd_id >= 1
      /\ QueueSize \in Nat /\ QueueSize > 0
  BY CountTypes
<1>1. CASE session \notin Enabled
  <2>1. /\ cq_tail' = 0 /\ sq_tail' = 0 /\ sq_head' = 0 /\ ran' = 0 /\ pc' = "idle"
        /\ session' = "ready"
    BY <1>1, Enabling
  <2>2. cmd_id' = 1 /\ h_tail' = 0
    BY <2>1, StepSetUp DEF SetUp
  <2>3. 0 % QueueSize = 0
    BY <1>0, ModSmall
  <2> QED
    BY <2>1, <2>2, <2>3 DEF Counted, AllRan
<1>2. CASE session \in Enabled /\ Submits
  <2>1. /\ cmd_id' = cmd_id + 1 /\ h_tail' = (h_tail + 1) % QueueSize /\ sq_tail' = h_tail'
        /\ pc = "idle" /\ pc' = "loop" /\ UNCHANGED <<ran, cq_tail, sq_head>>
    BY <1>2 DEF Submits, Submit
  <2>2. h_tail = (cmd_id - 1) % QueueSize /\ AllRan
    BY <1>2, <2>1 DEF Counted
  <2>3. (((cmd_id - 1) % QueueSize) + 1) % QueueSize = (cmd_id - 1 + 1) % QueueSize
    BY <1>0, ModNext
  <2>4. cmd_id - 1 + 1 = cmd_id' - 1 /\ ran' = cmd_id' - 2
    BY <1>0, <2>1, <2>2 DEF AllRan
  <2> QED
    BY <1>2, <2>1, <2>2, <2>3, <2>4 DEF Counted
<1>3. CASE session \in Enabled /\ Device
  <2>1. /\ PassStep /\ UNCHANGED <<h_tail, cmd_id, sq_tail>>
        /\ ran' = IF pc = "advance" THEN ran + 1 ELSE ran
    BY <1>3, PassLeaves DEF Device, hostVars
  <2>2. CASE Advance
    <3>1. /\ pc = "advance" /\ pc' = "loop"
          /\ cq_tail' = After(cq_tail, QueueSize) /\ sq_head' = After(sq_head, QueueSize)
      BY <1>3, <2>2, QueuesReached DEF Advance, Sizes
    <3>2. cq_tail = ran % QueueSize /\ sq_head = ran % QueueSize /\ ran = cmd_id - 2
      BY <1>3, <3>1 DEF Counted
    <3>3. ran' = ran + 1
      BY <2>1, <3>1
    <3>4. cq_tail' = ran' % QueueSize /\ sq_head' = ran' % QueueSize
      BY <1>0, <3>1, <3>2, <3>3, AfterNext
    <3>5. ran' = cmd_id' - 1
      BY <1>0, <2>1, <3>2, <3>3
    <3> QED
      BY <1>3, <2>1, <3>1, <3>4, <3>5 DEF Counted, AllRan
  <2>3. CASE ~Advance
    <3>1. UNCHANGED <<ran, cq_tail, sq_head>>
      BY <2>1, <2>3, PassLeaves
    <3>2. CASE PassReturns
      <4>1. pc = "loop" /\ pc' = "idle" /\ AllRan
        BY <1>3, <3>2, LoopEnds DEF PassReturns
      <4> QED
        BY <1>3, <2>1, <3>1, <4>1 DEF Counted, AllRan
    <3>3. CASE Fetch \/ FetchFails
      <4>1. pc = "loop" /\ pc' = "exec" /\ ~AllRan
        BY <1>3, <3>3, LoopEnds DEF Fetch, FetchFails
      <4> QED
        BY <1>3, <2>1, <3>1, <4>1 DEF Counted, AllRan
    <3>4. CASE ~PassReturns /\ ~Fetch /\ ~FetchFails
      <4>1. /\ pc \in {"exec", "complete"} /\ pc' \in {"exec", "complete", "advance", "astray"}
        BY <2>1, <2>3, <3>4
        DEF PassStep, Identify, OutOfRange, Astray, Read, ReadFails, Write, WriteFails, Accepted,
            OtherOpcode, WriteCqe, WriteCqeFails, Finish
      <4> QED
        BY <1>3, <2>1, <3>1, <4>1 DEF Counted
    <3> QED
      BY <3>2, <3>3, <3>4
  <2> QED
    BY <2>2, <2>3
<1>4. CASE session \in Enabled /\ ~Submits /\ ~Device
  <2>1. UNCHANGED <<pc, cq_tail, sq_tail, sq_head, h_tail, cmd_id, ran>>
    BY <1>4, EnabledLeaves
  <2> QED
    BY <1>4, <2>1 DEF Counted, AllRan
<1> QED
  BY <1>1, <1>2, <1>3, <1>4

\* What the device executes is the command the program waits for: the slot it
\* fetches is the one just filled (lines 189-194, test_nvme.cpp lines 249-256).
LEMMA StepUnderWay ==
  ASSUME "fetch" \notin Faulty, TypeInv, SetUp, Counted, UnderWay, [Next]_vars
  PROVE  UnderWay'
<1>0. ran \in Nat /\ cmd_id \in Nat /\ cmd_id >= 1
  BY CountTypes
<1>1. CASE Submits
  <2> PICK op \in {"write", "read", "identify"}, lba \in 0 .. NumBlocks, x \in Data :
        Submit(op, lba, x)
    BY <1>1 DEF Submits
  <2>1. /\ pending' = Request(op, lba) /\ sq' = [sq EXCEPT ![h_tail] = Request(op, lba)]
        /\ cmd_id' = cmd_id + 1 /\ session = "running" /\ pc = "idle" /\ pc' = "loop"
        /\ UNCHANGED <<sq_head, ran>>
    BY DEF Submit, Request
  <2>2. pending'.cid = cmd_id' - 1 /\ pending'.cid > 0 /\ pending'.prp1 = 1 /\ pending'.nlb = 1
    BY <1>0, <2>1 DEF Request
  <2>3. sq_head = h_tail /\ h_tail \in DOMAIN sq
    <3>1. AllRan /\ h_tail = (cmd_id - 1) % QueueSize /\ sq_head = ran % QueueSize
      BY <2>1 DEF Counted, Enabled
    <3> QED
      BY <3>1, CountTypes DEF AllRan, TypeInv, NvmeInv
  <2>4. sq'[sq_head'] = pending'
    BY <2>1, <2>3
  <2>5. pending' # ZeroCmd
    BY <2>2 DEF ZeroCmd
  <2> QED
    BY <2>1, <2>2, <2>4, <2>5 DEF UnderWay
<1>2. CASE Device
  <2>1. /\ PassStep /\ UNCHANGED <<pending, cmd_id, sq>> /\ session = "running"
        /\ pc # "idle" /\ ~FetchFails
        /\ ran' = IF pc = "advance" THEN ran + 1 ELSE ran
    BY <1>2, PassLeaves, QueuesReached DEF Device, hostVars, SetUp, Enabled
  <2>2. CASE PassReturns
    BY <2>1, <2>2 DEF PassReturns, UnderWay
  <2>3. CASE Fetch
    <3>1. pc = "loop" /\ pc' = "exec" /\ cmd' = sq[sq_head] /\ ~AllRan
      BY <2>1, <2>3, LoopEnds DEF Fetch, Enabled
    <3> QED
      BY <2>1, <3>1 DEF UnderWay
  <2>4. CASE Advance
    <3>1. pc = "advance" /\ pc' = "loop"
      BY <2>4 DEF Advance
    <3>2. AllRan'
      BY <1>0, <2>1, <3>1 DEF Counted, AllRan, Enabled
    <3> QED
      BY <2>1, <3>1, <3>2 DEF UnderWay
  <2>5. CASE ~PassReturns /\ ~Fetch /\ ~Advance
    <3>1. /\ pc \in {"exec", "complete"} /\ pc' \in {"exec", "complete", "advance", "astray"}
          /\ cmd' = cmd
      BY <2>1, <2>5
      DEF PassStep, Identify, OutOfRange, Astray, Read, ReadFails, Write, WriteFails, Accepted,
          OtherOpcode, WriteCqe, WriteCqeFails, Finish
    <3> QED
      BY <2>1, <3>1 DEF UnderWay
  <2> QED
    BY <2>2, <2>3, <2>4, <2>5
<1>3. CASE TakeCompletion \/ Timeout \/ Open
  <2>1. pc' = "idle" /\ pending' = ZeroCmd
    BY <1>3 DEF TakeCompletion, WriteCqHead, Timeout, Open, nvmeVars, passVars
  <2> QED
    BY <2>1 DEF UnderWay
<1>4. CASE SetupController
  <2>1. pc = "idle" /\ pc' = "idle" /\ UNCHANGED <<pending, cmd_id>>
    BY <1>4
    DEF SetupController, Setup, WriteConfig, WriteAqa, WriteAsqLo, WriteAsqHi, WriteAcqLo,
        WriteAcqHi, WriteAsq, WriteAcq, WriteCC, passVars
  <2> QED
    BY <2>1 DEF UnderWay
<1>5. CASE AwaitReady \/ Die \/ Interrupt \/ UNCHANGED vars
  <2>1. UNCHANGED <<pending, cmd_id, pc, sq, sq_head, cmd, ran>>
    BY <1>5
    DEF AwaitReady, Die, Interrupt, Arrive, vars, nvmeVars, hostVars, queueVars, passVars, memVars
  <2> QED
    BY <2>1 DEF UnderWay, AllRan
<1> QED
  BY <1>1, <1>2, <1>3, <1>4, <1>5, StepCases

\* Each completion goes to the slot its number gives, over one of the lap before
\* (lines 164-175).
LEMMA StepEntries ==
  ASSUME "cqe" \notin Faulty, TypeInv, SetUp, Counted, UnderWay, Entries, [Next]_vars
  PROVE  Entries'
<1> SUFFICES ASSUME session' \in Enabled PROVE Entries'
  BY DEF Entries
<1>0. /\ ran \in Nat /\ cmd_id \in Nat /\ QueueSize \in Nat /\ QueueSize > 0
      /\ \A i \in 0 .. QueueSize - 1 : i \in Queue /\ cq[i].cid \in Nat
      /\ \A a \in Int : a % QueueSize \in 0 .. QueueSize - 1
  BY CountTypes
<1>1. CASE session \notin Enabled
  <2>1. ran' = 0 /\ pc' = "idle" /\ cq' = [i \in Queue |-> ZeroCqe]
    BY <1>1, Enabling
  <2>2. \A i \in 0 .. QueueSize - 1 : cq'[i].cid = 0
    BY <1>0, <2>1 DEF ZeroCqe
  <2> QED
    BY <2>1, <2>2 DEF Entries
<1>2. CASE session \in Enabled /\ Device
  <2>1. /\ PassStep /\ ~WriteCqeFails
        /\ ran' = IF pc = "advance" THEN ran + 1 ELSE ran
    BY <1>2, QueuesReached DEF Device
  <2>2. CASE WriteCqe
    <3>1. /\ pc = "complete" /\ pc' = "advance" /\ UNCHANGED <<cq_tail, status, ran>>
          /\ cq' = [cq EXCEPT ![cq_tail] = [cid |-> cmd.cid, sq_head |-> sq_head,
                                            status |-> status, phase |-> cq_phase]]
      BY <2>1, <2>2 DEF WriteCqe, CqeSlot, queueVars
    <3>2. cq_tail = ran % QueueSize /\ ran = cmd_id - 2 /\ cmd.cid = cmd_id - 1
      BY <1>2, <3>1 DEF Counted, UnderWay
    <3>3. /\ cq_tail \in Queue /\ cq'[cq_tail].cid = ran + 1 /\ cq'[cq_tail].status = status
          /\ \A i \in Queue : i # cq_tail => cq'[i] = cq[i]
      BY <1>0, <3>1, <3>2 DEF TypeInv, NvmeInv
    <3>4. ASSUME NEW k \in 1 .. ran, k > ran - QueueSize, k # ran + 1 - QueueSize
          PROVE  cq'[(k - 1) % QueueSize].cid = k
      <4>1. cq[(k - 1) % QueueSize].cid = k
        BY <1>2, <3>1, <3>4 DEF Entries
      <4>2. k - 1 \in Int /\ ran \in Int /\ k - 1 # ran
            /\ (k - 1) - ran < QueueSize /\ ran - (k - 1) < QueueSize
        BY <1>0, <3>4
      <4>3. (k - 1) % QueueSize # ran % QueueSize
        BY <1>0, <4>2, ModDistinct
      <4> QED
        BY <1>0, <3>2, <3>3, <4>1, <4>2, <4>3
    <3>5. \A i \in 0 .. QueueSize - 1 : cq'[i].cid <= ran \/ i = cq_tail
      BY <1>0, <1>2, <3>1, <3>3 DEF Entries
    <3> QED
      BY <3>1, <3>3, <3>4, <3>5 DEF Entries
  <2>3. CASE Advance
    <3>1. /\ pc = "advance" /\ pc' = "loop" /\ cq' = cq /\ ran' = ran + 1
      BY <2>1, <2>3 DEF Advance, memVars
    <3>2. cq_tail = ran % QueueSize /\ cq[cq_tail].cid = ran + 1
      BY <1>2, <3>1 DEF Counted, Entries
    <3>3. ASSUME NEW k \in 1 .. ran + 1, k > ran + 1 - QueueSize
          PROVE  cq[(k - 1) % QueueSize].cid = k
      <4>1. CASE k = ran + 1
        BY <1>0, <3>2, <4>1
      <4>2. CASE k # ran + 1
        <5>1. k \in 1 .. ran /\ k > ran - QueueSize /\ k # ran + 1 - QueueSize
          BY <1>0, <3>3, <4>2
        <5> QED
          BY <1>2, <5>1 DEF Entries
      <4> QED
        BY <4>1, <4>2
    <3>4. \A i \in 0 .. QueueSize - 1 : cq[i].cid <= ran + 1
      BY <1>0, <1>2, <3>2 DEF Entries
    <3>5. \A k \in 1 .. ran + 1 :
            k > ran + 1 - QueueSize => cq[(k - 1) % QueueSize].cid = k
      BY <3>3
    <3>6. ASSUME NEW k \in 1 .. ran', k > ran' - QueueSize
          PROVE  cq'[(k - 1) % QueueSize].cid = k
      <4>1. k \in 1 .. ran + 1 /\ k > ran + 1 - QueueSize
        BY <1>0, <3>1, <3>6
      <4>2. cq[(k - 1) % QueueSize].cid = k
        BY <3>5, <4>1
      <4> QED
        BY <3>1, <4>2
    <3>7. \A i \in 0 .. QueueSize - 1 : cq'[i].cid <= ran'
      BY <3>1, <3>4, Zenon
    <3>8. pc' # "advance"
      BY <3>1
    <3> QED
      BY <3>6, <3>7, <3>8 DEF Entries
  <2>4. CASE ~WriteCqe /\ ~Advance
    <3>1. UNCHANGED <<cq, ran>> /\ pc # "advance" /\ pc' # "advance"
      BY <2>1, <2>4, PassLeaves
    <3> QED
      BY <1>2, <3>1 DEF Entries
  <2> QED
    BY <2>2, <2>3, <2>4
<1>3. CASE session \in Enabled /\ Submits
  <2>1. UNCHANGED <<cq, ran>> /\ pc # "advance" /\ pc' # "advance"
    BY <1>3 DEF Submits, Submit
  <2> QED
    BY <1>3, <2>1 DEF Entries
<1>4. CASE session \in Enabled /\ ~Submits /\ ~Device
  <2>1. UNCHANGED <<pc, cq, cq_tail, ran, status>>
    BY <1>4, EnabledLeaves
  <2> QED
    BY <1>4, <2>1 DEF Entries
<1> QED
  BY <1>1, <1>2, <1>3, <1>4

\* The interrupt of a command comes when its completion is there and no earlier
\* one is on its way (lines 178-180, test_nvme.cpp lines 258-267).
LEMMA StepInStep ==
  ASSUME TypeInv, SetUp, Counted, UnderWay, InStep, [Next]_vars
  PROVE  InStep'
<1> SUFFICES ASSUME session' \in Enabled, ntimeouts' = 0 PROVE InStep'
  BY DEF InStep
<1>0. /\ ran \in Nat /\ cmd_id \in Nat /\ cmd_id >= 1
      /\ QueueSize \in Nat /\ QueueSize > 0
  BY CountTypes
<1>1. CASE session \notin Enabled
  <2>1. session' = "ready" /\ ~Waiting'
    BY <1>1, Enabling DEF Waiting
  <2>2. cmd_id' = 1 /\ h_head' = 0 /\ ~msi' /\ ~irq'
    BY <2>1, StepSetUp DEF SetUp
  <2>3. 0 % QueueSize = 0
    BY <1>0, ModSmall
  <2> QED
    BY <2>1, <2>2, <2>3 DEF InStep
<1>2. CASE session \in Enabled /\ Device
  <2>1. /\ PassStep /\ UNCHANGED <<session, h_head, cmd_id, pending, irq, ntimeouts>>
        /\ ran' = IF pc = "advance" THEN ran + 1 ELSE ran
        /\ Waiting' = Waiting
    BY <1>2 DEF Device, hostVars, Waiting
  <2>2. CASE Advance
    <3>1. pc = "advance" /\ session = "running" /\ pending # ZeroCmd /\ ran = cmd_id - 2
      BY <1>2, <2>2 DEF Advance, SetUp, UnderWay, Counted
    <3>2. Waiting /\ ~AllRan /\ AllRan'
      BY <1>0, <2>1, <3>1 DEF Waiting, AllRan
    <3>3. ~irq
      BY <1>2, <2>1, <3>2 DEF InStep
    <3> QED
      BY <1>2, <2>1, <3>2, <3>3 DEF InStep
  <2>3. CASE ~Advance
    <3>1. msi' = msi /\ AllRan' = AllRan
      BY <2>1, <2>3, PassLeaves DEF AllRan
    <3> QED
      BY <1>2, <2>1, <3>1 DEF InStep
  <2> QED
    BY <2>2, <2>3
<1>3. CASE session \in Enabled /\ Submits
  <2>1. /\ session = "running" /\ session' = "running" /\ ~Waiting
        /\ cmd_id' = cmd_id + 1 /\ UNCHANGED <<h_head, msi, irq, ntimeouts>>
        /\ pc' = "loop"
    BY <1>3 DEF Submits, Submit
  <2>2. ~msi /\ ~irq /\ h_head = (cmd_id - 1) % QueueSize
    BY <1>3, <2>1 DEF InStep
  <2>3. \E op, lba : pending' = Request(op, lba)
    BY <1>3 DEF Submits, Submit, Request
  <2>4. Waiting'
    BY <1>0, <2>1, <2>3 DEF Waiting, Request, ZeroCmd
  <2>5. cmd_id' - 2 = cmd_id - 1
    BY <1>0, <2>1
  <2> QED
    BY <2>1, <2>2, <2>4, <2>5 DEF InStep
<1>4. CASE session \in Enabled /\ TakeCompletion
  <2>1. /\ Waiting /\ irq /\ irq' = FALSE /\ h_head' = (h_head + 1) % QueueSize
        /\ pending' = ZeroCmd /\ UNCHANGED <<session, cmd_id, ntimeouts, msi>>
    BY <1>4 DEF TakeCompletion, WriteCqHead
  <2>2. h_head = (cmd_id - 2) % QueueSize /\ ~msi
    BY <1>4, <2>1 DEF InStep
  <2>3. ~Waiting'
    BY <2>1 DEF Waiting
  <2>4. (((cmd_id - 2) % QueueSize) + 1) % QueueSize = (cmd_id - 2 + 1) % QueueSize
    BY <1>0, ModNext
  <2>5. cmd_id - 2 + 1 = cmd_id' - 1
    BY <1>0, <2>1
  <2> QED
    BY <2>1, <2>2, <2>3, <2>4, <2>5 DEF InStep
<1>5. CASE session \in Enabled /\ (AwaitReady \/ UNCHANGED vars)
  <2>1. UNCHANGED <<h_head, cmd_id, pending, irq, msi, ran, ntimeouts>>
    BY <1>5 DEF AwaitReady, vars, nvmeVars, hostVars
  <2>2. Waiting' <=> Waiting
    BY <1>5 DEF AwaitReady, vars, hostVars, Waiting, SetUp
  <2> QED
    BY <1>5, <2>1, <2>2 DEF InStep, AllRan
<1>6. CASE session \in Enabled /\ Interrupt
  <2>1. /\ UNCHANGED <<session, h_head, cmd_id, pending, ran, ntimeouts>>
        /\ msi /\ ~msi'
    BY <1>6 DEF Interrupt, Arrive
  <2> QED
    BY <1>6, <2>1 DEF InStep, AllRan, Waiting
<1>7. ~Timeout
  BY CountTypes DEF Timeout
<1> QED
  BY <1>1, <1>2, <1>3, <1>4, <1>5, <1>6, <1>7, StepCases
  DEF Open, SetupController, Setup, Die, Enabled

\* Before the first session no command is numbered.
LEMMA OrderInit == HostInit => OrderInv
BY HostInitTyped, InitSetUp
DEF OrderInv, HostInit, NvmeInit, Counted, UnderWay, Entries, InStep, Enabled

\* Every step keeps the order of the completions.
LEMMA OrderStep ==
  ASSUME "cqe" \notin Faulty, "fetch" \notin Faulty
  PROVE  OrderInv /\ [Next]_vars => OrderInv'
BY StepTyped, StepSetUp, StepCounted, StepUnderWay, StepEntries, StepInStep DEF OrderInv

\* What holds of the accesses that reach the queues, in both theorems below.
QueuesWork == "cqe" \notin Faulty /\ "fetch" \notin Faulty

\* The k-th entry written since the controller was enabled answers the k-th
\* command, on whichever lap of the queue, with failing data transfers, timeouts
\* and restarts of the program (lines 96-202).
THEOREM EntriesInOrder == QueuesWork => (Spec => []CompletionsInOrder)
<1> SUFFICES ASSUME QueuesWork PROVE Spec => []CompletionsInOrder
  OBVIOUS
<1>1. OrderInv /\ [Next]_vars => OrderInv'
  BY OrderStep DEF QueuesWork
<1>2. OrderInv => CompletionsInOrder
  BY DEF OrderInv, Entries, CompletionsInOrder, Enabled
<1> QED
  BY <1>1, <1>2, OrderInit, PTL DEF Spec

\* While no wait of the session has timed out, the completion the program takes
\* is that of the command it waits for (test_nvme.cpp lines 258-267, which never
\* compares the numbers).
THEOREM TakenIsMine == QueuesWork => (Spec => []CompletionMatches)
<1> SUFFICES ASSUME QueuesWork PROVE Spec => []CompletionMatches
  OBVIOUS
<1>1. OrderInv /\ [Next]_vars => OrderInv'
  BY OrderStep DEF QueuesWork
<1>2. OrderInv => CompletionMatches
  <2> SUFFICES ASSUME OrderInv, Waiting, irq, ntimeouts = 0
               PROVE  Taken.cid = pending.cid
    BY DEF CompletionMatches
  <2>1. TypeInv /\ Counted /\ UnderWay /\ Entries /\ InStep /\ session \in Enabled
    BY DEF OrderInv, Waiting, Enabled
  <2>2. /\ ran \in Nat /\ cmd_id \in Nat /\ QueueSize \in Nat /\ QueueSize > 0
    BY <2>1, CountTypes
  <2>3. AllRan /\ h_head = (cmd_id - 2) % QueueSize
    BY <2>1 DEF InStep
  <2>4. pending.cid = cmd_id - 1 /\ pending.cid > 0
    BY <2>1 DEF UnderWay, Waiting
  <2>5. pc # "advance"
    BY <2>1, <2>2, <2>3 DEF Counted, AllRan
  <2>6. ran \in 1 .. ran /\ ran > ran - QueueSize
    BY <2>2, <2>3, <2>4 DEF AllRan
  <2>7. cq[(ran - 1) % QueueSize].cid = ran
    BY <2>1, <2>5, <2>6 DEF Entries
  <2>8. ran - 1 = cmd_id - 2 /\ ran = pending.cid
    BY <2>2, <2>3, <2>4 DEF AllRan
  <2> QED
    BY <2>3, <2>7, <2>8 DEF Taken
<1> QED
  BY <1>1, <1>2, OrderInit, PTL DEF Spec

-----------------------------------------------------------------------------
(* The program: what it knows of the disk.                                  *)

\* Only the commands that move data change memory and disk, and each only once
\* (lines 107-161).
LEMMA DataMoves ==
  ASSUME PassStep
  PROVE  /\ \/ UNCHANGED <<storage, mem>>
            \/ /\ Identify \/ Read \/ ReadFails \/ Write \/ WriteFails
               /\ pc = "exec" /\ pc' = "complete" /\ cq' = cq
         /\ pc' \in {"complete", "advance"} /\ status' = "ok"
              => \/ pc \in {"complete", "advance"} /\ UNCHANGED <<storage, mem, status>>
                 \/ Identify \/ Read \/ Write
BY DEF PassStep, PassReturns, Fetch, FetchFails, Identify, OutOfRange, Astray, Read, ReadFails,
       Write, WriteFails, Accepted, OtherOpcode, WriteCqe, WriteCqeFails, Advance, Finish,
       FailStatus, memVars

\* A read or a write of the program moves the one block it names (lines 127-157).
LEMMA OneBlock ==
  ASSUME OrderInv, pc = "exec", cmd.opcode \in {"read", "write"}, OnDisk
  PROVE  /\ cmd = pending /\ cmd.lba \in Blocks /\ 1 \in Addrs
         /\ \A b \in Blocks : InCmd(b) <=> b = cmd.lba
         /\ Read => mem'[1] = storage[cmd.lba] /\ storage' = storage
         /\ Write => /\ storage' = [storage EXCEPT ![cmd.lba] = mem[1]]
                     /\ mem' = mem
         /\ WriteFails => /\ \A b \in Blocks : storage'[b] = storage[b]
                                              \/ (b = cmd.lba /\ storage'[b] \in {0, mem[1]})
                          /\ mem' = mem
<1>1. /\ cmd = pending /\ cmd.prp1 = 1 /\ cmd.nlb = 1
  BY DEF OrderInv, UnderWay
<1>2. cmd.lba \in Nat /\ cmd.lba + 1 <= NumBlocks
  BY <1>1, NvmeAssumption DEF OrderInv, TypeInv, NvmeInv, NvmeTypeOK, IsCmd, OnDisk
<1>3. cmd.lba \in Blocks /\ 1 \in Addrs
  BY <1>2, NvmeAssumption DEF Blocks, Addrs
<1>4. \A b \in Blocks : InCmd(b) <=> b = cmd.lba
  BY <1>1, <1>2, NvmeAssumption DEF InCmd, Blocks
<1>5. storage \in [Blocks -> Data]
  BY DEF OrderInv, TypeInv, NvmeInv, NvmeTypeOK
<1>6. Read => mem'[1] = storage[cmd.lba] /\ storage' = storage
  <2> SUFFICES ASSUME Read PROVE mem'[1] = storage[cmd.lba] /\ storage' = storage
    OBVIOUS
  <2>1. mem' = Stored(1, 1, DiskBlocks)
    BY <1>1 DEF Read
  <2>2. 1 \in 1 .. 1 + 1 - 1 /\ 1 - 1 = 0 /\ 0 \in 0 .. cmd.nlb - 1
    BY <1>1
  <2>3. mem'[1] = DiskBlocks[0]
    BY <1>3, <2>1, <2>2 DEF Stored
  <2>4. DiskBlocks[0] = storage[cmd.lba]
    BY <1>2, <2>2 DEF DiskBlocks
  <2> QED
    BY <2>3, <2>4 DEF Read
<1>7. Write => storage' = [storage EXCEPT ![cmd.lba] = mem[1]] /\ mem' = mem
  <2> SUFFICES ASSUME Write
               PROVE  storage' = [storage EXCEPT ![cmd.lba] = mem[1]] /\ mem' = mem
    OBVIOUS
  <2>1. cmd.prp1 + cmd.lba - cmd.lba = 1
    BY <1>1, <1>2
  <2>2. storage' = [b \in Blocks |-> IF b = cmd.lba THEN mem[1] ELSE storage[b]]
    BY <1>4, <2>1 DEF Write
  <2> QED
    BY <1>3, <1>5, <2>2 DEF Write
<1>8. WriteFails => /\ \A b \in Blocks : storage'[b] = storage[b]
                                       \/ (b = cmd.lba /\ storage'[b] \in {0, mem[1]})
                   /\ mem' = mem
  <2> SUFFICES ASSUME WriteFails, NEW b \in Blocks
               PROVE  /\ storage'[b] = storage[b]
                         \/ (b = cmd.lba /\ storage'[b] \in {0, mem[1]})
                      /\ mem' = mem
    BY DEF WriteFails
  <2> PICK lost, copied \in SUBSET {x \in Blocks : InCmd(x)} :
         storage' = [x \in Blocks |-> IF x \in copied THEN mem[cmd.prp1 + x - cmd.lba]
                                     ELSE IF x \in lost THEN 0 ELSE storage[x]]
    BY DEF WriteFails
  <2>1. cmd.prp1 + cmd.lba - cmd.lba = 1
    BY <1>1, <1>2
  <2>2. (b \in copied \/ b \in lost) => b = cmd.lba
    BY <1>4
  <2> QED
    BY <2>1, <2>2 DEF WriteFails
<1> QED
  BY <1>1, <1>3, <1>4, <1>6, <1>7, <1>8

\* A successful transfer of a block leaves the same on both sides.
LEMMA TransferMoves ==
  ASSUME OrderInv, Read \/ Write, UNCHANGED pending
  PROVE  Transferred'
<1>1. pc = "exec" /\ cmd.opcode \in {"read", "write"} /\ OnDisk
  BY DEF Read, Write, Accepted
<1>2. storage \in [Blocks -> Data]
  BY DEF OrderInv, TypeInv, NvmeInv, NvmeTypeOK
<1> QED
  BY <1>1, <1>2, OneBlock DEF Transferred

\* The device keeps what the program knows: a write leaves its data or, failing,
\* old contents, zeroes or the data (lines 143-157).
LEMMA DeviceDisk ==
  ASSUME DiskInv, Device
  PROVE  DiskKnown'
<1>1. /\ PassStep /\ UNCHANGED <<pending, shadow>> /\ OrderInv /\ pc # "idle"
  BY PassLeaves DEF Device, hostVars, DiskInv
<1>2. storage \in [Blocks -> Data]
  BY DEF DiskInv, OrderInv, TypeInv, NvmeInv, NvmeTypeOK
<1>3. CASE UNCHANGED <<storage, mem>>
  BY <1>1, <1>3 DEF DiskInv, DiskKnown
<1>4. CASE Identify \/ Read \/ ReadFails
  <2>1. storage' = storage /\ cmd.opcode # "write" /\ pc = "exec"
    BY <1>4 DEF Identify, Read, ReadFails, Accepted
  <2>2. pending.opcode # "write"
    BY <1>1, <2>1 DEF OrderInv, UnderWay
  <2> QED
    BY <1>1, <2>1, <2>2 DEF DiskInv, DiskKnown
<1>5. CASE Write \/ WriteFails
  <2>1. pc = "exec" /\ cmd.opcode = "write" /\ OnDisk
    BY <1>5 DEF Write, WriteFails, Accepted
  <2>2. /\ cmd = pending /\ cmd.lba \in Blocks /\ mem' = mem
        /\ \A b \in Blocks : storage'[b] = storage[b]
                           \/ (b = cmd.lba /\ storage'[b] \in {0, mem[1]})
    BY <1>1, <1>2, <1>5, <2>1, OneBlock
  <2>3. {0, mem[1]} \subseteq shadow[cmd.lba]
    BY <1>1, <2>1, <2>2 DEF DiskInv, DiskKnown
  <2> QED
    BY <1>1, <2>2, <2>3 DEF DiskInv, DiskKnown
<1> QED
  BY <1>1, <1>3, <1>4, <1>5, DataMoves

\* An entry of the command under way tells what its transfer did (lines 96-181).
LEMMA DeviceReports ==
  ASSUME "cqe" \notin Faulty, DiskInv, Device
  PROVE  Reported'
<1>1. /\ PassStep /\ UNCHANGED <<pending, session, cmd_id>> /\ OrderInv /\ pc # "idle"
      /\ session \in Enabled /\ session = "running"
      /\ Counted /\ UnderWay /\ Entries /\ pending # ZeroCmd
  BY PassLeaves DEF Device, hostVars, DiskInv, OrderInv, SetUp, Enabled, UnderWay
<1>2. /\ ran \in Nat /\ cmd_id \in Nat
      /\ \A i \in 0 .. QueueSize - 1 : i \in Queue /\ cq[i].cid \in Nat
  BY <1>1, CountTypes DEF OrderInv
<1>3. Identify => pending.opcode \notin {"read", "write"}
  BY <1>1 DEF Identify, UnderWay
<1>4. pc' \in {"complete", "advance"} /\ status' = "ok" => Transferred'
  <2>1. CASE Identify
    BY <1>1, <1>3, <2>1 DEF Transferred
  <2>2. CASE Read \/ Write
    BY <1>1, <2>2, TransferMoves
  <2>3. CASE pc \in {"complete", "advance"} /\ UNCHANGED <<storage, mem, status>>
    BY <1>1, <2>3 DEF DiskInv, Reported, Transferred
  <2> QED
    BY <1>1, <2>1, <2>2, <2>3, DataMoves
<1>5. ASSUME NEW i \in 0 .. QueueSize - 1, cq'[i].cid = pending.cid, cq'[i].status = "ok"
      PROVE  Transferred'
  <2>1. CASE WriteCqe
    <3>1. /\ pc = "complete" /\ pc' = "advance" /\ UNCHANGED <<storage, mem, status>>
          /\ cq' = [cq EXCEPT ![cq_tail] = [cid |-> cmd.cid, sq_head |-> sq_head,
                                            status |-> status, phase |-> cq_phase]]
      BY <2>1 DEF WriteCqe, CqeSlot
    <3>2. CASE i = cq_tail
      <4>1. cq'[i].status = status
        BY <1>2, <3>1, <3>2 DEF DiskInv, OrderInv, TypeInv, NvmeInv
      <4> QED
        BY <1>4, <1>5, <3>1, <4>1
    <3>3. CASE i # cq_tail
      <4>1. cq'[i] = cq[i]
        BY <1>2, <3>1, <3>3 DEF DiskInv, OrderInv, TypeInv, NvmeInv
      <4>2. cq[i].cid <= ran /\ ran = cmd_id - 2 /\ pending.cid = cmd_id - 1
        BY <1>1, <3>1 DEF Entries, Counted, UnderWay
      <4> QED
        BY <1>2, <1>5, <4>1, <4>2
    <3> QED
      BY <3>2, <3>3
  <2>2. CASE ~WriteCqe /\ UNCHANGED <<storage, mem>>
    <3>1. cq' = cq
      BY <1>1, <2>2, PassLeaves
    <3>2. Transferred
      BY <1>1, <1>5, <3>1 DEF DiskInv, Reported
    <3> QED
      BY <1>1, <2>2, <3>2 DEF Transferred
  <2>3. CASE pc = "exec" /\ cq' = cq
    <3>1. cq[i].cid <= ran /\ ran = cmd_id - 2 /\ pending.cid = cmd_id - 1
      BY <1>1, <2>3 DEF Entries, Counted, UnderWay
    <3> QED
      BY <1>2, <1>5, <2>3, <3>1
  <2> QED
    BY <1>1, <2>1, <2>2, <2>3, DataMoves
<1> QED
  BY <1>1, <1>4, <1>5 DEF Reported

\* Submitting a write admits its outcomes, and no entry answers it yet
\* (test_nvme.cpp lines 249-256).
LEMMA SubmitDisk ==
  ASSUME DiskInv, Submits
  PROVE  DiskKnown' /\ Reported'
<1> PICK op \in {"write", "read", "identify"}, lba \in 0 .. NumBlocks, x \in Data :
      Submit(op, lba, x)
  BY DEF Submits
<1>1. /\ pending' = Request(op, lba)
      /\ op = "write" => mem' = [mem EXCEPT ![1] = x]
      /\ shadow' = (IF op = "write" /\ lba \in Blocks
                    THEN [shadow EXCEPT ![lba] = @ \cup {0, x}] ELSE shadow)
      /\ session = "running" /\ pc = "idle" /\ pc' = "loop"
      /\ UNCHANGED <<storage, cq>>
  BY DEF Submit, Request
<1>2. /\ DOMAIN mem = Addrs /\ DOMAIN shadow = Blocks /\ 1 \in Addrs
      /\ \A b \in Blocks : storage[b] \in shadow[b]
  BY NvmeAssumption
  DEF DiskInv, DiskKnown, OrderInv, TypeInv, NvmeInv, NvmeTypeOK, HostTypeOK, Addrs
<1>3. \A b \in Blocks : shadow[b] \subseteq shadow'[b]
  BY <1>1, <1>2
<1>4. op = "write" => mem'[1] = x
  BY <1>1, <1>2
<1>5. op = "write" /\ lba \in Blocks => {0, x} \subseteq shadow'[lba]
  BY <1>1, <1>2
<1>6. pending'.opcode = op /\ pending'.lba = lba /\ pending'.cid = cmd_id
  BY <1>1 DEF Request
<1>7. DiskKnown'
  BY <1>1, <1>2, <1>3, <1>4, <1>5, <1>6 DEF DiskKnown
<1>8. \A i \in 0 .. QueueSize - 1 : cq[i].cid # cmd_id
  <2>1. /\ ran = cmd_id - 1
        /\ \A i \in 0 .. QueueSize - 1 : cq[i].cid <= ran
    BY <1>1 DEF DiskInv, OrderInv, Counted, Entries, AllRan, Enabled
  <2>2. cmd_id \in Nat /\ \A i \in 0 .. QueueSize - 1 : cq[i].cid \in Nat
    BY CountTypes DEF DiskInv, OrderInv
  <2> QED
    BY <2>1, <2>2
<1>9. Reported'
  BY <1>1, <1>6, <1>8 DEF Reported
<1> QED
  BY <1>7, <1>9

\* Taking a completion, what the program learns is true (test_nvme.cpp lines
\* 258-267).
LEMMA TakeDisk ==
  ASSUME DiskInv, TakeCompletion
  PROVE  DiskKnown' /\ Reported'
<1>1. /\ pc = "idle" /\ pc' = "idle" /\ pending' = ZeroCmd /\ shadow' = Learnt
      /\ UNCHANGED storage /\ Waiting
  BY DEF TakeCompletion, WriteCqHead, passVars
<1>2. /\ DOMAIN shadow = Blocks /\ \A b \in Blocks : storage[b] \in shadow[b]
      /\ h_head \in 0 .. QueueSize - 1
  BY DEF DiskInv, DiskKnown, OrderInv, TypeInv, HostTypeOK
<1>3. CASE Taken.cid = pending.cid /\ Taken.status = "ok" /\ pending.opcode \in {"read", "write"}
  <2>1. storage[pending.lba] = mem[1]
    BY <1>1, <1>2, <1>3 DEF DiskInv, Reported, Transferred, Taken, Waiting
  <2>2. shadow' = [shadow EXCEPT ![pending.lba] = {mem[1]}]
    BY <1>1, <1>3 DEF Learnt
  <2>3. \A b \in Blocks : storage[b] \in shadow'[b]
    BY <1>2, <2>1, <2>2
  <2> QED
    BY <1>1, <2>3 DEF DiskKnown, Reported
<1>4. CASE ~(Taken.cid = pending.cid /\ Taken.status = "ok" /\ pending.opcode \in {"read", "write"})
  <2>1. shadow' = shadow
    BY <1>1, <1>4 DEF Learnt
  <2> QED
    BY <1>1, <1>2, <2>1 DEF DiskKnown, Reported
<1> QED
  BY <1>3, <1>4

\* Every step keeps what the program knows of the disk.
LEMMA DiskStep ==
  ASSUME "cqe" \notin Faulty, "fetch" \notin Faulty
  PROVE  DiskInv /\ [Next]_vars => DiskInv'
<1> SUFFICES ASSUME DiskInv, [Next]_vars PROVE DiskInv'
  OBVIOUS
<1>1. OrderInv'
  BY OrderStep DEF DiskInv
<1>2. CASE Device
  BY <1>1, <1>2, DeviceDisk, DeviceReports DEF DiskInv
<1>3. CASE Submits
  BY <1>1, <1>3, SubmitDisk DEF DiskInv
<1>4. CASE TakeCompletion
  BY <1>1, <1>4, TakeDisk DEF DiskInv
<1>5. CASE Open \/ SetupController \/ Timeout \/ Die
  <2>1. pc' = "idle" /\ UNCHANGED <<storage, shadow>>
    BY <1>5
    DEF Open, passVars, SetupController, Setup, WriteConfig, WriteAqa, WriteAsqLo, WriteAsqHi,
        WriteAcqLo, WriteAcqHi, WriteAsq, WriteAcq, WriteCC, Timeout, Die, nvmeVars
  <2>2. session' # "running" \/ pending' = ZeroCmd
    BY <1>5 DEF Open, SetupController, Setup, Timeout, Die
  <2> QED
    BY <1>1, <2>1, <2>2 DEF DiskInv, DiskKnown, Reported
<1>6. CASE AwaitReady \/ Interrupt \/ UNCHANGED vars
  <2>1. UNCHANGED <<pc, storage, shadow, mem, pending, status, cq>>
    BY <1>6
    DEF AwaitReady, Interrupt, Arrive, vars, nvmeVars, passVars, hostVars, memVars
  <2>2. session' = session \/ pending = ZeroCmd
    BY <1>6
    DEF AwaitReady, Interrupt, vars, hostVars, DiskInv, OrderInv, SetUp
  <2>3. Transferred' = Transferred
    BY <2>1 DEF Transferred
  <2> QED
    BY <1>1, <2>1, <2>2, <2>3 DEF DiskInv, DiskKnown, Reported
<1> QED
  BY <1>2, <1>3, <1>4, <1>5, <1>6, StepCases

\* The disk is a disk: what a successful read returns was last read or
\* successfully written there, or is an outcome of a write since then that failed
\* or whose status the program never learnt, over timeouts and restarts (lines
\* 127-157, test_nvme.cpp lines 258-267).
THEOREM DiskReadsBack == QueuesWork => (Spec => ReadBack)
<1> SUFFICES ASSUME QueuesWork PROVE Spec => ReadBack
  OBVIOUS
<1>1. HostInit => DiskInv
  BY OrderInit DEF DiskInv, DiskKnown, Reported, HostInit, NvmeInit
<1>2. DiskInv /\ [Next]_vars => DiskInv'
  BY DiskStep DEF QueuesWork
<1>3. DiskInv => (TakeCompletion /\ pending.opcode = "read"
                    /\ Taken.cid = pending.cid /\ Taken.status = "ok"
                    => mem[1] \in shadow[pending.lba])
  <2> SUFFICES ASSUME DiskInv, TakeCompletion, pending.opcode = "read",
                      Taken.cid = pending.cid, Taken.status = "ok"
               PROVE  mem[1] \in shadow[pending.lba]
    OBVIOUS
  <2>1. Waiting /\ h_head \in 0 .. QueueSize - 1
    BY DEF TakeCompletion, DiskInv, OrderInv, TypeInv, HostTypeOK
  <2>2. pending.lba \in Blocks /\ storage[pending.lba] = mem[1]
    BY <2>1 DEF DiskInv, Reported, Transferred, Taken, Waiting
  <2> QED
    BY <2>2 DEF DiskInv, DiskKnown
<1> QED
  BY <1>1, <1>2, <1>3, PTL DEF Spec, ReadBack

-----------------------------------------------------------------------------
(* The program: the wait.                                                   *)

\* The program names blocks one by one, at most one beyond the disk.
Asked == pending.lba \in 0 .. NumBlocks /\ pending.nlb = 1

\* Once the command has been completed, an interrupt is on its way or there.
Answered ==
  Waiting /\ (pc = "idle" \/ (pc = "loop" /\ AllRan)) => msi \/ irq

WaitInv == OrderInv /\ Asked /\ Answered /\ pc # "astray"

\* The steps a wait still takes of the device, and of the interrupt.
PassLeft ==
  CASE pc = "loop" /\ ~AllRan -> 5
    [] pc = "exec"            -> 4
    [] pc = "complete"        -> 3
    [] pc = "advance"         -> 2
    [] pc = "loop" /\ AllRan  -> 1
    [] OTHER                  -> 0
WaitLeft == 2 * PassLeft + (IF msi THEN 1 ELSE 0)

\* Every step the device or the interrupt takes in a wait brings its end nearer,
\* and no step of the program puts it off.
WaitCountsDown ==
  /\ Waiting /\ (Device \/ Interrupt) => Waiting' /\ WaitLeft' < WaitLeft
  /\ Waiting /\ Waiting' => WaitLeft' <= WaitLeft
  /\ ~Waiting /\ Waiting' => WaitLeft' <= 11

\* When nothing is left for device and interrupt to do, the completion can be
\* taken.
WaitIsOver == Waiting /\ WaitLeft = 0 => pc = "idle" /\ irq

\* What the measure is at each point of a wait.
LEMMA WaitLeftIs ==
  ASSUME WaitInv, Waiting
  PROVE  /\ WaitLeft \in 0 .. 11
         /\ WaitLeft = 0 => pc = "idle" /\ ~msi
<1>1. /\ pc \in {"idle", "loop", "exec", "complete", "advance"}
      /\ PassLeft \in 0 .. 5 /\ (PassLeft = 0 => pc = "idle")
  BY DEF PassLeft, WaitInv, OrderInv, TypeInv, NvmeInv, NvmeTypeOK
<1> QED
  BY <1>1 DEF WaitLeft

\* What the program submits is within what it asks for.
LEMMA StepAsked ==
  ASSUME Asked, [Next]_vars
  PROVE  Asked'
<1>1. CASE Submits
  <2> PICK op \in {"write", "read", "identify"}, lba \in 0 .. NumBlocks, x \in Data :
        Submit(op, lba, x)
    BY <1>1 DEF Submits
  <2>1. pending' = Request(op, lba)
    BY DEF Submit, Request
  <2> QED
    BY <2>1 DEF Asked, Request
<1>2. CASE ~Submits
  <2>1. pending' \in {pending, ZeroCmd}
    BY <1>2, StepCases
    DEF Device, Open, SetupController, Setup, TakeCompletion, AwaitReady, Die, Timeout,
        Interrupt, vars, hostVars
  <2> QED
    BY <2>1, NvmeAssumption DEF Asked, ZeroCmd
<1> QED
  BY <1>1, <1>2

\* A step of the device in a pass: where it leads, and what it says of the
\* command under way.
LEMMA PassMoves ==
  ASSUME "cqe" \notin Faulty, "fetch" \notin Faulty, WaitInv, Device
  PROVE  /\ Waiting /\ Waiting' /\ UNCHANGED irq
         /\ \/ pc = "loop" /\ AllRan /\ pc' = "idle" /\ UNCHANGED msi
            \/ pc = "loop" /\ ~AllRan /\ pc' = "exec" /\ UNCHANGED msi
            \/ pc = "exec" /\ pc' = "complete" /\ UNCHANGED msi
            \/ pc = "complete" /\ pc' = "advance" /\ UNCHANGED msi
            \/ pc = "advance" /\ pc' = "loop" /\ AllRan' /\ msi'
<1>1. /\ PassStep /\ UNCHANGED <<session, pending, irq, cmd_id>>
      /\ TypeInv /\ SetUp /\ Counted /\ UnderWay
      /\ ran' = IF pc = "advance" THEN ran + 1 ELSE ran
  BY DEF Device, hostVars, WaitInv, OrderInv
<1>2. /\ session = "running" /\ session \in Enabled /\ pc # "idle"
  BY <1>1, PassLeaves DEF SetUp, Enabled
<1>3. pending # ZeroCmd
  BY <1>1, <1>2 DEF UnderWay
<1>4. Waiting /\ Waiting' /\ UNCHANGED irq
  BY <1>1, <1>2, <1>3 DEF Waiting
<1>5. CASE PassReturns
  <2>1. pc = "loop" /\ pc' = "idle" /\ AllRan /\ UNCHANGED msi
    BY <1>1, <1>2, <1>5, LoopEnds DEF PassReturns
  <2> QED
    BY <1>4, <2>1
<1>6. CASE Fetch \/ FetchFails
  <2>1. pc = "loop" /\ pc' = "exec" /\ ~AllRan /\ UNCHANGED msi
    BY <1>1, <1>2, <1>6, LoopEnds DEF Fetch, FetchFails
  <2> QED
    BY <1>4, <2>1
<1>7. CASE Identify \/ OutOfRange \/ Read \/ ReadFails \/ Write \/ WriteFails \/ OtherOpcode
  <2>1. pc = "exec" /\ pc' = "complete" /\ UNCHANGED msi
    BY <1>7
    DEF Identify, OutOfRange, Read, ReadFails, Write, WriteFails, OtherOpcode, Accepted, Finish
  <2> QED
    BY <1>4, <2>1
<1>8. ~Astray
  <2> SUFFICES ASSUME Astray PROVE FALSE
    OBVIOUS
  <2>1. cmd = pending /\ InRange /\ ~OnDisk
    BY <1>1 DEF Astray, UnderWay
  <2>2. cmd.lba + cmd.nlb \in 0 .. LbaSpan - 1 /\ LbaSpan \in Nat /\ LbaSpan > 0
    BY <2>1, NvmeAssumption, HostAssumption DEF WaitInv, Asked
  <2>3. (cmd.lba + cmd.nlb) % LbaSpan = cmd.lba + cmd.nlb
    BY <2>2, ModSmall
  <2> QED
    BY <2>1, <2>3 DEF InRange, OnDisk
<1>9. CASE WriteCqe \/ WriteCqeFails
  <2>1. pc = "complete" /\ pc' = "advance" /\ UNCHANGED msi
    BY <1>9 DEF WriteCqe, WriteCqeFails
  <2> QED
    BY <1>4, <2>1
<1>10. CASE Advance
  <2>1. pc = "advance" /\ pc' = "loop" /\ msi'
    BY <1>1, <1>2, <1>10, QueuesReached DEF Advance
  <2>2. AllRan'
    BY <1>1, <1>2, <2>1, CountTypes DEF Counted, AllRan
  <2> QED
    BY <1>4, <2>1, <2>2
<1> QED
  BY <1>1, <1>5, <1>6, <1>7, <1>8, <1>9, <1>10 DEF PassStep

\* The steps of the others: a wait begins with the doorbell, and nothing but the
\* program's taking the completion or giving up ends it.
LEMMA OthersMove ==
  ASSUME WaitInv, [Next]_vars, ~Device
  PROVE  \/ ~Waiting /\ Waiting' /\ pc' = "loop" /\ ~AllRan' /\ UNCHANGED <<msi, irq>>
         \/ /\ Waiting /\ Waiting' /\ UNCHANGED <<pc, ran, cmd_id>>
            /\ Interrupt /\ msi /\ ~msi' /\ irq'
         \/ /\ Waiting /\ Waiting' /\ UNCHANGED <<pc, ran, cmd_id>>
            /\ ~Interrupt /\ UNCHANGED <<msi, irq>>
         \/ ~Waiting' /\ pc' = "idle" /\ ~(Waiting /\ Interrupt)
<1>1. TypeInv /\ SetUp /\ Counted /\ UnderWay
  BY DEF WaitInv, OrderInv
<1>2. CASE Submits
  <2> PICK op \in {"write", "read", "identify"}, lba \in 0 .. NumBlocks, x \in Data :
        Submit(op, lba, x)
    BY <1>2 DEF Submits
  <2>1. /\ session = "running" /\ session' = "running" /\ ~Waiting
        /\ pending' = Request(op, lba) /\ cmd_id' = cmd_id + 1
        /\ pc = "idle" /\ pc' = "loop" /\ UNCHANGED <<msi, irq, ran>>
    BY DEF Submit, Request
  <2>2. /\ AllRan /\ ran \in Nat /\ cmd_id \in Nat /\ cmd_id >= 1
    BY <1>1, <2>1, CountTypes DEF Counted, Enabled
  <2>3. ~AllRan'
    BY <2>1, <2>2 DEF AllRan
  <2>4. pending' # ZeroCmd
    BY <2>1, <2>2 DEF Request, ZeroCmd
  <2> QED
    BY <2>1, <2>3, <2>4 DEF Waiting
<1>3. CASE TakeCompletion \/ Timeout \/ Open \/ SetupController \/ Die
  <2>1. pc' = "idle" /\ ~Waiting' /\ ~Interrupt
    BY <1>1, <1>3
    DEF TakeCompletion, WriteCqHead, Timeout, Open, SetupController, Setup, WriteConfig, WriteAqa,
        WriteAsqLo, WriteAsqHi, WriteAcqLo, WriteAcqHi, WriteAsq, WriteAcq, WriteCC, Die, nvmeVars,
        passVars, Waiting, Interrupt, Arrive, SetUp, Configuring
  <2> QED
    BY <2>1
<1>4. CASE AwaitReady
  <2>1. ~Waiting' /\ pc' = "idle" /\ ~Waiting
    BY <1>1, <1>4 DEF AwaitReady, nvmeVars, passVars, Waiting, SetUp
  <2> QED
    BY <2>1
<1>5. CASE Interrupt
  <2>1. /\ msi /\ ~msi' /\ irq' /\ UNCHANGED <<session, pending, pc, ran, cmd_id>>
    BY <1>5 DEF Interrupt, Arrive, passVars
  <2>2. (Waiting <=> Waiting') /\ (~Waiting => pc = "idle")
    BY <1>1, <2>1 DEF Waiting, SetUp, UnderWay
  <2>3. CASE Waiting
    BY <1>5, <2>1, <2>2, <2>3, Zenon
  <2>4. CASE ~Waiting
    BY <2>1, <2>2, <2>4
  <2> QED
    BY <2>3, <2>4
<1>6. CASE UNCHANGED vars
  <2>1. UNCHANGED <<session, pending, pc, ran, cmd_id, msi, irq>>
    BY <1>6 DEF vars, nvmeVars, hostVars, passVars
  <2>2. ~Interrupt
    BY <2>1 DEF Interrupt, Arrive
  <2>3. (Waiting <=> Waiting') /\ (~Waiting => pc = "idle")
    BY <1>1, <2>1 DEF Waiting, SetUp, UnderWay
  <2> QED
    BY <2>1, <2>2, <2>3
<1> QED
  BY <1>2, <1>3, <1>4, <1>5, <1>6, StepCases

\* Every step keeps that an answer is there or on its way.
LEMMA WaitStep ==
  ASSUME "cqe" \notin Faulty, "fetch" \notin Faulty
  PROVE  WaitInv /\ [Next]_vars => WaitInv'
<1> SUFFICES ASSUME WaitInv, [Next]_vars PROVE WaitInv'
  OBVIOUS
<1>1. OrderInv' /\ Asked'
  BY OrderStep, StepAsked DEF WaitInv
<1>2. CASE Device
  <2>1. Answered'
    <3>1. CASE pc = "loop" /\ AllRan /\ pc' = "idle" /\ UNCHANGED msi
      BY <1>2, <3>1, PassMoves DEF WaitInv, Answered
    <3>2. CASE ~(pc = "loop" /\ AllRan /\ pc' = "idle" /\ UNCHANGED msi)
      BY <1>2, <3>2, PassMoves DEF Answered
    <3> QED
      BY <3>1, <3>2
  <2>2. pc' # "astray"
    BY <1>2, PassMoves
  <2> QED
    BY <1>1, <2>1, <2>2 DEF WaitInv
<1>3. CASE ~Device
  <2>1. Answered' /\ pc' # "astray"
    BY <1>3, OthersMove DEF WaitInv, Answered, AllRan
  <2> QED
    BY <1>1, <2>1 DEF WaitInv
<1> QED
  BY <1>2, <1>3

\* Every step in a wait makes what is left of it smaller, or leaves it.
LEMMA WaitShrinks ==
  ASSUME "cqe" \notin Faulty, "fetch" \notin Faulty, WaitInv, [Next]_vars
  PROVE  WaitCountsDown
<1>0. WaitInv'
  BY WaitStep
<1>1. CASE Device
  <2>1. PassLeft' < PassLeft /\ PassLeft \in 0 .. 5 /\ PassLeft' \in 0 .. 5 /\ Waiting /\ Waiting'
    BY <1>1, PassMoves DEF PassLeft
  <2>2. WaitLeft \in {2 * PassLeft, 2 * PassLeft + 1}
    BY <2>1 DEF WaitLeft
  <2>3. WaitLeft' \in {2 * PassLeft', 2 * PassLeft' + 1}
    BY <2>1 DEF WaitLeft
  <2>4. \A p, q \in 0 .. 5 :
          q < p => \A v \in {2 * p, 2 * p + 1}, w \in {2 * q, 2 * q + 1} : w < v /\ w <= v
    OBVIOUS
  <2>5. WaitLeft' < WaitLeft /\ WaitLeft' <= WaitLeft
    BY <2>1, <2>2, <2>3, <2>4
  <2> QED
    BY <2>1, <2>5 DEF WaitCountsDown
<1>2. CASE ~Device
  <2>1. CASE ~Waiting /\ Waiting' /\ pc' = "loop" /\ ~AllRan' /\ UNCHANGED <<msi, irq>>
    <3>1. WaitLeft' <= 11
      BY <2>1 DEF WaitLeft, PassLeft
    <3> QED
      BY <2>1, <3>1 DEF WaitCountsDown
  <2>2. CASE /\ Waiting /\ Waiting' /\ UNCHANGED <<pc, ran, cmd_id>>
             /\ Interrupt /\ msi /\ ~msi' /\ irq'
    <3>1. PassLeft' = PassLeft /\ PassLeft \in 0 .. 5
      BY <2>2 DEF PassLeft, AllRan
    <3>2. WaitLeft = 2 * PassLeft + 1 /\ WaitLeft' = 2 * PassLeft'
      BY <2>2, <3>1 DEF WaitLeft
    <3> QED
      BY <2>2, <3>1, <3>2 DEF WaitCountsDown
  <2>4. CASE /\ Waiting /\ Waiting' /\ UNCHANGED <<pc, ran, cmd_id>>
             /\ ~Interrupt /\ UNCHANGED <<msi, irq>>
    <3>1. PassLeft' = PassLeft /\ PassLeft \in 0 .. 5
      BY <2>4 DEF PassLeft, AllRan
    <3>2. WaitLeft' = WaitLeft /\ WaitLeft \in Int
      BY <2>4, <3>1 DEF WaitLeft
    <3> QED
      BY <1>2, <2>4, <3>2 DEF WaitCountsDown
  <2>3. CASE ~Waiting' /\ pc' = "idle" /\ ~(Waiting /\ Interrupt)
    BY <1>2, <2>3 DEF WaitCountsDown
  <2> QED
    BY <1>2, <2>1, <2>2, <2>3, <2>4, OthersMove
<1> QED
  BY <1>1, <1>2

\* Before the first session nobody waits.
LEMMA WaitInit == HostInit => WaitInv
<1>1. HostInit => Asked /\ Answered /\ pc # "astray"
  BY NvmeAssumption DEF HostInit, NvmeInit, Asked, Answered, Waiting, ZeroCmd
<1> QED
  BY <1>1, OrderInit DEF WaitInv

\* No command of the program reaches outside the disk: its block is at most one
\* beyond it, which the range check refuses (lines 132 and 148, test_nvme.cpp
\* lines 249-256).
THEOREM HostStaysOnDisk == QueuesWork => (Spec => [](pc # "astray"))
<1> SUFFICES ASSUME QueuesWork PROVE Spec => [](pc # "astray")
  OBVIOUS
<1>1. WaitInv /\ [Next]_vars => WaitInv'
  BY WaitStep DEF QueuesWork
<1>2. WaitInv => pc # "astray"
  BY DEF WaitInv
<1> QED
  BY <1>1, <1>2, WaitInit, PTL DEF Spec

\* What WaitEnds rests on beside fairness: a wait takes at most 11 steps of device
\* and interrupt, none of which another step undoes (lines 96-202, test_nvme.cpp
\* lines 258-267).
THEOREM WaitIsShort == QueuesWork => (Spec => [][WaitCountsDown]_vars)
<1> SUFFICES ASSUME QueuesWork PROVE Spec => [][WaitCountsDown]_vars
  OBVIOUS
<1>1. WaitInv /\ [Next]_vars => WaitInv'
  BY WaitStep DEF QueuesWork
<1>2. WaitInv /\ [Next]_vars => [WaitCountsDown]_vars
  BY WaitShrinks DEF QueuesWork
<1> QED
  BY <1>1, <1>2, WaitInit, PTL DEF Spec

\* And when they have been taken the interrupt has come: no completion is left
\* unannounced, also after waits that timed out (lines 178-180, test_nvme.cpp
\* lines 258-267).
THEOREM InterruptComes == QueuesWork => (Spec => []WaitIsOver)
<1> SUFFICES ASSUME QueuesWork PROVE Spec => []WaitIsOver
  OBVIOUS
<1>1. WaitInv /\ [Next]_vars => WaitInv'
  BY WaitStep DEF QueuesWork
<1>2. WaitInv => WaitIsOver
  BY WaitLeftIs DEF WaitInv, Answered, WaitIsOver
<1> QED
  BY <1>1, <1>2, WaitInit, PTL DEF Spec
==============================================================================
