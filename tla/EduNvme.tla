------------------------------- MODULE EduNvme -------------------------------
(***************************************************************************)
(* The edu-nvme controller (qemu_devices/edu_nvme.c): one submission and    *)
(* one completion queue in host memory, doorbells, and a virtual disk.      *)
(*                                                                         *)
(* A write to the submission doorbell executes every command up to the new  *)
(* tail before it returns.  As in EduRing, register accesses come only      *)
(* between such passes, and each DMA access of a pass is a step of its own, *)
(* because other vCPUs store to memory meanwhile.                           *)
(*                                                                         *)
(* The host is unconstrained here; EduNvmeHost restricts it to the protocol *)
(* of tests/nvme/test_nvme.cpp.                                             *)
(***************************************************************************)
EXTENDS Integers

CONSTANTS
  QueueMax,    \* slots of memory mapped for each queue
  Aqas,        \* queue sizes the host writes to AQA, as [sq, cq] records
  IndexSpan,   \* 2^16: the queue indices are uint16_t
  LbaSpan,     \* 2^64: block addresses are uint64_t
  Halves,      \* values a 32-bit half of a queue address takes
  SqBase,      \* the address at which submission queue memory is mapped
  CqBase,      \* the address at which completion queue memory is mapped
  NumBlocks,   \* NUM_BLOCKS, the blocks of the disk
  MemSize,     \* data memory is 1 .. MemSize, in blocks; 0 is the null pointer
  IdLen,       \* blocks the identify data takes
  IdData,      \* the content of a block of identify data
  Data,        \* contents of a block
  Cmds,        \* commands the host may put into the submission queue
  Tails,       \* values the host writes to the submission doorbell
  Heads,       \* values it writes to the completion doorbell
  Faulty       \* the kinds of DMA access that may fail though mapped

ASSUME NvmeAssumption ==
  /\ QueueMax \in Nat \ {0}
  /\ Aqas \subseteq [sq : 1 .. QueueMax, cq : 1 .. QueueMax]
  /\ IndexSpan \in Nat /\ IndexSpan >= QueueMax
  /\ LbaSpan \in Nat /\ LbaSpan > NumBlocks
  /\ 0 \in Halves
  /\ SqBase \in [hi : Halves, lo : Halves] /\ CqBase \in [hi : Halves, lo : Halves]
  /\ NumBlocks \in Nat \ {0} /\ MemSize \in Nat \ {0} /\ IdLen \in Nat \ {0}
  /\ 0 \in Data /\ IdData \in Data
  /\ Tails \subseteq Nat /\ Heads \subseteq Nat
  /\ Faulty \subseteq {"fetch", "data", "cqe"}

Queue == 0 .. QueueMax - 1
Blocks == 0 .. NumBlocks - 1
Addrs == 1 .. MemSize

\* struct NvmeCmd: cdw10 and cdw11 are the block address, cdw12 the number of
\* blocks less one.
IsCmd(c) ==
  /\ DOMAIN c = {"opcode", "cid", "prp1", "lba", "nlb"}
  /\ c.opcode \in {"identify", "read", "write", "other"}
  /\ c.cid \in Nat
  /\ c.prp1 \in 0 .. MemSize
  /\ c.lba \in 0 .. LbaSpan - 1
  /\ c.nlb \in Nat \ {0}

\* A command of zeroes: as fresh queue memory and a failed fetch leave it.
ZeroCmd == [opcode |-> "other", cid |-> 0, prp1 |-> 0, lba |-> 0, nlb |-> 1]

\* struct NvmeCqe.
ZeroCqe == [cid |-> 0, sq_head |-> 0, status |-> "ok", phase |-> 0]

ASSUME CmdsAssumption == \A c \in Cmds : IsCmd(c)

VARIABLES
  enabled, aqa, asq, acq,                         \* cc and csts, aqa, asq, acq
  sq_tail, sq_head, cq_tail, cq_head, cq_phase,   \* queue state
  storage,              \* the disk
  bus_master, msix,     \* config space
  pc,                   \* where the running pass stands
  cmd, fetched,         \* process_sq's local, and whether it was ever filled
  status,               \* the status of the completion being built
  sq, cq, mem,          \* guest memory
  msi                   \* vector 0 was sent and has not arrived yet

regVars == <<enabled, aqa, asq, acq>>
queueVars == <<sq_tail, sq_head, cq_tail, cq_head, cq_phase>>
cfgVars == <<bus_master, msix>>
passVars == <<pc, cmd, fetched, status>>
memVars == <<sq, cq, mem>>
nvmeVars == <<regVars, queueVars, storage, cfgVars, passVars, memVars, msi>>

NvmeInit ==
  /\ enabled = FALSE
  /\ aqa = [sq |-> 1, cq |-> 1]
  /\ asq = [hi |-> 0, lo |-> 0] /\ acq = [hi |-> 0, lo |-> 0]
  /\ sq_tail = 0 /\ sq_head = 0 /\ cq_tail = 0 /\ cq_head = 0 /\ cq_phase = 1
  /\ storage = [b \in Blocks |-> 0]
  /\ bus_master = FALSE /\ msix = FALSE
  /\ pc = "idle" /\ cmd = ZeroCmd /\ fetched = FALSE /\ status = "ok"
  /\ sq = [i \in Queue |-> ZeroCmd]
  /\ cq = [i \in Queue |-> ZeroCqe]
  /\ mem = [a \in Addrs |-> 0]
  /\ msi = FALSE

-----------------------------------------------------------------------------
(* Outcomes of a DMA access, as in EduRing.                                 *)

DmaOk(mapped) == bus_master /\ mapped
DmaErr(kind, mapped) == ~bus_master \/ ~mapped \/ kind \in Faulty

DataMapped(a, n) == a >= 1 /\ a + n - 1 <= MemSize

\* Data memory after the first n of blocks went to address a; what falls
\* outside mapped memory is dropped.
Stored(a, n, blocks) ==
  [x \in Addrs |-> IF x \in a .. a + n - 1 THEN blocks[x - a] ELSE mem[x]]

-----------------------------------------------------------------------------
(* edu_nvme_process_sq: one iteration per command.                          *)

PassReturns ==
  /\ pc = "loop" /\ sq_head = sq_tail
  /\ pc' = "idle" /\ cmd' = ZeroCmd /\ fetched' = FALSE /\ status' = "ok"
  /\ UNCHANGED <<regVars, queueVars, storage, cfgVars, memVars, msi>>

Fetch ==
  /\ pc = "loop" /\ sq_head # sq_tail
  /\ DmaOk(asq = SqBase)
  /\ cmd' = sq[sq_head] /\ fetched' = TRUE
  /\ pc' = "exec"
  /\ UNCHANGED <<regVars, queueVars, storage, cfgVars, memVars, msi, status>>

\* The result is not looked at: the device executes what the local variable
\* then holds, which is zeroes, the last command of this pass or, in the first
\* iteration, whatever was on the stack.
FetchFails ==
  /\ pc = "loop" /\ sq_head # sq_tail
  /\ DmaErr("fetch", asq = SqBase)
  /\ cmd' \in {ZeroCmd} \cup (IF fetched THEN {cmd} ELSE Cmds)
  /\ fetched' = TRUE
  /\ pc' = "exec"
  /\ UNCHANGED <<regVars, queueVars, storage, cfgVars, memVars, msi, status>>

-----------------------------------------------------------------------------
(* edu_nvme_process_cmd.                                                    *)

\* The end of every branch of the switch.
Finish(st) ==
  /\ status' = st
  /\ pc' = "complete"
  /\ UNCHANGED <<regVars, queueVars, cfgVars, sq, cq, msi, cmd, fetched>>

\* The result of the write is not looked at.  A null pointer gets nothing.
Identify ==
  /\ pc = "exec" /\ cmd.opcode = "identify"
  /\ LET ok == DataMapped(cmd.prp1, IdLen)
     IN \E n \in 0 .. IdLen :
          /\ n = IdLen => DmaOk(ok)
          /\ n < IdLen => cmd.prp1 = 0 \/ DmaErr("data", ok)
          /\ n > 0 => bus_master /\ cmd.prp1 # 0
          /\ mem' = Stored(cmd.prp1, n, [i \in 0 .. n - 1 |-> IdData])
  /\ Finish("ok")
  /\ UNCHANGED storage

\* The range check, in 64-bit arithmetic.
InRange == (cmd.lba + cmd.nlb) % LbaSpan <= NumBlocks
OnDisk == cmd.lba + cmd.nlb <= NumBlocks

OutOfRange ==
  /\ pc = "exec" /\ cmd.opcode \in {"read", "write"}
  /\ ~InRange
  /\ Finish("invalid_lba")
  /\ UNCHANGED <<storage, mem>>

\* A command that passes the check although it lies outside the disk: the
\* access runs outside the allocated storage.
Astray ==
  /\ pc = "exec" /\ cmd.opcode \in {"read", "write"}
  /\ InRange /\ ~OnDisk
  /\ pc' = "astray"
  /\ UNCHANGED <<regVars, queueVars, storage, cfgVars, memVars, msi, cmd,
                 fetched, status>>

\* Mutant: the result of the transfer is not looked at.
FailStatusUnseen == "ok"

\* What a command reports whose transfer failed.
FailStatus == "dma_error"

Accepted(op) == pc = "exec" /\ cmd.opcode = op /\ InRange /\ OnDisk

\* The blocks of the disk the command names.
DiskBlocks == [i \in 0 .. cmd.nlb - 1 |-> storage[cmd.lba + i]]

Read ==
  /\ Accepted("read")
  /\ DmaOk(DataMapped(cmd.prp1, cmd.nlb))
  /\ mem' = Stored(cmd.prp1, cmd.nlb, DiskBlocks)
  /\ Finish("ok")
  /\ UNCHANGED storage

\* A failed write may have stored a first part of the data.
ReadFails ==
  /\ Accepted("read")
  /\ DmaErr("data", DataMapped(cmd.prp1, cmd.nlb))
  /\ \E n \in 0 .. cmd.nlb :
       /\ bus_master \/ n = 0
       /\ mem' = Stored(cmd.prp1, n, DiskBlocks)
  /\ Finish(FailStatus)
  /\ UNCHANGED storage

InCmd(b) == b \in cmd.lba .. cmd.lba + cmd.nlb - 1

Write ==
  /\ Accepted("write")
  /\ DmaOk(DataMapped(cmd.prp1, cmd.nlb))
  /\ storage' = [b \in Blocks |->
       IF InCmd(b) THEN mem[cmd.prp1 + b - cmd.lba] ELSE storage[b]]
  /\ Finish("ok")
  /\ UNCHANGED mem

\* A failed read goes straight into the disk as well: each block it was to fill
\* has its old contents, zeroes or, where the memory could be read, the data.
WriteFails ==
  /\ Accepted("write")
  /\ DmaErr("data", DataMapped(cmd.prp1, cmd.nlb))
  /\ \E lost, copied \in SUBSET {b \in Blocks : InCmd(b)} :
       /\ \A b \in copied : bus_master /\ cmd.prp1 + b - cmd.lba \in Addrs
       /\ storage' = [b \in Blocks |->
            IF b \in copied THEN mem[cmd.prp1 + b - cmd.lba]
            ELSE IF b \in lost THEN 0 ELSE storage[b]]
  /\ Finish(FailStatus)
  /\ UNCHANGED mem

OtherOpcode ==
  /\ pc = "exec" /\ cmd.opcode = "other"
  /\ Finish("invalid_opcode")
  /\ UNCHANGED <<storage, mem>>

\* Mutants: wrapping one slot late, and wrapping only exactly at the end.
AfterPast(i, n) == LET j == (i + 1) % IndexSpan IN IF j > n THEN 0 ELSE j
AfterEqual(i, n) == LET j == (i + 1) % IndexSpan IN IF j = n THEN 0 ELSE j

\* Mutant: an index at the end stays there.
AfterStays(i, n) == LET j == (i + 1) % IndexSpan IN IF j >= n THEN i ELSE j

\* The index after i in a queue of n slots: 0 at or past the end.
After(i, n) == LET j == (i + 1) % IndexSpan IN IF j >= n THEN 0 ELSE j

\* Mutant: the completion goes to the slot after the tail.
CqeSlotAhead == After(cq_tail, aqa.cq)

CqeSlot == cq_tail

\* The completion carries the head as it was before this command.
WriteCqe ==
  /\ pc = "complete"
  /\ DmaOk(acq = CqBase)
  /\ cq' = [cq EXCEPT ![CqeSlot] =
       [cid |-> cmd.cid, sq_head |-> sq_head, status |-> status, phase |-> cq_phase]]
  /\ pc' = "advance"
  /\ UNCHANGED <<regVars, queueVars, storage, cfgVars, sq, mem, msi, cmd,
                 fetched, status>>

WriteCqeFails ==
  /\ pc = "complete"
  /\ DmaErr("cqe", acq = CqBase)
  /\ pc' = "advance"
  /\ UNCHANGED <<regVars, queueVars, storage, cfgVars, memVars, msi, cmd,
                 fetched, status>>

\* Mutant: no interrupt for a command that failed.
NotifiesOk == msix /\ bus_master /\ status = "ok"

Notifies == msix /\ bus_master

\* Advance the completion queue, notify, advance the submission queue.
Advance ==
  /\ pc = "advance"
  /\ cq_tail' = After(cq_tail, aqa.cq)
  /\ cq_phase' = IF (cq_tail + 1) % IndexSpan >= aqa.cq THEN 1 - cq_phase
                                                      ELSE cq_phase
  /\ msi' = (msi \/ Notifies)
  /\ sq_head' = After(sq_head, aqa.sq)
  /\ pc' = "loop"
  /\ UNCHANGED <<regVars, sq_tail, cq_head, storage, cfgVars, memVars, cmd,
                 fetched, status>>

PassStep ==
  \/ PassReturns \/ Fetch \/ FetchFails
  \/ Identify \/ OutOfRange \/ Astray
  \/ Read \/ ReadFails \/ Write \/ WriteFails \/ OtherOpcode
  \/ WriteCqe \/ WriteCqeFails \/ Advance

-----------------------------------------------------------------------------
(* edu_nvme_write: one action per register.                                 *)

\* Mutants: enabling leaves the phase, or the completion queue, as it was.
EnabledCqKeepsPhase == <<0, 0, cq_phase>>
EnabledCqKeeps == <<cq_head, cq_tail, cq_phase>>

\* Head, tail and phase of the completion queue after enabling.
EnabledCq == <<0, 0, 1>>

WriteCC(en) ==
  /\ pc = "idle"
  /\ enabled' = en
  /\ IF en THEN /\ sq_head' = 0 /\ sq_tail' = 0
                /\ cq_head' = EnabledCq[1] /\ cq_tail' = EnabledCq[2] /\ cq_phase' = EnabledCq[3]
           ELSE UNCHANGED queueVars
  /\ UNCHANGED <<aqa, asq, acq, storage, cfgVars, passVars, memVars, msi>>

WriteAqa(a) ==
  /\ pc = "idle"
  /\ aqa' = a
  /\ UNCHANGED <<enabled, asq, acq, queueVars, storage, cfgVars, passVars,
                 memVars, msi>>

\* ASQ and ACQ, by halves: q is the register after the write.
WriteAsq(q) ==
  /\ pc = "idle"
  /\ asq' = q
  /\ UNCHANGED <<enabled, aqa, acq, queueVars, storage, cfgVars, passVars,
                 memVars, msi>>
WriteAcq(q) ==
  /\ pc = "idle"
  /\ acq' = q
  /\ UNCHANGED <<enabled, aqa, asq, queueVars, storage, cfgVars, passVars,
                 memVars, msi>>
WriteAsqLo(v) == WriteAsq([asq EXCEPT !.lo = v])
WriteAsqHi(v) == WriteAsq([asq EXCEPT !.hi = v])
WriteAcqLo(v) == WriteAcq([acq EXCEPT !.lo = v])
WriteAcqHi(v) == WriteAcq([acq EXCEPT !.hi = v])

\* edu_nvme_read, without CAP and VS, which are constant.
ReadRegs == [cc |-> enabled, csts |-> enabled, aqa |-> aqa, asq |-> asq, acq |-> acq]

\* The submission doorbell works on a disabled controller too.
WriteSqTail(v) ==
  /\ pc = "idle"
  /\ sq_tail' = v % IndexSpan
  /\ pc' = "loop"
  /\ UNCHANGED <<regVars, sq_head, cq_tail, cq_head, cq_phase, storage, cfgVars,
                 cmd, fetched, status, memVars, msi>>

\* The completion doorbell only records the value.
WriteCqHead(v) ==
  /\ pc = "idle"
  /\ cq_head' = v % IndexSpan
  /\ UNCHANGED <<regVars, sq_tail, sq_head, cq_tail, cq_phase, storage, cfgVars,
                 passVars, memVars, msi>>

-----------------------------------------------------------------------------
(* Config space, guest memory and interrupts.                               *)

WriteConfig(bm, mx) ==
  /\ pc = "idle"
  /\ bus_master' = bm /\ msix' = mx
  /\ UNCHANGED <<regVars, queueVars, storage, passVars, memVars, msi>>

StoreCmd(i, c) ==
  /\ pc # "astray"
  /\ sq' = [sq EXCEPT ![i] = c]
  /\ UNCHANGED <<regVars, queueVars, storage, cfgVars, passVars, cq, mem, msi>>

StoreData(a, x) ==
  /\ pc # "astray"
  /\ mem' = [mem EXCEPT ![a] = x]
  /\ UNCHANGED <<regVars, queueVars, storage, cfgVars, passVars, sq, cq, msi>>

\* The interrupt reaches the host.
Arrive ==
  /\ pc # "astray"
  /\ msi /\ msi' = FALSE
  /\ UNCHANGED <<regVars, queueVars, storage, cfgVars, passVars, memVars>>

HostStep ==
  \/ \E b \in BOOLEAN : WriteCC(b)
  \/ \E a \in Aqas : WriteAqa(a)
  \/ \E v \in Halves : WriteAsqLo(v) \/ WriteAsqHi(v) \/ WriteAcqLo(v) \/ WriteAcqHi(v)
  \/ \E v \in Tails : WriteSqTail(v)
  \/ \E v \in Heads : WriteCqHead(v)
  \/ \E bm, mx \in BOOLEAN : WriteConfig(bm, mx)
  \/ \E i \in Queue, c \in Cmds : StoreCmd(i, c)
  \/ \E a \in Addrs, x \in Data : StoreData(a, x)
  \/ Arrive

NvmeNext == PassStep \/ HostStep

\* Every DMA access returns, so the steps of a pass are fair.
NvmeSpec == NvmeInit /\ [][NvmeNext]_nvmeVars /\ WF_nvmeVars(PassStep)

-----------------------------------------------------------------------------
(* Properties.                                                              *)

Statuses == {"ok", "invalid_lba", "dma_error", "invalid_opcode"}

NvmeTypeOK ==
  /\ enabled \in BOOLEAN
  /\ aqa \in [sq : 1 .. QueueMax, cq : 1 .. QueueMax]
  /\ asq \in [hi : Halves, lo : Halves] /\ acq \in [hi : Halves, lo : Halves]
  /\ sq_head \in Queue /\ cq_tail \in Queue
  /\ sq_tail \in 0 .. IndexSpan - 1 /\ cq_head \in 0 .. IndexSpan - 1
  /\ cq_phase \in {0, 1}
  /\ storage \in [Blocks -> Data]
  /\ bus_master \in BOOLEAN /\ msix \in BOOLEAN /\ msi \in BOOLEAN
  /\ pc \in {"idle", "loop", "exec", "complete", "advance", "astray"}
  /\ IsCmd(cmd) /\ fetched \in BOOLEAN /\ status \in Statuses
  /\ \A i \in Queue : /\ IsCmd(sq[i])
                      /\ cq[i].status \in Statuses /\ cq[i].phase \in {0, 1}
  /\ mem \in [Addrs -> Data]

\* However the queue sizes are rewritten between doorbells, and whatever the
\* indices were, each completed command leaves both device indices inside the
\* queues as they are now (lines 171-173 and 198-200, >= and not ==).
IndicesReturn ==
  [][pc = "advance" /\ pc' = "loop" =>
       cq_tail' < aqa.cq /\ sq_head' < aqa.sq]_nvmeVars

\* A write to the submission doorbell with a tail inside the queue returns (or
\* the device has run outside its storage), wherever the head was left by an
\* earlier queue size or a rejected enable, and whatever the commands were and
\* whichever accesses failed (lines 189-200).  For a tail past the queue the
\* code promises nothing: the head wraps before it gets there.
DoorbellReturns ==
  pc # "idle" /\ sq_tail < aqa.sq ~> pc \in {"idle", "astray"}
==============================================================================
