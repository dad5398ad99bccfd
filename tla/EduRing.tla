------------------------------- MODULE EduRing -------------------------------
(***************************************************************************)
(* The descriptor ring DMA engine behind BAR4 of the edu-pci device        *)
(* (qemu_devices/edu_pci.c).  The host writes DMA descriptors to a ring in  *)
(* its own memory and moves RING_TAIL; the device fetches the descriptors  *)
(* from RING_HEAD to RING_TAIL, copies each source buffer to its            *)
(* destination, writes the descriptor's status back, moves RING_HEAD and,   *)
(* if the descriptor asks for it, raises MSI-X vector 1.                    *)
(*                                                                         *)
(* The whole pass over the ring runs inside the handler of the register     *)
(* write that started it, on the vCPU that wrote, under QEMU's big lock: no *)
(* other register or config space access comes between its steps.  The      *)
(* other vCPUs keep running, so guest memory may change between any two DMA *)
(* accesses; that is why each DMA access is a step of its own.              *)
(*                                                                         *)
(* This module leaves the host unconstrained: it writes any register value  *)
(* of a small set at any time, toggles bus mastering and MSI-X, resets the  *)
(* device and stores to ring and data memory while a pass is running.       *)
(* EduRingHost restricts it to the discipline the tests follow.             *)
(***************************************************************************)
EXTENDS Integers

CONSTANTS
  MaxRingSize,  \* MAX_RING_SIZE, the largest ring the device accepts
  DmaMaxLen,    \* DMA_MAX_LEN, the most units one descriptor copies
  Halves,       \* values a 32-bit half of the ring address takes
  RingBase,     \* the ring address at which the ring memory is mapped
  MemSize,      \* the data addresses 0 .. MemSize - 1 are mapped
  Data,         \* contents of a unit of data memory
  Lens,         \* lengths a descriptor may carry
  Tags,         \* contents of the reserved word, which the device ignores
  RegVals,      \* values the host writes to RING_SIZE and RING_TAIL
  GuestDescs,   \* descriptors the host stores to ring memory
  Faulty        \* the kinds of DMA access that may fail though mapped

ASSUME RingAssumption ==
  /\ MaxRingSize \in Nat \ {0}
  /\ DmaMaxLen \in Nat \ {0}
  /\ RingBase \in [hi : Halves, lo : Halves]
  /\ 0 \in Halves
  /\ MemSize \in Nat \ {0}
  /\ 0 \in Data
  /\ Lens \subseteq Nat /\ 0 \in Lens
  /\ 0 \in Tags
  /\ RegVals \subseteq Nat
  /\ Faulty \subseteq {"fetch", "read", "write", "status"}

Slots == 0 .. MaxRingSize - 1
Addrs == 0 .. MemSize - 1

\* struct DmaDescriptor; the flags word is its two bits, an address pair one
\* address of data memory.
Descs == [tag : Tags, src : Addrs, dst : Addrs, len : Lens,
          valid : BOOLEAN, int : BOOLEAN,
          status : {"pending", "complete", "error"}]

\* A descriptor of zeroes, as a fresh ring is full of (memset).
Blank == [tag |-> 0, src |-> 0, dst |-> 0, len |-> 0,
          valid |-> FALSE, int |-> FALSE, status |-> "pending"]

ASSUME GuestDescsAssumption == GuestDescs \subseteq Descs

VARIABLES
  ring_addr, ring_size, ring_head, ring_tail, ring_enabled,  \* EduPciState
  bus_master, msix,     \* the command register's and MSI-X enable bits
  pc,                   \* where the running pass stands, "idle" between passes
  count, desc, buf,     \* the pass's local variables
  ring, data,           \* guest memory: descriptors and buffers
  irq                   \* vector 1 was raised and the host has not taken it

regVars == <<ring_addr, ring_size, ring_head, ring_tail, ring_enabled>>
cfgVars == <<bus_master, msix>>
passVars == <<pc, count, desc, buf>>
memVars == <<ring, data>>
ringVars == <<regVars, cfgVars, passVars, memVars, irq>>

NoBuf == [i \in {} |-> 0]

RingInit ==
  /\ ring_addr = [hi |-> 0, lo |-> 0]
  /\ ring_size = 0 /\ ring_head = 0 /\ ring_tail = 0
  /\ ring_enabled = FALSE
  /\ bus_master = FALSE /\ msix = FALSE
  /\ pc = "idle" /\ count = 0 /\ desc = Blank /\ buf = NoBuf
  /\ ring = [i \in Slots |-> Blank]
  /\ data = [a \in Addrs |-> 0]
  /\ irq = FALSE

-----------------------------------------------------------------------------
(* Outcomes of a DMA access: it needs bus mastering and mapped addresses,   *)
(* and even then an access of a Faulty kind may fail.                       *)

DmaOk(mapped) == bus_master /\ mapped
DmaErr(kind, mapped) == ~bus_master \/ ~mapped \/ kind \in Faulty

RingMapped == ring_addr = RingBase
DataMapped(a, n) == a + n <= MemSize

\* The number of units a descriptor moves: its length, clamped.
CopyLen(d) == IF d.len > DmaMaxLen THEN DmaMaxLen ELSE d.len

\* Data memory after the first n units of buf were stored at dst; what falls
\* outside mapped memory is dropped.
Stored(dst, n) ==
  [a \in Addrs |-> IF a \in dst .. dst + n - 1 THEN buf[a - dst] ELSE data[a]]

-----------------------------------------------------------------------------
(* edu_ring_process: the loop over pending descriptors.                     *)

\* Mutant: no limit on the number of iterations.
HasWorkUnlimited == ring_head # ring_tail

HasWork == ring_head # ring_tail /\ count < ring_size

\* Entry of edu_ring_process, from the doorbell or the control register.
\* With the ring disabled or of size 0 it returns at once.
StartPass(enabled, size) ==
  /\ pc' = IF ~enabled \/ size = 0 THEN "idle" ELSE "loop"
  /\ count' = 0
  /\ UNCHANGED <<desc, buf>>

\* Mutant: an iteration that ends early is not counted.
CountedIfDone == IF pc = "loop" THEN count ELSE count + 1

Counted == count + 1

\* The next iteration of the loop, with edu_ring_process_one's locals gone.
NextIteration ==
  /\ pc' = "loop" /\ count' = Counted
  /\ desc' = Blank /\ buf' = NoBuf

PassReturns ==
  /\ pc = "loop" /\ ~HasWork
  /\ pc' = "idle" /\ count' = 0
  /\ UNCHANGED <<regVars, cfgVars, memVars, irq, desc, buf>>

\* Mutant: a descriptor that cannot be read is skipped.
HeadSkipped == (ring_head + 1) % ring_size

\* The head after a descriptor that could not be read.
HeadUnread == ring_head

\* pci_dma_read of the descriptor fails: process_one returns, the head stays.
FetchFails ==
  /\ pc = "loop" /\ HasWork
  /\ DmaErr("fetch", RingMapped)
  /\ ring_head' = HeadUnread
  /\ NextIteration
  /\ UNCHANGED <<ring_addr, ring_size, ring_tail, ring_enabled, cfgVars, memVars, irq>>

\* The descriptor is not valid: process_one returns, the head stays.
FetchInvalid ==
  /\ pc = "loop" /\ HasWork
  /\ DmaOk(RingMapped) /\ ~ring[ring_head].valid
  /\ NextIteration
  /\ UNCHANGED <<regVars, cfgVars, memVars, irq>>

FetchValid ==
  /\ pc = "loop" /\ HasWork
  /\ DmaOk(RingMapped) /\ ring[ring_head].valid
  /\ desc' = ring[ring_head]
  /\ pc' = "read"
  /\ UNCHANGED <<regVars, cfgVars, memVars, irq, count, buf>>

ReadSource ==
  /\ pc = "read"
  /\ DmaOk(DataMapped(desc.src, CopyLen(desc)))
  /\ buf' = [i \in 0 .. CopyLen(desc) - 1 |-> data[desc.src + i]]
  /\ pc' = "write"
  /\ UNCHANGED <<regVars, cfgVars, memVars, irq, count, desc>>

\* Mutant: the result of the read is not looked at.
FailStatusUnseen == "complete"

\* The status of a descriptor whose source cannot be read.
FailStatus == "error"

ReadSourceFails ==
  /\ pc = "read"
  /\ DmaErr("read", DataMapped(desc.src, CopyLen(desc)))
  /\ desc' = [desc EXCEPT !.status = FailStatus]
  /\ pc' = "writeback"
  /\ UNCHANGED <<regVars, cfgVars, memVars, irq, count, buf>>

\* Mutant: the interrupt is sent as soon as the data is copied.
WriteDestNotifies ==
  /\ pc = "write"
  /\ DmaOk(DataMapped(desc.dst, CopyLen(desc)))
  /\ data' = Stored(desc.dst, CopyLen(desc))
  /\ desc' = [desc EXCEPT !.status = "complete"]
  /\ irq' = (irq \/ (desc.int /\ msix))
  /\ pc' = "writeback"
  /\ UNCHANGED <<regVars, cfgVars, ring, count, buf>>

WriteDest ==
  /\ pc = "write"
  /\ DmaOk(DataMapped(desc.dst, CopyLen(desc)))
  /\ data' = Stored(desc.dst, CopyLen(desc))
  /\ desc' = [desc EXCEPT !.status = "complete"]
  /\ pc' = "writeback"
  /\ UNCHANGED <<regVars, cfgVars, ring, irq, count, buf>>

\* The result of the write is not looked at, so the status is the same; a
\* failed write may have stored a first part of the data.
WriteDestFails ==
  /\ pc = "write"
  /\ DmaErr("write", DataMapped(desc.dst, CopyLen(desc)))
  /\ \E n \in 0 .. CopyLen(desc) :
       /\ bus_master \/ n = 0
       /\ data' = Stored(desc.dst, n)
  /\ desc' = [desc EXCEPT !.status = "complete"]
  /\ pc' = "writeback"
  /\ UNCHANGED <<regVars, cfgVars, ring, irq, count, buf>>

WriteStatus ==
  /\ pc = "writeback"
  /\ DmaOk(RingMapped)
  /\ ring' = [ring EXCEPT ![ring_head].status = desc.status]
  /\ pc' = "retire"
  /\ UNCHANGED <<regVars, cfgVars, data, irq, count, desc, buf>>

WriteStatusFails ==
  /\ pc = "writeback"
  /\ DmaErr("status", RingMapped)
  /\ pc' = "retire"
  /\ UNCHANGED <<regVars, cfgVars, memVars, irq, count, desc, buf>>

\* The head moves on, and the interrupt is sent if the descriptor asks for it.
Retire ==
  /\ pc = "retire"
  /\ ring_head' = (ring_head + 1) % ring_size
  /\ irq' = (irq \/ (desc.int /\ msix))
  /\ NextIteration
  /\ UNCHANGED <<ring_addr, ring_size, ring_tail, ring_enabled, cfgVars,
                 memVars>>

PassStep ==
  \/ PassReturns
  \/ FetchFails \/ FetchInvalid \/ FetchValid
  \/ ReadSource \/ ReadSourceFails
  \/ WriteDest \/ WriteDestFails
  \/ WriteStatus \/ WriteStatusFails
  \/ Retire

-----------------------------------------------------------------------------
(* edu_ring_write: one action per register.                                 *)

WriteAddrLo(v) ==
  /\ pc = "idle"
  /\ ring_addr' = [ring_addr EXCEPT !.lo = v]
  /\ UNCHANGED <<ring_size, ring_head, ring_tail, ring_enabled, cfgVars,
                 passVars, memVars, irq>>

WriteAddrHi(v) ==
  /\ pc = "idle"
  /\ ring_addr' = [ring_addr EXCEPT !.hi = v]
  /\ UNCHANGED <<ring_size, ring_head, ring_tail, ring_enabled, cfgVars,
                 passVars, memVars, irq>>

\* The sizes the device accepts: the powers of two up to MAX_RING_SIZE.
LegalSize(v) == v \in 1 .. MaxRingSize /\ \E k \in 0 .. 8 : v = 2 ^ k

\* Mutant: a new size leaves the indices where they were.
ResizedKept(i) == i

\* Where an index is after a new size.
Resized(i) == 0

WriteSize(v) ==
  /\ pc = "idle"
  /\ LegalSize(v)
  /\ ring_size' = v
  /\ ring_head' = Resized(ring_head) /\ ring_tail' = Resized(ring_tail)
  /\ UNCHANGED <<ring_addr, ring_enabled, cfgVars, passVars, memVars, irq>>

\* Mutant: the tail is taken as written.
TailAsWritten(v) == v

TailOf(v) == v % ring_size

\* The doorbell.
WriteTail(v) ==
  /\ pc = "idle"
  /\ ring_size # 0
  /\ ring_tail' = TailOf(v)
  /\ IF ring_enabled THEN StartPass(ring_enabled, ring_size)
                     ELSE UNCHANGED passVars
  /\ UNCHANGED <<ring_addr, ring_size, ring_head, ring_enabled, cfgVars,
                 memVars, irq>>

\* The doorbell before any size was set divides by zero: QEMU is killed.
WriteTailNoSize ==
  /\ pc = "idle"
  /\ ring_size = 0
  /\ pc' = "dead"
  /\ UNCHANGED <<regVars, cfgVars, count, desc, buf, memVars, irq>>

\* Mutant: enabling the ring does not look for work that came meanwhile.
NoWorkWaits == FALSE

\* Doorbells came while the ring was paused.
WorkWaits == ring_head # ring_tail

WriteCtrl(enable) ==
  /\ pc = "idle"
  /\ ring_enabled' = enable
  /\ IF enable /\ WorkWaits THEN StartPass(enable, ring_size)
                          ELSE UNCHANGED passVars
  /\ UNCHANGED <<ring_addr, ring_size, ring_head, ring_tail, cfgVars,
                 memVars, irq>>

\* edu_ring_read, without the constant RING_ID.  Work that waits also shows as
\* running while the ring is paused, and after a fetch that failed.
ReadRegs ==
  [enabled |-> ring_enabled, running |-> (ring_head # ring_tail),
   addr |-> ring_addr, size |-> ring_size, head |-> ring_head, tail |-> ring_tail]

-----------------------------------------------------------------------------
(* Config space, guest memory and interrupts as the ring sees them.         *)

\* Config space writes of the command register's bus master bit and of the
\* MSI-X enable bit.
WriteConfig(bm, mx) ==
  /\ pc = "idle"
  /\ bus_master' = bm /\ msix' = mx
  /\ UNCHANGED <<regVars, passVars, memVars, irq>>

\* A function level or bus reset: QEMU clears config space; the class has no
\* reset handler, so the device's own registers keep their values.
ResetDevice == WriteConfig(FALSE, FALSE)

\* Another vCPU stores a descriptor or a unit of data.
StoreDesc(i, d) ==
  /\ pc # "dead"
  /\ ring' = [ring EXCEPT ![i] = d]
  /\ UNCHANGED <<regVars, cfgVars, passVars, data, irq>>

StoreData(a, x) ==
  /\ pc # "dead"
  /\ data' = [data EXCEPT ![a] = x]
  /\ UNCHANGED <<regVars, cfgVars, passVars, ring, irq>>

\* wait_interrupt returns: reading the eventfd resets it.
TakeInterrupt ==
  /\ pc # "dead"
  /\ irq
  /\ irq' = FALSE
  /\ UNCHANGED <<regVars, cfgVars, passVars, memVars>>

HostStep ==
  \/ \E v \in Halves : WriteAddrLo(v) \/ WriteAddrHi(v)
  \/ \E v \in RegVals : WriteSize(v) \/ WriteTail(v)
  \/ WriteTailNoSize
  \/ \E b \in BOOLEAN : WriteCtrl(b)
  \/ \E bm, mx \in BOOLEAN : WriteConfig(bm, mx)
  \/ ResetDevice
  \/ \E i \in Slots, d \in GuestDescs : StoreDesc(i, d)
  \/ \E a \in Addrs, x \in Data : StoreData(a, x)
  \/ TakeInterrupt

RingNext == PassStep \/ HostStep

\* A pass never waits for anything: every DMA access returns, so its steps
\* are fair.  The host owes nothing.
RingSpec == RingInit /\ [][RingNext]_ringVars /\ WF_ringVars(PassStep)

-----------------------------------------------------------------------------
(* Properties.                                                              *)

Busy == {"read", "write", "writeback", "retire"}

RingTypeOK ==
  /\ ring_addr \in [hi : Halves, lo : Halves]
  /\ ring_size \in 0 .. MaxRingSize
  /\ ring_head \in Slots
  /\ ring_tail \in Slots
  /\ ring_enabled \in BOOLEAN
  /\ bus_master \in BOOLEAN /\ msix \in BOOLEAN
  /\ pc \in {"idle", "loop", "dead"} \cup Busy
  /\ count \in 0 .. MaxRingSize
  /\ desc \in Descs
  /\ DOMAIN buf \subseteq 0 .. DmaMaxLen - 1
  /\ \A i \in DOMAIN buf : buf[i] \in Data
  /\ ring \in [Slots -> Descs]
  /\ data \in [Addrs -> Data]
  /\ irq \in BOOLEAN

\* The two indices always lie inside the ring, whatever is written to the
\* size and tail registers and whenever: a ring shrunk with work pending, or a
\* tail far beyond the size, never leaves an index pointing past its end
\* (lines 674-691: SIZE resets both indices, TAIL is reduced modulo the size).
IndexBounds ==
  IF ring_size = 0 THEN ring_head = 0 /\ ring_tail = 0
                   ELSE ring_head < ring_size /\ ring_tail < ring_size

\* While it works on a descriptor the device is inside the window the host
\* handed over: the ring is enabled and of legal size, the slot at the head is
\* still before the tail, and the pass has not used up its round of the ring,
\* so it never comes to a slot twice (lines 617-627).
OwnedSlot ==
  /\ pc = "loop" => ring_enabled /\ LegalSize(ring_size) /\ count <= ring_size
  /\ pc \in Busy => /\ ring_enabled
                    /\ LegalSize(ring_size)
                    /\ ring_head # ring_tail
                    /\ count < ring_size

\* Every register write that starts a pass returns to the guest, though an
\* unreadable or invalid descriptor never moves the head (lines 566-573).
PassTerminates == pc \in Busy \cup {"loop"} ~> pc = "idle"

\* A descriptor reported complete has had its data copied (line 33: status
\* 1=complete), with nothing between the copy and the report.
CompleteMeansCopied ==
  [][(pc = "write" /\ desc'.status = "complete")
       => \A i \in 0 .. CopyLen(desc) - 1 :
            desc.dst + i \in Addrs /\ data'[desc.dst + i] = buf[i]]_ringVars
==============================================================================
