# TLA+ models of the edu PCIe devices

This directory models the device emulation in `qemu_devices/` and the host
programs in `tests/` that drive it. TLC checks the models on small instances, and
TLAPS proves nearly all of their safety properties for every instance.
Paths below are relative to the repository (`src/` in `PROJECT.json`); line
numbers are of its files.

`PROJECT.json` maps every modelling definition to the lines it stands for, and
lists the runs, the hazards with the properties that cover them, and the theorems.

## 1. The system

### Components

| component | source | state it keeps | operations | model |
|---|---|---|---|---|
| Descriptor ring DMA (BAR4) | `qemu_devices/edu_pci.c` 548-701 | ring address, size, head, tail, enable bit | one handler per register; a pass over the ring started by TAIL or CTRL | `EduRing` |
| Its host program | `tests/vfio/test_ring_dma.cpp` | tail, buffers, ring memory, eventfd | open, set up, post, doorbell, wait, read status | `EduRingHost`, `JobQueue` |
| NVMe controller | `qemu_devices/edu_nvme.c` | CC, AQA, ASQ, ACQ, indices, phase, the disk | register handlers; the submission queue loop | `EduNvme` |
| Its host program | `tests/nvme/test_nvme.cpp` | tail, head, command number | set up, submit, wait with a timeout | `EduNvmeHost` |
| BAR0 of the physical and virtual functions | `edu_pci.c` 437-545, 841-880 | scratch, factorial, DMA and peer-to-peer registers, `dma_busy` | register handlers, simple DMA, IRQ raise and acknowledge, peer-to-peer write | `EduBar0` |
| AES-CBC engine (BAR5) | `edu_pci.c` 326-350, 715-831 | key, schedule, IV, addresses, length | register handlers, one CBC operation | `EduCrypto` |
| AES-128 block cipher | `edu_pci.c` 176-324 | none | expand, encipher, decipher | `AesBlock` |
| Config space and reset | `edu_pci.c` 883-926, QEMU | bus master bit, MSI-X enable bit | writes, function level reset | actions of each device module |
| Realize, exit, class init | `edu_pci.c` 943-1042, `edu_nvme.c` 286-330 | - | run once | the initial states |
| USB counter, USB serial echo | `qemu_devices/dev-edu.c`, `dev-edu-serial.c` | one value; one echo buffer and a number | control and bulk transfers, reset | `EduUsb` |
| Linux driver | `drivers/edu_pci.c` | what probe has acquired | probe with unwinding, remove | `EduPciHost` |
| Simple DMA host program | `tests/vfio/test_edu_dma.cpp`, `utils/bind_vfio.sh` | descriptors, BAR0, two pages, eventfd | open, set up, raise, transfer, wait, clean up | `EduPciHost` |
| Crypto host program | `tests/vfio/test_crypto.cpp` | as the one above | key, IV, encrypt, decrypt, compare | its sequences are in `EduCrypto` |
| Register scripts | `tests/vfio/test_regs.py`, `test_p2p.sh`, `tests/interrupts/` | - | register writes through `/dev/mem` | `Script` of `EduPciHost` |
| Other tests, scripts, examples | `tests/`, `utils/`, `examples/` | - | straight-line sequences | not modelled (section 8) |

### How they interact

* A host reaches a device by **register writes**. QEMU runs the handler on the
  vCPU that wrote, under its big lock. No second register or config space access
  of that device comes in between, and the write returns when the handler does.
* A handler reaches **guest memory by DMA**. Each access needs the bus master bit
  and mapped memory, and may fail. The other vCPUs do not hold the lock while
  they store to memory, so memory may change between any two accesses.
* A device tells the host by an **MSI-X message** (ring: vector 1, crypto: vector
  2, simple DMA and NVMe: vector 0) or by INTx. VFIO turns it into an eventfd.
* One function can **write a register of another** from inside its handler (the
  peer-to-peer command), so handlers nest. QEMU refuses a write to a function
  whose handler is running.
* The **Linux driver and VFIO** take a function in turns, by unbinding and binding;
  both claim its BAR0 in the kernel's resource tree, and scripts that map
  `/dev/mem` reach the registers past both.
* A USB **host controller** hands the first transfer queued on an endpoint to the
  device, which completes it, stalls it, or refuses it for now (NAK). The one of
  `start_qemu.sh:24` (`qemu-xhci`) then leaves the endpoint alone until the host
  rings its doorbell or the device calls `usb_wakeup`.
* A process that opens a function through VFIO **resets** it. The edu-pci and
  edu-nvme classes define no reset handler: config space is cleared, but ring
  registers, key, IV, queue indices, phase and disk are those of the last owner.

### What is hard, and what makes each part correct

* *Ring*: memory that changes under a running pass, invalid or unreadable
  descriptors that never move the head, a ring resized with work pending, pause
  and resume, wrap-around, restart of the host over old registers. Correct when
  indices stay inside the ring, the device works only in the window it was
  handed, every doorbell returns, requests run once and in order, none is lost,
  and status and interrupt tell the truth.
* *NVMe*: queue sizes rewritten while indices stand beyond them, phase bits over
  laps and restarts, a transfer that fails half-way, an answer later than the
  host's timeout. Correct when indices come back inside the queues, the phase
  tells new from old, doorbells return, completions answer commands in order, and
  the disk returns what was written.
* *BAR0*: handlers nested by peer-to-peer writes, `dma_busy` set over two DMA
  accesses, switches between INTx and MSI-X between raise and acknowledge.
  Correct when nesting ends, the busy flag is never stuck, and no INTx level
  survives under MSI-X.
* *Crypto*: a key installed word by word, a chain whose state must not leak into
  the next operation, lengths clamped before they are tested, 512 table entries.
  Correct when the key written is the key used and decryption undoes encryption.
* *Driver and DMA program*: a probe that can fail at four steps, a program that can
  be killed at any step, waits that end by a timeout or by an interrupt other than
  the awaited one, registers that an earlier run or a script left. Correct when
  everything acquired is given back, whoever ends and however, and a transfer that
  is compared was made.
* *USB*: one echo buffer between two endpoints whose transfers come in any order,
  a length taken from `snprintf`, reset between message and read. Correct when a
  read gets the latest message's echo, once and whole, and a message is answered.

## 2. Modules

| module | what it is |
|---|---|
| `EduRing` | the ring engine under an unconstrained host |
| `EduRingHost` | extends it with the host discipline of the ring test |
| `JobQueue` | the abstract queue the two implement |
| `EduNvme`, `EduNvmeHost` | the controller under an unconstrained host, and under the test program |
| `EduBar0` | registers and handlers of several functions |
| `EduPciHost` | extends it with the driver, the DMA program and the scripts |
| `EduUsb` | the two USB devices under a host that queues transfers |
| `EduCrypto` | the CBC engine over an abstract block cipher |
| `AesBlock` | the concrete block cipher |
| `EduRingProofs` | theorems about the ring engine |
| `EduRingHostProofs` | about the ring under its host, with the refinement of `JobQueue` |
| `JobQueueProofs` | about the abstract queue |
| `EduNvmeProofs` | about the controller, alone and under its host program |
| `EduPciProofs` | about `EduBar0`, and about the driver and the program of `EduPciHost` |
| `EduUsbProofs`, `EduCryptoProofs` | about the USB devices and the CBC engine |
| `Remainders` | lemmas on `%` that ring slots, queue indices and bytes share |
| `MC*` | constant values for TLC |

Conventions shared by the device modules:

* One action per register handler; its guard `pc = "idle"` (`stack = <<>>` in
  `EduBar0`) says that no handler is running. One action per DMA access of a
  handler, since that is where memory may have changed. Everything a handler
  does between two accesses belongs to the action of the access before it.
* `pc` is where the running handler stands. `pc = "dead"` and `pc = "astray"` are
  ends: QEMU killed by a division by zero, an access outside the disk.
* `bus_master` and `msix` are the config space bits; a reset is a config write
  that clears them and leaves the registers.
* `Faulty` is the set of kinds of DMA access that may fail although mapped. A
  failed write of data may have stored a first part; a failed read leaves what
  the buffer held, which is arbitrary when it was never initialised.
* Addresses, data, blocks and keys are small values. 64-bit addresses that the
  host writes by halves keep their halves where a half-written address matters.
* An operator under a comment that starts with "Mutant:" belongs to no
  specification. It is the operator after it with a plausible mistake in it, and
  each property has one that makes TLC find it violated.

### EduRing

`ring_addr`, `ring_size`, `ring_head`, `ring_tail` and `ring_enabled` are the
fields of `EduPciState`; `count`, `desc` and `buf` are locals of
`edu_ring_process` and `edu_ring_process_one`.

| action | code |
|---|---|
| `WriteAddrLo`, `WriteAddrHi`, `WriteSize`, `WriteTail`, `WriteCtrl` | the cases of `edu_ring_write`, 656-701 |
| `ReadRegs` (an operator) | `edu_ring_read`, 633-651 |
| `WriteTailNoSize` | line 687 with `ring_size` 0 |
| `StartPass`, `HasWork`, `NextIteration`, `PassReturns` | the early returns and the loop of `edu_ring_process`, 613-630 |
| `FetchFails`, `FetchInvalid`, `FetchValid` | 563-573 |
| `ReadSource`, `ReadSourceFails` | 583-592 |
| `WriteDest`, `WriteDestFails` | 593-597 |
| `WriteStatus`, `WriteStatusFails`, `Retire` | 599-610 |
| `WriteConfig`, `ResetDevice`, `StoreDesc`, `StoreData`, `TakeInterrupt` | the environment |

The only difference between one descriptor and another that matters here is
kept: addresses, length, the two flags, the status, and the reserved word, which
the device ignores and the host module uses to name a request.

### EduRingHost and JobQueue

The host numbers its requests 1, 2, ... over all sessions. `Open`, `SetupRing`
(register by register, in the order of `test_ring_dma.cpp`), `Post`,
`RingDoorbell`, `Reap` and `WaitInterrupt` are the steps of the test class;
`Control` pauses and resumes; `Die` ends the process at any moment outside a
register write. They are separate actions, so several vCPUs may take them in any
order while a pass runs. The host keeps one slot free. The tests do so by their
numbers (4 requests, 16 slots); `RoomForAll` and `RoomAssumed` show what happens
without. `log` is history: the requests executed.

`JobQueue` has three operations: post, execute the oldest, abandon all. The
refinement mapping takes `todo` to the requests between the last one executed and
the last one posted, and `done` to `log`; opening, doorbells, pauses, DMA
accesses and failed fetches are stutters.

### EduNvme and EduNvmeHost

`PassReturns`, `Fetch`, `FetchFails` are the loop of `edu_nvme_process_sq`
(184-202); `Identify` to `OtherOpcode` the cases of `edu_nvme_process_cmd`
(96-165), `WriteCqe`, `WriteCqeFails` and `Advance` its end (166-182). Indices
are taken modulo `IndexSpan` (2^16) and block sums modulo `LbaSpan` (2^64), since
the code's types wrap there. `Astray` is a command that passes the range check
although it is outside the disk.

`EduNvmeHost` follows `NvmeController` (215-324) and `main` (326-355): `Open`,
`SetupController` in the order of `init`, `Submit` (which fills the slot and rings
the doorbell in one go, one command outstanding), `TakeCompletion`, `Timeout`,
`AwaitReady`, which reads the ready bit (`ReadRegs`) before the first command, and
`Die`. The MSI-X message travels (`Arrive`, `Interrupt`) before the eventfd is
readable. `shadow` is history: per block the contents it may have by what the
program knows. A read that succeeded narrows it to what was read, a write that
succeeded to what was written, a submitted write widens it.

### EduBar0

`stack` holds the running handlers, innermost first. `HandleWrite` has one
disjunct per register of `edu_pci_write` and `edu_vf_write`; a peer-to-peer write
calls it for the target with the rest of the stack below. `Engaged` is QEMU's
refusal of a write to a function whose handler is on the stack. That rule, and
an INTx line that works, are QEMU's and not this repository's; both are marked
external or noted. The factorial of n is named by n, 12 at most. `Read` is what
the host reads of a register; the two register files differ in the peer-to-peer
registers only.

### EduPciHost

The function `F` of `EduBar0` between its two owners. `driver` says who is bound,
or which step of `edu_probe` (22-74) or `edu_remove` (77-87) comes next: `Acquire`
takes a resource or jumps to the label of `ErrLabel`, and `Release` falls through
from one label to the next, for the error path and for `edu_remove` alike. `held`
is what the driver has, and `owner` who has claimed BAR0 in the kernel.

| action | code |
|---|---|
| `Open`, `Claim`, `EnableMaster` | `open` of `test_edu_dma.cpp`, 59-70, 72-79, 81-87 |
| `SetupMsix`, `SetupDma`, `SetupFails` | `setup_msix`, `setup_dma`, and their early returns |
| `WriteReg` with `WriteOf` | the register writes of `main`, `test_manual_interrupt` and `do_dma`, in program order |
| `Woken`, `Timeout` | `wait_interrupt`, 134-143 |
| `Fill`, `Compare` | `do_dma`, 185-189 and 208-217 |
| `Cleanup`, `Die` | `cleanup`, and what the kernel does for a killed process |
| `Rebind` | `utils/bind_vfio.sh` 14-20, in both directions, at any time |
| `Script` | writes of the scripts that use `/dev/mem` |

`main` makes one transfer; the model lets it make any number. One eventfd serves the
interrupt the program raises itself and the one that ends a transfer, so either may
end either wait.

### EduUsb

`out_q` and `in_q` are the transfers the host has queued on the bulk endpoints
of the serial port. `TakeMessage` is Bulk OUT (159-169), `GiveEcho` Bulk IN with
something to give (148-154), `RefuseRead` Bulk IN without (154-156), `ResetSerial`
lines 101-106. `in_running` says that the controller serves the reads: a refused one
stays queued and ends that, and a queued read, which rings the doorbell, begins it.
No action of the device does, since nothing in `dev-edu-serial.c` calls `usb_wakeup`.
Bulk OUT is never refused and needs no such flag. A message is its size and how many of its characters precede
a NUL; an echo is the message and its number, with the length `snprintf` returns.
`SetCounter`, `ReadCounter` and `ResetCounter` are the counter device. `alive` says
that QEMU runs: a message of the buffer's size or more has its terminator stored
past the end, and a counter transfer of fewer than four bytes stops QEMU.

### EduCrypto and AesBlock

`EduCrypto` keeps the words of key and IV apart, since they are written one by
one, and the CBC chain block by block. The block cipher is a constant with
`CipherAssumption`: deciphering undoes enciphering under every schedule.
`AesBlock` has the code's cipher on its actual tables as functions: the schedule
from the key, a block enciphered and deciphered under it. `MCEduCrypto` extends both
modules, and wherever an operation of the engine is about to call the cipher, the run
looks at the tables, at the examples of FIPS 197 and at four more vectors. That is
evidence for the assumption and not a proof of it.

## 3. Runs

Times are of a two-worker run on a small machine.

| run | distinct states | what it asks |
|---|---|---|
| `EduRing` | 563,968 (65 s) | indices inside, window respected, every register write returns; unconstrained host, all faults |
| `EduRingHost` | 1,169,797 (18 s) | order, once, truthful status and interrupt, refinement of `JobQueue`; fetch and source faults |
| `EduRingHost_drain` | 98,827 (16 s) | no doorbell lost, every request seen finished |
| `EduNvme` | 1,318,816 (148 s) | device indices come back inside the queues, doorbells return; unconstrained host |
| `EduNvmeHost` | 397,599 (30 s) | phase, completions, disk, waits end |
| `EduBar0` | 533,952 (69 s) | nesting, busy flag, INTx |
| `EduPciHost` | 124,800 (17 s) | nothing stays claimed, transfers verified, transfers end |
| `EduCrypto` | 5,921,218 (58 s) | key installed, round trip, buffers bounded; the cipher is AES-128 and inverts |
| `EduUsb` | 640,900 (35 s) | latest echo, once and whole; reads served after a message end; counter read as set |
| `EduRing_CompleteMeansCopied` | violated | section 6 |
| `EduNvmeHost_StatusIsMine` | violated | section 6 |
| `EduUsb_EchoComesBack` | violated | section 6 |

### Properties

Ring, any host:
* `IndexBounds`: head and tail inside the ring, for any order of SIZE and TAIL
  writes. It fails if SIZE keeps the indices.
* `OwnedSlot`: while the device works, the ring is enabled, head differs from
  tail, and the pass is within its one round of the ring.
* `PassTerminates`: from any point of a pass, control comes back.

Ring, disciplined host:
* `NextInOrder`: the request being worked on is the one after the last executed,
  and a doorbell was rung for it; across wrap-around, pauses and restarts.
* `FetchedUnchanged`: the ring's descriptor is still the copied one when the
  status is written back to it.
* `CompleteHasData`, `InterruptAfterStatus`: complete means the destination holds
  this request's data; an interrupt finds no older request pending.
* `ImplementsQueue`: the refinement of `JobQueue`.
* `DrainedAtIdle`, `EveryRequestReaped`: nothing rung for is left behind; each
  request of a session that goes on is seen finished.

NVMe:
* `IndicesReturn`: after each command both device indices are inside the queues
  as they are sized now, wherever they were. It needs the `>=` of lines 172 and
  199; with `==` an index left behind by a shrink goes on upwards.
* `DoorbellReturns`: the register write of a doorbell inside the queue comes back,
  wherever an earlier queue size left the head. An index that saturates instead of
  wrapping would keep the vCPU for ever; a tail past the queue does so in the code.
* `PhaseTellsNew`: an entry carries the current phase exactly if this lap has
  written it, also in a session that found another phase and index.
* `CompletionsInOrder`, `CompletionMatches`: the k-th entry answers the k-th
  command; the completion taken is the awaited one while no wait timed out.
* `ReadBack`: the disk is a disk. `WaitEnds`: a wait ends.

BAR0:
* `NoIntxUnderMsix`: no INTx level under MSI-X.
* `PeersReturn`: a chain of peer-to-peer writes ends.
* `AcceptsNext`: `dma_busy` is set only inside a handler.

Crypto:
* `KeyInstalled`: a key written in order is the key in use.
* `RoundTrip`: decrypting a first part of what was encrypted, same key and IV,
  gives back what was encrypted, whatever happened in between.
* `TablesAreSubstitution`, `DecryptInverts`, `KnownAnswer`: the tables are the
  field inverse and affine map at all 256 bytes and inverse to each other;
  deciphering inverts; the standard's examples come out.

Driver and DMA program:
* `NothingLeftHeld`: an unbound driver holds nothing, a bound one everything; BAR0
  is claimed by the driver exactly while it holds the region and by VFIO only while
  the program runs; the function masters the bus for the program only. It speaks of
  every failing step of probe, of remove, and of every way the program can end.
* `DmaVerified`: the comparison never fails, although the waits may time out: the
  register write that starts the transfer returns only when the copy is made.
* `TransferEnds`: from the filled page the program gets to the comparison.

USB:
* `EchoOfLatest`: a read gives the echo of the latest message since the reset
  under its number, and there are no more echoes than messages.
* `EchoWhole`: an echo that fits is given up to the length asked for, and nothing
  behind it.
* `ReadAfterMessageEnds`: a read that the controller serves after a message was taken,
  or while it is taken, ends: every message leaves an echo, and only a read takes it.
  `EchoComesBack` asks the same of a read that was refused before, and is violated.
* `CounterAsSet`: the counter reads as it was last set, byte by byte.

### Bounds, and why they are enough

* `EduRing`: a ring of up to 2 slots (sizes 1 and 2, legal; 0 and 3, refused),
  tails 0 to 3 so that the reduction matters, lengths 0, 1 and the clamped 3, two
  data units, descriptors that are well-formed, run off the source end, run off
  the destination end, or are invalid. The host stores any of them to any slot at
  any moment. Two slots give head before, at and behind the tail, and a wrap at
  each second descriptor; the proofs cover every other size.
* `EduRingHost`: 6 requests on rings of 2 and 4 slots, chosen anew in each
  session: three laps of the small ring, a lap and a half of the large one, and a
  restart at any point with a larger or a smaller ring. `Die` does not bound the
  number of sessions; the requests do. The drain run has 4 requests and no
  failing fetch, because a failed fetch really leaves the work until the next
  doorbell (lines 564-567).
* `EduNvme`: a submission queue of 1 and 2 slots resized at will, an index span of 4, and
  doorbells 0, 1 and 3, of which 1 is past a queue of one slot and 3 past both: indices are found inside, at the end of and behind a queue that shrank.
  The completion queue has one slot here, which keeps the liveness check small; both
  indices go through the same `After`, `EduNvmeHost` has two slots, and `IndicesComeBack`
  covers resizes of both. A block span of 16 over 2 blocks, so that the range check
  wraps. The commands are a read and a write on the disk, a write past its end, a read
  whose block sum wraps, identify without a buffer and the zero command. The stored data
  is constant here, since no property of this run looks at it.
* `EduNvmeHost`: 4 commands on queues of 2 slots (two laps), two sessions, one
  timeout, two blocks and a block address past the end, failing data transfers.
* `EduBar0`: two physical functions that may start a transfer of, call back
  into, or scratch each other, and a virtual one; lengths 1, and 3 above the
  limit of 2. Memory contents are constant: no property speaks of them. All DMA
  failures here come from a cleared bus master bit or unmapped addresses.
* `EduPciHost`: the two physical functions, pages of two units, payloads of one
  unit, a page, and more than a page (clamped). Programs, probes and transfers are
  not bounded in number. The scripts write scratch, factorial and the interrupt of
  the program's function, directly and from the other one, at any moment.
* `EduUsb`: a buffer of four characters, prefixes of one or two, an empty message, a
  shortened one, one whose echo fits under a short number only, and one that fills
  the buffer; reads shorter and longer than an echo; two transfers queued on each
  endpoint; a counter modulo 3 and four messages between resets, so that the
  number wraps; bytes of 16 values.
* `EduCrypto`: blocks of two bits, keys of two words, chains of up to two blocks,
  lengths refused (3) and clamped (6), two memory blocks, which operations may
  overlap in. The cipher of the run is not linear in the block bits. A failed read
  leaves the buffer with contents (`Residue`) that no store of the run makes.

`EduRing`, `EduRing_CompleteMeansCopied`, the `EduNvme`, `EduNvmeHost` and `EduUsb`
runs switch deadlock checking off. The ring may end in `"dead"` and the
controller in `"astray"`, where the program stops or has no defined
behaviour; the program of `EduNvmeHost` ends after its sessions; in `EduUsb` QEMU may stop. The others check for deadlock.

## 4. Fairness

* `WF(PassStep)`, `WF(HandlerStep)`, `WF(Device)`: a handler is sequential code
  and every DMA access returns, with or without success. The host owes nothing in
  `EduRing`, `EduNvme` and `EduBar0`.
* `EduRingHost` adds what a host that wants its results does while it lives:
  it rings for what it posted, resumes a ring it paused, reads statuses. Each is
  weak fairness of an action that stays enabled until taken (the doorbell is
  disabled while a pass runs, but a pass ends and the process that posted
  does nothing else that disables it for ever). Posting, pausing and dying are
  never required.
* `EduNvmeHost` adds that the MSI-X message arrives and a readable eventfd wakes
  the program. The timeout is *not* fair, so `WaitEnds` says that the
  interrupt comes, not that the clock ends the wait.
* `EduPciHost`: handlers return (`WF(Device)`), and a program that runs takes its
  next step (`SF(ProgramStep)`): a script that writes a register keeps it out of the
  device while that write's handler runs, but the scripts are finite and so do not
  do so for ever. It covers the timeout: `epoll_wait` has one (136). Binding,
  opening, probing and killing are never required.
* `EduUsb`: the host controller hands over the messages that are queued and the
  reads of an endpoint it serves (`WF(TakeMessage)`, `WF(ServeRead)`). That a refused
  read is tried again is not assumed: only the host's doorbell makes the controller
  do it, and queueing and resetting are never required.
* `EduCrypto` states safety only.

## 5. Proofs

Every safety property the passing runs check is a theorem for every value of the
constants, except those of `AesBlock`. What the theorems assume of the constants are
the named assumptions of the modules (`RingAssumption`, `HostAssumption`,
`NvmeAssumption`, `Bar0Assumption`, `PciHostAssumption`, `UsbAssumption`,
`CryptoAssumption`, ...), which TLC evaluates in the runs, and, for some, that
certain DMA accesses to mapped memory do not fail. The less obvious of them: the
functions are finitely many (`Bar0Assumption`), a queue is no longer than its index is
wide (`NvmeAssumption`: 65536 entries), and that of the test program is shorter and
its disk far smaller than a block address can name (`HostAssumption` of
`EduNvmeHost`: 64 entries, 2048 blocks). Every theorem is proved alike:
an invariant that holds in the initial states, that each action preserves (one lemma
per group of actions, a case per action, a step per conjunct the action disturbs), and
that implies the property.

### Ring, any host (`EduRingProofs`)

`TypeCorrect`, `IndicesInside` and `SlotsOwned` (`RingTypeOK`, `IndexBounds`,
`OwnedSlot`) follow from `Invariance`, the invariant `RingInv`. It is the three
properties and two strengthenings they need to be inductive:

* `SizeLegal`: the ring size is 0 or a legal one, between passes as well.
  `OwnedSlot` speaks of running passes; without `SizeLegal` nothing would be known
  of the size with which the next pass starts, and `(head + 1) % size` needs a
  positive size.
* `BufFilled`: while the destination is about to be written, the buffer has
  exactly the clamped number of units. Without it the data that goes to memory
  might be what lies outside the buffer, and `data` would lose its type.

`PassIsShort` bounds a doorbell: every step of a pass leaves fewer to take
(`StepsLeft`: five for each iteration left, less what the current one has behind it), no
step of the host adds to them, and a pass starts with at most `5 * ring_size + 1`.
It needs `OwnedSlot`, which says that the count stays below the size; that an
iteration which retires nothing is counted too (626) is what makes it true.

### Ring, disciplined host (`EduRingHostProofs`, `JobQueueProofs`)

| theorem | property | when |
|---|---|---|
| `HostTypeCorrect` | `HostTypeOK` | |
| `ExecutesInOrder` | `NextInOrder` | |
| `FetchedStays` | `FetchedUnchanged` | |
| `RefinesQueue` | `ImplementsQueue` | |
| `RequestsExecutedOnce` | `AtMostOnce` of the queue | |
| `DrainedWhenIdle` | `DrainedAtIdle` | no fetch fails |
| `InterruptLast` | `InterruptAfterStatus` | no status write fails |
| `CompletedData` | `CompleteHasData` | no write of data fails |
| `ExecutedIsShown` | | no status write fails |
| `RequestsMoveOn` | | no fetch and no status write fails |
| `PassIsShortUnderHost` | | |

`NextInOrder` is not inductive: it says which request is worked on, and not why the
next fetch will find the next one. `HostInv` adds that the head is the slot of the
first request not executed and the tail that of the first not rung for (`Window`),
that fewer requests are under way than the ring has slots (so that no two of them
share one; `Remainders` has the arithmetic), that these slots hold these requests,
pending (`RequestsHeld`), how the counters are ordered (`CountersOrdered`), and
what each register write of the setup has left in the device (`SetUp`). The last is
what makes a restart over the registers of the last session harmless.

In the refinement a step of the device that retires a request is `Execute`,
`Post` is `Post`, `Die` is `Abandon`, and all others are shown to leave
`fresh`, `todo` and `done` alone. `RequestsExecutedOnce` is `ExecutedOnce`, the
theorem about the abstract queue, carried over by that mapping.

The theorems with a hypothesis need it: a failed fetch ends a pass
with work left (564-567), a failed status write is retired all the same, and a
destination that could not be written reads complete, which
`EduRing_CompleteMeansCopied` shows. Each adds an invariant of its own: the
iterations left suffice for what is pending (`RoundsLeft`), the requests the device is
done with show it (`StatusShown`), the data of a request is at its source, then
in the buffer, then at its destination (`DataHeld`). All other kinds of access may
fail in each of them.

`RequestsMoveOn` and `PassIsShortUnderHost` are the safety half of `EveryRequestReaped`.
The first says that host and device never wait for each other: while a request is
outstanding a pass runs, or the doorbell is to be rung, or the ring to be resumed, or
the oldest request can be reaped, which are the four actions `Fairness` is about. The
second says that the pass ends, also when the host keeps posting behind it.

### NVMe (`EduNvmeProofs`)

| theorem | property | when |
|---|---|---|
| `NvmeTypeCorrect`, `IndicesComeBack` | `NvmeTypeOK`, `IndicesReturn` | any host |
| `PhaseTurnsAtWrap`, `OnlyWrapGoesAstray`, `DoorbellIsShort` | | any host |
| `HostTypeCorrect` | `HostTypeOK` | |
| `PhaseTells` | `PhaseTellsNew` | no completion write fails |
| `EntriesInOrder`, `TakenIsMine` | `CompletionsInOrder`, `CompletionMatches` | `QueuesWork` |
| `DiskReadsBack` | `ReadBack` | `QueuesWork` |
| `HostStaysOnDisk`, `WaitIsShort`, `InterruptComes` | | `QueuesWork` |

`QueuesWork` says that neither the fetch of a command nor the write of a completion
fails; data transfers may. An entry that was not written is passed all the same (166-182),
and the phases and the order are gone from there on. The invariants grow by layers:

* `SetUp`: what each state of `init` has set in the device.
* `Phases`: `PhaseTellsNew`, and what becomes of it between the write of an entry and
  the advance of the tail.
* `Counted`: all four indices follow from two counts, of commands submitted and of
  commands completed, reduced by the queue size; the second is at most one behind.
* `UnderWay`, `Entries`, `InStep`: the command being executed is the one the program
  waits for; each of the entries still in the queue has the identifier of its count; while no
  wait timed out, the host's index is at the entry it waits for and an interrupt
  means that it is there.
* `DiskKnown`, `Reported`: what the program thinks possible of a block includes what
  is on it, also if the write under way happens by half; an entry that reads ok means
  that memory and disk agree.

Two theorems are about the widths of the code's integers. `PhaseTurnsAtWrap`: the phase
turns at each wrap of the completion index that lines 172-175 make, and at none that
its 16 bits make, so that with 65536 entries it never turns and a host could
not tell the laps apart. `OnlyWrapGoesAstray`: the range check of line 132
lets a command leave the disk only if its end does not fit 64 bits;
`HostStaysOnDisk` says that the test program has no such command.

`DoorbellIsShort` is the safety half of `DoorbellReturns`: with a tail inside the queue
every step of the pass leaves fewer to take (`StepsLeft`: four for each command between
head and tail, and one to return), the host adds none, and there are at most
`4 * aqa.sq + 1`. A head left behind the end by a larger queue costs one command more,
after which it is 0 (`ToGo`, `OneNearer`).

`WaitIsShort` and `InterruptComes` are the safety half of `WaitEnds`: while the program
waits, each step of the device and of the interrupt brings the end nearer (`WaitLeft`, at
most 11), no step of the program puts it off, and when nothing is left to do
the eventfd is readable. `WaitInv` adds to the order of the completions that an
interrupt has been asked for by the time the pass is past the awaited command.

### BAR0, driver and DMA program (`EduPciProofs`)

| theorem | property | when |
|---|---|---|
| `Bar0TypeCorrect`, `LineDownUnderMsix` | `Bar0TypeOK`, `NoIntxUnderMsix` | any host |
| `ReadyAfterWrite` | `AcceptsNext` | any host |
| `ChainIsShort` | | any host |
| `HostTypeCorrect`, `EverythingReleased` | `HostTypeOK`, `NothingLeftHeld` | |
| `NoAccessHangs`, `TransferOnlyForward` | | |
| `ProgramFindsCopy` | `DmaVerified` | `Faulty = {}`, `ScriptsApart` |

`Bar0Inv` holds for a stack of handlers of any depth: a buffer between read
and write has the length the write will take from the register (`BufWhole`), and a
busy flag belongs to a handler on the stack (`BusyInHandler`). A handler that
starts inside another finds its function not `Engaged`, which is why the buffers of
those below keep fitting.

`ChainIsShort` bounds a register write: at most two steps for each function and one.
All handlers on the stack but the innermost only wait to return (`WaitingIn`), so
what is left are the steps of the innermost, one return for each below it, and two
for each function not engaged yet (`FreeIn`), whichever registers the peer-to-peer
writes aim at (506-523).

`HostInv` says what the driver holds in each state of probe and remove
(`HeldAt`), who owns BAR0 and masters the bus (`OwnerInv`), and how far the
program is (`ProgInv`). `NothingLeftHeld` alone speaks of the two ends only.

`DmaVerified` needs `TransferInv`: the registers hold what the program has
written so far (`Settings`); a transfer runs only in the program's own register write
(`OneTransfer`); the buffer holds the source, then the destination does (`CopyInv`).
`ScriptsApart` says that no script starts a transfer or writes SRC, DST or LEN of
the program's function, directly or through a peer (`PeersApart` is what it makes of
the registers). The scripts of the repository are so, and without it another's transfer
may well overwrite the page. `Faulty = {}` is needed because the device ignores the
result of its DMA accesses (464, 473).

`NoAccessHangs` and `TransferOnlyForward` are the safety half of `TransferEnds`: the
program waits in a register access only while handlers run, these count down,
also those a script started, and each step of the program within a transfer leads
to the next place, which nobody else moves but by killing it.

### USB (`EduUsbProofs`)

`UsbTypeCorrect`, `LatestIsEchoed`, `EchoIsWhole` and `CounterReadsBack`
(`UsbTypeOK`, `EchoOfLatest`, `EchoWhole`, `CounterAsSet`). `EchoInv` ties the
port's number to the messages since the reset, and a pending echo to the latest of
them; `CounterInv` says that the counter is the word of the bytes set. That the
bytes read are these bytes rests on `PlaceBound` (the bytes below a place stay below
it) and on division lemmas of `Remainders`.

`ReadsAreAnswered` is the safety half of `ReadAfterMessageEnds`: while the controller
serves a read and a message is unanswered, the port has an echo and does not refuse,
giving it is the answer, and only that, a reset or a stop of QEMU ends that state.

### Crypto (`EduCryptoProofs`)

`CryptoTypeCorrect`, `InstalledInOrder` and `DecryptsWhatItMade` (`CryptoTypeOK`,
`KeyInstalled`, `RoundTrip`), from `CipherAssumption`. `CryptoInv` has the lengths of
the buffers in each state (`Buffers`), and the chain: each block of the output so far is
what CBC gives of the input, and `prev` is the block the next one is chained to
(`Chain`); the same of the encryption that `made` records (`MadeInv`). `ChainInverts` then
undoes it block by block: a deciphered block is chained to a block of ciphertext,
which is the same one that was used to encipher it.

`OperationIsShort`: an operation on n blocks takes n + 4 steps, each of which takes one
from what is left; no register write or store changes that, and the clamp on the
length bounds n.

### Only model-checked

* Liveness: `PassTerminates`, `EveryRequestReaped`, `WaitEnds`, `PeersReturn`,
  `TransferEnds`, `DoorbellReturns`, `ReadAfterMessageEnds`. The prover does not reason about ENABLED and
  fairness, nor does it do the induction over a measure. What each rests on
  besides these is proved: a measure that the fair steps decrease and the others do
  not increase, and, where several actors take part, that one of them can always
  go on (`PassIsShort`, `RequestsMoveOn` with `PassIsShortUnderHost`, `WaitIsShort` with
  `InterruptComes`, `DoorbellIsShort`, `ChainIsShort`, `NoAccessHangs` with
  `TransferOnlyForward`, `ReadsAreAnswered`).
* `TablesAreSubstitution`, `DecryptInverts`, `KnownAnswer`: the reference definitions
  of `AesBlock` are recursive and its XOR comes from `Bitwise`, both outside
  what the prover handles. `CipherAssumption` is therefore assumed by the proofs and
  supported by the run of `EduCrypto`.
* The three properties that are violated (section 6).

## 6. Where code and text disagree

Shown by a run:

1. **A descriptor whose data was not copied reads complete**
   (`EduRing_CompleteMeansCopied`). `edu_pci.c:33` gives status 1 as complete and 2
   as error; the result of the destination write at 594 is not looked at. With
   the destination unmapped, status 1 is written all the same.
2. **A late completion is taken for the next command's**
   (`EduNvmeHost_StatusIsMine`). `wait_completion` of `test_nvme.cpp` takes the entry
   at its head without looking at the command identifier, and `main` goes on after
   a timeout.

3. **A read that waits for an echo does not get it** (`EduUsb_EchoComesBack`).
   `dev-edu-serial.c:6` says that whatever is sent is echoed back. A read that is
   waiting when the message comes was refused (155), upon which the controller of
   `start_qemu.sh` leaves the endpoint alone; storing the echo (159-169) does not call
   `usb_wakeup`. Only another read that the host queues gets it out.

Read in the code and present in the models, without a run of their own:

* `edu_nvme.c:85` describes the submission tail as where the host wrote last; line 270
  stores any 16-bit value, and the loop at 189 runs until a head that wraps below the
  queue size equals it. A doorbell beyond the queue does not return (`WriteSqTail`).
* `edu_nvme.c:132` and 148 compare `lba + nlb` in 64 bits: the largest block address
  plus 1 is 0 and passes as a block of the disk (`InRange`, `Astray`).
* `dev-edu-serial.c:167` keeps what `snprintf` would have printed as the length of the
  echo; for an echo that was cut, the read is given memory behind `rx_buf`
  (`GiveEcho`). A second message before the read replaces the first one's echo.
* `dev-edu-serial.c:162` ends the message one byte past the buffer when a transfer
  fills it (`TakeMessage`).
* `dev-edu-serial.c:119-122` name the class requests with the request byte in front of
  the type byte; QEMU passes them the other way round (as
  `usb_desc_handle_control` takes them), so each is stalled. No state is involved.
* `edu_pci.c:464` does not look at the result of the DMA read: after a failure the
  destination gets what the buffer held (`DmaReadFails`).
* A refused crypto length (780) raises no interrupt: the host waits for its timeout
  (`RefuseLen`).
* `edu_pci.c:571` logs "not valid, stopping", but the loop (624-627) tries the same
  slot again up to `ring_size` times (`FetchInvalid`).
* The doorbell divides by `ring_size` before `edu_ring_process` would treat a
  size of 0 as a ring to leave alone (617, 687; `WriteTailNoSize`).
* `edu_pci.c:12` promises MSI-X on completion of a transfer for the registers of
  both kinds of function; a virtual function sends none (876; `DmaDone`).
* `edu_pci.c:7` says "read n!"; from n = 13 on the register reads 12! (400;
  `Factorial`).

## 7. Abstractions to keep in mind

* A handler is atomic towards other *register* accesses because of QEMU's big
  lock; the models would not carry over to a device that drops the lock.
* A DMA access is one step. Tearing inside an access to memory that another vCPU
  is storing to is not modelled; the host modules never do that.
* The read handlers are the operators `Read` and `ReadRegs`, used where a host's next
  step or a property depends on them. Constant registers, those of the crypto
  engine, and `ATS_*` have no effect and are left out.
* A peer-to-peer write may be aimed at any register of any function but `P2P_ADDR`:
  there the value written would be read as an address, and values here are not
  addresses (`Targets`).
* The page of the DMA program fits the device's buffer (`PAGE_SIZE` and
  `DMA_MAX_LEN` are both 4096; `PciHostAssumption`), so its clamp takes only
  payloads above a page.
* A completion queue of 65536 entries, at which the 16-bit index wraps by itself
  and the phase is not toggled, is within `NvmeAssumption` and the theorems about the
  controller (`PhaseTurnsAtWrap`), but not in a run: there the index is wider
  than the queues. `EduNvmeHost` excludes it, as the test program does.
* `DMA_SRC` and `DMA_DST` are addresses of memory. A transfer aimed at the registers of
  another function would run that function's handler inside it, as a peer-to-peer
  write does; `EduBar0` leaves this out.
* `EduCrypto` writes key and IV by aligned 32-bit words, as the tests do. The region has
  no `.valid` sizes (833-838), and a narrow or unaligned access near the end of either
  would have the copies at 815 and 826 run into the field behind.
* Addresses above 4 GB given to one-register addresses (`DMA_SRC`, `DMA_DST`,
  `P2P_ADDR`) are cut to their low half by the code; addresses here are too
  small to show it.
* Whether QEMU drives INTx for a function whose interrupt pin register is 0 is
  outside this repository; `EduBar0` models a line that works.

## 8. Not modelled, and why

* Realize runs before the guest does, and its failure ends QEMU's start; the devices
  sit on a bus without hot unplug, so exit is not reached. SR-IOV enabling and the
  life of virtual functions are QEMU's; `EduBar0` has a virtual function from
  the start.
* `test_crypto.cpp` ends its test at a timeout, so a stale interrupt has no later
  step to reach; its sequences are among those of the unconstrained host of
  `EduCrypto`. `test_ats.cpp` and the Python programs that do DMA make one
  sequence of register writes each, which the device modules allow.
* The examples of `epoll`, `eventfd` and `unique_ptr`, and the scripts that start
  QEMU and bind drivers, have nothing to do with the devices' logic.
* `edu_pci_config_read` and `_write` trace and call QEMU's defaults.

## 9. Plan

Order of work, the most important behaviour first. All of it is done.

1. `EduRing`, then `EduRingHost` over it and `JobQueue` above it.
2. `EduNvme`, then `EduNvmeHost`.
3. `EduBar0`, `EduCrypto`, `AesBlock`.
4. Proofs of the ring's type, index and window invariants, and of `JobQueue`.
5. `EduUsb`: the serial echo and the counter.
6. `EduPciHost`: the driver and the simple DMA program over `EduBar0`.
7. Proofs over `EduRingHost`: order, refinement of `JobQueue`, data, status, draining.
8. Proofs over `EduNvme` and `EduNvmeHost`.
9. Proofs over `EduBar0` and `EduPciHost`, `EduUsb` and `EduCrypto`.
10. Safety cores of the liveness properties: measures that every step of a handler
    decreases (`count` and the pending requests in a ring pass, the functions not yet
    engaged in a chain of peer-to-peer writes), as action properties, so that only
    fairness is left to TLC (section 5).
