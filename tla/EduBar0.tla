------------------------------- MODULE EduBar0 -------------------------------
(***************************************************************************)
(* The register file behind BAR0 of the edu-pci functions                   *)
(* (qemu_devices/edu_pci.c): the simple DMA of physical and virtual         *)
(* functions, IRQ_RAISE and IRQ_ACK, and the peer-to-peer write of one      *)
(* function to a register of another.                                       *)
(*                                                                         *)
(* A register write is handled before it returns.  A peer-to-peer write is  *)
(* a register write made inside another function's handler, so handlers     *)
(* nest; QEMU refuses a write to a function whose handler is running.       *)
(* Between two DMA accesses the other vCPUs store to memory.                *)
(*                                                                         *)
(* Memory decoding is on: a function whose decoding is off gets no writes.  *)
(* SRC and DST are memory addresses; a transfer aimed at the registers of    *)
(* another function, which would nest as a peer-to-peer write does, is left  *)
(* out.                                                                     *)
(* ATS_ADDR and ATS_CMD are left out: their handlers only log.              *)
(***************************************************************************)
EXTENDS Integers, Sequences, FiniteSets

CONSTANTS
  PFs, VFs,      \* the physical and the virtual functions
  Vectors,       \* EDU_MSIX_VECTORS
  FactorialMax,  \* the largest n whose factorial is computed (12)
  DmaMaxLen,     \* DMA_MAX_LEN, in units
  MemSize,       \* the addresses 0 .. MemSize - 1 are mapped
  Data,          \* contents of a unit of memory
  HostWrites,    \* the register writes the host makes, [fn, reg, val] records
  Faulty         \* the kinds of DMA access that may fail though mapped

Fns == PFs \cup VFs
Addrs == 0 .. MemSize - 1
NoTarget == [fn |-> "none", reg |-> "none"]

\* The registers that take a write, and what a peer-to-peer write is aimed at:
\* one of them, but not the address register, which would take the data written
\* to it for an address.
Regs == {"scratch", "factorial", "src", "dst", "len", "dma_cmd", "irq_raise",
         "irq_ack", "p2p_addr", "p2p_data", "p2p_cmd"}
Targets == [fn : Fns, reg : Regs \ {"p2p_addr"}]

ASSUME Bar0Assumption ==
  /\ PFs \cap VFs = {} /\ IsFiniteSet(Fns)
  /\ Vectors \in Nat \ {0} /\ FactorialMax \in Nat \ {0}
  /\ DmaMaxLen \in Nat \ {0} /\ MemSize \in Nat \ {0}
  /\ 0 \in Data
  /\ \A w \in HostWrites :
       /\ w.fn \in Fns
       /\ IF w.reg = "p2p_addr" THEN w.val \in Targets ELSE w.val \in Nat
  /\ Faulty \subseteq {"read", "write"}

VARIABLES
  reg,          \* the registers of each function
  busy,         \* dma_busy of each function
  bus_master, msix,   \* config space of each function
  intx,         \* the INTx level of each function
  stack,        \* the running handlers, innermost first
  mem,          \* guest memory
  msi           \* MSI-X messages sent and not yet taken, as [fn, vec] records

cfgVars == <<bus_master, msix>>
bar0Vars == <<reg, busy, cfgVars, intx, stack, mem, msi>>

\* factorial(), with k! written as k: the product stops at 12.  The register
\* reads 0 at first, which is -1 here.
Factorial(n) == IF n > FactorialMax THEN FactorialMax ELSE n

Bar0Init ==
  /\ reg = [f \in Fns |-> [scratch |-> 0, factorial |-> -1,
                           src |-> 0, dst |-> 0, len |-> 0,
                           p2p_addr |-> NoTarget, p2p_data |-> 0]]
  /\ busy = [f \in Fns |-> FALSE]
  /\ bus_master = [f \in Fns |-> FALSE] /\ msix = [f \in Fns |-> FALSE]
  /\ intx = [f \in Fns |-> FALSE]
  /\ stack = <<>>
  /\ mem = [a \in Addrs |-> 0]
  /\ msi = {}

DmaOk(f, mapped) == bus_master[f] /\ mapped
DmaErr(f, kind, mapped) == ~bus_master[f] \/ ~mapped \/ kind \in Faulty
Mapped(a, n) == a + n <= MemSize

\* msix_notify: the message is a DMA write of the function.
Notified(f, vec) == IF bus_master[f] THEN msi \cup {[fn |-> f, vec |-> vec]} ELSE msi

\* A handler of the function runs.  QEMU, not this device, refuses register
\* accesses to it meanwhile: its guard against re-entrant device access.
Engaged(f) == \E i \in DOMAIN stack : stack[i].fn = f

\* edu_pci_read and edu_vf_read, without the constants ID and VF_ID; a register
\* that cannot be read gives ones, here -1.
Read(f, r) ==
  CASE r = "status"  -> 1 + (IF busy[f] THEN 2 ELSE 0)
    [] r = "dma_cmd" -> IF busy[f] THEN 1 ELSE 0
    [] r \in {"scratch", "factorial", "src", "dst", "len"}
            \cup (IF f \in PFs THEN {"p2p_addr", "p2p_data"} ELSE {}) -> reg[f][r]
    [] OTHER -> -1

-----------------------------------------------------------------------------
(* edu_pci_write and edu_vf_write: f gets v in register r, and afterwards    *)
(* the handlers in rest go on.                                              *)

Frame(f, step) == [fn |-> f, step |-> step, buf |-> <<>>]

SetRegister(f, r, v, rest) ==
  /\ r \in {"scratch", "src", "dst", "len"}
            \cup (IF f \in PFs THEN {"p2p_addr", "p2p_data"} ELSE {})
  /\ reg' = [reg EXCEPT ![f][r] = v]
  /\ stack' = rest
  /\ UNCHANGED <<busy, cfgVars, intx, mem, msi>>

SetFactorial(f, r, v, rest) ==
  /\ r = "factorial"
  /\ reg' = [reg EXCEPT ![f].factorial = Factorial(v)]
  /\ stack' = rest
  /\ UNCHANGED <<busy, cfgVars, intx, mem, msi>>

StartDma(f, r, v, rest) ==
  /\ r = "dma_cmd" /\ v = 1 /\ ~busy[f]
  /\ busy' = [busy EXCEPT ![f] = TRUE]
  /\ stack' = <<Frame(f, "read")>> \o rest
  /\ UNCHANGED <<reg, cfgVars, intx, mem, msi>>

\* Mutant: any vector that cannot be sent is raised as INTx.
RaisesIntxAnyhow(f, v) == ~(msix[f] /\ v < Vectors)

RaisesIntx(f, v) == ~msix[f]

RaiseIrq(f, r, v, rest) ==
  /\ r = "irq_raise" /\ f \in PFs
  /\ msi' = IF msix[f] /\ v < Vectors THEN Notified(f, v) ELSE msi
  /\ intx' = [intx EXCEPT ![f] = @ \/ RaisesIntx(f, v)]
  /\ stack' = rest
  /\ UNCHANGED <<reg, busy, cfgVars, mem>>

AckIrq(f, r, v, rest) ==
  /\ r = "irq_ack" /\ f \in PFs
  /\ intx' = [intx EXCEPT ![f] = FALSE]
  /\ stack' = rest
  /\ UNCHANGED <<reg, busy, cfgVars, mem, msi>>

StartP2p(f, r, v, rest) ==
  /\ r = "p2p_cmd" /\ f \in PFs /\ v = 1
  /\ stack' = <<Frame(f, "p2p")>> \o rest
  /\ UNCHANGED <<reg, busy, cfgVars, intx, mem, msi>>

\* A command other than 1, a start while busy, and the registers a virtual
\* function does not have.
Ignore(f, r, v, rest) ==
  /\ \/ r = "dma_cmd" /\ (v # 1 \/ busy[f])
     \/ r = "p2p_cmd" /\ v # 1
     \/ f \in VFs /\ r \in {"irq_raise", "irq_ack", "p2p_addr", "p2p_data", "p2p_cmd"}
  /\ stack' = rest
  /\ UNCHANGED <<reg, busy, cfgVars, intx, mem, msi>>

HandleWrite(f, r, v, rest) ==
  \/ SetRegister(f, r, v, rest)
  \/ SetFactorial(f, r, v, rest)
  \/ StartDma(f, r, v, rest)
  \/ RaiseIrq(f, r, v, rest)
  \/ AckIrq(f, r, v, rest)
  \/ StartP2p(f, r, v, rest)
  \/ Ignore(f, r, v, rest)

-----------------------------------------------------------------------------
(* The running handler's steps.                                             *)

Top == Head(stack)
Running(step) == stack # <<>> /\ Top.step = step
TopAt(step, buf) == <<[Top EXCEPT !.step = step, !.buf = buf]>> \o Tail(stack)

\* Mutant: the length is taken as it is.
CopyLenUnclamped(f) == reg[f].len

\* The length register, clamped.
CopyLen(f) == IF reg[f].len > DmaMaxLen THEN DmaMaxLen ELSE reg[f].len

DmaRead ==
  /\ Running("read")
  /\ LET f == Top.fn  n == CopyLen(f)  src == reg[f].src
     IN /\ DmaOk(f, Mapped(src, n))
        /\ stack' = TopAt("write", [i \in 1 .. n |-> mem[src + i - 1]])
  /\ UNCHANGED <<reg, busy, cfgVars, intx, mem, msi>>

\* The result is not looked at, and the buffer was never initialized.
DmaReadFails ==
  /\ Running("read")
  /\ LET f == Top.fn  n == CopyLen(f)
     IN /\ DmaErr(f, "read", Mapped(reg[f].src, n))
        /\ \E buf \in [1 .. n -> Data] : stack' = TopAt("write", buf)
  /\ UNCHANGED <<reg, busy, cfgVars, intx, mem, msi>>

\* A write that fails may have stored a first part of the data.
DmaWrite ==
  /\ Running("write")
  /\ LET f == Top.fn  n == CopyLen(f)  dst == reg[f].dst
     IN \E k \in 0 .. n :
          /\ k = n \/ DmaErr(f, "write", Mapped(dst, n))
          /\ k = 0 \/ bus_master[f]
          /\ mem' = [a \in Addrs |-> IF a \in dst .. dst + k - 1
                                     THEN Top.buf[a - dst + 1] ELSE mem[a]]
  /\ stack' = TopAt("notify", <<>>)
  /\ UNCHANGED <<reg, busy, cfgVars, intx, msi>>

\* Mutant: the flag is cleared only where the interrupt is sent.
BusyAfterIfMsix(f) == f \in PFs /\ ~msix[f]

BusyAfter(f) == FALSE

\* A virtual function sends no interrupt.
DmaDone ==
  /\ Running("notify")
  /\ LET f == Top.fn
     IN /\ busy' = [busy EXCEPT ![f] = BusyAfter(f)]
        /\ msi' = IF f \in PFs /\ msix[f] THEN Notified(f, 0) ELSE msi
  /\ stack' = Tail(stack)
  /\ UNCHANGED <<reg, cfgVars, intx, mem>>

\* The write to the peer is handled inside this handler.
P2pWrite ==
  /\ Running("p2p")
  /\ LET f == Top.fn  t == reg[f].p2p_addr
     IN /\ bus_master[f] /\ t # NoTarget /\ ~Engaged(t.fn)
        /\ HandleWrite(t.fn, t.reg, reg[f].p2p_data, TopAt("return", <<>>))

\* Mutant: a refused write is tried again, and again.
AfterRefusalRetries == "p2p"

\* Its result is not looked at either.
AfterRefusal == "return"

P2pRefused ==
  /\ Running("p2p")
  /\ LET f == Top.fn  t == reg[f].p2p_addr
     IN ~bus_master[f] \/ t = NoTarget \/ Engaged(t.fn)
  /\ stack' = TopAt(AfterRefusal, <<>>)
  /\ UNCHANGED <<reg, busy, cfgVars, intx, mem, msi>>

Return ==
  /\ Running("return")
  /\ stack' = Tail(stack)
  /\ UNCHANGED <<reg, busy, cfgVars, intx, mem, msi>>

HandlerStep ==
  \/ DmaRead \/ DmaReadFails \/ DmaWrite \/ DmaDone
  \/ P2pWrite \/ P2pRefused \/ Return

-----------------------------------------------------------------------------
(* The host.                                                                *)

HostWrite(w) ==
  /\ stack = <<>>
  /\ HandleWrite(w.fn, w.reg, w.val, <<>>)

\* Config space: the bus master bit and, for a physical function, the MSI-X
\* enable bit.  Enabling MSI-X takes the INTx line down.
WriteConfig(f, bm, mx) ==
  /\ stack = <<>>
  /\ mx => f \in PFs
  /\ bus_master' = [bus_master EXCEPT ![f] = bm]
  /\ msix' = [msix EXCEPT ![f] = mx]
  /\ intx' = [intx EXCEPT ![f] = @ /\ ~mx]
  /\ UNCHANGED <<reg, busy, stack, mem, msi>>

\* A function level reset clears config space and the line.  The class has no
\* reset handler: the registers keep their values.
ResetFunction(f) ==
  /\ stack = <<>>
  /\ bus_master' = [bus_master EXCEPT ![f] = FALSE]
  /\ msix' = [msix EXCEPT ![f] = FALSE]
  /\ intx' = [intx EXCEPT ![f] = FALSE]
  /\ UNCHANGED <<reg, busy, stack, mem, msi>>

StoreData(a, x) ==
  /\ mem' = [mem EXCEPT ![a] = x]
  /\ UNCHANGED <<reg, busy, cfgVars, intx, stack, msi>>

TakeMsi(m) ==
  /\ m \in msi
  /\ msi' = msi \ {m}
  /\ UNCHANGED <<reg, busy, cfgVars, intx, stack, mem>>

HostStep ==
  \/ \E w \in HostWrites : HostWrite(w)
  \/ \E f \in Fns : \/ \E bm, mx \in BOOLEAN : WriteConfig(f, bm, mx)
                    \/ ResetFunction(f)
  \/ \E a \in Addrs, x \in Data : StoreData(a, x)
  \/ \E m \in msi : TakeMsi(m)

Bar0Next == HandlerStep \/ HostStep

\* Every access a handler makes returns, so its steps are fair.
Bar0Spec == Bar0Init /\ [][Bar0Next]_bar0Vars /\ WF_bar0Vars(HandlerStep)

-----------------------------------------------------------------------------
(* Properties.                                                              *)

Bar0TypeOK ==
  /\ \A f \in Fns : /\ reg[f].src \in Nat /\ reg[f].dst \in Nat /\ reg[f].len \in Nat
                    /\ reg[f].factorial \in -1 .. FactorialMax
  /\ busy \in [Fns -> BOOLEAN] /\ intx \in [Fns -> BOOLEAN]
  /\ bus_master \in [Fns -> BOOLEAN] /\ msix \in [Fns -> BOOLEAN]
  /\ \A i \in DOMAIN stack :
       /\ stack[i].fn \in Fns
       /\ stack[i].step \in {"read", "write", "notify", "p2p", "return"}
       /\ Len(stack[i].buf) <= DmaMaxLen
  /\ mem \in [Addrs -> Data]
  /\ msi \subseteq [fn : PFs, vec : 0 .. Vectors - 1]

\* A function in MSI-X mode never drives its INTx line, whatever vector is
\* raised and in whichever order MSI-X is switched and lines are raised and
\* acknowledged (lines 487-495).
NoIntxUnderMsix == \A f \in Fns : msix[f] => ~intx[f]

\* A register write that starts a chain of peer-to-peer writes returns, though
\* the peers may aim at each other (line 514).
PeersReturn == stack # <<>> ~> stack = <<>>

\* When the write that started a transfer has returned, the function reads ready
\* and accepts the next one, with interrupts on or off and through resets (lines
\* 417 and 454): a host that polls the status never finds a transfer under way.
AcceptsNext ==
  \A f \in Fns : ~Engaged(f) => Read(f, "status") = 1 /\ Read(f, "dma_cmd") = 0
==============================================================================
