----------------------------- MODULE EduPciHost -----------------------------
(***************************************************************************)
(* One edu-pci function between its two owners: the Linux driver            *)
(* (drivers/edu_pci.c), whose probe may fail at each step, and the program  *)
(* tests/vfio/test_edu_dma.cpp, bound through vfio (utils/bind_vfio.sh).    *)
(*                                                                         *)
(* The function is that of EduBar0: a register write of the driver or the   *)
(* program starts its handler, and the writer goes on when that returns.    *)
(* Binding and unbinding is the administrator's, at any time; the program   *)
(* may be started again and killed at any time outside a register access.   *)
(* Meanwhile the scripts that need no driver (test_regs.py, test_p2p.sh,    *)
(* the interrupt tests) write registers of this and of other functions.     *)
(* Register reads, which are only printed, are left out.                    *)
(***************************************************************************)
EXTENDS EduBar0

CONSTANTS
  F,             \* the function
  PageSize,      \* PAGE_SIZE, the size of the program's two buffers, in units
  Payloads       \* what do_dma may be given

ASSUME PciHostAssumption ==
  /\ F \in PFs
  /\ PageSize \in Nat \ {0} /\ MemSize = 2 * PageSize
  /\ PageSize <= DmaMaxLen
  /\ Payloads \subseteq Seq(Data)

VARIABLES
  driver,        \* who is bound, or where probe or remove is
  held,          \* what the driver holds
  owner,         \* who has claimed BAR0
  prog,          \* where the program is, "off" when it does not run
  event,         \* the eventfd is readable
  data, result,  \* what do_dma was given, and what it found
  inside         \* the program is in a register access

hostVars == <<driver, held, owner, prog, event, data, result, inside>>
vars == <<bar0Vars, hostVars>>

HostInit ==
  /\ Bar0Init
  /\ driver = "none" /\ held = {} /\ owner = "none"
  /\ prog = "off" /\ event = FALSE /\ data = <<>> /\ result = "none"
  /\ inside = FALSE

-----------------------------------------------------------------------------
(* The driver.  While probe runs, driver names what it acquires next; while *)
(* it unwinds or remove runs, "un" and what it releases next.               *)

Resources == {"edu", "enable", "region", "iomap"}
After == [edu |-> "enable", enable |-> "region", region |-> "iomap", iomap |-> "test"]
Un == [edu |-> "un_edu", enable |-> "un_enable", region |-> "un_region",
       iomap |-> "un_iomap"]

\* Mutant: a failed mapping is undone from the second label on.
ErrLabelSkipsRegion ==
  [edu |-> "none", enable |-> "un_edu", region |-> "un_enable", iomap |-> "un_enable"]

\* Where probe goes when it cannot have r.
ErrLabel ==
  [edu |-> "none", enable |-> "un_edu", region |-> "un_enable", iomap |-> "un_region"]

\* Each label falls through to the next.
FallsTo == [iomap |-> "un_region", region |-> "un_enable", enable |-> "un_edu",
            edu |-> "none"]

Acquire(r) ==
  /\ driver = r
  /\ \/ /\ r = "region" => owner = "none"
        /\ held' = held \cup {r}
        /\ owner' = IF r = "region" THEN "edu_pci" ELSE owner
        /\ driver' = After[r]
     \/ /\ driver' = ErrLabel[r]
        /\ UNCHANGED <<held, owner>>
  /\ UNCHANGED <<bar0Vars, prog, event, data, result, inside>>

\* probe writes the scratch register.
TestScratch ==
  /\ driver = "test" /\ stack = <<>>
  /\ HandleWrite(F, "scratch", 1, <<>>)
  /\ driver' = "edu_pci"
  /\ UNCHANGED <<held, owner, prog, event, data, result, inside>>

\* Disabling the device takes its bus master bit.
Release(r) ==
  /\ driver = Un[r]
  /\ r = "enable" => stack = <<>>
  /\ held' = held \ {r}
  /\ owner' = IF r = "region" THEN "none" ELSE owner
  /\ bus_master' = IF r = "enable" THEN [bus_master EXCEPT ![F] = FALSE] ELSE bus_master
  /\ driver' = FallsTo[r]
  /\ UNCHANGED <<reg, busy, msix, intx, stack, mem, msi, prog, event, data, result, inside>>

DriverStep == TestScratch \/ \E r \in Resources : Acquire(r) \/ Release(r)

\* The administrator: remove starts with the mapping; vfio lets go of the
\* function only when no program has it open.
Rebind ==
  /\ \/ driver = "none" /\ driver' \in {"edu", "vfio"}
     \/ driver = "edu_pci" /\ driver' = "un_iomap"
     \/ driver = "vfio" /\ prog = "off" /\ driver' = "none"
  /\ UNCHANGED <<bar0Vars, held, owner, prog, event, data, result, inside>>

-----------------------------------------------------------------------------
(* The program: one step per register access, system call and wait.         *)

At(step) == prog = step /\ ~inside
SrcIova == 0
DstIova == PageSize

\* Opening through vfio resets the function.
Open ==
  /\ prog = "off" /\ driver = "vfio"
  /\ ResetFunction(F)
  /\ prog' = "claim" /\ result' = "none"
  /\ UNCHANGED <<driver, held, owner, event, data, inside>>

\* Mapping BAR0 claims it: refused while somebody else has it.
Claim ==
  /\ At("claim")
  /\ IF owner = "none" THEN owner' = "vfio" /\ prog' = "master"
                       ELSE UNCHANGED owner /\ prog' = "close"
  /\ UNCHANGED <<bar0Vars, driver, held, event, data, result, inside>>

\* Mutant: the command register is left as it is.
EnableMasterNot ==
  /\ At("master")
  /\ prog' = "msix"
  /\ UNCHANGED <<bar0Vars, driver, held, owner, event, data, result, inside>>

EnableMaster ==
  /\ At("master")
  /\ WriteConfig(F, TRUE, msix[F])
  /\ prog' = "msix"
  /\ UNCHANGED <<driver, held, owner, event, data, result, inside>>

SetupMsix ==
  /\ At("msix")
  /\ WriteConfig(F, bus_master[F], TRUE)
  /\ prog' = "map" /\ event' = FALSE
  /\ UNCHANGED <<driver, held, owner, data, result, inside>>

\* Two new pages, which read zero.
SetupDma ==
  /\ At("map")
  /\ mem' = [a \in Addrs |-> 0]
  /\ prog' = "scratch"
  /\ UNCHANGED <<reg, busy, cfgVars, intx, stack, msi, driver, held, owner, event, data, result, inside>>

\* Any of the set-up calls may be refused.
SetupFails ==
  /\ At(prog) /\ prog \in {"claim", "msix", "map"}
  /\ prog' = "close"
  /\ UNCHANGED <<bar0Vars, driver, held, owner, event, data, result, inside>>

\* The register writes in program order: what is written, and what follows.
WriteOf ==
  [scratch |-> <<"scratch", 1, "raise">>, raise |-> <<"irq_raise", 0, "wait_raise">>,
   src |-> <<"src", SrcIova, "dst">>, dst |-> <<"dst", DstIova, "len">>,
   len |-> <<"len", Len(data), "cmd">>, cmd |-> <<"dma_cmd", 1, "wait_dma">>]

WriteReg ==
  /\ At(prog) /\ prog \in DOMAIN WriteOf /\ stack = <<>>
  /\ HandleWrite(F, WriteOf[prog][1], WriteOf[prog][2], <<>>)
  /\ prog' = WriteOf[prog][3] /\ inside' = (stack' # <<>>)
  /\ UNCHANGED <<driver, held, owner, event, data, result>>

AfterWait == [wait_raise |-> "fill", wait_dma |-> "check"]

\* wait_interrupt: whichever interrupt it was.
Woken ==
  /\ At(prog) /\ prog \in DOMAIN AfterWait /\ event
  /\ event' = FALSE /\ prog' = AfterWait[prog]
  /\ UNCHANGED <<bar0Vars, driver, held, owner, data, result, inside>>

\* Mutant: the wait has no timeout.
TimeoutNever == FALSE /\ UNCHANGED vars

\* After a second without one it goes on all the same.
Timeout ==
  /\ At(prog) /\ prog \in DOMAIN AfterWait /\ ~event
  /\ prog' = AfterWait[prog]
  /\ UNCHANGED <<bar0Vars, driver, held, owner, event, data, result, inside>>

\* Mutant: the length is taken as it is.
ClampedNot(p) == p

Clamped(p) == IF Len(p) > PageSize THEN SubSeq(p, 1, PageSize) ELSE p

\* memcpy into the source page, memset of the destination page.
Fill(p) ==
  /\ At("fill")
  /\ data' = Clamped(p)
  /\ mem' = [a \in Addrs |-> IF a < Len(Clamped(p)) THEN p[a + 1]
                             ELSE IF a >= DstIova THEN 0 ELSE mem[a]]
  /\ prog' = "src"
  /\ UNCHANGED <<reg, busy, cfgVars, intx, stack, msi, driver, held, owner, event, result, inside>>

Compare ==
  /\ At("check")
  /\ result' = IF \A i \in 0 .. Len(data) - 1 : mem[SrcIova + i] = mem[DstIova + i]
               THEN "success" ELSE "mismatch"
  /\ prog' \in {"fill", "close"}
  /\ UNCHANGED <<bar0Vars, driver, held, owner, event, data, inside>>

\* What closing the descriptors does, by cleanup or by the kernel: vfio stops
\* the interrupts and the bus mastering, and gives BAR0 back.
Closed ==
  /\ bus_master' = [bus_master EXCEPT ![F] = FALSE]
  /\ msix' = [msix EXCEPT ![F] = FALSE]
  /\ msi' = {m \in msi : m.fn # F} /\ event' = FALSE
  /\ owner' = IF owner = "vfio" THEN "none" ELSE owner
  /\ prog' = "off" /\ data' = <<>>
  /\ UNCHANGED <<reg, busy, intx, stack, mem, driver, held, result, inside>>

Cleanup == At("close") /\ stack = <<>> /\ Closed
Die == At(prog) /\ prog # "off" /\ stack = <<>> /\ Closed

ProgramStep ==
  \/ Claim \/ EnableMaster \/ SetupMsix \/ SetupDma \/ SetupFails
  \/ WriteReg \/ Woken \/ Timeout \/ Compare \/ Cleanup
  \/ \E p \in Payloads : Fill(p)

\* A message reaches the eventfd late or early.
Interrupt ==
  /\ \E m \in msi : m.fn = F /\ TakeMsi(m) /\ event' = (event \/ m.vec = 0)
  /\ UNCHANGED <<driver, held, owner, prog, data, result, inside>>

\* The scripts that reach the registers through /dev/mem, of this function and
\* of others, and turn on the bus mastering of the others.
Script ==
  /\ \/ \E w \in HostWrites : HostWrite(w)
     \/ \E f \in Fns \ {F} : WriteConfig(f, TRUE, msix[f])
  /\ UNCHANGED hostVars

Device ==
  /\ HandlerStep
  /\ inside' = (inside /\ stack' # <<>>)
  /\ UNCHANGED <<driver, held, owner, prog, event, data, result>>

HostNext ==
  DriverStep \/ Rebind \/ Open \/ ProgramStep \/ Die \/ Interrupt \/ Script \/ Device

\* Handlers return.  The scripts end, so they do not keep the program out of
\* its registers for ever.
HostSpec ==
  HostInit /\ [][HostNext]_vars
  /\ WF_vars(Device) /\ SF_vars(ProgramStep)

-----------------------------------------------------------------------------
(* Properties.                                                              *)

HostTypeOK ==
  /\ Bar0TypeOK
  /\ held \subseteq Resources
  /\ driver \in {"none", "edu_pci", "vfio", "test"} \cup Resources \cup {Un[r] : r \in Resources}
  /\ owner \in {"none", "edu_pci", "vfio"}
  /\ event \in BOOLEAN /\ Len(data) <= PageSize

\* Whichever step of probe fails, whenever the driver is unbound and however
\* the program ends, nothing stays held: BAR0 can be claimed again, by either,
\* and the function masters the bus for its claimant only (drivers/edu_pci.c
\* lines 67-73 and 83-86, test_edu_dma.cpp lines 230-239).
NothingLeftHeld ==
  /\ driver \in {"none", "vfio"} => held = {}
  /\ driver = "edu_pci" => held = Resources
  /\ owner = "edu_pci" <=> "region" \in held
  /\ owner = "vfio" => prog # "off"
  /\ bus_master[F] => owner = "vfio"

\* The program finds its data copied, although its waits may time out, the
\* interrupt it raised itself may end the wait for the transfer, and the
\* registers hold what an earlier run left (test_edu_dma.cpp lines 184-217).
DmaVerified == result # "mismatch"

\* A transfer the program starts is over for it, interrupt or not, unless it
\* is killed (line 202).
TransferEnds == prog = "fill" ~> prog \in {"check", "off"}
=============================================================================
