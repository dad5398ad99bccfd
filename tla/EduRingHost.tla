----------------------------- MODULE EduRingHost -----------------------------
(***************************************************************************)
(* The descriptor ring under the host discipline of                        *)
(* tests/vfio/test_ring_dma.cpp: open the device (which resets it), enable  *)
(* bus mastering and MSI-X, set up the ring register by register, then fill *)
(* descriptors, ring the doorbell, wait for the interrupt and read the      *)
(* statuses.                                                                *)
(*                                                                         *)
(* The host is more general than the test program in four ways.  Posting,   *)
(* ringing, waiting and reading statuses may run on different vCPUs, so     *)
(* they interleave with a running pass, except that a vCPU waits for the    *)
(* register write it made.  It may post any number of requests before a     *)
(* doorbell, ring again with nothing new, and pause the ring through        *)
(* RING_CTRL.  It keeps one slot of the ring free, which the tests do by    *)
(* using 4 slots of 16.  And its process may die at any moment and be       *)
(* started again, with another ring size, while the device keeps its        *)
(* registers.                                                               *)
(*                                                                         *)
(* Requests are numbered 1, 2, ... in the order they are posted, over all   *)
(* sessions.  The host puts the number in the descriptor's reserved word    *)
(* and in the source buffer.                                                *)
(***************************************************************************)
EXTENDS EduRing, Sequences

CONSTANTS
  NJobs,   \* bound: the requests posted over all sessions
  Sizes    \* ring sizes a session may choose

ASSUME HostAssumption ==
  /\ NJobs \in Nat
  /\ \A n \in Sizes : LegalSize(n)
  /\ Data = 0 .. NJobs /\ Tags = 0 .. NJobs
  /\ MemSize = 2 * MaxRingSize /\ 1 \in Lens

VARIABLES
  session,   \* how far the host process is
  base,      \* the last request of earlier sessions
  nposted,   \* requests whose descriptor was filled
  nrung,     \* requests a doorbell was rung for
  nreaped,   \* requests whose status the host has seen
  log        \* history: the requests executed, in order

hostVars == <<session, base, nposted, nrung, nreaped>>
vars == <<ringVars, hostVars, log>>

HostInit ==
  /\ RingInit
  /\ session = "closed"
  /\ base = 0 /\ nposted = 0 /\ nrung = 0 /\ nreaped = 0
  /\ log = <<>>

\* The slot of a request, and its two buffers (get_src_iova, get_dst_iova).
SlotOf(j) == (j - base - 1) % ring_size
SrcOf(i) == 2 * i
DstOf(i) == 2 * i + 1

-----------------------------------------------------------------------------
(* Opening the device and setting up the ring.                              *)

\* Opening the group's device resets it; the process maps a fresh ring and
\* fresh buffers.
Open ==
  /\ session = "closed"
  /\ session' = "config"
  /\ pc = "idle"
  /\ bus_master' = FALSE /\ msix' = FALSE
  /\ ring' = [i \in Slots |-> Blank]
  /\ data' = [a \in Addrs |-> 0]
  /\ irq' = FALSE
  /\ UNCHANGED <<regVars, passVars, base, nposted, nrung, nreaped, log>>

\* One setup step: what it does to the device, and the step that follows.
Setup(step, Write, next) ==
  /\ session = step /\ session' = next
  /\ Write
  /\ UNCHANGED <<base, nposted, nrung, nreaped, log>>

SetupRing ==
  \/ Setup("config", WriteConfig(TRUE, TRUE), "addr_lo")
  \/ Setup("addr_lo", WriteAddrLo(RingBase.lo), "addr_hi")
  \/ Setup("addr_hi", WriteAddrHi(RingBase.hi), "size")
  \/ \E n \in Sizes : Setup("size", WriteSize(n), "ctrl")
  \/ Setup("ctrl", WriteCtrl(TRUE), "running")

\* The process dies.  A register write it was in the middle of completes
\* first.  What it posted and the device has not executed is abandoned.
Die ==
  /\ session # "closed" /\ session' = "closed"
  /\ pc = "idle"
  /\ base' = nposted /\ nrung' = nposted /\ nreaped' = nposted
  /\ UNCHANGED <<ringVars, nposted, log>>

-----------------------------------------------------------------------------
(* A running session.                                                       *)

\* Fill the source buffer, clear the destination, fill the descriptor.  The
\* three are one step: the slot is outside the device's window until the
\* doorbell, and the barrier before it keeps the stores in front of it.
Fill(j, int) ==
  LET i == SlotOf(j)
  IN /\ data' = [data EXCEPT ![SrcOf(i)] = j, ![DstOf(i)] = 0]
     /\ ring' = [ring EXCEPT ![i] =
                   [tag |-> j, src |-> SrcOf(i), dst |-> DstOf(i), len |-> 1,
                    valid |-> TRUE, int |-> int, status |-> "pending"]]

\* Mutants: the host does not look for room, or fills the last slot too.
RoomAssumed == TRUE
RoomForAll == nposted - nreaped < ring_size

\* A slot is free to post in.  One always stays empty.
Room == nposted - nreaped < ring_size - 1

Post(int) ==
  /\ session = "running"
  /\ nposted < NJobs
  /\ Room
  /\ Fill(nposted + 1, int)
  /\ nposted' = nposted + 1
  /\ UNCHANGED <<regVars, cfgVars, passVars, irq, session, base, nrung,
                 nreaped, log>>

\* The tail register takes the slot after the last one filled.
RingDoorbell ==
  /\ session = "running"
  /\ WriteTail(SlotOf(nposted + 1))
  /\ nrung' = nposted
  /\ UNCHANGED <<session, base, nposted, nreaped, log>>

\* Pause or resume the ring.
Control(enable) ==
  /\ session = "running"
  /\ WriteCtrl(enable)
  /\ UNCHANGED <<hostVars, log>>

\* Mutant: the host takes a status whether or not a request is outstanding.
OutstandingAssumed == TRUE

Outstanding == nreaped < nposted

\* The status of the oldest outstanding request has changed.
Reap ==
  /\ session = "running"
  /\ Outstanding
  /\ ring[SlotOf(nreaped + 1)].status # "pending"
  /\ nreaped' = nreaped + 1
  /\ UNCHANGED <<ringVars, session, base, nposted, nrung, log>>

WaitInterrupt ==
  /\ session = "running"
  /\ TakeInterrupt
  /\ UNCHANGED <<hostVars, log>>

\* The device: a request counts as executed when its descriptor is retired.
Device ==
  /\ PassStep
  /\ log' = IF pc = "retire" THEN Append(log, desc.tag) ELSE log
  /\ UNCHANGED hostVars

Host ==
  \/ Open \/ SetupRing \/ Die
  \/ \E int \in BOOLEAN : Post(int)
  \/ RingDoorbell
  \/ \E b \in BOOLEAN : Control(b)
  \/ Reap
  \/ WaitInterrupt

Next == Device \/ Host

\* The handler runs to its end.  The host, while its process lives, rings for
\* what it posted, resumes a ring it paused and reads the statuses.
Fairness ==
  /\ WF_vars(Device)
  /\ WF_vars(nrung < nposted /\ RingDoorbell)
  /\ WF_vars(~ring_enabled /\ Control(TRUE))
  /\ WF_vars(Reap)

Spec == HostInit /\ [][Next]_vars /\ Fairness

-----------------------------------------------------------------------------
(* Properties.                                                              *)

\* The request executed last, or the one that would have been: the next to
\* execute is the one after.
Executed == IF log # <<>> /\ log[Len(log)] > base THEN log[Len(log)] ELSE base

HostTypeOK ==
  /\ RingTypeOK
  /\ session \in {"closed", "config", "addr_lo", "addr_hi", "size", "ctrl",
                  "running"}
  /\ base \in 0 .. nposted
  /\ nposted \in 0 .. NJobs
  /\ nrung \in base .. nposted
  /\ nreaped \in base .. nposted
  /\ log \in Seq(Tags)

\* The device executes the requests of the present session exactly in order,
\* each once, and only those a doorbell was rung for: across wrap-around,
\* repeated doorbells, pauses, statuses read while the pass runs, and after a
\* restart that finds the registers of the last session still set.
NextInOrder ==
  pc \in Busy => desc.tag = Executed + 1 /\ Executed < nrung

\* While the device works from its local copy of a descriptor, the descriptor
\* in the ring stays the one it copied, so the status written back lands on
\* the request it belongs to (lines 563, 599).
FetchedUnchanged ==
  pc \in Busy => [ring[ring_head] EXCEPT !.status = desc.status] = desc

\* Control returns to a host with the ring enabled only when everything it
\* rang for is executed: a doorbell or a resume is never lost.  Then the ring
\* does not read as running, and the head register is the slot to post in
\* next, which is what the batch test takes it for.
DrainedAtIdle ==
  pc = "idle" /\ session = "running" /\ ring_enabled =>
    Executed = nrung /\ ~ReadRegs.running /\ ReadRegs.head = SlotOf(nrung + 1)

\* A request whose status reads complete has its data in its destination
\* buffer, from its own source, and stays so until the slot is used again.
CompleteHasData ==
  session = "running" =>
    \A j \in nreaped + 1 .. nposted :
      ring[SlotOf(j)].status = "complete" => data[DstOf(SlotOf(j))] = j

\* The interrupt comes after the status: when it is raised, no request up to
\* the one that asked for it still reads pending.
InterruptAfterStatus ==
  [][irq' /\ ~irq =>
       \A j \in nreaped + 1 .. desc.tag :
         ring[SlotOf(j)].status # "pending"]_vars

\* Every request posted in a session that goes on is eventually seen finished.
EveryRequestReaped ==
  \A j \in 1 .. NJobs : nposted = j ~> (nreaped >= j \/ session = "closed")

\* The ring as the queue it implements: the requests not posted yet, those
\* that wait, and those executed.
Unposted == nposted + 1 .. NJobs
Waiting == [i \in 1 .. nposted - Executed |-> Executed + i]

Queue == INSTANCE JobQueue WITH
  Jobs <- 1 .. NJobs, fresh <- Unposted, todo <- Waiting, done <- log

ImplementsQueue == Queue!Spec
==============================================================================
