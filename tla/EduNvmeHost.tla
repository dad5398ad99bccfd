----------------------------- MODULE EduNvmeHost -----------------------------
(***************************************************************************)
(* The controller driven as tests/nvme/test_nvme.cpp drives it: open the    *)
(* device, map fresh queues, set the queue registers, enable the            *)
(* controller, then one command at a time: fill a slot, ring the doorbell,  *)
(* wait for the interrupt, take the completion at the host's own index and  *)
(* ring the completion doorbell.                                            *)
(*                                                                         *)
(* The wait has a timeout, after which the program goes on with the next    *)
(* command (main ignores what identify returns).  The process may also die  *)
(* between two of its steps and be started again: its memory is new, the    *)
(* device's queue registers and the disk are as they were.                  *)
(*                                                                         *)
(* Blocks 1 .. MemSize of data memory are the data page; a command moves    *)
(* block 1.  Commands are numbered from 1 in each session, as cmd_id is.    *)
(***************************************************************************)
EXTENDS EduNvme

CONSTANTS
  NCmds,        \* bound: the commands of a session
  NSessions,    \* bound: the times the program is started
  MaxTimeouts,  \* bound: the waits of a session that time out
  QueueSize     \* QUEUE_SIZE of the test program

ASSUME HostAssumption ==
  /\ NCmds \in Nat /\ NSessions \in Nat /\ MaxTimeouts \in Nat
  /\ QueueSize \in 2 .. QueueMax /\ QueueSize < IndexSpan
  /\ LbaSpan > NumBlocks + 1

VARIABLES
  session,    \* how far the program is
  nsessions,  \* times it was started
  h_tail,     \* sq_tail of NvmeController
  h_head,     \* cq_head of NvmeController
  cmd_id,     \* cmd_id of NvmeController: the next command's number
  pending,    \* the command the program waits for, ZeroCmd when none
  irq,        \* the eventfd is readable
  ntimeouts,  \* waits that timed out in this session
  shadow,     \* history: the contents each block may have
  ran         \* history: the commands completed since the controller's enable

hostVars == <<session, nsessions, h_tail, h_head, cmd_id, pending, irq, ntimeouts>>
vars == <<nvmeVars, hostVars, shadow, ran>>

HostInit ==
  /\ NvmeInit
  /\ session = "closed" /\ nsessions = 0
  /\ h_tail = 0 /\ h_head = 0 /\ cmd_id = 1 /\ pending = ZeroCmd
  /\ irq = FALSE /\ ntimeouts = 0
  /\ shadow = [b \in Blocks |-> {0}]
  /\ ran = 0

-----------------------------------------------------------------------------
(* Opening the device and initializing the controller.                      *)

\* Opening resets the function: bus mastering and MSI-X go off.  The device
\* class has no reset handler, so its registers and its disk stay.
Open ==
  /\ session = "closed" /\ nsessions < NSessions
  /\ session' = "config" /\ nsessions' = nsessions + 1
  /\ pc = "idle"
  /\ bus_master' = FALSE /\ msix' = FALSE
  /\ sq' = [i \in Queue |-> ZeroCmd]
  /\ cq' = [i \in Queue |-> ZeroCqe]
  /\ mem' = [a \in Addrs |-> 0]
  /\ msi' = FALSE /\ irq' = FALSE
  /\ h_tail' = 0 /\ h_head' = 0 /\ cmd_id' = 1 /\ pending' = ZeroCmd
  /\ ntimeouts' = 0
  /\ UNCHANGED <<regVars, queueVars, storage, passVars, shadow, ran>>

\* One setup step: what it does to the device, and the step that follows.
Setup(step, RegisterWrite, next) ==
  /\ session = step /\ session' = next
  /\ RegisterWrite
  /\ UNCHANGED <<nsessions, h_tail, h_head, cmd_id, pending, irq, ntimeouts,
                 shadow>>

\* write64 of a queue address reaches the device as two 32-bit writes.
SetupController ==
  \/ Setup("config", WriteConfig(TRUE, TRUE), "aqa") /\ UNCHANGED ran
  \/ Setup("aqa", WriteAqa([sq |-> QueueSize, cq |-> QueueSize]), "asq") /\ UNCHANGED ran
  \/ Setup("asq", WriteAsqLo(SqBase.lo), "asq_hi") /\ UNCHANGED ran
  \/ Setup("asq_hi", WriteAsqHi(SqBase.hi), "acq") /\ UNCHANGED ran
  \/ Setup("acq", WriteAcqLo(CqBase.lo), "acq_hi") /\ UNCHANGED ran
  \/ Setup("acq_hi", WriteAcqHi(CqBase.hi), "cc") /\ UNCHANGED ran
  \/ Setup("cc", WriteCC(TRUE), "ready") /\ ran' = 0

\* The program polls the ready bit, and gives up when it stays clear.
AwaitReady ==
  /\ session = "ready" /\ pc = "idle"
  /\ session' = IF ReadRegs.csts THEN "running" ELSE "closed"
  /\ UNCHANGED <<nvmeVars, nsessions, h_tail, h_head, cmd_id, pending, irq,
                 ntimeouts, shadow, ran>>

Die ==
  /\ session # "closed" /\ session' = "closed"
  /\ pc = "idle"
  /\ UNCHANGED <<nvmeVars, nsessions, h_tail, h_head, cmd_id, pending, irq,
                 ntimeouts, shadow, ran>>

-----------------------------------------------------------------------------
(* Commands.                                                                *)

Waiting == session = "running" /\ pending # ZeroCmd

\* Prepare the data page, fill the next slot and ring the doorbell.  From then
\* on a block to be written may have its old content, the new one or, if the
\* transfer fails, zeroes.
Submit(op, lba, x) ==
  /\ session = "running" /\ ~Waiting
  /\ cmd_id <= NCmds
  /\ LET c == [opcode |-> op, cid |-> cmd_id, prp1 |-> 1, lba |-> lba, nlb |-> 1]
     IN /\ sq' = [sq EXCEPT ![h_tail] = c]
        /\ pending' = c
  /\ mem' = CASE op = "write" -> [mem EXCEPT ![1] = x]
              [] op = "read"  -> [mem EXCEPT ![1] = 0]
              [] OTHER        -> mem
  /\ shadow' = IF op = "write" /\ lba \in Blocks
               THEN [shadow EXCEPT ![lba] = @ \cup {0, x}] ELSE shadow
  /\ cmd_id' = cmd_id + 1
  /\ h_tail' = (h_tail + 1) % QueueSize
  /\ pc = "idle" /\ pc' = "loop"
  /\ sq_tail' = h_tail'
  /\ UNCHANGED <<regVars, sq_head, cq_tail, cq_head, cq_phase, storage, cfgVars,
                 cmd, fetched, status, cq, msi, session, nsessions, h_head, irq,
                 ntimeouts, ran>>

Taken == cq[h_head]

\* What the program has learnt about the disk when the completion it takes is
\* that of the command it waits for.
Learnt ==
  IF /\ Taken.cid = pending.cid /\ Taken.status = "ok"
     /\ pending.opcode \in {"read", "write"}
  THEN [shadow EXCEPT ![pending.lba] = {mem[1]}]
  ELSE shadow

\* wait_completion: the interrupt, the entry at cq_head, the doorbell.
TakeCompletion ==
  /\ Waiting
  /\ irq /\ irq' = FALSE
  /\ shadow' = Learnt
  /\ h_head' = (h_head + 1) % QueueSize
  /\ WriteCqHead(h_head')
  /\ pending' = ZeroCmd
  /\ UNCHANGED <<session, nsessions, h_tail, cmd_id, ntimeouts, ran>>

Timeout ==
  /\ Waiting /\ pc = "idle"
  /\ ~irq
  /\ ntimeouts < MaxTimeouts
  /\ ntimeouts' = ntimeouts + 1
  /\ pending' = ZeroCmd
  /\ UNCHANGED <<nvmeVars, session, nsessions, h_tail, h_head, cmd_id, irq,
                 shadow, ran>>

\* The interrupt that was sent makes the eventfd readable.
Interrupt ==
  /\ Arrive
  /\ irq' = TRUE
  /\ UNCHANGED <<session, nsessions, h_tail, h_head, cmd_id, pending, ntimeouts,
                 shadow, ran>>

Device ==
  /\ PassStep
  /\ ran' = IF pc = "advance" THEN ran + 1 ELSE ran
  /\ UNCHANGED <<hostVars, shadow>>

Host ==
  \/ Open \/ SetupController \/ AwaitReady \/ Die
  \/ \E lba \in 0 .. NumBlocks, x \in Data : Submit("write", lba, x)
  \/ \E lba \in Blocks : Submit("read", lba, 0)
  \/ Submit("identify", 0, 0)
  \/ TakeCompletion
  \/ Timeout

Next == Device \/ Host \/ Interrupt

\* The handler runs to its end, the interrupt arrives, a readable eventfd
\* wakes the program.
Fairness == WF_vars(Device) /\ WF_vars(Interrupt) /\ WF_vars(TakeCompletion)

Spec == HostInit /\ [][Next]_vars /\ Fairness

-----------------------------------------------------------------------------
(* Properties.                                                              *)

HostTypeOK ==
  /\ NvmeTypeOK
  /\ session \in {"closed", "config", "aqa", "asq", "asq_hi", "acq", "acq_hi",
                  "cc", "ready", "running"}
  /\ nsessions \in 0 .. NSessions
  /\ h_tail \in 0 .. QueueSize - 1 /\ h_head \in 0 .. QueueSize - 1
  /\ cmd_id \in 1 .. NCmds + 1
  /\ IsCmd(pending)
  /\ irq \in BOOLEAN /\ ntimeouts \in 0 .. MaxTimeouts
  /\ shadow \in [Blocks -> SUBSET Data]
  /\ ran \in Nat

\* The phase bit tells new completions from old ones: in a running session an
\* entry carries the current phase exactly if this lap of the queue has
\* written it, so the entry to be written next looks old.  Also after a
\* restart that found the phase and the index of the last session.
PhaseTellsNew ==
  session = "running" /\ pc # "advance" =>
    \A i \in 0 .. QueueSize - 1 : cq[i].phase = cq_phase <=> i < cq_tail

\* Every command gets one completion, in order: the k-th entry written since
\* the controller was enabled answers the k-th command, on whichever lap.
CompletionsInOrder ==
  session = "running" /\ pc # "advance" =>
    \A k \in 1 .. ran : k > ran - QueueSize => cq[(k - 1) % QueueSize].cid = k

\* While no wait has timed out, the completion the program takes is that of
\* the command it waits for.
CompletionMatches ==
  Waiting /\ irq /\ ntimeouts = 0 => Taken.cid = pending.cid

\* The disk is a disk: what a successful read returns is what was last read or
\* successfully written there, or one of the outcomes of the writes since then
\* whose status the program never learnt or that failed.  Over failed
\* transfers, timeouts and restarts of the program.
ReadBack ==
  [][TakeCompletion /\ pending.opcode = "read"
       /\ Taken.cid = pending.cid /\ Taken.status = "ok"
       => mem[1] \in shadow[pending.lba]]_vars

\* A wait ends.
WaitEnds == Waiting ~> ~Waiting

\* The status the program prints as that of its write is that of its write
\* (test_nvme.cpp line 302), also when an earlier wait timed out.
StatusIsMine == Waiting /\ irq => Taken.cid = pending.cid
==============================================================================
