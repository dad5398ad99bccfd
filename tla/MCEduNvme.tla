------------------------------ MODULE MCEduNvme ------------------------------
(* Values for model-checking EduNvme. *)
EXTENDS EduNvme

MCSqBase == [hi |-> 0, lo |-> 0]
MCCqBase == [hi |-> 0, lo |-> 0]

\* The submission queue shrinks and grows; the completion queue has one slot here
\* and two in EduNvmeHost.
MCAqas == [sq : {1, 2}, cq : {1}]

Cmd(op, lba, nlb) == [ZeroCmd EXCEPT !.opcode = op, !.prp1 = 1, !.lba = lba, !.nlb = nlb]

\* A write and a read on the disk, a write that runs past its end, a read of the
\* last block address there is, and an identify with a null pointer for its data;
\* the zero command is in the queue from the start.
MCCmds ==
  { Cmd("write", 1, 1), Cmd("read", 0, 1), Cmd("write", 1, 2),
    Cmd("read", LbaSpan - 1, 1), [ZeroCmd EXCEPT !.opcode = "identify"] }
==============================================================================
