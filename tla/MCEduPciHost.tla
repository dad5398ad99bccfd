---------------------------- MODULE MCEduPciHost ----------------------------
(* Values for model-checking EduPciHost: one physical function; data of one    *)
(* unit, of a page, and of more than a page.                                   *)
EXTENDS EduPciHost

Bar(f, r) == [fn |-> f, reg |-> r]
W(f, r, v) == [fn |-> f, reg |-> r, val |-> v]

\* test_regs.py and the interrupt tests on A; test_p2p.sh from B to A.
MCWrites ==
  { W("A", "scratch", 1), W("A", "factorial", 5), W("A", "irq_raise", 0),
    W("A", "irq_raise", 1),
    W("B", "p2p_addr", Bar("A", "scratch")), W("B", "p2p_data", 2), W("B", "p2p_cmd", 1) }
MCPayloads == { <<1>>, <<1, 1>>, <<0, 1, 1>> }
=============================================================================
