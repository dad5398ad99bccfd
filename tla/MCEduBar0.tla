------------------------------ MODULE MCEduBar0 ------------------------------
(* Values for model-checking EduBar0: physical functions "A" and "B", a        *)
(* virtual function "V".  A and B may aim at each other and B at V.            *)
EXTENDS EduBar0

Bar(f, r) == [fn |-> f, reg |-> r]
W(f, r, v) == [fn |-> f, reg |-> r, val |-> v]

MCWrites ==
  { W("A", "dst", 1), W("A", "len", 1), W("A", "len", 3), W("A", "dma_cmd", 1),
    W("A", "irq_raise", 0), W("A", "irq_raise", Vectors), W("A", "irq_ack", 0),
    W("A", "p2p_addr", Bar("B", "dma_cmd")), W("A", "p2p_addr", Bar("B", "p2p_cmd")),
    W("A", "p2p_data", 1), W("A", "p2p_cmd", 1), W("A", "p2p_cmd", 0),
    W("B", "p2p_addr", Bar("A", "scratch")), W("B", "p2p_addr", Bar("V", "dma_cmd")),
    W("B", "p2p_data", 1),
    W("V", "factorial", FactorialMax + 1), W("V", "dma_cmd", 1), W("V", "irq_raise", 0) }
==============================================================================
