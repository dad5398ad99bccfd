---------------------------- MODULE MCEduNvmeHost ----------------------------
(* Values for model-checking EduNvmeHost. *)
EXTENDS EduNvmeHost

MCSqBase == [hi |-> 0, lo |-> 1]
MCCqBase == [hi |-> 1, lo |-> 0]
MCAqas == [sq : {QueueSize}, cq : {QueueSize}]
==============================================================================
