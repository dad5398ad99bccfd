------------------------------ MODULE MCEduUsb ------------------------------
(* Values for model-checking EduUsb: an empty message, one with a NUL in it,   *)
(* one whose echo fits only under a short number, one that fills the buffer.   *)
EXTENDS EduUsb

MCPrefixLen == [n \in 0 .. CounterMod - 1 |-> IF n < 2 THEN 1 ELSE 2]
MCTexts == { [size |-> 0, visible |-> 0], [size |-> 2, visible |-> 1],
             [size |-> 2, visible |-> 2], [size |-> 4, visible |-> 4] }
MCWords == { [i \in 0 .. 3 |-> i + 1], [i \in 0 .. 3 |-> Base - 1 - i] }
=============================================================================
