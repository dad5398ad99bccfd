----------------------------- MODULE MCEduRing -----------------------------
(* Values for model-checking EduRing. *)
EXTENDS EduRing

MCRingBase == [hi |-> 1, lo |-> 1]

\* A well-formed request, one whose source and one whose destination runs off
\* the end of data memory, and a descriptor the device must not execute.  The
\* last two are longer than DmaMaxLen = 2 units and are clamped.
MCDescs ==
  { [Blank EXCEPT !.dst = 1, !.len = 1, !.valid = TRUE, !.int = TRUE],
    [Blank EXCEPT !.src = 1, !.len = 3, !.valid = TRUE, !.int = TRUE],
    [Blank EXCEPT !.dst = 1, !.len = 3, !.valid = TRUE],
    Blank }
============================================================================
