--------------------------- MODULE MCEduRingHost ---------------------------
(* Values for model-checking EduRingHost. *)
EXTENDS EduRingHost

MCRingBase == [hi |-> 1, lo |-> 1]
MCNumbers == 0 .. NJobs
MCMemSize == 2 * MaxRingSize
============================================================================
