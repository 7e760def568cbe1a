------------------------- MODULE MCRelocationManager --------------------------
(* Instances of RelocationManager for TLC.  There is no symmetry: the run checks *)
(* liveness.                                                                 *)
EXTENDS RelocationManager
===============================================================================
