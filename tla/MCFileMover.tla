----------------------------- MODULE MCFileMover ------------------------------
(* Instances of FileMover for TLC.  The contents are interchangeable.        *)
EXTENDS FileMover, TLC

Symmetry == Permutations(Data)
===============================================================================
