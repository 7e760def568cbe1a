---------------------------- MODULE MCScanProgress ----------------------------
(* Instances of ScanProgress for TLC.  The threads and the paths are         *)
(* interchangeable, where no liveness is checked.                            *)
EXTENDS ScanProgress, TLC

\* Nothing; two files to freeze; one to freeze and one to thaw.
McLoads == {[freezes |-> 0, thaws |-> 0], [freezes |-> 2, thaws |-> 0],
            [freezes |-> 1, thaws |-> 1]}
OneFile == {[freezes |-> 1, thaws |-> 0]}

Symmetry == Permutations(Jobs) \cup Permutations(Paths)
===============================================================================
