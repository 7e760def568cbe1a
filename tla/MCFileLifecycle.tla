--------------------------- MODULE MCFileLifecycle ---------------------------
(* Instances of FileLifecycle for TLC: the contents and the rows' ids are    *)
(* interchangeable, so states that differ only in their names are one.       *)
EXTENDS FileLifecycle, TLC

Symmetry == Permutations(Data) \cup Permutations(RowIds)

\* The requests of the runs.  Pins multiply the states most and matter to what a scan
\* moves, so they are toggled for one operation_type.
MostRequests == [move |-> RequestKinds, symlink |-> {"freeze", "thaw"}, copy |-> {"freeze", "thaw"}]
NoPins   == [o \in Ops |-> {"freeze", "thaw"}]
PinsOnly == [o \in Ops |-> {"pin"}]
=============================================================================
