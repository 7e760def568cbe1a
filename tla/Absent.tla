--------------------------------- MODULE Absent ---------------------------------
(* What stands where a row, a path or a value is missing.                      *)
CONSTANT None
=============================================================================
