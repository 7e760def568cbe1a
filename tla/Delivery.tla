------------------------------- MODULE Delivery -------------------------------
(***************************************************************************)
(* What a remote transfer promises (app/services/                          *)
(* remote_transfer_service.py, app/routers/api/remote.py): a job is done   *)
(* only when the destination holds the file, the source is removed only    *)
(* then, and once it is gone the destination keeps the file.  While the    *)
(* source is there a transfer may replace or spoil what an earlier one has *)
(* brought.  The promise is given while the transfers are calm: none is    *)
(* confirmed unchecked, two do not run at once, and no call is handled     *)
(* after its sender has given it up.  After that anything may happen.      *)
(***************************************************************************)
CONSTANTS
    Jobs,
    Versions,   \* of the source file
    None

VARIABLES
    there,  \* the source exists
    dst,    \* the version at the destination, or None
    done,   \* the jobs whose delivery is confirmed
    calm

vars == <<there, dst, done, calm>>

Init == there = TRUE /\ dst = None /\ done = {} /\ calm = TRUE

Put ==
    /\ there = TRUE
    /\ dst' \in Versions \cup {None}
    /\ UNCHANGED <<there, done, calm>>

Complete(j) ==
    /\ dst # None
    /\ done' = done \cup {j}
    /\ UNCHANGED <<there, dst, calm>>

\* Jobs are deleted, made again, or started again with others of their batch.
Forget ==
    /\ done' \in SUBSET done
    /\ UNCHANGED <<there, dst, calm>>

Remove(j) ==
    /\ dst # None /\ j \in done
    /\ there' = FALSE
    /\ done' \in {done, done \ {j}}
    /\ UNCHANGED <<dst, calm>>

Disturb == calm' = FALSE

Next ==
    \/ Put \/ Forget \/ Disturb
    \/ \E j \in Jobs : Complete(j) \/ Remove(j)

Spec == Init /\ [][Next]_vars
===============================================================================
