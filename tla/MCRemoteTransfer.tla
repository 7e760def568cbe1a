--------------------------- MODULE MCRemoteTransfer ---------------------------
(* Instances of RemoteTransfer for TLC. *)
EXTENDS RemoteTransfer
===============================================================================
