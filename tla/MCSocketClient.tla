--------------------------- MODULE MCSocketClient ---------------------------
(***************************************************************************)
(* Instances of SocketClient for TLC: both ends write more than the kernel  *)
(* holds of one direction.                                                 *)
(***************************************************************************)
EXTENDS SocketClient

MCBudget == [client |-> 3, server |-> 2]
=============================================================================
