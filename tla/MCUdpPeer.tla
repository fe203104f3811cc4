----------------------------- MODULE MCUdpPeer -----------------------------
(***************************************************************************)
(* Instances of UdpPeer for TLC.                                           *)
(***************************************************************************)
EXTENDS UdpPeer
CONSTANTS a, b
=============================================================================
