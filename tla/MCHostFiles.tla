---------------------------- MODULE MCHostFiles ----------------------------
(***************************************************************************)
(* Instances of HostFiles for TLC.                                         *)
(***************************************************************************)
EXTENDS HostFiles, TLC

MCSymmetry == Permutations(Callers) \cup Permutations(Names)
=============================================================================
