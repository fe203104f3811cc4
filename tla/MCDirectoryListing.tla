------------------------- MODULE MCDirectoryListing -------------------------
(***************************************************************************)
(* Instances of DirectoryListing for TLC.                                  *)
(***************************************************************************)
EXTENDS DirectoryListing
=============================================================================
