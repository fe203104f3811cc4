------------------------- MODULE MCConcatByteSource -------------------------
(***************************************************************************)
(* Instances of ConcatByteSource for TLC.                                  *)
(***************************************************************************)
EXTENDS ConcatByteSource

\* A header span, a socket of Windows, an empty span, a socket of POSIX.
MCLengths == <<1, 2, 0, 2>>
MCSockets == {2, 4}
MCWindows == {2}
=============================================================================
