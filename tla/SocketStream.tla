---------------------------- MODULE SocketStream ----------------------------
(***************************************************************************)
(* The receiving half of a connected PosixSocketClient, as the sources of  *)
(* buffers/ByteStream.h see it: how many bytes have arrived, how many were *)
(* read, and whether the remote end closed or reset the connection.        *)
(***************************************************************************)
EXTENDS Naturals

CONSTANT
  Spurious  \* may select be interrupted or report an exceptional state?

ASSUME SpuriousAssumption == Spurious \in BOOLEAN

Stream == [arrived : Nat, consumed : Nat, closed : BOOLEAN, reset : BOOLEAN]

Results == {"bytes", "temporarilyUnavailable", "exhausted"}

\* FIONREAD.
PendingBytes(s) == s.arrived - s.consumed

\* isSocketConnected when no bytes are pending: a readable socket without bytes
\* has been closed or reset, and a select that fails, were it only for EINTR,
\* or that reports an exceptional state, counts as disconnected as well.
Connected(s) ==
  {~s.closed /\ ~s.reset} \cup (IF Spurious THEN {FALSE} ELSE {})

\* PosixSocketClient::available; an end of the stream, a reset and a spurious
\* disconnect give the same answer.
StreamAvailability(s) ==
  IF PendingBytes(s) > 0 THEN {"bytes"}
  ELSE {IF c THEN "temporarilyUnavailable" ELSE "exhausted" : c \in Connected(s)}

\* Mutant of ReadFrom: recv is taken to fill the buffer it is given.
ReadFromFilling(s, size) == [s EXCEPT !.consumed = @ + size]

\* recv copies what has arrived, up to the size asked for.
ReadFrom(s, size) ==
  [s EXCEPT !.consumed = @ + IF size <= PendingBytes(s) THEN size ELSE PendingBytes(s)]
=============================================================================
