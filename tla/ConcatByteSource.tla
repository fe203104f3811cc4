-------------------------- MODULE ConcatByteSource --------------------------
(***************************************************************************)
(* ConcatByteSource (buffers/ByteStream.h) over SpanByteSources and socket *)
(* clients.  One step is one call of a source, available or read, so that  *)
(* bytes, a close or a reset may reach a socket between two turns of a     *)
(* loop, and between the answer a source gave and the read of it.          *)
(* Byte k of source i is <<i, k>>.                                         *)
(***************************************************************************)
EXTENDS SocketStream, Sequences, SequencesExt

CONSTANTS
  Lengths,  \* how many bytes each source has to give in all
  Sockets,  \* the sources that are socket clients; the others are spans
  Windows,  \* the sockets of Windows, where a reset may discard what arrived
  MaxRead   \* bound: bytes asked for by one read

ASSUME SourcesAssumption ==
  /\ Lengths \in Seq(Nat) /\ MaxRead \in Nat
  /\ Windows \subseteq Sockets /\ Sockets \subseteq DOMAIN Lengths

VARIABLES
  sources,       \* the state of each source
  currentIndex,
  call,          \* the call in progress, "none" when there is none; "copy" when a
                 \* read was told of bytes and has yet to take them
  want,          \* what is left of the buffer of a read
  produced,      \* history: the bytes all reads returned, in order
  cutOff         \* history: sources that reported a spurious disconnect

vars == <<sources, currentIndex, call, want, produced, cutOff>>

Sources == DOMAIN Lengths

Init ==
  /\ sources = [i \in Sources |->
       [arrived |-> IF i \in Sockets THEN 0 ELSE Lengths[i], consumed |-> 0,
        closed |-> i \notin Sockets, reset |-> FALSE]]
  /\ currentIndex = 1
  /\ call = "none"
  /\ want = 0
  /\ produced = <<>>
  /\ cutOff = {}

-----------------------------------------------------------------------------
(* The remote ends of the sockets.                                         *)

Arrive(i) ==
  /\ ~sources[i].closed /\ ~sources[i].reset
  /\ sources[i].arrived < Lengths[i]
  /\ sources' = [sources EXCEPT ![i].arrived = @ + 1]
  /\ UNCHANGED <<currentIndex, call, want, produced, cutOff>>

\* An orderly end follows the last byte.
CloseRemote(i) ==
  /\ ~sources[i].closed /\ ~sources[i].reset
  /\ sources[i].arrived = Lengths[i]
  /\ sources' = [sources EXCEPT ![i].closed = TRUE]
  /\ UNCHANGED <<currentIndex, call, want, produced, cutOff>>

Reset(i) ==
  /\ ~sources[i].closed /\ ~sources[i].reset
  /\ sources' = [sources EXCEPT ![i].reset = TRUE]
  /\ UNCHANGED <<currentIndex, call, want, produced, cutOff>>

\* On Windows a reset takes with it what arrived and was not read.
Discard(i) ==
  /\ i \in Windows /\ sources[i].reset /\ PendingBytes(sources[i]) > 0
  /\ sources' = [sources EXCEPT ![i].arrived = sources[i].consumed]
  /\ UNCHANGED <<currentIndex, call, want, produced, cutOff>>

-----------------------------------------------------------------------------
(* The concatenation.                                                      *)

\* available, and peek up to the copy it hands to the source.
Ask ==
  /\ call = "none"
  /\ call' = "available"
  /\ UNCHANGED <<sources, currentIndex, want, produced, cutOff>>

Read(size) ==
  /\ call = "none"
  /\ call' = "read"
  /\ want' = size
  /\ UNCHANGED <<sources, currentIndex, produced, cutOff>>

\* SpanByteSource::available, or the socket's.
Availability(i) ==
  IF i \in Sockets THEN StreamAvailability(sources[i])
  ELSE {IF PendingBytes(sources[i]) > 0 THEN "bytes" ELSE "exhausted"}

Return == call' = "none" /\ want' = 0

\* Mutant of Skip: the first source's end is taken for the end.
SkipToEnd ==
  /\ call \in {"available", "read"}
  /\ currentIndex \in Sources /\ "exhausted" \in Availability(currentIndex)
  /\ Return
  /\ UNCHANGED <<sources, currentIndex, produced, cutOff>>

\* Mutant of Skip: a source that has nothing for now is skipped as well.
SkipAnyEmpty ==
  /\ call \in {"available", "read"}
  /\ currentIndex \in Sources
  /\ PendingBytes(sources[currentIndex]) = 0
  /\ currentIndex' = currentIndex + 1
  /\ UNCHANGED <<sources, call, want, produced, cutOff>>

\* An exhausted source is left for good and the next one is asked.
Skip ==
  /\ call \in {"available", "read"}
  /\ currentIndex \in Sources
  /\ "exhausted" \in Availability(currentIndex)
  /\ currentIndex' = currentIndex + 1
  /\ cutOff' = IF sources[currentIndex].closed \/ sources[currentIndex].reset
               THEN cutOff ELSE cutOff \cup {currentIndex}
  /\ UNCHANGED <<sources, call, want, produced>>

\* No source is left, or the current one has nothing for now.
NothingNow ==
  /\ call \in {"available", "read"}
  /\ \/ currentIndex \notin Sources
     \/ /\ currentIndex \in Sources
        /\ "temporarilyUnavailable" \in Availability(currentIndex)
  /\ Return
  /\ UNCHANGED <<sources, currentIndex, produced, cutOff>>

BytesThere ==
  /\ call = "available"
  /\ currentIndex \in Sources /\ "bytes" \in Availability(currentIndex)
  /\ Return
  /\ UNCHANGED <<sources, currentIndex, produced, cutOff>>

\* The read's buffer is handed to the source next.
BytesToRead ==
  /\ call = "read"
  /\ currentIndex \in Sources /\ "bytes" \in Availability(currentIndex)
  /\ call' = "copy"
  /\ UNCHANGED <<sources, currentIndex, want, produced, cutOff>>

\* Mutant of Chunk: what was read before is returned again.
ChunkFromStart(give) ==
  LET n == give[currentIndex].consumed - sources[currentIndex].consumed
  IN /\ sources' = give
     /\ produced' = produced \o [k \in 1..n |-> <<currentIndex, k>>]
     /\ IF 0 < n /\ n < want THEN want' = want - n /\ call' = "read" ELSE Return
     /\ UNCHANGED <<currentIndex, cutOff>>

\* Mutant of Chunk: one source is read, and the call returns.
ChunkOnly(give) ==
  LET i == currentIndex
  IN /\ sources' = give
     /\ produced' = produced \o [k \in 1..(give[i].consumed - sources[i].consumed) |->
                                  <<i, sources[i].consumed + k>>]
     /\ Return
     /\ UNCHANGED <<currentIndex, cutOff>>

\* The current source is asked for the rest of the buffer; the loop goes on
\* until the buffer is full or a source has nothing to give after all.
Chunk(give) ==
  LET i == currentIndex
      after == give[i].consumed
      n == after - sources[i].consumed
  IN /\ sources' = give
     /\ produced' = produced \o [k \in 1..n |-> <<i, sources[i].consumed + k>>]
     /\ IF 0 < n /\ n < want THEN want' = want - n /\ call' = "read" ELSE Return
     /\ UNCHANGED <<currentIndex, cutOff>>

ReadChunk ==
  /\ call = "copy"
  /\ Chunk([sources EXCEPT ![currentIndex] = ReadFrom(@, want)])

Next ==
  \/ \E i \in Sockets : Arrive(i)
  \/ \E i \in Sockets : CloseRemote(i)
  \/ \E i \in Sockets : Reset(i)
  \/ \E i \in Sockets : Discard(i)
  \/ Ask
  \/ \E size \in 1..MaxRead : Read(size)
  \/ Skip
  \/ NothingNow
  \/ BytesThere
  \/ BytesToRead
  \/ ReadChunk

Spec == Init /\ [][Next]_vars

\* Remote ends that send all they have and close, and a program that goes on
\* reading, whatever else it calls in between.
FairSpec ==
  /\ Spec
  /\ \A i \in Sockets : WF_vars(Arrive(i)) /\ WF_vars(CloseRemote(i))
  /\ SF_vars(\E size \in 1..MaxRead : Read(size))
  /\ WF_vars(Skip) /\ WF_vars(NothingNow) /\ WF_vars(BytesThere)
  /\ WF_vars(BytesToRead) /\ WF_vars(ReadChunk)

-----------------------------------------------------------------------------
(* Correctness.                                                            *)

TypeOK ==
  /\ sources \in [Sources -> Stream]
  /\ \A i \in Sources : sources[i].consumed <= sources[i].arrived
  /\ currentIndex \in 1..(Len(Lengths) + 1)
  /\ call \in {"none", "available", "read", "copy"}
  /\ want \in Nat /\ (call \in {"read", "copy"} <=> want > 0)
  /\ produced \in Seq(Sources \X Nat)
  /\ cutOff \subseteq Sockets

\* The reads return each source's bytes from its first on, without a gap or a
\* repetition, and never go back to an earlier source.
InOrder ==
  \A k \in DOMAIN produced :
    LET this == produced[k] IN
    IF k > 1 /\ produced[k - 1][1] = this[1] THEN this[2] = produced[k - 1][2] + 1
    ELSE this[2] = 1 /\ (k > 1 => produced[k - 1][1] < this[1])

\* A source is left only when all of it was read, or its connection was reset,
\* or it reported a disconnect that had not happened. In the last two cases
\* what it still had to give is missing from the middle of the output and
\* the bytes of the next source follow without a sign of it.
NothingSkipped ==
  \A i \in Sources :
    i < currentIndex =>
      \/ sources[i].consumed = Lengths[i]
      \/ sources[i].reset
      \/ i \in cutOff

\* A source that has ended and was read to the end.
AtEnd(s) == PendingBytes(s) = 0 /\ (s.closed \/ s.reset)

\* A socket whose bytes a reset took away.
Discarded(i) == i \in Windows /\ sources[i].reset /\ PendingBytes(sources[i]) = 0

\* The first source that is not at its end has no byte pending.
NothingThere ==
  \A i \in Sources :
    /\ currentIndex <= i
    /\ \A j \in currentIndex..(i - 1) : AtEnd(sources[j])
    => PendingBytes(sources[i]) = 0

\* A read that returns less than it was asked for had nothing more to return:
\* the first source that is not at its end has no byte pending. Only when a
\* source said it had bytes and a reset discarded them before they were taken is
\* a read cut short in front of the next source's bytes.
ShortReadMeansNothingThere ==
  [][call' = "none" /\ Len(produced') - Len(produced) < want =>
       NothingThere' \/ (call = "copy" /\ Discarded(currentIndex))]_vars

\* Every byte of every source is read in the end, but for what a reset or a
\* reported disconnect cut off: sources that are empty, late, closed or closing
\* never hold the reads up for good.
Drained ==
  <>(\A i \in Sources :
       sources[i].consumed = Lengths[i] \/ sources[i].reset \/ i \in cutOff)
=============================================================================
