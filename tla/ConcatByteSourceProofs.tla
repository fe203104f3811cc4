----------------------- MODULE ConcatByteSourceProofs -----------------------
(***************************************************************************)
(* Theorems about ConcatByteSource for any number of spans and sockets of  *)
(* any lengths, and with or without spurious disconnects.                  *)
(***************************************************************************)
EXTENDS ConcatByteSource, SequenceTheorems, TLAPS

-----------------------------------------------------------------------------
(* The inductive invariant.  TypeOK alone is not inductive: that only a    *)
(* socket can be cut off rests on a span being at its end when it is empty,*)
(* and that a read finds the bytes it was told of, unless a reset of       *)
(* Windows discarded them, on the answer it acts upon.                     *)

SpansClosed == \A i \in Sources \ Sockets : sources[i].closed

\* A source that has ended has given everything it had.
ClosedComplete ==
  \A i \in Sources :
    sources[i].closed => sources[i].arrived = Lengths[i] /\ ~sources[i].reset

\* What a read was told of is there when it is taken, unless it was discarded.
Told ==
  call = "copy" =>
    /\ currentIndex \in Sources
    /\ PendingBytes(sources[currentIndex]) > 0 \/ Discarded(currentIndex)

IInv == TypeOK /\ SpansClosed /\ ClosedComplete /\ Told

\* What available() reporting the end of a source says about it.
LEMMA ExhaustedMeaning ==
  ASSUME IInv, NEW i \in Sources, "exhausted" \in Availability(i)
  PROVE  /\ sources[i].consumed = sources[i].arrived
         /\ sources[i].closed \/ sources[i].reset \/ i \in Sockets
<1>1. sources[i] \in Stream /\ sources[i].consumed <= sources[i].arrived
  BY DEF IInv, TypeOK
<1>2. PendingBytes(sources[i]) = 0
  <2>1. PendingBytes(sources[i]) \in Nat
    BY <1>1 DEF PendingBytes, Stream
  <2>2. CASE i \in Sockets
    <3>1. "exhausted" \in StreamAvailability(sources[i])
      BY <2>2 DEF Availability
    <3> QED
      BY <2>1, <3>1 DEF StreamAvailability
  <2>3. CASE i \notin Sockets
    BY <2>1, <2>3 DEF Availability
  <2> QED
    BY <2>2, <2>3
<1> QED
  BY <1>1, <1>2 DEF PendingBytes, Stream, IInv, SpansClosed

\* What available() reporting nothing for now says about it.
LEMMA UnavailableMeaning ==
  ASSUME IInv, NEW i \in Sources, "temporarilyUnavailable" \in Availability(i)
  PROVE  PendingBytes(sources[i]) = 0 /\ ~sources[i].closed /\ ~sources[i].reset
<1>1. sources[i] \in Stream /\ sources[i].consumed <= sources[i].arrived
  BY DEF IInv, TypeOK
<1>2. PendingBytes(sources[i]) \in Nat
  BY <1>1 DEF PendingBytes, Stream
<1>3. i \in Sockets
  BY DEF Availability
<1>4. "temporarilyUnavailable" \in StreamAvailability(sources[i])
  BY <1>3 DEF Availability
<1>5. PendingBytes(sources[i]) = 0 /\ TRUE \in Connected(sources[i])
  <2>1. PendingBytes(sources[i]) = 0
    BY <1>2, <1>4 DEF StreamAvailability
  <2>2. PICK c \in Connected(sources[i]) :
          "temporarilyUnavailable" = IF c THEN "temporarilyUnavailable" ELSE "exhausted"
    BY <1>4, <2>1 DEF StreamAvailability
  <2>3. c \in BOOLEAN
    BY <1>1, SpuriousAssumption DEF Connected, Stream
  <2> QED
    BY <2>1, <2>2, <2>3
<1> QED
  BY <1>5, SpuriousAssumption DEF Connected

\* What available() reporting bytes says about it.
LEMMA BytesMeaning ==
  ASSUME IInv, NEW i \in Sources, "bytes" \in Availability(i)
  PROVE  PendingBytes(sources[i]) > 0
<1>1. CASE i \in Sockets
  BY <1>1 DEF Availability, StreamAvailability
<1>2. CASE i \notin Sockets
  BY <1>2 DEF Availability
<1> QED
  BY <1>1, <1>2

\* What one read hands on from the current source, and what it leaves alone.
LEMMA ReadChunkMeaning ==
  ASSUME IInv, ReadChunk
  PROVE  LET i == currentIndex
             n == sources'[i].consumed - sources[i].consumed
         IN /\ i \in Sources /\ n \in Nat /\ n <= want
            /\ sources'[i].consumed <= sources[i].arrived
            /\ sources' = [sources EXCEPT ![i].consumed = sources[i].consumed + n]
            /\ produced' = produced \o [k \in 1..n |-> <<i, sources[i].consumed + k>>]
            /\ n = 0 => PendingBytes(sources[i]) = 0
            /\ IF 0 < n /\ n < want THEN want' = want - n /\ call' = "read"
                                    ELSE call' = "none" /\ want' = 0
            /\ UNCHANGED <<currentIndex, cutOff>>
<1> DEFINE i == currentIndex
           s == sources[i]
           m == IF want <= PendingBytes(s) THEN want ELSE PendingBytes(s)
<1>1. /\ i \in Sources /\ s \in Stream /\ s.consumed <= s.arrived
      /\ want \in Nat /\ want > 0
  BY DEF ReadChunk, IInv, TypeOK, Told
<1>2. /\ m \in Nat /\ m <= want /\ s.consumed + m <= s.arrived
      /\ m = 0 => PendingBytes(s) = 0
  BY <1>1 DEF PendingBytes, Stream
<1>3. sources' = [sources EXCEPT ![i] = ReadFrom(s, want)]
  BY DEF ReadChunk, Chunk
<1>4. ReadFrom(s, want) = [s EXCEPT !.consumed = s.consumed + m]
  BY DEF ReadFrom
<1>5. sources' = [sources EXCEPT ![i].consumed = s.consumed + m]
  BY <1>3, <1>4
<1>6. sources'[i].consumed = s.consumed + m
  BY <1>1, <1>5 DEF IInv, TypeOK, Stream
<1>7. sources'[i].consumed - s.consumed = m
  <2> HIDE DEF m
  <2> QED
    BY <1>1, <1>2, <1>6 DEF Stream
<1>8. /\ produced' = produced \o [k \in 1..m |-> <<i, s.consumed + k>>]
      /\ IF 0 < m /\ m < want THEN want' = want - m /\ call' = "read"
                               ELSE call' = "none" /\ want' = 0
      /\ UNCHANGED <<currentIndex, cutOff>>
  <2> HIDE DEF m
  <2>1. [sources EXCEPT ![i] = ReadFrom(s, want)][i].consumed - s.consumed = m
    BY <1>3, <1>7
  <2> QED
    BY <2>1 DEF ReadChunk, Chunk, Return
<1> QED
  BY <1>1, <1>2, <1>5, <1>6, <1>7, <1>8
-----------------------------------------------------------------------------
(* The invariant is inductive.                                             *)

\* Bytes, an end or a reset reaching a socket.
LEMMA RemoteKeepsIInv ==
  ASSUME IInv, NEW i \in Sockets, Arrive(i) \/ CloseRemote(i) \/ Reset(i) \/ Discard(i)
  PROVE  IInv'
<1>1. i \in Sources /\ sources \in [Sources -> Stream]
  BY SourcesAssumption DEF Sources, IInv, TypeOK
<1>2. \A j \in Sources : j # i => sources'[j] = sources[j]
  BY <1>1 DEF Arrive, CloseRemote, Reset, Discard
<1>3. /\ sources'[i] \in Stream /\ sources'[i].consumed <= sources'[i].arrived
      /\ sources'[i].closed => sources'[i].arrived = Lengths[i] /\ ~sources'[i].reset
  <2>1. /\ sources[i] \in Stream /\ sources[i].consumed <= sources[i].arrived
        /\ sources[i].closed => sources[i].arrived = Lengths[i] /\ ~sources[i].reset
    BY <1>1 DEF IInv, TypeOK, ClosedComplete
  <2>2. CASE Arrive(i)
    BY <1>1, <2>1, <2>2 DEF Arrive, Stream
  <2>3. CASE CloseRemote(i)
    BY <1>1, <2>1, <2>3 DEF CloseRemote, Stream
  <2>4. CASE Reset(i)
    BY <1>1, <2>1, <2>4 DEF Reset, Stream
  <2>5. CASE Discard(i)
    BY <1>1, <2>1, <2>5 DEF Discard, Stream
  <2> QED
    BY <2>2, <2>3, <2>4, <2>5
<1>4. sources' \in [Sources -> Stream]
  <2>1. DOMAIN sources' = Sources /\ sources' = [j \in Sources |-> sources'[j]]
    BY <1>1 DEF Arrive, CloseRemote, Reset, Discard
  <2> QED
    BY <1>1, <1>2, <1>3, <2>1
<1>5. UNCHANGED <<currentIndex, call, want, produced, cutOff>>
  BY DEF Arrive, CloseRemote, Reset, Discard
<1>6. TypeOK'
  BY <1>1, <1>2, <1>3, <1>4, <1>5 DEF IInv, TypeOK
<1>7. SpansClosed'
  BY <1>2 DEF IInv, SpansClosed
<1>8. ClosedComplete'
  BY <1>2, <1>3 DEF IInv, ClosedComplete
<1>9. ASSUME call = "copy"
      PROVE  PendingBytes(sources'[currentIndex]) > 0 \/ Discarded(currentIndex)'
  <2> DEFINE c == currentIndex
  <2>1. c \in Sources /\ (PendingBytes(sources[c]) > 0 \/ Discarded(c))
    BY <1>9 DEF IInv, Told
  <2>2. CASE c # i
    BY <1>2, <1>5, <2>1, <2>2 DEF Discarded
  <2>3. CASE c = i
    <3>1. sources[i] \in Stream /\ sources[i].consumed <= sources[i].arrived
      BY <1>1 DEF IInv, TypeOK
    <3>2. CASE Arrive(i)
      BY <1>1, <2>3, <3>1, <3>2 DEF Arrive, Stream, PendingBytes
    <3>3. CASE CloseRemote(i)
      BY <1>1, <1>5, <2>1, <2>3, <3>1, <3>3 DEF CloseRemote, Stream, PendingBytes, Discarded
    <3>4. CASE Reset(i)
      BY <1>1, <1>5, <2>1, <2>3, <3>1, <3>4 DEF Reset, Stream, PendingBytes, Discarded
    <3>5. CASE Discard(i)
      BY <1>1, <1>5, <2>3, <3>1, <3>5 DEF Discard, Stream, PendingBytes, Discarded
    <3> QED
      BY <3>2, <3>3, <3>4, <3>5
  <2> QED
    BY <2>2, <2>3
<1>10. Told'
  BY <1>5, <1>9 DEF IInv, Told
<1> QED
  BY <1>6, <1>7, <1>8, <1>10 DEF IInv

\* A turn of read's loop.
LEMMA ReadChunkKeepsIInv ==
  ASSUME IInv, ReadChunk
  PROVE  IInv'
<1> DEFINE i == currentIndex
           n == sources'[i].consumed - sources[i].consumed
           chunk == [k \in 1..n |-> <<i, sources[i].consumed + k>>]
<1>1. /\ i \in Sources /\ n \in Nat /\ n <= want
      /\ sources'[i].consumed <= sources[i].arrived
      /\ sources' = [sources EXCEPT ![i].consumed = sources[i].consumed + n]
      /\ produced' = produced \o chunk
      /\ IF 0 < n /\ n < want THEN want' = want - n /\ call' = "read"
                               ELSE call' = "none" /\ want' = 0
      /\ UNCHANGED <<currentIndex, cutOff>>
  BY ReadChunkMeaning
<1> HIDE DEF n
<1>2. sources[i] \in Stream /\ want \in Nat /\ call = "copy"
  BY <1>1 DEF IInv, TypeOK, ReadChunk
<1>3. sources' \in [Sources -> Stream]
  <2>1. [sources[i] EXCEPT !.consumed = sources[i].consumed + n] \in Stream
    <3>1. sources[i].consumed + n \in Nat
      BY <1>1, <1>2 DEF Stream
    <3>2. \A s \in Stream : \A m \in Nat : [s EXCEPT !.consumed = m] \in Stream
      BY DEF Stream
    <3> QED
      BY <1>2, <3>1, <3>2, Zenon
  <2>2. sources' = [sources EXCEPT ![i] = [sources[i] EXCEPT !.consumed = sources[i].consumed + n]]
    BY <1>1
  <2> QED
    BY <1>1, <2>1, <2>2 DEF IInv, TypeOK
<1>4. \A j \in Sources : /\ j # i => sources'[j] = sources[j]
                         /\ sources'[j].arrived = sources[j].arrived
                         /\ sources'[j].closed = sources[j].closed
                         /\ sources'[j].reset = sources[j].reset
  BY <1>1, <1>2 DEF IInv, TypeOK, Stream
<1>5. \A j \in Sources : sources'[j].consumed <= sources'[j].arrived
  BY <1>1, <1>4 DEF IInv, TypeOK
<1>6. produced' \in Seq(Sources \X Nat)
  <2>1. \A k \in 1..n : <<i, sources[i].consumed + k>> \in Sources \X Nat
    BY <1>1, <1>2 DEF Stream
  <2>2. chunk \in Seq(Sources \X Nat)
    BY <1>1, <2>1
  <2> HIDE DEF chunk
  <2> QED
    BY <1>1, <2>2 DEF IInv, TypeOK
<1>7. /\ want' \in Nat /\ call' \in {"none", "read"}
      /\ call' \in {"read", "copy"} <=> want' > 0
  BY <1>1, <1>2
<1>8. TypeOK'
  BY <1>1, <1>3, <1>5, <1>6, <1>7 DEF IInv, TypeOK
<1>9. SpansClosed' /\ ClosedComplete' /\ Told'
  BY <1>4, <1>7 DEF IInv, SpansClosed, ClosedComplete, Told
<1> QED
  BY <1>8, <1>9 DEF IInv

\* Leaving a source: only a socket can be left without having ended.
LEMMA SkipKeepsIInv ==
  ASSUME IInv, Skip
  PROVE  IInv'
<1>1. currentIndex \in Sources /\ "exhausted" \in Availability(currentIndex)
  BY DEF Skip
<1>2. \/ sources[currentIndex].closed \/ sources[currentIndex].reset
      \/ currentIndex \in Sockets
  BY <1>1, ExhaustedMeaning
<1>3. cutOff' \subseteq Sockets
  BY <1>2 DEF Skip, IInv, TypeOK
<1>4. currentIndex' \in 1..(Len(Lengths) + 1)
  BY <1>1, SourcesAssumption DEF Skip, Sources
<1>5. TypeOK'
  BY <1>3, <1>4 DEF Skip, IInv, TypeOK
<1> QED
  BY <1>5 DEF Skip, IInv, SpansClosed, ClosedComplete, Told

\* TypeOK and what it rests on, for every list of sources.
LEMMA Invariant == Spec => []IInv
<1>1. Init => IInv
  <2> SUFFICES ASSUME Init PROVE IInv
    OBVIOUS
  <2>1. \A i \in Sources : Lengths[i] \in Nat
    BY SourcesAssumption DEF Sources
  <2>2. sources \in [Sources -> Stream]
    BY <2>1 DEF Init, Stream
  <2>3. \A i \in Sources : sources[i].consumed <= sources[i].arrived
    BY <2>1 DEF Init
  <2>4. TypeOK
    BY <2>2, <2>3, SourcesAssumption DEF Init, TypeOK
  <2>5. SpansClosed /\ ClosedComplete /\ Told
    BY DEF Init, SpansClosed, ClosedComplete, Told
  <2> QED
    BY <2>4, <2>5 DEF IInv
<1>2. IInv /\ [Next]_vars => IInv'
  <2> SUFFICES ASSUME IInv, [Next]_vars PROVE IInv'
    OBVIOUS
  <2>1. ASSUME NEW i \in Sockets, Arrive(i) \/ CloseRemote(i) \/ Reset(i) \/ Discard(i)
        PROVE  IInv'
    BY <2>1, RemoteKeepsIInv
  <2>2. ASSUME Ask PROVE IInv'
    BY <2>2 DEF Ask, IInv, TypeOK, SpansClosed, ClosedComplete, Told
  <2>3. ASSUME NEW size \in 1..MaxRead, Read(size) PROVE IInv'
    BY <2>3, SourcesAssumption DEF Read, IInv, TypeOK, SpansClosed, ClosedComplete, Told
  <2>4. CASE Skip
    BY <2>4, SkipKeepsIInv
  <2>5. CASE NothingNow \/ BytesThere
    BY <2>5 DEF NothingNow, BytesThere, Return, IInv, TypeOK, SpansClosed, ClosedComplete, Told
  <2>6. CASE BytesToRead
    <3>1. PendingBytes(sources[currentIndex]) > 0
      BY <2>6, BytesMeaning DEF BytesToRead
    <3> QED
      BY <2>6, <3>1 DEF BytesToRead, IInv, TypeOK, SpansClosed, ClosedComplete, Told
  <2>7. CASE ReadChunk
    BY <2>7, ReadChunkKeepsIInv
  <2>8. CASE UNCHANGED vars
    BY <2>8 DEF vars, IInv, TypeOK, SpansClosed, ClosedComplete, Told, Discarded
  <2> QED
    BY <2>1, <2>2, <2>3, <2>4, <2>5, <2>6, <2>7, <2>8 DEF Next
<1> QED
  BY <1>1, <1>2, PTL DEF Spec

\* The bytes read of a source never exceed what arrived, currentIndex stays one
\* past the end at most and a read in progress wants something, for every list
\* of sources.
THEOREM TypeCorrect == Spec => []TypeOK
<1>1. IInv => TypeOK
  BY DEF IInv
<1> QED
  BY <1>1, Invariant, PTL

-----------------------------------------------------------------------------
(* Nothing skipped.                                                        *)

\* A source is left behind with bytes to give only when it was reset or
\* reported a disconnect that had not happened.
THEOREM SourcesReadToTheEnd == Spec => []NothingSkipped
<1>1. Init => NothingSkipped
  BY SourcesAssumption DEF Init, NothingSkipped, Sources
<1>2. IInv /\ NothingSkipped /\ [Next]_vars => NothingSkipped'
  <2> SUFFICES ASSUME IInv, NothingSkipped, [Next]_vars PROVE NothingSkipped'
    OBVIOUS
  <2>0. sources \in [Sources -> Stream] /\ currentIndex \in Nat
    BY DEF IInv, TypeOK
  <2>1. ASSUME NEW i \in Sockets, Arrive(i) \/ CloseRemote(i) \/ Reset(i) \/ Discard(i)
        PROVE  NothingSkipped'
    <3>1. \A j \in Sources : /\ sources'[j].consumed = sources[j].consumed
                             /\ sources[j].reset => sources'[j].reset
      <4> SUFFICES ASSUME NEW j \in Sources
                   PROVE  /\ sources'[j].consumed = sources[j].consumed
                          /\ sources[j].reset => sources'[j].reset
        OBVIOUS
      <4>1. sources[j] \in Stream /\ i \in Sources
        BY <2>0, SourcesAssumption DEF Sources
      <4>2. CASE j # i
        BY <2>0, <2>1, <4>1, <4>2 DEF Arrive, CloseRemote, Reset, Discard
      <4>3. CASE j = i
        BY <2>0, <2>1, <4>1, <4>3 DEF Arrive, CloseRemote, Reset, Discard, Stream
      <4> QED
        BY <4>2, <4>3
    <3>2. UNCHANGED <<currentIndex, cutOff>>
      BY <2>1 DEF Arrive, CloseRemote, Reset, Discard
    <3> QED
      BY <3>1, <3>2 DEF NothingSkipped
  <2>2. CASE Skip
    <3> SUFFICES ASSUME NEW j \in Sources, j < currentIndex'
                 PROVE  \/ sources[j].consumed = Lengths[j]
                        \/ sources[j].reset \/ j \in cutOff'
      BY <2>2 DEF NothingSkipped, Skip
    <3>1. CASE j < currentIndex
      BY <2>2, <3>1 DEF Skip, NothingSkipped
    <3>2. CASE j >= currentIndex
      <4>1. j = currentIndex
        BY <2>0, <2>2, <3>2, SourcesAssumption DEF Skip, Sources
      <4>2. sources[j].consumed = sources[j].arrived
        BY <2>2, <4>1, ExhaustedMeaning DEF Skip
      <4> QED
        BY <2>2, <4>1, <4>2 DEF Skip, IInv, ClosedComplete
    <3> QED
      BY <2>0, <3>1, <3>2, SourcesAssumption DEF Sources
  <2>3. CASE ReadChunk
    <3>1. /\ sources' = [sources EXCEPT ![currentIndex].consumed =
                           sources[currentIndex].consumed
                             + (sources'[currentIndex].consumed - sources[currentIndex].consumed)]
          /\ UNCHANGED <<currentIndex, cutOff>>
      BY <2>3, ReadChunkMeaning
    <3>2. \A j \in Sources : j < currentIndex => sources'[j] = sources[j]
      BY <2>0, <3>1, SourcesAssumption DEF Sources
    <3> QED
      BY <3>1, <3>2 DEF NothingSkipped
  <2>4. ASSUME UNCHANGED <<sources, currentIndex, cutOff>> PROVE NothingSkipped'
    BY <2>4 DEF NothingSkipped
  <2> QED
    BY <2>1, <2>2, <2>3, <2>4 DEF Next, Ask, Read, NothingNow, BytesThere, BytesToRead, vars
<1> QED
  BY <1>1, <1>2, Invariant, PTL DEF Spec
-----------------------------------------------------------------------------
(* Order.                                                                  *)

\* Where the output stands: its last byte is the last one consumed of its
\* source, and nothing was consumed of any later source.
Frontier ==
  /\ produced = <<>> => \A j \in Sources : sources[j].consumed = 0
  /\ produced # <<>> =>
       LET last == produced[Len(produced)] IN
       /\ last[1] <= currentIndex
       /\ last[2] = sources[last[1]].consumed
       /\ \A j \in Sources : last[1] < j => sources[j].consumed = 0

\* A function over 1..n is a sequence of length n.
LEMMA FunctionIsSequence ==
  ASSUME NEW T, NEW n \in Nat, NEW f \in [1..n -> T]
  PROVE  f \in Seq(T) /\ Len(f) = n
  OBVIOUS

\* An output with a piece of source i put behind it.
LEMMA AppendedChunk ==
  ASSUME NEW S \in SUBSET Nat, NEW i \in S, NEW c \in Nat, NEW n \in Nat,
         NEW s \in Seq(S \X Nat)
  PROVE  LET t == s \o [k \in 1..n |-> <<i, c + k>>] IN
         /\ t \in Seq(S \X Nat)
         /\ Len(t) = Len(s) + n
         /\ \A k \in 1..Len(s) : t[k] = s[k]
         /\ \A k \in (Len(s) + 1)..(Len(s) + n) : t[k] = <<i, c + (k - Len(s))>>
<1> DEFINE T == S \X Nat
           chunk == [k \in 1..n |-> <<i, c + k>>]
           t == s \o chunk
<1>1. chunk \in [1..n -> T] /\ \A k \in 1..n : chunk[k] = <<i, c + k>>
  OBVIOUS
<1> HIDE DEF T, chunk, t
<1>2. chunk \in Seq(T) /\ Len(chunk) = n
  BY <1>1, FunctionIsSequence
<1>3. s \in Seq(T) /\ t = s \o chunk
  BY DEF T, chunk, t
<1>4. /\ t \in Seq(T) /\ Len(t) = Len(s) + n
      /\ \A k \in 1..(Len(s) + n) : t[k] = IF k <= Len(s) THEN s[k] ELSE chunk[k - Len(s)]
  <2>1. \A x, y \in Seq(T) :
          /\ x \o y \in Seq(T) /\ Len(x \o y) = Len(x) + Len(y)
          /\ \A k \in 1..(Len(x) + Len(y)) :
               (x \o y)[k] = IF k <= Len(x) THEN x[k] ELSE y[k - Len(x)]
    BY ConcatProperties
  <2>2. /\ s \o chunk \in Seq(T) /\ Len(s \o chunk) = Len(s) + Len(chunk)
        /\ \A k \in 1..(Len(s) + Len(chunk)) :
             (s \o chunk)[k] = IF k <= Len(s) THEN s[k] ELSE chunk[k - Len(s)]
    BY <1>2, <1>3, <2>1, Zenon
  <2> QED
    BY <1>2, <1>3, <2>2
<1>5. Len(s) \in Nat
  BY <1>3
<1>6. \A k \in 1..Len(s) : t[k] = s[k]
  BY <1>4, <1>5
<1>7. ASSUME NEW k \in (Len(s) + 1)..(Len(s) + n) PROVE t[k] = <<i, c + (k - Len(s))>>
  <2>0. k \in 1..(Len(s) + n) /\ ~(k <= Len(s)) /\ k - Len(s) \in 1..n
    BY <1>5, <1>7
  <2>1. t[k] = chunk[k - Len(s)] /\ k - Len(s) \in 1..n
    BY <1>4, <2>0
  <2> QED
    BY <2>1, <1>1
<1> QED
  BY <1>4, <1>6, <1>7 DEF T, chunk, t

\* A piece of a source put behind an output that is in order.
LEMMA ChunkKeepsOrder ==
  ASSUME IInv, InOrder, Frontier, ReadChunk
  PROVE  InOrder' /\ Frontier'
<1> DEFINE i == currentIndex
           c == sources[i].consumed
           n == sources'[i].consumed - c
           chunk == [k \in 1..n |-> <<i, c + k>>]
           L == Len(produced)
<1>1. /\ i \in Sources /\ n \in Nat
      /\ sources' = [sources EXCEPT ![i].consumed = c + n]
      /\ produced' = produced \o chunk /\ currentIndex' = i
  BY ReadChunkMeaning
<1>2. c \in Nat /\ produced \in Seq(Sources \X Nat) /\ Sources \subseteq Nat
  <2>1. Sources = 1..Len(Lengths)
    BY SourcesAssumption DEF Sources
  <2>2. sources[i] \in Stream
    BY <1>1 DEF IInv, TypeOK
  <2> QED
    BY <2>1, <2>2 DEF IInv, TypeOK, Stream
<1>3. \A j \in Sources : sources'[j].consumed = IF j = i THEN c + n ELSE sources[j].consumed
  BY <1>1 DEF IInv, TypeOK, Stream
<1> HIDE DEF n, c
<1>4. /\ produced' \in Seq(Sources \X Nat)
      /\ Len(produced') = L + n
      /\ \A k \in 1..L : produced'[k] = produced[k]
      /\ \A k \in (L + 1)..(L + n) : produced'[k] = <<i, c + (k - L)>>
  <2>1. Sources \in SUBSET Nat /\ i \in Sources /\ c \in Nat /\ n \in Nat
    BY <1>1, <1>2
  <2>2. produced \in Seq(Sources \X Nat) /\ produced' = produced \o [k \in 1..n |-> <<i, c + k>>]
    BY <1>1, <1>2
  <2> DEFINE t == produced \o [k \in 1..n |-> <<i, c + k>>]
  <2>3. /\ t \in Seq(Sources \X Nat) /\ Len(t) = Len(produced) + n
        /\ \A k \in 1..Len(produced) : t[k] = produced[k]
        /\ \A k \in (Len(produced) + 1)..(Len(produced) + n) :
             t[k] = <<i, c + (k - Len(produced))>>
    <3> HIDE DEF i
    <3> QED
      BY <2>1, <2>2, AppendedChunk
  <2> QED
    BY <2>2, <2>3
<1>5. CASE n = 0
  <2>1. produced' = produced
    BY <1>1, <1>2, <1>5, ConcatEmptySeq
  <2>2. \A j \in Sources : sources'[j].consumed = sources[j].consumed
    BY <1>2, <1>3, <1>5 DEF c
  <2>3. Frontier'
    <3>1. produced # <<>> => produced[L][1] \in Sources
      BY <1>2
    <3> QED
      BY <1>1, <2>1, <2>2, <3>1 DEF Frontier
  <2> QED
    BY <2>1, <2>3 DEF InOrder
<1>6. CASE n > 0
  <2>1. InOrder'
    <3> SUFFICES ASSUME NEW k \in DOMAIN produced'
                 PROVE  IF k > 1 /\ produced'[k - 1][1] = produced'[k][1]
                        THEN produced'[k][2] = produced'[k - 1][2] + 1
                        ELSE produced'[k][2] = 1
                               /\ (k > 1 => produced'[k - 1][1] < produced'[k][1])
      BY DEF InOrder
    <3>1. k \in 1..(L + n) /\ L \in Nat
      BY <1>2, <1>4
    <3>2. CASE k <= L
      <4>1. k \in DOMAIN produced /\ k \in 1..L /\ (k > 1 => k - 1 \in 1..L)
        BY <1>2, <3>1, <3>2
      <4>2. produced'[k] = produced[k] /\ (k > 1 => produced'[k - 1] = produced[k - 1])
        BY <1>4, <4>1
      <4> QED
        BY <4>1, <4>2 DEF InOrder
    <3>3. CASE k = L + 1
      <4>1. produced'[k] = <<i, c + 1>>
        BY <1>1, <1>4, <1>6, <3>1, <3>3
      <4>2. CASE L = 0
        BY <1>1, <1>2, <3>3, <4>1, <4>2 DEF Frontier, c
      <4>3. CASE L > 0
        <5>1. /\ produced'[k - 1] = produced[L] /\ produced[L][1] <= i
              /\ produced[L][2] = sources[produced[L][1]].consumed
              /\ produced[L][1] < i => c = 0
          <6>1. k - 1 = L /\ L \in 1..L
            BY <3>1, <3>3, <4>3
          <6>2. produced'[k - 1] = produced[L]
            BY <1>4, <6>1
          <6>3. produced # <<>>
            BY <4>3
          <6>4. /\ produced[L][1] <= i
                /\ produced[L][2] = sources[produced[L][1]].consumed
                /\ \A j \in Sources : produced[L][1] < j => sources[j].consumed = 0
            BY <6>3 DEF Frontier
          <6> QED
            BY <1>1, <6>2, <6>4 DEF c
        <5>2. produced[L][1] \in Nat /\ i \in Nat
          BY <1>1, <1>2, <4>3
        <5> QED
          BY <1>2, <3>1, <3>3, <4>1, <4>3, <5>1, <5>2 DEF c
      <4> QED
        BY <3>1, <4>2, <4>3
    <3>4. CASE k > L + 1
      <4>1. k \in (L + 1)..(L + n) /\ k - 1 \in (L + 1)..(L + n)
        BY <1>1, <3>1, <3>4
      <4>2. produced'[k] = <<i, c + (k - L)>> /\ produced'[k - 1] = <<i, c + (k - 1 - L)>>
        BY <1>4, <4>1
      <4> QED
        BY <1>2, <3>1, <3>4, <4>2
    <3> QED
      BY <3>1, <3>2, <3>3, <3>4
  <2>2. Frontier'
    <3>1. produced'[Len(produced')] = <<i, c + n>> /\ produced' # <<>>
      <4>1. L \in Nat /\ L + n \in (L + 1)..(L + n)
        BY <1>1, <1>2, <1>6
      <4>2. produced'[L + n] = <<i, c + (L + n - L)>> /\ Len(produced') # 0
        BY <1>1, <1>4, <1>6, <4>1
      <4> QED
        BY <1>1, <1>4, <4>1, <4>2
    <3>2. \A j \in Sources : i < j => sources[j].consumed = 0
      <4>1. CASE produced = <<>>
        BY <4>1 DEF Frontier
      <4>2. CASE produced # <<>>
        <5>1. produced[L][1] <= i /\ \A j \in Sources : produced[L][1] < j => sources[j].consumed = 0
          BY <4>2 DEF Frontier
        <5>2. produced[L][1] \in Nat /\ i \in Nat
          BY <1>1, <1>2, <4>2
        <5> QED
          BY <1>2, <5>1, <5>2
      <4> QED
        BY <4>1, <4>2
    <3>3. i \in Nat /\ sources'[i].consumed = c + n
      BY <1>1, <1>2, <1>3
    <3>4. \A j \in Sources : i < j => sources'[j].consumed = 0
      BY <1>2, <1>3, <3>2, <3>3
    <3>5. <<i, c + n>>[1] = i /\ <<i, c + n>>[2] = c + n /\ i <= currentIndex'
      BY <1>1, <3>3
    <3> QED
      BY <3>1, <3>3, <3>4, <3>5 DEF Frontier
  <2> QED
    BY <2>1, <2>2
<1> QED
  BY <1>1, <1>5, <1>6

\* The output is the sources' bytes one after another, in order.
THEOREM OutputInOrder == Spec => [](InOrder /\ Frontier)
<1>1. Init => InOrder /\ Frontier
  BY DEF Init, InOrder, Frontier
<1>2. IInv /\ InOrder /\ Frontier /\ [Next]_vars => (InOrder /\ Frontier)'
  <2> SUFFICES ASSUME IInv, InOrder, Frontier, [Next]_vars PROVE InOrder' /\ Frontier'
    OBVIOUS
  <2>0. /\ sources \in [Sources -> Stream] /\ produced \in Seq(Sources \X Nat)
        /\ currentIndex \in Nat /\ Sources \subseteq Nat
    BY SourcesAssumption DEF IInv, TypeOK, Sources
  <2>1. ASSUME produced' = produced, currentIndex' \in Nat, currentIndex <= currentIndex',
               \A j \in Sources : sources'[j].consumed = sources[j].consumed
        PROVE  InOrder' /\ Frontier'
    <3> DEFINE last == produced[Len(produced)]
    <3>1. produced # <<>> => last[1] \in Sources
      BY <2>0
    <3>2. ASSUME produced # <<>>
          PROVE  last[1] <= currentIndex' /\ last[2] = sources'[last[1]].consumed
      <4>1. last[1] <= currentIndex /\ last[2] = sources[last[1]].consumed
        BY <3>2 DEF Frontier
      <4>2. last[1] \in Sources /\ last[1] \in Nat
        BY <2>0, <3>1, <3>2
      <4> HIDE DEF last
      <4> QED
        BY <2>0, <2>1, <4>1, <4>2
    <3>3. produced # <<>> => \A j \in Sources : last[1] < j => sources'[j].consumed = 0
      BY <2>1 DEF Frontier
    <3>4. Frontier'
      BY <2>1, <3>2, <3>3 DEF Frontier
    <3> QED
      BY <2>1, <3>4 DEF InOrder
  <2>2. ASSUME NEW i \in Sockets, Arrive(i) \/ CloseRemote(i) \/ Reset(i) \/ Discard(i)
        PROVE  InOrder' /\ Frontier'
    <3>1. \A j \in Sources : sources'[j].consumed = sources[j].consumed
      <4> SUFFICES ASSUME NEW j \in Sources PROVE sources'[j].consumed = sources[j].consumed
        OBVIOUS
      <4>1. sources[j] \in Stream /\ i \in Sources
        BY <2>0, SourcesAssumption DEF Sources
      <4>2. CASE j # i
        BY <2>0, <2>2, <4>1, <4>2 DEF Arrive, CloseRemote, Reset, Discard
      <4>3. CASE j = i
        BY <2>0, <2>2, <4>1, <4>3 DEF Arrive, CloseRemote, Reset, Discard, Stream
      <4> QED
        BY <4>2, <4>3
    <3> QED
      BY <2>0, <2>1, <2>2, <3>1 DEF Arrive, CloseRemote, Reset, Discard
  <2>3. CASE Skip
    BY <2>0, <2>1, <2>3 DEF Skip
  <2>4. CASE ReadChunk
    BY <2>4, ChunkKeepsOrder
  <2>5. CASE UNCHANGED <<sources, currentIndex, produced>>
    BY <2>0, <2>1, <2>5
  <2> QED
    BY <2>2, <2>3, <2>4, <2>5 DEF Next, Ask, Read, NothingNow, BytesThere, BytesToRead, vars
<1> QED
  BY <1>1, <1>2, Invariant, PTL DEF Spec

-----------------------------------------------------------------------------
(* Short reads.                                                            *)

\* A read that asks gives up only at a source that is alive and has nothing, or
\* behind the last source.
LEMMA NothingNowMeaning ==
  ASSUME IInv, NothingNow
  PROVE  NothingThere
<1> SUFFICES ASSUME NEW i \in Sources, currentIndex <= i,
                    \A j \in currentIndex..(i - 1) : AtEnd(sources[j])
             PROVE  PendingBytes(sources[i]) = 0
  BY DEF NothingThere
<1>1. i \in Nat /\ currentIndex \in Nat /\ currentIndex \in Sources
  BY SourcesAssumption DEF IInv, TypeOK, Sources
<1>2. /\ PendingBytes(sources[currentIndex]) = 0
      /\ ~sources[currentIndex].closed /\ ~sources[currentIndex].reset
  BY <1>1, UnavailableMeaning DEF NothingNow
<1>3. CASE i = currentIndex
  BY <1>2, <1>3
<1>4. CASE i # currentIndex
  <2>1. currentIndex \in currentIndex..(i - 1)
    BY <1>1, <1>4
  <2>2. AtEnd(sources[currentIndex])
    BY <2>1
  <2> QED
    BY <1>2, <2>2 DEF AtEnd
<1> QED
  BY <1>3, <1>4

\* A turn of the loop with which the read returns has filled the buffer, or found
\* nothing of what the source had said it had.
LEMMA LastTurn ==
  ASSUME IInv, ReadChunk, call' = "none"
  PROVE  Len(produced') - Len(produced) = want \/ Discarded(currentIndex)
<1> DEFINE i == currentIndex
           n == sources'[i].consumed - sources[i].consumed
<1>1. /\ i \in Sources /\ n \in Nat /\ n <= want
      /\ produced' = produced \o [k \in 1..n |-> <<i, sources[i].consumed + k>>]
      /\ n = 0 => PendingBytes(sources[i]) = 0
      /\ IF 0 < n /\ n < want THEN want' = want - n /\ call' = "read"
                               ELSE call' = "none" /\ want' = 0
  BY ReadChunkMeaning
<1> HIDE DEF n
<1>2. n = want \/ n = 0
  BY <1>1 DEF IInv, TypeOK
<1>3. n = 0 => Discarded(currentIndex)
  BY <1>1 DEF ReadChunk, IInv, Told
<1>4. Sources \in SUBSET Nat /\ sources[i].consumed \in Nat /\ produced \in Seq(Sources \X Nat)
  <2>1. Sources \in SUBSET Nat
    BY SourcesAssumption DEF Sources
  <2>2. sources[i] \in Stream /\ produced \in Seq(Sources \X Nat)
    BY <1>1 DEF IInv, TypeOK
  <2> QED
    BY <2>1, <2>2 DEF Stream
<1>5. Len(produced') = Len(produced) + n
  BY <1>1, <1>4, AppendedChunk
<1>6. Len(produced') - Len(produced) = n
  BY <1>1, <1>4, <1>5
<1> QED
  BY <1>2, <1>3, <1>6

\* A read that returns less than it was asked for leaves nothing pending in the
\* first source that is not at its end, unless a reset discarded what it was told
\* of: for any number of sources, on any of the hosts.
THEOREM ShortReadsHonest == Spec => ShortReadMeansNothingThere
<1>1. ASSUME IInv, [Next]_vars, call' = "none", Len(produced') - Len(produced) < want
      PROVE  NothingThere' \/ (call = "copy" /\ Discarded(currentIndex))
  <2>1. CASE NothingNow
    <3>1. NothingThere /\ UNCHANGED <<sources, currentIndex>>
      BY <1>1, <2>1, NothingNowMeaning DEF NothingNow
    <3> QED
      BY <3>1 DEF NothingThere, AtEnd, PendingBytes
  <2>2. CASE ReadChunk
    <3>1. Len(produced') - Len(produced) = want \/ Discarded(currentIndex)
      BY <1>1, <2>2, LastTurn
    <3>2. want \in Nat /\ call = "copy"
      BY <1>1, <2>2 DEF ReadChunk, IInv, TypeOK
    <3> QED
      BY <1>1, <3>1, <3>2
  <2>3. CASE \/ \E k \in Sockets : Arrive(k) \/ CloseRemote(k) \/ Reset(k) \/ Discard(k)
             \/ BytesThere \/ UNCHANGED vars
    <3>1. produced' = produced /\ produced \in Seq(Sources \X Nat)
      BY <1>1, <2>3 DEF Arrive, CloseRemote, Reset, Discard, BytesThere, vars, IInv, TypeOK
    <3>2. want = 0
      <4>1. call \in {"none", "available"}
        BY <1>1, <2>3 DEF Arrive, CloseRemote, Reset, Discard, BytesThere, vars
      <4> QED
        BY <1>1, <4>1 DEF IInv, TypeOK
    <3>3. Len(produced') - Len(produced) = 0
      BY <3>1
    <3> QED
      BY <1>1, <3>2, <3>3
  <2>4. CASE Ask \/ (\E size \in 1..MaxRead : Read(size)) \/ Skip \/ BytesToRead
    BY <1>1, <2>4 DEF Ask, Read, Skip, BytesToRead
  <2> QED
    BY <1>1, <2>1, <2>2, <2>3, <2>4 DEF Next
<1>2. IInv /\ [Next]_vars =>
        [call' = "none" /\ Len(produced') - Len(produced) < want =>
           NothingThere' \/ (call = "copy" /\ Discarded(currentIndex))]_vars
  BY <1>1
<1> QED
  BY <1>2, Invariant, PTL DEF Spec, ShortReadMeansNothingThere
=============================================================================
