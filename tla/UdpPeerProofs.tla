--------------------------- MODULE UdpPeerProofs ---------------------------
(***************************************************************************)
(* Theorems about UdpPeer for any number of peers and any bounds.          *)
(***************************************************************************)
EXTENDS UdpPeer, SequenceTheorems, TLAPS

-----------------------------------------------------------------------------
(* Type correctness.                                                       *)

\* A tail of a packet is a sequence of bytes again.
LEMMA UnreadType ==
  ASSUME TypeOK, NEW p \in Peers
  PROVE  Unread(p) \in Seq(Byte)
  BY DEF TypeOK, Unread

\* What a socket closing leaves is well typed.
LEMMA ResetType ==
  ASSUME TypeOK, NEW p \in Peers, Reset(p), socket' \in [Peers -> BOOLEAN]
  PROVE  TypeOK'
<1>1. <<>> \in Seq(Byte) /\ <<>> \in Seq(Datagram) /\ NoPeer \in Byte /\ 0 \in Nat
  BY DEF Byte
<1>2. queue' \in [Peers -> Seq(Datagram)] /\ sent' \in SUBSET Datagram
  BY <1>1 DEF TypeOK, Reset
<1>3. inboundPacket' \in [Peers -> Seq(Byte)] /\ outboundPacket' \in [Peers -> Seq(Byte)]
  BY <1>1 DEF TypeOK, Reset
<1>4. taken' \in [Peers -> Seq(Byte)] /\ mark' \in [Peers -> Byte]
  BY <1>1 DEF TypeOK, Reset
<1>5. inboundOffset' \in [Peers -> Nat]
  BY <1>1 DEF TypeOK, Reset
<1>6. /\ outboundDestination' \in [Peers -> Peers \cup {NoPeer}]
      /\ remoteAddress' \in [Peers -> Peers \cup {NoPeer}]
  BY DEF TypeOK, Reset
<1> QED
  BY <1>2, <1>3, <1>4, <1>5, <1>6 DEF TypeOK

\* A step of read keeps what was taken a sequence of bytes.
LEMMA ReadType ==
  ASSUME TypeOK, NEW p \in Peers, NEW size \in 1..MaxPacket, Read(p, size)
  PROVE  TypeOK'
<1> DEFINE copied == IF size <= Len(Unread(p)) THEN size ELSE Len(Unread(p))
<1>1. Unread(p) \in Seq(Byte) /\ copied \in Nat /\ copied <= Len(Unread(p))
  BY UnreadType, BoundsAssumption
<1>2. SubSeq(Unread(p), 1, copied) \in Seq(Byte)
  BY <1>1
<1>3. taken' = [taken EXCEPT ![p] = @ \o SubSeq(Unread(p), 1, copied)]
  BY DEF Read
<1>4. taken' \in [Peers -> Seq(Byte)]
  BY <1>2, <1>3 DEF TypeOK
<1>5. inboundOffset' \in [Peers -> Nat] /\ inboundPacket' \in [Peers -> Seq(Byte)]
  BY <1>1 DEF Read, TypeOK
<1> QED
  BY <1>4, <1>5 DEF Read, TypeOK, outbound

\* Every variable keeps its type.
THEOREM TypeCorrect == Spec => []TypeOK
<1>1. Init => TypeOK
  BY DEF Init, TypeOK, Byte, Datagram
<1>2. TypeOK /\ [Next]_vars => TypeOK'
  <2> SUFFICES ASSUME TypeOK, [Next]_vars PROVE TypeOK'
    OBVIOUS
  <2>1. ASSUME NEW p \in Peers, Begin(p) PROVE TypeOK'
    <3>1. socket' \in [Peers -> BOOLEAN]
      BY <2>1 DEF Begin, TypeOK
    <3> QED
      BY <2>1, <3>1, ResetType DEF Begin
  <2>2. ASSUME NEW p \in Peers, Stop(p) PROVE TypeOK'
    <3>1. socket' \in [Peers -> BOOLEAN]
      BY <2>2 DEF Stop, TypeOK
    <3> QED
      BY <2>2, <3>1, ResetType DEF Stop
  <2>3. ASSUME NEW p \in Peers, NEW q \in Peers, BeginPacket(p, q) PROVE TypeOK'
    <3>1. <<>> \in Seq(Byte) /\ q \in Byte
      BY DEF Byte
    <3>2. outboundPacket' \in [Peers -> Seq(Byte)] /\ mark' \in [Peers -> Byte]
      BY <2>3, <3>1 DEF BeginPacket, TypeOK
    <3>3. outboundDestination' \in [Peers -> Peers \cup {NoPeer}]
      BY <2>3 DEF BeginPacket, TypeOK
    <3> QED
      BY <2>3, <3>2, <3>3 DEF BeginPacket, TypeOK, inbound
  <2>4. ASSUME NEW p \in Peers, Write(p) PROVE TypeOK'
    BY <2>4 DEF Write, TypeOK, inbound
  <2>5. ASSUME NEW p \in Peers, EndPacket(p) PROVE TypeOK'
    <3>1. [from |-> p, to |-> outboundDestination[p], data |-> outboundPacket[p]] \in Datagram
      BY <2>5 DEF EndPacket, TypeOK, Datagram
    <3>2. sent' \in SUBSET Datagram
      BY <2>5, <3>1 DEF EndPacket, TypeOK
    <3>3. outboundPacket' \in [Peers -> Seq(Byte)] /\ mark' \in [Peers -> Byte]
      <4>1. <<>> \in Seq(Byte) /\ NoPeer \in Byte
        BY DEF Byte
      <4> QED
        BY <2>5, <4>1 DEF EndPacket, TypeOK
    <3>4. outboundDestination' \in [Peers -> Peers \cup {NoPeer}]
      BY <2>5 DEF EndPacket, TypeOK
    <3> QED
      BY <2>5, <3>2, <3>3, <3>4 DEF EndPacket, TypeOK, inbound
  <2>6. ASSUME NEW d \in sent, Deliver(d) PROVE TypeOK'
    <3>1. d \in Datagram /\ d.to \in Peers
      BY <2>6 DEF TypeOK, Datagram
    <3>2. queue' \in [Peers -> Seq(Datagram)]
      BY <2>6, <3>1 DEF Deliver, TypeOK
    <3> QED
      BY <2>6, <3>2 DEF Deliver, TypeOK, inbound, outbound
  <2>7. ASSUME NEW p \in Peers, ParsePacket(p) PROVE TypeOK'
    <3>1. Head(queue[p]) \in Datagram /\ Tail(queue[p]) \in Seq(Datagram)
      BY <2>7 DEF ParsePacket, TypeOK
    <3>2. Head(queue[p]).data \in Seq(Byte) /\ Head(queue[p]).from \in Peers
      BY <3>1 DEF Datagram
    <3>3. queue' \in [Peers -> Seq(Datagram)]
      BY <2>7, <3>1 DEF ParsePacket, TypeOK
    <3>4. inboundPacket' \in [Peers -> Seq(Byte)] /\ taken' \in [Peers -> Seq(Byte)]
      BY <2>7, <3>2 DEF ParsePacket, TypeOK
    <3>5. inboundOffset' \in [Peers -> Nat] /\ remoteAddress' \in [Peers -> Peers \cup {NoPeer}]
      BY <2>7, <3>2 DEF ParsePacket, TypeOK
    <3> QED
      BY <2>7, <3>3, <3>4, <3>5 DEF ParsePacket, TypeOK, outbound
  <2>8. ASSUME NEW p \in Peers, NEW size \in 1..MaxPacket, Read(p, size) PROVE TypeOK'
    BY <2>8, ReadType
  <2>9. ASSUME NEW p \in Peers, ParseEmptyPacket(p) PROVE TypeOK'
    <3>1. Tail(queue[p]) \in Seq(Datagram)
      BY <2>9 DEF ParseEmptyPacket, TypeOK
    <3>2. queue' \in [Peers -> Seq(Datagram)]
      BY <2>9, <3>1 DEF ParseEmptyPacket, TypeOK
    <3> QED
      BY <2>9, <3>2 DEF ParseEmptyPacket, TypeOK, inbound, outbound
  <2>10. CASE UNCHANGED vars
    BY <2>10 DEF TypeOK, vars, inbound, outbound
  <2> QED
    BY <2>1, <2>2, <2>3, <2>4, <2>5, <2>6, <2>7, <2>8, <2>9, <2>10 DEF Next, BeginMulticast
<1> QED
  BY <1>1, <1>2, PTL DEF Spec
-----------------------------------------------------------------------------
(* The inbound offset.                                                     *)

\* The offset of every peer is inside its packet, or 0: begin and stop reset
\* both, parsePacket starts a packet at 0 and read clears the one it finishes.
THEOREM OffsetStaysInside == Spec => []OffsetInsidePacket
<1>1. Init => OffsetInsidePacket
  BY DEF Init, OffsetInsidePacket
<1>2. TypeOK /\ OffsetInsidePacket /\ [Next]_vars => OffsetInsidePacket'
  <2> SUFFICES ASSUME TypeOK, OffsetInsidePacket, [Next]_vars,
                      NEW r \in Peers
               PROVE  inboundOffset'[r] < Len(inboundPacket'[r]) \/ inboundOffset'[r] = 0
    BY DEF OffsetInsidePacket
  <2> DEFINE Inside == inboundOffset'[r] < Len(inboundPacket'[r]) \/ inboundOffset'[r] = 0
             Same == inboundOffset' = inboundOffset /\ inboundPacket' = inboundPacket
  <2>1. CASE Same
    BY <2>1 DEF OffsetInsidePacket
  <2>2. ASSUME NEW p \in Peers, Reset(p) PROVE Inside
    BY <2>2 DEF Reset, TypeOK, OffsetInsidePacket
  <2>3. ASSUME NEW p \in Peers, ParsePacket(p) PROVE Inside
    BY <2>3 DEF ParsePacket, TypeOK, OffsetInsidePacket
  <2>4. ASSUME NEW p \in Peers, NEW size \in 1..MaxPacket, Read(p, size) PROVE Inside
    BY <2>4 DEF Read, TypeOK, OffsetInsidePacket
  <2>5. ASSUME NEW p \in Peers, NEW q \in Peers,
               BeginPacket(p, q) \/ Write(p) \/ EndPacket(p) PROVE Same
    BY <2>5 DEF BeginPacket, Write, EndPacket, inbound
  <2>6. ASSUME NEW d \in sent, Deliver(d) PROVE Same
    BY <2>6 DEF Deliver, inbound
  <2>7. ASSUME NEW p \in Peers, ParseEmptyPacket(p) PROVE Same
    BY <2>7 DEF ParseEmptyPacket, inbound
  <2>8. CASE UNCHANGED vars
    BY <2>8, <2>1 DEF vars, inbound
  <2> HIDE DEF Inside, Same
  <2> QED
    BY <2>1, <2>2, <2>3, <2>4, <2>5, <2>6, <2>7, <2>8
       DEF Next, Begin, BeginMulticast, Stop, Inside
<1> QED
  BY <1>1, <1>2, TypeCorrect, PTL DEF Spec

-----------------------------------------------------------------------------
(* Composing packets.                                                      *)

\* What is being composed for a destination was written since the beginPacket
\* that named it: the strengthening that makes UnmixedPackets inductive.
ComposedForDestination ==
  \A p \in Peers :
    outboundDestination[p] # NoPeer =>
      \A i \in DOMAIN outboundPacket[p] : outboundPacket[p][i] = outboundDestination[p]

MarkIsDestination ==
  \A p \in Peers : outboundDestination[p] \in {NoPeer, mark[p]}

Composing == ComposedForDestination /\ MarkIsDestination

\* No datagram ever holds a byte written for another packet, be it after a
\* failed beginPacket, outside any packet, or before a stop.
THEOREM PacketsUnmixed == Spec => [](Composing /\ UnmixedPackets)
<1>1. Init => Composing /\ UnmixedPackets
  BY DEF Init, Composing, ComposedForDestination, MarkIsDestination, UnmixedPackets
<1>2. TypeOK /\ Composing /\ UnmixedPackets /\ [Next]_vars => (Composing /\ UnmixedPackets)'
  <2> SUFFICES ASSUME TypeOK, Composing, UnmixedPackets, [Next]_vars
               PROVE  Composing' /\ UnmixedPackets'
    OBVIOUS
  <2> DEFINE Same == /\ sent' = sent /\ mark' = mark
                     /\ outboundPacket' = outboundPacket
                     /\ outboundDestination' = outboundDestination
  <2>1. CASE Same
    BY <2>1 DEF Composing, ComposedForDestination, MarkIsDestination, UnmixedPackets
  <2>2. ASSUME NEW p \in Peers, Reset(p) PROVE Composing' /\ UnmixedPackets'
    <3>1. ComposedForDestination'
      BY <2>2 DEF Reset, TypeOK, Composing, ComposedForDestination
    <3>2. MarkIsDestination'
      BY <2>2 DEF Reset, TypeOK, Composing, MarkIsDestination
    <3> QED
      BY <2>2, <3>1, <3>2 DEF Reset, Composing, UnmixedPackets
  <2>3. ASSUME NEW p \in Peers, NEW q \in Peers, BeginPacket(p, q)
        PROVE  Composing' /\ UnmixedPackets'
    <3>1. ComposedForDestination'
      BY <2>3 DEF BeginPacket, TypeOK, Composing, ComposedForDestination
    <3>2. MarkIsDestination'
      BY <2>3 DEF BeginPacket, TypeOK, Composing, MarkIsDestination
    <3> QED
      BY <2>3, <3>1, <3>2 DEF BeginPacket, Composing, UnmixedPackets
  <2>4. ASSUME NEW p \in Peers, Write(p) PROVE Composing' /\ UnmixedPackets'
    <3>1. MarkIsDestination'
      BY <2>4 DEF Write, Composing, MarkIsDestination
    <3>2. ASSUME NEW r \in Peers, outboundDestination'[r] # NoPeer,
                 NEW i \in DOMAIN outboundPacket'[r]
          PROVE  outboundPacket'[r][i] = outboundDestination'[r]
      <4>1. outboundDestination[r] = mark[r] /\ outboundDestination' = outboundDestination
        BY <2>4, <3>2 DEF Write, Composing, MarkIsDestination
      <4>2. outboundPacket[r] \in Seq(Byte) /\ mark[r] \in Byte
        BY DEF TypeOK
      <4>3. \A j \in DOMAIN outboundPacket[r] : outboundPacket[r][j] = outboundDestination[r]
        BY <3>2, <4>1 DEF Composing, ComposedForDestination
      <4>4. CASE r = p
        <5>1. outboundPacket'[r] = Append(outboundPacket[r], mark[r])
          BY <2>4, <4>4 DEF Write, TypeOK
        <5> QED
          BY <5>1, <4>1, <4>2, <4>3, <3>2
      <4>5. CASE r # p
        BY <4>5, <4>1, <4>3, <3>2, <2>4 DEF Write, TypeOK
      <4> QED
        BY <4>4, <4>5
    <3> QED
      BY <2>4, <3>1, <3>2 DEF Write, Composing, ComposedForDestination, UnmixedPackets
  <2>5. ASSUME NEW p \in Peers, EndPacket(p) PROVE Composing' /\ UnmixedPackets'
    <3>1. ComposedForDestination'
      BY <2>5 DEF EndPacket, TypeOK, Composing, ComposedForDestination
    <3>2. MarkIsDestination'
      BY <2>5 DEF EndPacket, TypeOK, Composing, MarkIsDestination
    <3>3. \A i \in DOMAIN outboundPacket[p] : outboundPacket[p][i] = outboundDestination[p]
      BY <2>5 DEF EndPacket, Composing, ComposedForDestination
    <3>4. UnmixedPackets'
      BY <2>5, <3>3 DEF EndPacket, UnmixedPackets
    <3> QED
      BY <3>1, <3>2, <3>4 DEF Composing
  <2>6. ASSUME NEW d \in sent, Deliver(d) PROVE Same
    BY <2>6 DEF Deliver, outbound
  <2>7. ASSUME NEW p \in Peers, ParsePacket(p) PROVE Same
    BY <2>7 DEF ParsePacket, outbound
  <2>8. ASSUME NEW p \in Peers, NEW size \in 1..MaxPacket, Read(p, size) PROVE Same
    BY <2>8 DEF Read, outbound
  <2>9. ASSUME NEW p \in Peers, ParseEmptyPacket(p) PROVE Same
    BY <2>9 DEF ParseEmptyPacket, outbound
  <2>10. CASE UNCHANGED vars
    BY <2>10, <2>1 DEF vars, outbound
  <2> HIDE DEF Same
  <2> QED
    BY <2>1, <2>2, <2>3, <2>4, <2>5, <2>6, <2>7, <2>8, <2>9, <2>10
       DEF Next, Begin, BeginMulticast, Stop
<1> QED
  BY <1>1, <1>2, TypeCorrect, PTL DEF Spec
-----------------------------------------------------------------------------
(* Taking packets in.                                                      *)

\* What a kernel holds for a peer was sent to it: the strengthening that
\* carries PacketIntegrity over parsePacket.
QueueWasSent ==
  \A p \in Peers : \A i \in DOMAIN queue[p] : queue[p][i] \in sent /\ queue[p][i].to = p

\* What is left once the first element is gone was there before, one further on.
LEMMA TailElement ==
  ASSUME NEW S, NEW s \in Seq(S), s # <<>>, NEW i \in DOMAIN Tail(s)
  PROVE  i + 1 \in DOMAIN s /\ Tail(s)[i] = s[i + 1]
<1>1. Tail(s) \in Seq(S) /\ Len(Tail(s)) = Len(s) - 1 /\ Len(s) \in Nat
  BY HeadTailProperties
<1>2. i \in 1..(Len(s) - 1)
  BY <1>1
<1> QED
  BY <1>1, <1>2

\* Taking the first datagram out of a receive buffer keeps that.
LEMMA TailWasSent ==
  ASSUME TypeOK, QueueWasSent, NEW p \in Peers, queue[p] # <<>>, sent' = sent,
         queue' = [queue EXCEPT ![p] = Tail(@)]
  PROVE  QueueWasSent'
<1> SUFFICES ASSUME NEW r \in Peers, NEW i \in DOMAIN queue'[r]
             PROVE  queue'[r][i] \in sent' /\ queue'[r][i].to = r
  BY DEF QueueWasSent
<1>1. CASE r = p
  <2>1. queue'[r] = Tail(queue[r]) /\ queue[r] \in Seq(Datagram) /\ queue[r] # <<>>
    BY <1>1 DEF TypeOK
  <2>2. i \in DOMAIN Tail(queue[r])
    BY <2>1
  <2>3. i + 1 \in DOMAIN queue[r] /\ Tail(queue[r])[i] = queue[r][i + 1]
    BY <2>1, <2>2, TailElement
  <2>4. i + 1 \in DOMAIN queue[r] /\ queue'[r][i] = queue[r][i + 1]
    BY <2>1, <2>3
  <2> QED
    BY <2>4 DEF QueueWasSent
<1>2. CASE r # p
  BY <1>2 DEF TypeOK, QueueWasSent
<1> QED
  BY <1>1, <1>2

\* Dropping m elements and then n more is dropping m + n.
LEMMA SuffixOfSuffix ==
  ASSUME NEW S, NEW s \in Seq(S), NEW m \in 0..Len(s), NEW n \in 0..(Len(s) - m)
  PROVE  SubSeq(SubSeq(s, m + 1, Len(s)), n + 1, Len(s) - m) = SubSeq(s, m + n + 1, Len(s))
<1> DEFINE t == SubSeq(s, m + 1, Len(s))
           u == SubSeq(t, n + 1, Len(s) - m)
           v == SubSeq(s, m + n + 1, Len(s))
<1>1. t \in Seq(S) /\ Len(t) = Len(s) - m /\ \A i \in 1..(Len(s) - m) : t[i] = s[m + i]
  OBVIOUS
<1>2. u \in Seq(S) /\ Len(u) = Len(s) - m - n /\ \A i \in 1..(Len(s) - m - n) : u[i] = t[n + i]
  <2> HIDE DEF t
  <2> QED
    BY <1>1
<1>3. v \in Seq(S) /\ Len(v) = Len(s) - m - n /\ \A i \in 1..(Len(s) - m - n) : v[i] = s[m + n + i]
  OBVIOUS
<1> HIDE DEF t, u, v
<1>4. ASSUME NEW i \in 1..Len(u) PROVE u[i] = v[i]
  <2>1. i \in 1..(Len(s) - m - n) /\ n + i \in 1..(Len(s) - m)
    BY <1>2
  <2>2. u[i] = t[n + i]
    BY <1>2, <2>1
  <2>3. t[n + i] = s[m + (n + i)]
    BY <1>1, <2>1
  <2>4. m + (n + i) = m + n + i
    BY <2>1
  <2> QED
    BY <2>1, <2>2, <2>3, <2>4, <1>3
<1>5. u = v
  BY <1>2, <1>3, <1>4, SeqEqual
<1> QED
  BY <1>5 DEF t, u, v

\* One read moves a piece from the front of what is unread to the end of what
\* was taken.
LEMMA ReadSplits ==
  ASSUME TypeOK, OffsetInsidePacket, NEW p \in Peers, NEW size \in 1..MaxPacket, Read(p, size)
  PROVE  taken'[p] \o Unread(p)' = taken[p] \o Unread(p)
<1> DEFINE packet == inboundPacket[p]
           offset == inboundOffset[p]
           unread == Unread(p)
           copied == IF size <= Len(unread) THEN size ELSE Len(unread)
           piece  == SubSeq(unread, 1, copied)
           rest   == SubSeq(unread, copied + 1, Len(unread))
<1>1. packet \in Seq(Byte) /\ offset \in Nat /\ offset < Len(packet) /\ taken[p] \in Seq(Byte)
  BY DEF TypeOK, Read
<1>2. unread \in Seq(Byte) /\ Len(unread) = Len(packet) - offset
  <2>1. unread = SubSeq(packet, offset + 1, Len(packet))
    BY DEF Unread
  <2> HIDE DEF packet, offset, unread
  <2>2. /\ SubSeq(packet, offset + 1, Len(packet)) \in Seq(Byte)
        /\ Len(SubSeq(packet, offset + 1, Len(packet))) = Len(packet) - offset
    BY <1>1
  <2> QED
    BY <2>1, <2>2
<1>3. copied \in 1..Len(unread)
  BY <1>1, <1>2, BoundsAssumption
<1>4. piece \in Seq(Byte) /\ rest \in Seq(Byte)
  BY <1>2, <1>3
<1>5. piece \o rest = unread
  BY <1>2, <1>3, ConcatAdjacentSubSeq, SubSeqFull
<1>6. taken'[p] = taken[p] \o piece
  BY DEF Read, TypeOK
<1>7. Unread(p)' = rest
  <2>1. CASE copied = Len(unread)
    <3>1. inboundOffset'[p] = 0 /\ inboundPacket'[p] = <<>>
      BY <2>1, <1>1, <1>2 DEF Read, TypeOK
    <3>2. Unread(p)' = <<>>
      BY <3>1 DEF Unread
    <3>3. rest = <<>>
      BY <2>1, <1>2, SubSeqEmpty
    <3> QED
      BY <3>2, <3>3
  <2>2. CASE copied < Len(unread)
    <3>1. inboundOffset'[p] = offset + copied /\ inboundPacket'[p] = packet
      BY <2>2, <1>1, <1>2, <1>3 DEF Read, TypeOK
    <3>2. Unread(p)' = SubSeq(packet, offset + copied + 1, Len(packet))
      BY <3>1 DEF Unread
    <3>3. unread = SubSeq(packet, offset + 1, Len(packet))
      BY DEF Unread
    <3>4. offset \in 0..Len(packet) /\ copied \in 0..(Len(packet) - offset)
      BY <1>1, <1>2, <1>3
    <3>5. rest = SubSeq(packet, offset + copied + 1, Len(packet))
      <4> HIDE DEF unread, copied, packet, offset
      <4>1. SubSeq(SubSeq(packet, offset + 1, Len(packet)), copied + 1, Len(packet) - offset)
              = SubSeq(packet, offset + copied + 1, Len(packet))
        BY <1>1, <3>4, SuffixOfSuffix
      <4> QED
        BY <4>1, <3>3, <1>2
    <3> QED
      BY <3>2, <3>5
  <2> QED
    BY <2>1, <2>2, <1>2, <1>3
<1>8. \A s, t, u \in Seq(Byte) : (s \o t) \o u = s \o (t \o u)
  BY ConcatAssociative
<1> HIDE DEF piece, rest, unread
<1>9. (taken[p] \o piece) \o rest = taken[p] \o (piece \o rest)
  BY <1>1, <1>4, <1>8, Zenon
<1> QED
  BY <1>5, <1>6, <1>7, <1>9, Zenon DEF unread

\* What a peer has of a packet is, with what it still has to read, a datagram
\* that remoteAddress() sent to it, however often the network repeated it.
THEOREM PacketsWhole == Spec => [](QueueWasSent /\ PacketIntegrity)
<1>1. Init => QueueWasSent /\ PacketIntegrity
  BY DEF Init, QueueWasSent, PacketIntegrity
<1>2. /\ TypeOK /\ TypeOK' /\ OffsetInsidePacket /\ QueueWasSent /\ PacketIntegrity
      /\ [Next]_vars
      => (QueueWasSent /\ PacketIntegrity)'
  <2> SUFFICES ASSUME TypeOK, TypeOK', OffsetInsidePacket, QueueWasSent, PacketIntegrity,
                      [Next]_vars
               PROVE  QueueWasSent' /\ PacketIntegrity'
    OBVIOUS
  <2> DEFINE SameInbound == UNCHANGED <<inboundPacket, inboundOffset, remoteAddress, taken>>
             Good == QueueWasSent' /\ PacketIntegrity'
  <2>1. ASSUME SameInbound, queue' = queue, sent \subseteq sent' PROVE Good
    <3>1. QueueWasSent'
      BY <2>1 DEF QueueWasSent
    <3>2. PacketIntegrity'
      BY <2>1 DEF PacketIntegrity, Unread
    <3> QED
      BY <3>1, <3>2
  <2>2. ASSUME NEW p \in Peers, Reset(p) PROVE Good
    <3>1. QueueWasSent'
      BY <2>2 DEF Reset, TypeOK, QueueWasSent
    <3>2. PacketIntegrity'
      <4> SUFFICES ASSUME NEW r \in Peers, remoteAddress'[r] # NoPeer
                   PROVE  [from |-> remoteAddress'[r], to |-> r,
                           data |-> taken'[r] \o Unread(r)'] \in sent'
        BY DEF PacketIntegrity
      <4>1. r # p
        BY <2>2 DEF Reset, TypeOK
      <4>2. /\ remoteAddress'[r] = remoteAddress[r] /\ taken'[r] = taken[r] /\ sent' = sent
            /\ inboundPacket'[r] = inboundPacket[r] /\ inboundOffset'[r] = inboundOffset[r]
        BY <2>2, <4>1 DEF Reset, TypeOK
      <4> QED
        BY <4>2 DEF PacketIntegrity, Unread
    <3> QED
      BY <3>1, <3>2
  <2>3. ASSUME NEW d \in sent, Deliver(d) PROVE Good
    <3>1. d.to \in Peers
      BY <2>3 DEF TypeOK, Datagram
    <3>2. QueueWasSent'
      <4> SUFFICES ASSUME NEW r \in Peers, NEW i \in DOMAIN queue'[r]
                   PROVE  queue'[r][i] \in sent' /\ queue'[r][i].to = r
        BY DEF QueueWasSent
      <4>1. queue[r] \in Seq(Datagram) /\ sent' = sent
        BY <2>3 DEF TypeOK, Deliver
      <4>2. CASE r = d.to
        <5>1. queue'[r] = Append(queue[r], d)
          BY <4>2, <2>3, <3>1 DEF Deliver, TypeOK
        <5>2. i \in 1..Len(queue[r]) \/ i = Len(queue[r]) + 1
          BY <4>1, <5>1
        <5> QED
          BY <5>1, <5>2, <4>1, <4>2 DEF QueueWasSent
      <4>3. CASE r # d.to
        BY <4>3, <2>3, <3>1 DEF Deliver, TypeOK, QueueWasSent
      <4> QED
        BY <4>2, <4>3
    <3>3. PacketIntegrity'
      BY <2>3 DEF Deliver, inbound, PacketIntegrity, Unread
    <3> QED
      BY <3>2, <3>3
  <2>4. ASSUME NEW p \in Peers, ParsePacket(p) PROVE Good
    <3>1. queue[p] \in Seq(Datagram) /\ queue[p] # <<>> /\ sent' = sent
      BY <2>4 DEF ParsePacket, TypeOK
    <3>2. QueueWasSent'
      BY <2>4, <3>1, TailWasSent DEF ParsePacket
    <3>3. PacketIntegrity'
      <4> SUFFICES ASSUME NEW r \in Peers, remoteAddress'[r] # NoPeer
                   PROVE  [from |-> remoteAddress'[r], to |-> r,
                           data |-> taken'[r] \o Unread(r)'] \in sent'
        BY DEF PacketIntegrity
      <4>1. CASE r = p
        <5> DEFINE d == Head(queue[p])
        <5>1. d \in Datagram /\ d \in sent /\ d.to = p
          BY <3>1 DEF QueueWasSent
        <5>2. d = [from |-> d.from, to |-> p, data |-> d.data] /\ d.data \in Seq(Byte)
          BY <5>1 DEF Datagram
        <5>3. /\ inboundPacket'[p] = d.data /\ inboundOffset'[p] = 0
              /\ remoteAddress'[p] = d.from /\ taken'[p] = <<>>
          BY <2>4 DEF ParsePacket, TypeOK
        <5>4. Unread(p)' = d.data
          BY <5>2, <5>3, SubSeqFull DEF Unread
        <5>5. taken'[p] \o Unread(p)' = d.data
          BY <5>2, <5>3, <5>4, ConcatEmptySeq
        <5> QED
          BY <4>1, <5>1, <5>2, <5>3, <5>5, <3>1
      <4>2. CASE r # p
        <5>1. /\ remoteAddress'[r] = remoteAddress[r] /\ taken'[r] = taken[r]
              /\ inboundPacket'[r] = inboundPacket[r] /\ inboundOffset'[r] = inboundOffset[r]
          BY <2>4, <4>2 DEF ParsePacket, TypeOK
        <5> QED
          BY <5>1, <3>1 DEF PacketIntegrity, Unread
      <4> QED
        BY <4>1, <4>2
    <3> QED
      BY <3>2, <3>3
  <2>5. ASSUME NEW p \in Peers, NEW size \in 1..MaxPacket, Read(p, size) PROVE Good
    <3>1. sent' = sent /\ queue' = queue /\ remoteAddress' = remoteAddress
      BY <2>5 DEF Read
    <3>2. PacketIntegrity'
      <4> SUFFICES ASSUME NEW r \in Peers, remoteAddress[r] # NoPeer
                   PROVE  [from |-> remoteAddress[r], to |-> r,
                           data |-> taken'[r] \o Unread(r)'] \in sent
        BY <3>1 DEF PacketIntegrity
      <4>1. CASE r = p
        BY <4>1, <2>5, ReadSplits DEF PacketIntegrity
      <4>2. CASE r # p
        <5>1. /\ taken'[r] = taken[r]
              /\ inboundPacket'[r] = inboundPacket[r] /\ inboundOffset'[r] = inboundOffset[r]
          BY <2>5, <4>2 DEF Read, TypeOK
        <5> QED
          BY <5>1 DEF PacketIntegrity, Unread
      <4> QED
        BY <4>1, <4>2
    <3> QED
      BY <3>1, <3>2 DEF QueueWasSent
  <2>6. ASSUME NEW p \in Peers, NEW q \in Peers,
               BeginPacket(p, q) \/ Write(p) \/ EndPacket(p) PROVE Good
    BY <2>1, <2>6 DEF BeginPacket, Write, EndPacket, inbound
  <2>7. ASSUME NEW p \in Peers, ParseEmptyPacket(p) PROVE Good
    <3>1. QueueWasSent'
      BY <2>7, TailWasSent DEF ParseEmptyPacket
    <3>2. PacketIntegrity'
      BY <2>7 DEF ParseEmptyPacket, inbound, PacketIntegrity, Unread
    <3> QED
      BY <3>1, <3>2
  <2>8. CASE UNCHANGED vars
    BY <2>1, <2>8 DEF vars, inbound
  <2> HIDE DEF Good
  <2> QED
    BY <2>2, <2>3, <2>4, <2>5, <2>6, <2>7, <2>8 DEF Next, Begin, BeginMulticast, Stop, Good
<1> QED
  BY <1>1, <1>2, TypeCorrect, OffsetStaysInside, PTL DEF Spec
\* A packet in the middle of being read is given up only by begin and stop.
THEOREM PacketsReadToTheEnd == Spec => NoPacketCutShort
<1> DEFINE Kept(p) == Unread(p) # <<>> /\ inboundPacket'[p] # inboundPacket[p] =>
                        \/ taken'[p] = taken[p] \o Unread(p)
                        \/ remoteAddress'[p] = NoPeer
<1>1. TypeOK /\ [Next]_vars => \A p \in Peers : Kept(p)
  <2> SUFFICES ASSUME TypeOK, [Next]_vars, NEW r \in Peers,
                      Unread(r) # <<>>, inboundPacket'[r] # inboundPacket[r]
               PROVE  taken'[r] = taken[r] \o Unread(r) \/ remoteAddress'[r] = NoPeer
    OBVIOUS
  <2> DEFINE Goal == taken'[r] = taken[r] \o Unread(r) \/ remoteAddress'[r] = NoPeer
  <2>1. ASSUME NEW p \in Peers, Reset(p) PROVE Goal
    BY <2>1 DEF Reset, TypeOK
  <2>2. ASSUME NEW p \in Peers, ParsePacket(p) PROVE Goal
    <3>1. r = p
      BY <2>2 DEF ParsePacket, TypeOK
    <3>2. Unread(r) = <<>>
      BY <2>2, <3>1 DEF ParsePacket, TypeOK, Unread
    <3> QED
      BY <3>2
  <2>3. ASSUME NEW p \in Peers, NEW size \in 1..MaxPacket, Read(p, size) PROVE Goal
    <3> DEFINE copied == IF size <= Len(Unread(r)) THEN size ELSE Len(Unread(r))
    <3>1. r = p
      BY <2>3 DEF Read, TypeOK
    <3>2. Unread(r) \in Seq(Byte) /\ Len(Unread(r)) = Len(inboundPacket[r]) - inboundOffset[r]
      <4>1. /\ inboundPacket[r] \in Seq(Byte) /\ inboundOffset[r] \in Nat
            /\ inboundOffset[r] < Len(inboundPacket[r])
        BY <2>3, <3>1 DEF Read, TypeOK
      <4>2. \A m \in Seq(Byte) : \A k \in Nat :
              k < Len(m) => /\ SubSeq(m, k + 1, Len(m)) \in Seq(Byte)
                            /\ Len(SubSeq(m, k + 1, Len(m))) = Len(m) - k
        OBVIOUS
      <4> QED
        BY <4>1, <4>2, Zenon DEF Unread
    <3>3. inboundOffset[r] + copied >= Len(inboundPacket[r])
      BY <2>3, <3>1 DEF Read, TypeOK
    <3>4. copied = Len(Unread(r))
      <4>1. copied \in Nat /\ copied <= Len(Unread(r))
        BY <3>2, BoundsAssumption
      <4>2. inboundOffset[r] \in Nat /\ Len(inboundPacket[r]) \in Nat
        BY DEF TypeOK
      <4> HIDE DEF copied
      <4> QED
        BY <3>2, <3>3, <4>1, <4>2
    <3>5. taken'[r] = taken[r] \o SubSeq(Unread(r), 1, copied)
      BY <2>3, <3>1 DEF Read, TypeOK
    <3>6. SubSeq(Unread(r), 1, copied) = Unread(r)
      BY <3>2, <3>4, SubSeqFull
    <3> QED
      BY <3>5, <3>6
  <2>4. ASSUME NEW p \in Peers, NEW q \in Peers,
               BeginPacket(p, q) \/ Write(p) \/ EndPacket(p) PROVE FALSE
    BY <2>4 DEF BeginPacket, Write, EndPacket, inbound
  <2>5. ASSUME NEW d \in sent, Deliver(d) PROVE FALSE
    BY <2>5 DEF Deliver, inbound
  <2>6. ASSUME NEW p \in Peers, ParseEmptyPacket(p) PROVE FALSE
    BY <2>6 DEF ParseEmptyPacket, inbound
  <2>7. CASE UNCHANGED vars
    BY <2>7 DEF vars, inbound
  <2> HIDE DEF Goal
  <2>8. Goal
    BY <2>1, <2>2, <2>3, <2>4, <2>5, <2>6, <2>7 DEF Next, Begin, BeginMulticast, Stop, Goal
  <2> QED
    BY <2>8 DEF Goal
<1>2. TypeOK /\ [Next]_vars => [\A p \in Peers : Kept(p)]_vars
  BY <1>1
<1> QED
  BY <1>2, TypeCorrect, PTL DEF Spec, NoPacketCutShort

\* Nothing passes an empty datagram at the head of the receive buffer: only
\* closing the socket takes it away, and on Windows a parsePacket with bytes
\* behind it.
THEOREM EmptyDatagramStays == Spec => EmptyDatagramBlocksQueue
<1> DEFINE Stuck(p) ==
             queue[p] # <<>> /\ Head(queue[p]).data = <<>> =>
               \/ IsPrefix(queue[p], queue'[p])
               \/ queue'[p] = <<>> /\ remoteAddress'[p] = NoPeer
               \/ /\ p \in Windows /\ \E i \in DOMAIN queue[p] : queue[p][i].data # <<>>
                  /\ queue'[p] = Tail(queue[p]) /\ remoteAddress'[p] = remoteAddress[p]
<1>1. TypeOK /\ [Next]_vars => \A p \in Peers : Stuck(p)
  <2> SUFFICES ASSUME TypeOK, [Next]_vars, NEW r \in Peers,
                      queue[r] # <<>>, Head(queue[r]).data = <<>>
               PROVE  Stuck(r)
    OBVIOUS
  <2> DEFINE Dropped == /\ r \in Windows /\ \E i \in DOMAIN queue[r] : queue[r][i].data # <<>>
                        /\ queue'[r] = Tail(queue[r]) /\ remoteAddress'[r] = remoteAddress[r]
             Goal == \/ IsPrefix(queue[r], queue'[r])
                     \/ queue'[r] = <<>> /\ remoteAddress'[r] = NoPeer
                     \/ Dropped
  <2>1. queue[r] \in Seq(Datagram)
    BY DEF TypeOK
  <2>2. ASSUME queue'[r] = queue[r] PROVE Goal
    BY <2>1, <2>2 DEF IsPrefix
  <2>3. ASSUME NEW p \in Peers, Reset(p) PROVE Goal
    <3>1. CASE r = p
      BY <2>3, <3>1 DEF Reset, TypeOK
    <3>2. CASE r # p
      BY <2>2, <2>3, <3>2 DEF Reset, TypeOK
    <3> QED
      BY <3>1, <3>2
  <2>4. ASSUME NEW d \in sent, Deliver(d) PROVE Goal
    <3>1. CASE r = d.to
      <4>1. queue'[r] = Append(queue[r], d) /\ d \in Datagram
        BY <2>4, <3>1 DEF Deliver, TypeOK
      <4>2. Len(queue[r]) <= Len(Append(queue[r], d))
        BY <2>1, <4>1
      <4>3. SubSeq(queue[r], 1, Len(queue[r])) = SubSeq(Append(queue[r], d), 1, Len(queue[r]))
        BY <2>1, <4>1
      <4> QED
        BY <4>1, <4>2, <4>3 DEF IsPrefix
    <3>2. CASE r # d.to
      BY <2>2, <2>4, <3>2 DEF Deliver, TypeOK
    <3> QED
      BY <3>1, <3>2
  <2>5. ASSUME NEW p \in Peers, ParsePacket(p) PROVE Goal
    BY <2>2, <2>5 DEF ParsePacket, TypeOK
  <2>6. ASSUME NEW p \in Peers, NEW q \in Peers, BeginPacket(p, q) \/ Write(p) \/ EndPacket(p)
        PROVE  Goal
    BY <2>2, <2>6 DEF BeginPacket, Write, EndPacket
  <2>7. ASSUME NEW p \in Peers, NEW size \in 1..MaxPacket, Read(p, size) PROVE Goal
    BY <2>2, <2>7 DEF Read
  <2>8. ASSUME NEW p \in Peers, ParseEmptyPacket(p) PROVE Goal
    <3>1. CASE r = p
      BY <2>8, <3>1 DEF ParseEmptyPacket, TypeOK, inbound
    <3>2. CASE r # p
      BY <2>2, <2>8, <3>2 DEF ParseEmptyPacket, TypeOK
    <3> QED
      BY <3>1, <3>2
  <2>9. CASE UNCHANGED vars
    BY <2>2, <2>9 DEF vars
  <2> HIDE DEF Goal
  <2>10. Goal
    BY <2>3, <2>4, <2>5, <2>6, <2>7, <2>8, <2>9 DEF Next, Begin, BeginMulticast, Stop, Goal
  <2> QED
    BY <2>10 DEF Goal
<1>2. TypeOK /\ [Next]_vars => [\A p \in Peers : Stuck(p)]_vars
  BY <1>1
<1> QED
  BY <1>2, TypeCorrect, PTL DEF Spec, EmptyDatagramBlocksQueue
=============================================================================
