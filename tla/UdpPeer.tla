------------------------------ MODULE UdpPeer ------------------------------
(***************************************************************************)
(* PosixSocketPeer (posix/PosixSocketTransport.h) and WindowsPeer          *)
(* (windows/WindowsSocketTransport.h): datagrams composed by beginPacket,  *)
(* write and endPacket, and taken in by parsePacket and read.  The two run *)
(* the same statements, but FIONREAD counts the bytes of the first         *)
(* datagram on Linux, and those of all of them on Windows.                 *)
(*                                                                         *)
(* The network may lose, reorder and duplicate: whatever was sent may      *)
(* arrive at any later time, any number of times, or never.                *)
(*                                                                         *)
(* A byte is the address of the packet it was written for, so that a       *)
(* datagram shows which beginPacket each of its bytes belongs to.          *)
(***************************************************************************)
EXTENDS Naturals, Sequences, SequencesExt, FiniteSets

CONSTANTS
  Peers,      \* the sockets' owners; a peer is also its own address
  Windows,    \* the peers that run on Windows, the others running on Linux
  NoPeer,     \* no address
  MaxPacket,  \* bound: bytes in a packet
  MaxSent,    \* bound: different datagrams sent
  QueueSize,  \* bound: datagrams in a socket's receive buffer
  Receivers   \* bound: the peers datagrams get through to, all others being lost

ASSUME PeersAssumption ==
  NoPeer \notin Peers /\ Receivers \subseteq Peers /\ Windows \subseteq Peers
ASSUME BoundsAssumption == MaxPacket \in Nat /\ MaxSent \in Nat /\ QueueSize \in Nat

VARIABLES
  socket,               \* socket_.valid()
  inboundPacket, inboundOffset,
  outboundPacket, outboundDestination,
  remoteAddress,
  queue,                \* the kernel's receive buffer of each socket
  sent,                 \* history: the datagrams the network was given
  mark,                 \* history: the address of the packet each peer is composing
  taken                 \* history: what was read of the current packet

inbound == <<inboundPacket, inboundOffset, remoteAddress, taken>>
outbound == <<outboundPacket, outboundDestination, mark>>
vars == <<socket, queue, sent, inbound, outbound>>

Byte == Peers \cup {NoPeer}
Datagram == [from : Peers, to : Peers, data : Seq(Byte)]

Init ==
  /\ socket = [p \in Peers |-> FALSE]
  /\ inboundPacket = [p \in Peers |-> <<>>]
  /\ inboundOffset = [p \in Peers |-> 0]
  /\ outboundPacket = [p \in Peers |-> <<>>]
  /\ outboundDestination = [p \in Peers |-> NoPeer]
  /\ remoteAddress = [p \in Peers |-> NoPeer]
  /\ queue = [p \in Peers |-> <<>>]
  /\ sent = {}
  /\ mark = [p \in Peers |-> NoPeer]
  /\ taken = [p \in Peers |-> <<>>]

-----------------------------------------------------------------------------
(* The socket.                                                             *)

\* Closing the socket discards the kernel's receive buffer.
Reset(p) ==
  /\ queue' = [queue EXCEPT ![p] = <<>>]
  /\ inboundPacket' = [inboundPacket EXCEPT ![p] = <<>>]
  /\ inboundOffset' = [inboundOffset EXCEPT ![p] = 0]
  /\ outboundPacket' = [outboundPacket EXCEPT ![p] = <<>>]
  /\ outboundDestination' = [outboundDestination EXCEPT ![p] = NoPeer]
  /\ remoteAddress' = [remoteAddress EXCEPT ![p] = NoPeer]
  /\ taken' = [taken EXCEPT ![p] = <<>>]
  /\ mark' = [mark EXCEPT ![p] = NoPeer]
  /\ UNCHANGED sent

Stop(p) == Reset(p) /\ socket' = [socket EXCEPT ![p] = FALSE]

\* openSocket stops first; any of the calls after that may fail.
Begin(p) ==
  /\ Reset(p)
  /\ \E opened \in BOOLEAN : socket' = [socket EXCEPT ![p] = opened]

\* Joining the group may fail with the socket open and bound: beginMulticast
\* then returns false and closes nothing.
BeginMulticast(p) == Begin(p)

-----------------------------------------------------------------------------
(* Sending.                                                                *)

\* Mutant of BeginPacket: bytes of an abandoned packet are not cleared.
BeginPacketKeepingBytes(p, q) ==
  /\ mark' = [mark EXCEPT ![p] = q]
  /\ outboundDestination' = [outboundDestination EXCEPT ![p] = IF socket[p] THEN q ELSE NoPeer]
  /\ UNCHANGED <<socket, queue, sent, inbound, outboundPacket>>

\* The address may not resolve.
BeginPacket(p, q) ==
  /\ mark' = [mark EXCEPT ![p] = q]
  /\ outboundPacket' = [outboundPacket EXCEPT ![p] = <<>>]
  /\ \E destination \in IF socket[p] THEN {q, NoPeer} ELSE {NoPeer} :
       outboundDestination' = [outboundDestination EXCEPT ![p] = destination]
  /\ UNCHANGED <<socket, queue, sent, inbound>>

\* The socket is not asked: bytes written outside a packet are kept, too.
Write(p) ==
  /\ Len(outboundPacket[p]) < MaxPacket
  /\ outboundPacket' = [outboundPacket EXCEPT ![p] = Append(@, mark[p])]
  /\ UNCHANGED <<socket, queue, sent, inbound, outboundDestination, mark>>

\* Mutant of EndPacket: a packet without a destination is sent.
EndPacketUnaddressed(p) ==
  /\ socket[p]
  /\ sent' = sent \cup {[from |-> p, to |-> outboundDestination[p], data |-> outboundPacket[p]]}
  /\ Cardinality(sent') <= MaxSent
  /\ UNCHANGED <<socket, queue, inbound, outbound>>

\* The packet is gone whether or not sendto took it.
EndPacket(p) ==
  LET datagram == [from |-> p, to |-> outboundDestination[p], data |-> outboundPacket[p]] IN
  /\ socket[p] /\ outboundDestination[p] # NoPeer
  /\ sent' \in {sent, sent \cup {datagram}}
  /\ Cardinality(sent') <= MaxSent
  /\ outboundPacket' = [outboundPacket EXCEPT ![p] = <<>>]
  /\ outboundDestination' = [outboundDestination EXCEPT ![p] = NoPeer]
  /\ mark' = [mark EXCEPT ![p] = NoPeer]
  /\ UNCHANGED <<socket, queue, inbound>>

\* The network and the receiving kernel.
Deliver(d) ==
  /\ d.to \in Receivers /\ socket[d.to]
  /\ Len(queue[d.to]) < QueueSize
  /\ queue' = [queue EXCEPT ![d.to] = Append(@, d)]
  /\ UNCHANGED <<socket, sent, inbound, outbound>>

-----------------------------------------------------------------------------
(* Receiving.                                                              *)

Unread(p) == SubSeq(inboundPacket[p], inboundOffset[p] + 1, Len(inboundPacket[p]))

\* Mutants of ParsePacket: the rest of a packet is dropped for the next one; an
\* empty datagram is taken; the sender's address is that of an earlier packet.
Parse(p, d, remote) ==
  /\ queue' = [queue EXCEPT ![p] = Tail(@)]
  /\ inboundPacket' = [inboundPacket EXCEPT ![p] = d.data]
  /\ inboundOffset' = [inboundOffset EXCEPT ![p] = 0]
  /\ remoteAddress' = [remoteAddress EXCEPT ![p] = remote]
  /\ taken' = [taken EXCEPT ![p] = <<>>]
  /\ UNCHANGED <<socket, sent, outbound>>

ParsePacketDroppingRest(p) ==
  /\ socket[p] /\ queue[p] # <<>> /\ Head(queue[p]).data # <<>>
  /\ Parse(p, Head(queue[p]), Head(queue[p]).from)

ParsePacketTakingEmpty(p) ==
  /\ socket[p] /\ queue[p] # <<>> /\ Unread(p) = <<>>
  /\ Parse(p, Head(queue[p]), Head(queue[p]).from)

ParsePacketKeepingAddress(p) ==
  /\ socket[p] /\ queue[p] # <<>> /\ Unread(p) = <<>> /\ Head(queue[p]).data # <<>>
  /\ Parse(p, Head(queue[p]),
           IF remoteAddress[p] = NoPeer THEN Head(queue[p]).from ELSE remoteAddress[p])

\* Nothing is taken while bytes of the current packet are unread, or when
\* FIONREAD reports no bytes.
ParsePacket(p) ==
  /\ socket[p]
  /\ inboundOffset[p] >= Len(inboundPacket[p])
  /\ queue[p] # <<>> /\ Head(queue[p]).data # <<>>
  /\ queue' = [queue EXCEPT ![p] = Tail(@)]
  /\ inboundPacket' = [inboundPacket EXCEPT ![p] = Head(queue[p]).data]
  /\ inboundOffset' = [inboundOffset EXCEPT ![p] = 0]
  /\ remoteAddress' = [remoteAddress EXCEPT ![p] = Head(queue[p]).from]
  /\ taken' = [taken EXCEPT ![p] = <<>>]
  /\ UNCHANGED <<socket, sent, outbound>>

\* On Windows an empty datagram at the head is received, if bytes behind it are
\* counted: recvfrom returns 0, which is taken for a failure, and nothing else
\* changes. On Linux the count is 0, and it stays.
ParseEmptyPacket(p) ==
  /\ p \in Windows /\ socket[p]
  /\ inboundOffset[p] >= Len(inboundPacket[p])
  /\ queue[p] # <<>> /\ Head(queue[p]).data = <<>>
  /\ \E i \in DOMAIN queue[p] : queue[p][i].data # <<>>
  /\ queue' = [queue EXCEPT ![p] = Tail(@)]
  /\ UNCHANGED <<socket, sent, inbound, outbound>>

\* Mutants of Read: one never returns the last byte; in the other the packet is
\* cleared at its end and the offset is not.
ReadSparingLast(p, size) ==
  LET left == Len(Unread(p)) - 1 IN
  /\ left > 0
  /\ LET copied == IF size <= left THEN size ELSE left
     IN /\ inboundOffset' = [inboundOffset EXCEPT ![p] = @ + copied]
        /\ taken' = [taken EXCEPT ![p] = @ \o SubSeq(Unread(p), 1, copied)]
  /\ UNCHANGED <<socket, inboundPacket, queue, sent, remoteAddress, outbound>>

ReadKeepingOffset(p, size) ==
  LET copied == IF size <= Len(Unread(p)) THEN size ELSE Len(Unread(p)) IN
  /\ Unread(p) # <<>>
  /\ inboundOffset' = [inboundOffset EXCEPT ![p] = @ + copied]
  /\ inboundPacket' = [inboundPacket EXCEPT ![p] =
                         IF copied = Len(Unread(p)) THEN <<>> ELSE @]
  /\ taken' = [taken EXCEPT ![p] = @ \o SubSeq(Unread(p), 1, copied)]
  /\ UNCHANGED <<socket, queue, sent, remoteAddress, outbound>>

\* A packet read to its end is cleared; its sender's address stays.
Read(p, size) ==
  LET copied == IF size <= Len(Unread(p)) THEN size ELSE Len(Unread(p))
      all    == inboundOffset[p] + copied >= Len(inboundPacket[p])
  IN /\ inboundOffset[p] < Len(inboundPacket[p])
     /\ inboundOffset' = [inboundOffset EXCEPT ![p] = IF all THEN 0 ELSE @ + copied]
     /\ inboundPacket' = [inboundPacket EXCEPT ![p] = IF all THEN <<>> ELSE @]
     /\ taken' = [taken EXCEPT ![p] = @ \o SubSeq(Unread(p), 1, copied)]
     /\ UNCHANGED <<socket, queue, sent, remoteAddress, outbound>>

Next ==
  \/ \E p \in Peers : Begin(p)
  \/ \E p \in Peers : BeginMulticast(p)
  \/ \E p \in Peers : Stop(p)
  \/ \E p, q \in Peers : BeginPacket(p, q)
  \/ \E p \in Peers : Write(p)
  \/ \E p \in Peers : EndPacket(p)
  \/ \E d \in sent : Deliver(d)
  \/ \E p \in Peers : ParsePacket(p)
  \/ \E p \in Peers : ParseEmptyPacket(p)
  \/ \E p \in Peers, size \in 1..MaxPacket : Read(p, size)

Spec == Init /\ [][Next]_vars

\* A program that polls: it goes on calling parsePacket and read.
Polling ==
  \A p \in Peers :
    /\ WF_vars(ParsePacket(p) \/ ParseEmptyPacket(p))
    /\ WF_vars(\E size \in 1..MaxPacket : Read(p, size))

FairSpec == Spec /\ Polling

-----------------------------------------------------------------------------
(* Correctness.                                                            *)

TypeOK ==
  /\ socket \in [Peers -> BOOLEAN]
  /\ inboundPacket \in [Peers -> Seq(Byte)]
  /\ inboundOffset \in [Peers -> Nat]
  /\ outboundPacket \in [Peers -> Seq(Byte)]
  /\ outboundDestination \in [Peers -> Peers \cup {NoPeer}]
  /\ remoteAddress \in [Peers -> Peers \cup {NoPeer}]
  /\ queue \in [Peers -> Seq(Datagram)]
  /\ sent \in SUBSET Datagram
  /\ mark \in [Peers -> Byte]
  /\ taken \in [Peers -> Seq(Byte)]

\* What was read of the current packet and what is left of it make up one
\* datagram, whole, that remoteAddress() sent to this peer: no cutting, no
\* gluing of packets, no reply to the sender of another packet.
PacketIntegrity ==
  \A p \in Peers :
    remoteAddress[p] # NoPeer =>
      [from |-> remoteAddress[p], to |-> p, data |-> taken[p] \o Unread(p)] \in sent

\* Every byte of a datagram was written for that packet and for the peer it
\* goes to, whatever packets were begun and abandoned before, whatever
\* addresses failed to resolve and whatever was written outside a packet.
UnmixedPackets ==
  \A d \in sent : \A i \in DOMAIN d.data : d.data[i] = d.to

\* A packet that is not read to its end is replaced only by stop or begin: a
\* parsePacket in the middle of it loses nothing.
NoPacketCutShort ==
  [][\A p \in Peers :
       Unread(p) # <<>> /\ inboundPacket'[p] # inboundPacket[p] =>
         \/ taken'[p] = taken[p] \o Unread(p)
         \/ remoteAddress'[p] = NoPeer]_vars

\* While a packet is in the buffer the offset is inside it, and 0 when none is.
OffsetInsidePacket ==
  \A p \in Peers : inboundOffset[p] < Len(inboundPacket[p]) \/ inboundOffset[p] = 0

\* An empty datagram at the head of the receive buffer stays there, and holds
\* up every datagram behind it, until the socket is closed; on Windows only
\* while the others are empty, too, and it goes without a trace.
EmptyDatagramBlocksQueue ==
  [][\A p \in Peers :
       queue[p] # <<>> /\ Head(queue[p]).data = <<>> =>
         \/ IsPrefix(queue[p], queue'[p])
         \/ queue'[p] = <<>> /\ remoteAddress'[p] = NoPeer
         \/ /\ p \in Windows /\ \E i \in DOMAIN queue[p] : queue[p][i].data # <<>>
            /\ queue'[p] = Tail(queue[p]) /\ remoteAddress'[p] = remoteAddress[p]]_vars

\* The first datagram that is not empty becomes the current packet, unless the
\* socket is closed: nothing else stands in a polling program's way, on Windows
\* not even empty ones in front of it.
HeadIsParsed ==
  \A p, q \in Peers : \A n \in 1..MaxPacket :
    (\E i \in DOMAIN queue[p] :
       /\ queue[p][i].from = q /\ Len(queue[p][i].data) = n
       /\ i = 1 \/ (p \in Windows /\ \A j \in 1..(i - 1) : queue[p][j].data = <<>>))
      ~> \/ queue[p] = <<>>
         \/ remoteAddress[p] = q /\ taken[p] = <<>> /\ Len(inboundPacket[p]) = n
=============================================================================
