---------------------------- MODULE SocketClient ----------------------------
(***************************************************************************)
(* The two ends of a TCP connection, each a PosixSocketClient              *)
(* (posix/PosixSocketTransport.h) or a WindowsClient                       *)
(* (windows/WindowsSocketTransport.h) in a program of its own, and the     *)
(* kernels between them.  The two classes run the same statements; on      *)
(* Windows there are no signals, and the end that accept returned does not *)
(* block.                                                                  *)
(* A step is one system call of a method, so that bytes, an end or a reset *)
(* may arrive between the calls of available, and a peer may read between  *)
(* the sends of a write.  Byte k of an end is the number k.                *)
(***************************************************************************)
EXTENDS Integers, Sequences

CONSTANTS
  Budget,      \* bound: how many bytes each end writes
  Window,      \* bound: bytes of one direction that the kernel holds
  Chunk,       \* bytes of the buffer that ReadAsVector reads with
  MaxSize,     \* bound: bytes of one call
  Interrupts,  \* may a signal interrupt a system call?
  Windows      \* the ends that run on Windows

Ends == {"client", "server"}

Other(e) == IF e = "client" THEN "server" ELSE "client"

ASSUME BudgetAssumption == Budget \in [Ends -> Nat]
ASSUME BoundsAssumption == {Window, Chunk, MaxSize} \subseteq Nat \ {0}
ASSUME InterruptsAssumption == Interrupts \in BOOLEAN
ASSUME WindowsAssumption == Windows \subseteq Ends

VARIABLES
  wire,      \* bytes on their way to each end
  arrived,   \* bytes in each end's receive buffer
  ending,    \* what is on its way to an end behind the bytes: "fin", "rst", "none"
  ended,     \* what each end's kernel has seen of that
  socket,    \* is socket_ valid?
  timeout,   \* was setTimeout called with more than 0?
  call,      \* the system call each end's method is at, "none" between methods
  want,      \* bytes a read may still return, or those a write was given
  totalSent, \* bytes of a write that were sent
  answer,    \* what available or connected said last: "bytes", "alive", "ended"
  misled,    \* history: that answer came from an interrupted select
  reported,  \* history: bytes that writes have reported as written
  received   \* history: the bytes that reads returned

kernel  == <<wire, arrived, ending, ended>>
local   == <<socket, timeout>>
history == <<reported, received>>
vars == <<kernel, local, call, want, totalSent, answer, misled, history>>

Calls == {"none", "ioctl", "select", "peek", "recv", "recvAll", "send", "killed"}

Init ==
  /\ wire = [e \in Ends |-> <<>>] /\ arrived = wire /\ received = wire
  /\ ending = [e \in Ends |-> "none"] /\ ended = ending /\ call = ending
  /\ socket = [e \in Ends |-> TRUE] /\ timeout = [e \in Ends |-> FALSE]
  /\ misled = timeout
  /\ want = [e \in Ends |-> 0] /\ totalSent = want /\ reported = want
  /\ answer = [e \in Ends |-> "alive"]

-----------------------------------------------------------------------------
(* The kernel.                                                             *)

\* A segment arrives. A byte that reaches a closed socket is answered by a reset.
Deliver(e) ==
  /\ wire[e] # <<>>
  /\ wire' = [wire EXCEPT ![e] = Tail(@)]
  /\ IF socket[e]
     THEN arrived' = [arrived EXCEPT ![e] = Append(@, Head(wire[e]))] /\ UNCHANGED ending
     ELSE ending' = [ending EXCEPT ![Other(e)] = "rst"] /\ UNCHANGED arrived
  /\ UNCHANGED <<ended, local, call, want, totalSent, answer, misled, history>>

\* The orderly end comes after the last byte.
DeliverFin(e) ==
  /\ ending[e] = "fin" /\ wire[e] = <<>>
  /\ ending' = [ending EXCEPT ![e] = "none"]
  /\ ended' = [ended EXCEPT ![e] = "fin"]
  /\ UNCHANGED <<wire, arrived, local, call, want, totalSent, answer, misled, history>>

\* A reset overtakes nothing that arrived; what is on its way either way is lost.
DeliverReset(e) ==
  /\ ending[e] = "rst"
  /\ ending' = [ending EXCEPT ![e] = "none"]
  /\ ended' = [ended EXCEPT ![e] = "rst"]
  /\ wire' = [o \in Ends |-> <<>>]
  /\ UNCHANGED <<arrived, local, call, want, totalSent, answer, misled, history>>

\* On Windows a reset takes with it what arrived and was not read.
DiscardArrived(e) ==
  /\ e \in Windows /\ ended[e] = "rst" /\ arrived[e] # <<>>
  /\ arrived' = [arrived EXCEPT ![e] = <<>>]
  /\ UNCHANGED <<wire, ending, ended, local, call, want, totalSent, answer, misled, history>>

\* close(2): an end for the peer, or a reset when bytes were left unread.
KernelClose(e) ==
  /\ socket' = [socket EXCEPT ![e] = FALSE]
  /\ arrived' = [arrived EXCEPT ![e] = <<>>]
  /\ ending' = [ending EXCEPT ![Other(e)] =
                  IF ended[e] = "rst" THEN @ ELSE IF arrived[e] # <<>> THEN "rst" ELSE "fin"]

-----------------------------------------------------------------------------
(* stop and setTimeout.                                                    *)

Idle(e) == call[e] = "none"

Stop(e) ==
  /\ Idle(e) /\ socket[e]
  /\ KernelClose(e)
  /\ UNCHANGED <<wire, ended, timeout, call, want, totalSent, answer, misled, history>>

SetTimeout(e, on) ==
  /\ Idle(e) /\ socket[e]
  /\ timeout' = [timeout EXCEPT ![e] = on]
  /\ UNCHANGED <<kernel, socket, call, want, totalSent, answer, misled, history>>

-----------------------------------------------------------------------------
(* available and connected.                                                *)

Answered(e, a, interrupted) ==
  /\ answer' = [answer EXCEPT ![e] = a]
  /\ misled' = [misled EXCEPT ![e] = interrupted]
  /\ call' = [call EXCEPT ![e] = "none"]
  /\ UNCHANGED <<kernel, local, want, totalSent, history>>

Goes(e, next) ==
  /\ call' = [call EXCEPT ![e] = next]
  /\ UNCHANGED <<kernel, local, want, totalSent, answer, misled, history>>

\* available asks for the pending bytes first, connected does not.
Available(e) == Idle(e) /\ IF socket[e] THEN Goes(e, "ioctl") ELSE Answered(e, "ended", FALSE)

Connected(e) == Idle(e) /\ IF socket[e] THEN Goes(e, "select") ELSE Answered(e, "ended", FALSE)

QueryPendingBytes(e) ==
  /\ call[e] = "ioctl"
  /\ IF arrived[e] # <<>> THEN Answered(e, "bytes", FALSE) ELSE Goes(e, "select")

Readable(e) == arrived[e] # <<>> \/ ended[e] # "none"

\* Mutants of Select: a socket that became readable after no bytes were counted is
\* taken for closed, or the byte is asked for whether there is one or not.
SelectTrustingCount(e) ==
  /\ call[e] = "select"
  /\ Answered(e, IF Readable(e) THEN "ended" ELSE "alive", FALSE)

SelectNothing(e) == call[e] = "select" /\ Goes(e, "peek")

\* A signal may come to a call that waits; Windows has none.
Interrupted(e) == Interrupts /\ e \notin Windows

\* select with a timeout of 0; a signal makes it fail when nothing is there, and
\* a failure counts as a disconnect. The select for an exceptional state before it
\* finds none: no end sends urgent data.
Select(e) ==
  /\ call[e] = "select"
  /\ \/ Readable(e) /\ Goes(e, "peek")
     \/ ~Readable(e) /\ Answered(e, "alive", FALSE)
     \/ ~Readable(e) /\ Interrupted(e) /\ Answered(e, "ended", TRUE)

\* recv of one byte with MSG_PEEK; it would block if there were nothing.
ProbeByte(e) ==
  /\ call[e] = "peek" /\ Readable(e)
  /\ Answered(e, IF arrived[e] # <<>> THEN "alive" ELSE "ended", FALSE)

-----------------------------------------------------------------------------
(* read, ReadAsVector and write.                                           *)

Begin(e, next, size) ==
  /\ Idle(e) /\ socket[e]
  /\ call' = [call EXCEPT ![e] = next]
  /\ want' = [want EXCEPT ![e] = size]
  /\ totalSent' = [totalSent EXCEPT ![e] = 0]
  /\ UNCHANGED <<kernel, local, answer, misled, history>>

Read(e, size) == Begin(e, "recv", size)

\* The availability that ReadAsVector asks for first only sizes its result.
ReadAsVector(e, maxLength) == Begin(e, "recvAll", maxLength)

\* The application goes on from what its writes were reported to have written.
Write(e, size) == reported[e] + size <= Budget[e] /\ Begin(e, "send", size)

\* A method returns, and its locals are gone.
Returns(e) ==
  /\ call' = [call EXCEPT ![e] = "none"]
  /\ want' = [want EXCEPT ![e] = 0]

Receiving(e) == call[e] \in {"recv", "recvAll"}

\* recv with bytes there: ReadAsVector goes on until it has maxLength of them.
Recv(e) ==
  LET asked == IF call[e] = "recvAll" /\ Chunk < want[e] THEN Chunk ELSE want[e]
      n     == IF asked < Len(arrived[e]) THEN asked ELSE Len(arrived[e])
  IN /\ Receiving(e) /\ arrived[e] # <<>>
     /\ received' = [received EXCEPT ![e] = @ \o SubSeq(arrived[e], 1, n)]
     /\ arrived' = [arrived EXCEPT ![e] = SubSeq(@, n + 1, Len(@))]
     /\ IF call[e] = "recvAll" /\ n < want[e]
        THEN want' = [want EXCEPT ![e] = @ - n] /\ UNCHANGED call
        ELSE Returns(e)
     /\ UNCHANGED <<wire, ending, ended, local, totalSent, answer, misled, reported>>

ReturnsNothing(e) ==
  Returns(e) /\ UNCHANGED <<kernel, local, totalSent, answer, misled, history>>

\* Mutant of RecvNothing: a timeout is taken for an interruption and tried again.
RecvNothingRetrying(e) ==
  Receiving(e) /\ arrived[e] = <<>> /\ ended[e] # "none" /\ ReturnsNothing(e)

\* recv returns nothing: the connection has ended or the timeout has passed. Both
\* give 0, which ends ReadAsVector as well.
RecvNothing(e) ==
  /\ Receiving(e) /\ arrived[e] = <<>>
  /\ ended[e] # "none" \/ timeout[e]
  /\ ReturnsNothing(e)

\* A signal gives 0 too.
RecvInterrupted(e) ==
  Interrupted(e) /\ Receiving(e) /\ arrived[e] = <<>> /\ ReturnsNothing(e)

\* A socket that accept returned on Windows has the listener's non-blocking
\* mode, and nothing ever switches it back.
NonBlocking(e) == e = "server" /\ e \in Windows

\* recv with nothing there returns at once, and 0.
RecvWouldBlock(e) ==
  NonBlocking(e) /\ Receiving(e) /\ arrived[e] = <<>> /\ ReturnsNothing(e)

Room(e) == Window - Len(wire[Other(e)]) - Len(arrived[Other(e)])

\* Mutant of Reports: a write that fails half way reports nothing.
ReportsAllOrNothing(e, count) ==
  /\ reported' = [reported EXCEPT ![e] = @ + IF count = want[e] THEN count ELSE 0]
  /\ totalSent' = [totalSent EXCEPT ![e] = 0] /\ Returns(e)

\* The write returns how many of its bytes were sent.
Reports(e, count) ==
  /\ reported' = [reported EXCEPT ![e] = @ + count]
  /\ totalSent' = [totalSent EXCEPT ![e] = 0] /\ Returns(e)

\* Mutants of Taken: every send starts at the buffer's first byte, or one further
\* than it should.
TakenFromStart(e, n) == [i \in 1..n |-> reported[e] + i]
TakenTooFar(e, n) == [i \in 1..n |-> reported[e] + totalSent[e] + i + 1]

\* The bytes that a send takes: those of the buffer not sent yet.
Taken(e, n) == [i \in 1..n |-> reported[e] + totalSent[e] + i]

\* A send takes some of the bytes; one that takes the last ends the write.
Send(e, n) ==
  /\ call[e] = "send" /\ ended[e] # "rst"
  /\ n <= Room(e) /\ totalSent[e] + n <= want[e]
  /\ wire' = [wire EXCEPT ![Other(e)] = @ \o Taken(e, n)]
  /\ IF totalSent[e] + n = want[e] THEN Reports(e, want[e])
     ELSE totalSent' = [totalSent EXCEPT ![e] = @ + n] /\ UNCHANGED <<call, want, reported>>
  /\ UNCHANGED <<arrived, ending, ended, local, answer, misled, received>>

\* A send that fails ends the write with what was sent before.
SendFails(e) ==
  /\ call[e] = "send"
  /\ ended[e] = "rst" \/ (Room(e) <= 0 /\ timeout[e])
  /\ Reports(e, totalSent[e])
  /\ UNCHANGED <<kernel, local, answer, misled, received>>

SendInterrupted(e) ==
  /\ Interrupted(e) /\ call[e] = "send" /\ Room(e) <= 0
  /\ Reports(e, totalSent[e])
  /\ UNCHANGED <<kernel, local, answer, misled, received>>

\* A socket that does not block ends the write as soon as the kernel is full.
SendWouldBlock(e) ==
  /\ NonBlocking(e) /\ call[e] = "send" /\ Room(e) <= 0
  /\ Reports(e, totalSent[e])
  /\ UNCHANGED <<kernel, local, answer, misled, received>>

\* send is called without MSG_NOSIGNAL: on a connection that was reset it may
\* raise SIGPIPE, which ends the program.
SigPipe(e) ==
  /\ e \notin Windows /\ call[e] = "send" /\ ended[e] = "rst"
  /\ call' = [call EXCEPT ![e] = "killed"]
  /\ KernelClose(e)
  /\ UNCHANGED <<wire, ended, timeout, want, totalSent, answer, misled, history>>

Next ==
  \/ \E e \in Ends : Deliver(e)
  \/ \E e \in Ends : DeliverFin(e)
  \/ \E e \in Ends : DeliverReset(e)
  \/ \E e \in Ends : DiscardArrived(e)
  \/ \E e \in Ends : Stop(e)
  \/ \E e \in Ends, on \in BOOLEAN : SetTimeout(e, on)
  \/ \E e \in Ends : Available(e)
  \/ \E e \in Ends : Connected(e)
  \/ \E e \in Ends : QueryPendingBytes(e)
  \/ \E e \in Ends : Select(e)
  \/ \E e \in Ends : ProbeByte(e)
  \/ \E e \in Ends, size \in 1..MaxSize : Read(e, size)
  \/ \E e \in Ends, maxLength \in 1..MaxSize : ReadAsVector(e, maxLength)
  \/ \E e \in Ends, size \in 1..MaxSize : Write(e, size)
  \/ \E e \in Ends : Recv(e)
  \/ \E e \in Ends : RecvNothing(e)
  \/ \E e \in Ends : RecvInterrupted(e)
  \/ \E e \in Ends : RecvWouldBlock(e)
  \/ \E e \in Ends, n \in 1..MaxSize : Send(e, n)
  \/ \E e \in Ends : SendFails(e)
  \/ \E e \in Ends : SendInterrupted(e)
  \/ \E e \in Ends : SendWouldBlock(e)
  \/ \E e \in Ends : SigPipe(e)

Spec == Init /\ [][Next]_vars

\* A system call that can return does, at the latest when its timeout has passed;
\* no signal can be counted on.
Returning ==
  \A e \in Ends :
    /\ WF_vars(QueryPendingBytes(e) \/ Select(e) \/ ProbeByte(e))
    /\ WF_vars(Recv(e) \/ RecvNothing(e) \/ RecvWouldBlock(e))
    /\ WF_vars((\E n \in 1..MaxSize : Send(e, n)) \/ SendFails(e) \/ SendWouldBlock(e))

FairSpec == Spec /\ Returning

-----------------------------------------------------------------------------
(* Correctness.                                                            *)

TypeOK ==
  /\ \A e \in Ends : {wire[e], arrived[e], received[e]} \subseteq Seq(1..Budget[Other(e)])
  /\ ending \in [Ends -> {"none", "fin", "rst"}] /\ ended \in [Ends -> {"none", "fin", "rst"}]
  /\ socket \in [Ends -> BOOLEAN] /\ timeout \in [Ends -> BOOLEAN]
  /\ call \in [Ends -> Calls]
  /\ want \in [Ends -> Nat] /\ totalSent \in [Ends -> Nat]
  /\ answer \in [Ends -> {"bytes", "alive", "ended"}] /\ misled \in [Ends -> BOOLEAN]
  /\ reported \in [Ends -> Nat]

\* What an end has got or can still get.
Stream(e) == received[e] \o (IF socket[e] THEN arrived[e] \o wire[e] ELSE <<>>)

\* A program that writes on from what its writes reported sends every byte once
\* and in order, however the sends of a write are cut and whether they fail.
Contiguous == \A e \in Ends : Stream(e) = [i \in 1..Len(Stream(e)) |-> i]

\* While the receiver's socket is open and was not reset, the bytes on the way to
\* it and those it has are the ones that the other end's writes reported, and
\* those of the write in progress: no write reports too many or too few.
HonestWrites ==
  \A e \in Ends : LET o == Other(e) IN
    socket[e] /\ ended[e] # "rst" =>
      Len(Stream(e)) = reported[o] + (IF call[o] = "send" THEN totalSent[o] ELSE 0)

\* available and connected report an end only when there is one, even if bytes
\* and the end arrive between their system calls; and after an orderly end all
\* that the other end's writes reported has been read.
EndedMeansEnd ==
  \A e \in Ends :
    answer[e] = "ended" /\ ~misled[e] /\ socket[e] =>
      /\ ended[e] # "none" /\ arrived[e] = <<>>
      /\ ended[e] = "fin" => Len(received[e]) = reported[Other(e)]

\* The recv with which connected probes a blocking socket finds it readable.
ProbeDoesNotBlock == \A e \in Ends : call[e] = "peek" => Readable(e)

\* With a timeout set, or on a socket that does not block, no method waits for
\* ever, ReadAsVector and a write into a full buffer included, whatever the other
\* end does.
CallsReturn ==
  \A e \in Ends :
    (call[e] # "none" /\ (timeout[e] \/ NonBlocking(e))) ~> call[e] \in {"none", "killed"}
=============================================================================
