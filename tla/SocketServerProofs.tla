------------------------- MODULE SocketServerProofs -------------------------
(***************************************************************************)
(* Theorems about SocketServer: a caller who is sure of a server's port    *)
(* reaches that server.  For any servers, callers, ports and backlog, on   *)
(* every build.                                                            *)
(***************************************************************************)
EXTENDS SocketServer, SequenceTheorems, TLAPS

Sockets ==
  {NoSocket} \cup [step : {"bound", "listening", "installed"}, port : Ports]

\* A call with the port it was told, and one that the host has connected.
AskedCalls == [step : {"asked"}, asked : Servers, port : Ports \cup {0}, sure : BOOLEAN]
ConnectedCalls ==
  [step : {"queued", "accepted"}, asked : Servers, port : Ports \cup {0}, sure : BOOLEAN,
   at : Servers]
CallRecords == {NoCall, [step |-> "reset"]} \cup AskedCalls \cup ConnectedCalls

Typed ==
  /\ host \in {"posix", "windows", "arduino"}
  /\ configuredPort \in [Servers -> Ports \cup {0}]
  /\ localPort \in [Servers -> Ports \cup {0}]
  /\ socket \in [Servers -> Sockets]
  /\ serving \in [Servers -> BOOLEAN]
  /\ queue \in [Servers -> Seq(Callers \cup {Gone})]
  /\ calls \in [Callers -> CallRecords]

Open(s) == socket[s].step # "none"

\* A server that was created with a port has a socket on that one; port() of an
\* installed server is the port of its socket, or on Arduino the configured one.
OwnPort ==
  \A s \in Servers :
    /\ Open(s) /\ configuredPort[s] # 0 => socket[s].port = configuredPort[s]
    /\ host = "arduino" => localPort[s] = configuredPort[s]
    /\ host # "arduino" /\ socket[s].step = "installed" => localPort[s] = socket[s].port

\* Two sockets share a port only if one of the two was created with it, and
\* only Windows lets both listen.
SharedPort ==
  \A s, t \in Servers :
    s # t /\ Open(s) /\ Open(t) /\ socket[s].port = socket[t].port =>
      /\ socket[s].port \in {configuredPort[s], configuredPort[t]}
      /\ Listens(s) /\ Listens(t) => host = "windows"

\* What waits in a queue is a connection of its caller, and waits there once.
Queued ==
  \A s \in Servers : \A i \in 1..Len(queue[s]) :
    queue[s][i] \in Callers =>
      /\ calls[queue[s][i]].step = "queued" /\ calls[queue[s][i]].at = s
      /\ \A j \in 1..Len(queue[s]) : queue[s][j] = queue[s][i] => j = i

\* A caller that is sure of a port asked a server that still has its listener.
SureOfIt ==
  \A c \in Callers :
    calls[c].step \in {"asked", "queued", "accepted"} =>
      (calls[c].sure => /\ socket[calls[c].asked].step = "installed"
                        /\ calls[c].port = localPort[calls[c].asked])

IInv == Typed /\ OwnPort /\ SharedPort /\ Queued /\ SureOfIt /\ ReachesWhoItAsked

-----------------------------------------------------------------------------
(* Sockets and ports.                                                      *)

\* An open socket has one of the host's ports; no call is two things at once.
LEMMA SocketFacts ==
  ASSUME Typed, NEW s \in Servers
  PROVE  /\ socket[s].step \in {"none", "bound", "listening", "installed"}
         /\ Open(s) => socket[s].port \in Ports /\ socket[s].port # 0
         /\ ~Open(s) => socket[s] = NoSocket /\ socket[s].port = 0
         /\ configuredPort[s] \in Ports \cup {0} /\ 0 \notin Ports
<1>1. socket[s] \in Sockets /\ configuredPort[s] \in Ports \cup {0}
  BY DEF Typed
<1>2. 0 \notin Ports
  BY PortsAssumption
<1>3. CASE socket[s] = NoSocket
  BY <1>1, <1>2, <1>3 DEF NoSocket, Open
<1>4. CASE socket[s] \in [step : {"bound", "listening", "installed"}, port : Ports]
  BY <1>1, <1>2, <1>4 DEF Open
<1> QED
  BY <1>1, <1>3, <1>4 DEF Sockets

\* What bind can give: for 0 a port that no socket has, otherwise the one it was
\* asked for, which elsewhere than on Windows nobody listens on.
LEMMA BindablePorts ==
  ASSUME Typed, NEW port \in Ports \cup {0}, NEW p \in Bindable(port)
  PROVE  /\ p \in Ports
         /\ port # 0 => p = port
         /\ port = 0 => \A t \in Servers : socket[t].port # p
         /\ host # "windows" => \A t \in Servers : Listens(t) => socket[t].port # p
  BY DEF Bindable

\* A call's record has the fields its step tells.
LEMMA CallFacts ==
  ASSUME Typed, NEW c \in Callers
  PROVE  /\ calls[c].step \in {"none", "reset", "asked", "queued", "accepted"}
         /\ calls[c].step = "none" => calls[c] = NoCall
         /\ calls[c].step = "asked" => calls[c] \in AskedCalls
         /\ calls[c].step \in {"queued", "accepted"} => calls[c] \in ConnectedCalls
<1>1. calls[c] \in CallRecords
  BY DEF Typed
<1>2. CASE calls[c] \in {NoCall, [step |-> "reset"]}
  BY <1>2 DEF NoCall
<1>3. CASE calls[c] \in AskedCalls
  BY <1>3 DEF AskedCalls
<1>4. CASE calls[c] \in ConnectedCalls
  BY <1>4 DEF ConnectedCalls
<1> QED
  BY <1>1, <1>2, <1>3, <1>4 DEF CallRecords

\* A step that leaves every connection alone, and every listener that is
\* installed with what its port() returns, keeps what is said of the callers.
LEMMA CallersKept ==
  ASSUME IInv, UNCHANGED <<host, configuredPort, queue, calls>>,
         \A s \in Servers : socket[s].step = "installed" =>
           socket'[s].step = "installed" /\ localPort'[s] = localPort[s]
  PROVE  Queued' /\ SureOfIt' /\ ReachesWhoItAsked'
<1>1. Queued'
  BY DEF IInv, Queued
<1>2. ReachesWhoItAsked'
  BY DEF IInv, ReachesWhoItAsked
<1>3. ASSUME NEW c \in Callers, calls[c].step \in {"asked", "queued", "accepted"}, calls[c].sure
      PROVE  /\ socket'[calls[c].asked].step = "installed"
             /\ calls[c].port = localPort'[calls[c].asked]
  <2>1. calls[c].asked \in Servers
    BY <1>3, CallFacts DEF IInv, AskedCalls, ConnectedCalls
  <2>2. /\ socket[calls[c].asked].step = "installed"
        /\ calls[c].port = localPort[calls[c].asked]
    BY <1>3 DEF IInv, SureOfIt
  <2> QED
    BY <2>1, <2>2
<1>4. SureOfIt'
  BY <1>3 DEF SureOfIt
<1> QED
  BY <1>1, <1>2, <1>4

\* The first of a sequence, and those behind it.
LEMMA HeadAndTail ==
  ASSUME NEW S, NEW q \in Seq(S), q # <<>>
  PROVE  /\ Len(q) \in Nat /\ Len(q) > 0 /\ Head(q) = q[1]
         /\ Tail(q) \in Seq(S) /\ Len(Tail(q)) = Len(q) - 1
         /\ \A i \in 1..Len(Tail(q)) : Tail(q)[i] = q[i + 1]
<1>1. /\ Tail(q) \in Seq(S) /\ Len(Tail(q)) = Len(q) - 1
      /\ \A i \in 1..Len(Tail(q)) : Tail(q)[i] = q[i + 1]
  BY HeadTailProperties, Zenon
<1>2. Len(q) \in Nat /\ Len(q) > 0 /\ Head(q) = q[1]
  BY EmptySeq
<1> QED
  BY <1>1, <1>2

-----------------------------------------------------------------------------
(* The steps.                                                              *)

\* A new socket, bound or on Arduino installed, on a port that bind gives.
LEMMA NewSocketKeeps ==
  ASSUME IInv, NEW s \in Servers, NEW p \in Bindable(configuredPort[s]),
         NEW step \in {"bound", "installed"}, step = "installed" <=> host = "arduino",
         socket[s].step = "none",
         socket' = [socket EXCEPT ![s] = [step |-> step, port |-> p]],
         serving' = [serving EXCEPT ![s] = TRUE],
         UNCHANGED <<host, configuredPort, localPort, queue, calls>>
  PROVE  IInv'
<1>1. Typed /\ configuredPort[s] \in Ports \cup {0}
  BY DEF IInv, Typed
<1>2. /\ p \in Ports
      /\ configuredPort[s] # 0 => p = configuredPort[s]
      /\ configuredPort[s] = 0 => \A t \in Servers : socket[t].port # p
      /\ host # "windows" => \A t \in Servers : Listens(t) => socket[t].port # p
  BY <1>1, BindablePorts
<1>3. /\ socket'[s] = [step |-> step, port |-> p]
      /\ \A t \in Servers \ {s} : socket'[t] = socket[t]
  BY <1>1 DEF Typed
<1>4. Typed'
  <2>1. [step |-> step, port |-> p] \in Sockets
    BY <1>2 DEF Sockets
  <2>2. socket' \in [Servers -> Sockets]
    BY <1>1, <2>1 DEF Typed
  <2> QED
    BY <1>1, <2>2 DEF Typed
<1>5. OwnPort'
  BY <1>2, <1>3 DEF IInv, OwnPort, Open
<1>6. \A t \in Servers \ {s} : (Open(t)' <=> Open(t)) /\ (Listens(t)' <=> Listens(t))
  BY <1>3 DEF Open, Listens
<1>7. ASSUME NEW t \in Servers \ {s}, Open(t), socket[t].port = p
      PROVE  /\ p = configuredPort[s]
             /\ host # "windows" => ~Listens(t)
  BY <1>2, <1>7
<1>8. SharedPort'
  <2>1. ASSUME NEW t \in Servers, NEW u \in Servers, t # u, Open(t)', Open(u)',
               socket'[t].port = socket'[u].port
        PROVE  /\ socket'[t].port \in {configuredPort[t], configuredPort[u]}
               /\ Listens(t)' /\ Listens(u)' => host = "windows"
    <3>1. CASE t = s
      BY <1>3, <1>6, <1>7, <2>1, <3>1
    <3>2. CASE u = s
      BY <1>3, <1>6, <1>7, <2>1, <3>2
    <3>3. CASE t # s /\ u # s
      BY <1>3, <1>6, <2>1, <3>3 DEF IInv, SharedPort
    <3> QED
      BY <3>1, <3>2, <3>3
  <2> QED
    BY <2>1 DEF SharedPort
<1>9. Queued' /\ SureOfIt' /\ ReachesWhoItAsked'
  BY <1>3, CallersKept
<1> QED
  BY <1>4, <1>5, <1>8, <1>9 DEF IInv

\* listen, which on POSIX fails on a port that somebody listens on.
LEMMA ListenKeeps ==
  ASSUME IInv, NEW s \in Servers, host # "arduino", Listen(s)
  PROVE  IInv'
<1>1. /\ socket[s].step = "bound" /\ socket[s].port \in Bindable(socket[s].port)
      /\ socket' = [socket EXCEPT ![s].step = "listening"]
      /\ UNCHANGED <<host, configuredPort, localPort, serving, queue, calls>>
  BY DEF Listen
<1>2. socket[s] \in Sockets /\ Open(s) /\ socket[s].port \in Ports /\ Typed
  BY <1>1, SocketFacts DEF IInv, Typed, Open
<1>3. /\ socket'[s].step = "listening" /\ socket'[s].port = socket[s].port
      /\ \A t \in Servers \ {s} : socket'[t] = socket[t]
  BY <1>1, <1>2 DEF Typed, Sockets, NoSocket
<1>4. Typed'
  <2>1. [socket[s] EXCEPT !.step = "listening"] \in Sockets
    BY <1>1, <1>2 DEF Sockets, NoSocket
  <2>2. socket' \in [Servers -> Sockets]
    BY <1>1, <1>2, <2>1 DEF Typed
  <2> QED
    BY <1>1, <1>2, <2>2 DEF Typed
<1>5. OwnPort'
  BY <1>1, <1>2, <1>3 DEF IInv, OwnPort, Open
<1>6. \A t \in Servers : Open(t)' <=> Open(t)
  BY <1>1, <1>2, <1>3 DEF Open
<1>7. \A t \in Servers : socket'[t].port = socket[t].port
  BY <1>3
<1>8. host # "windows" => \A t \in Servers : Listens(t) => socket[t].port # socket[s].port
  BY <1>1, <1>2, BindablePorts
<1>9. SharedPort'
  <2>1. ASSUME NEW t \in Servers, NEW u \in Servers, t # u, Open(t), Open(u),
               socket[t].port = socket[u].port, Listens(t)', Listens(u)'
        PROVE  host = "windows"
    <3>1. CASE t = s \/ u = s
      BY <1>3, <1>8, <2>1, <3>1 DEF Listens
    <3>2. CASE t # s /\ u # s
      BY <1>3, <2>1, <3>2 DEF IInv, SharedPort, Listens
    <3> QED
      BY <3>1, <3>2
  <2> QED
    BY <1>1, <1>6, <1>7, <2>1 DEF IInv, SharedPort
<1>10. Queued' /\ SureOfIt' /\ ReachesWhoItAsked'
  BY <1>1, <1>3, CallersKept
<1> QED
  BY <1>4, <1>5, <1>9, <1>10 DEF IInv

\* The socket becomes the listener, and port() its port.
LEMMA InstallKeeps ==
  ASSUME IInv, NEW s \in Servers, host # "arduino", Install(s)
  PROVE  IInv'
<1>1. /\ socket[s].step = "listening"
      /\ socket' = [socket EXCEPT ![s].step = "installed"]
      /\ localPort' = [localPort EXCEPT ![s] = socket[s].port]
      /\ UNCHANGED <<host, configuredPort, serving, queue, calls>>
  BY DEF Install
<1>2. socket[s] \in Sockets /\ Open(s) /\ socket[s].port \in Ports /\ Typed
  BY <1>1, SocketFacts DEF IInv, Typed, Open
<1>3. /\ socket'[s].step = "installed" /\ socket'[s].port = socket[s].port
      /\ localPort'[s] = socket[s].port
      /\ \A t \in Servers \ {s} : socket'[t] = socket[t] /\ localPort'[t] = localPort[t]
  BY <1>1, <1>2 DEF Typed, Sockets, NoSocket
<1>4. Typed'
  <2>1. [socket[s] EXCEPT !.step = "installed"] \in Sockets
    BY <1>1, <1>2 DEF Sockets, NoSocket
  <2>2. socket' \in [Servers -> Sockets] /\ localPort' \in [Servers -> Ports \cup {0}]
    BY <1>1, <1>2, <2>1 DEF Typed
  <2> QED
    BY <1>1, <1>2, <2>2 DEF Typed
<1>5. OwnPort'
  BY <1>1, <1>2, <1>3 DEF IInv, OwnPort, Open
<1>6. \A t \in Servers : (Open(t)' <=> Open(t)) /\ (Listens(t)' <=> Listens(t))
                         /\ socket'[t].port = socket[t].port
  BY <1>1, <1>2, <1>3 DEF Open, Listens
<1>7. SharedPort'
  BY <1>1, <1>6 DEF IInv, SharedPort
<1>8. Queued' /\ SureOfIt' /\ ReachesWhoItAsked'
  BY <1>1, <1>3, CallersKept
<1> QED
  BY <1>4, <1>5, <1>7, <1>8 DEF IInv

\* A closed socket: its waiting callers are reset, and nobody is sure of its
\* port any more.
LEMMA CloseKeeps ==
  ASSUME IInv, NEW s \in Servers, CloseSocket(s), serving' \in [Servers -> BOOLEAN],
         UNCHANGED <<host, configuredPort, localPort>>
  PROVE  IInv'
<1> DEFINE Dropped(c) == calls[c].step = "queued" /\ calls[c].at = s
           Asked(c) == calls[c].step # "none" /\ calls[c].step # "reset" /\ calls[c].asked = s
<1>1. /\ socket' = [socket EXCEPT ![s] = NoSocket]
      /\ queue' = [queue EXCEPT ![s] = <<>>]
      /\ calls' = [c \in Callers |->
           IF Dropped(c) THEN [step |-> "reset"]
           ELSE IF Asked(c) THEN [calls[c] EXCEPT !.sure = FALSE]
           ELSE calls[c]]
  BY DEF CloseSocket
<1>2. Typed
  BY DEF IInv
<1>3. /\ socket'[s] = NoSocket /\ queue'[s] = <<>>
      /\ \A t \in Servers \ {s} : socket'[t] = socket[t] /\ queue'[t] = queue[t]
  BY <1>1, <1>2 DEF Typed
<1>4. ASSUME NEW c \in Callers
      PROVE  /\ Dropped(c) => calls'[c] = [step |-> "reset"]
             /\ ~Dropped(c) /\ Asked(c) => calls'[c] = [calls[c] EXCEPT !.sure = FALSE]
             /\ ~Dropped(c) /\ ~Asked(c) => calls'[c] = calls[c]
  BY <1>1
<1>5. ASSUME NEW c \in Callers, ~Dropped(c), Asked(c)
      PROVE  /\ calls'[c] \in AskedCalls \cup ConnectedCalls
             /\ calls'[c].step = calls[c].step /\ ~calls'[c].sure
             /\ calls[c].step \in {"queued", "accepted"} => calls'[c].at = calls[c].at
  <2>1. calls'[c] = [calls[c] EXCEPT !.sure = FALSE]
    BY <1>4, <1>5
  <2>2. calls[c].step \in {"asked", "queued", "accepted"}
    BY <1>2, <1>5, CallFacts
  <2>3. CASE calls[c].step = "asked"
    <3>1. calls[c] \in AskedCalls
      BY <1>2, <2>3, CallFacts
    <3> QED
      BY <2>1, <2>3, <3>1 DEF AskedCalls
  <2>4. CASE calls[c].step \in {"queued", "accepted"}
    <3>1. calls[c] \in ConnectedCalls
      BY <1>2, <2>4, CallFacts
    <3> QED
      BY <2>1, <2>4, <3>1 DEF ConnectedCalls
  <2> QED
    BY <2>2, <2>3, <2>4
<1> HIDE DEF Dropped, Asked
<1>6. Typed'
  <2>1. socket' \in [Servers -> Sockets]
    BY <1>1, <1>2 DEF Typed, Sockets
  <2>2. queue' \in [Servers -> Seq(Callers \cup {Gone})]
    BY <1>1, <1>2 DEF Typed
  <2>3. ASSUME NEW c \in Callers PROVE calls'[c] \in CallRecords
    BY <1>2, <1>4, <1>5 DEF Typed, CallRecords
  <2>4. calls' \in [Callers -> CallRecords]
    BY <1>1, <2>3
  <2> QED
    BY <1>2, <2>1, <2>2, <2>4 DEF Typed
<1>7. OwnPort' /\ SharedPort'
  BY <1>3 DEF IInv, OwnPort, SharedPort, Open, Listens, NoSocket
<1>8. ASSUME NEW c \in Callers, calls'[c].step \in {"asked", "queued", "accepted"}, calls'[c].sure
      PROVE  calls'[c] = calls[c] /\ calls[c].asked # s
  <2>1. ~Dropped(c)
    <3>1. SUFFICES ASSUME Dropped(c) PROVE FALSE
      OBVIOUS
    <3>2. calls'[c] = [step |-> "reset"]
      BY <1>4, <3>1, Zenon
    <3>3. calls'[c].step = "reset"
      BY <3>2
    <3> QED
      BY <1>8, <3>3
  <2>2. ~Asked(c)
    BY <1>5, <1>8, <2>1
  <2> QED
    BY <1>4, <1>8, <2>1, <2>2 DEF Asked
<1>9. SureOfIt'
  <2>1. ASSUME NEW c \in Callers, calls'[c].step \in {"asked", "queued", "accepted"}, calls'[c].sure
        PROVE  /\ socket'[calls'[c].asked].step = "installed"
               /\ calls'[c].port = localPort'[calls'[c].asked]
    <3>1. calls'[c] = calls[c] /\ calls[c].asked \in Servers \ {s}
      BY <1>2, <1>8, <2>1, CallFacts DEF AskedCalls, ConnectedCalls
    <3> QED
      BY <1>3, <2>1, <3>1 DEF IInv, SureOfIt
  <2> QED
    BY <2>1 DEF SureOfIt
<1>10. ReachesWhoItAsked'
  BY <1>8 DEF IInv, ReachesWhoItAsked
<1>11. ASSUME NEW c \in Callers, calls[c].step = "queued", calls[c].at # s
       PROVE  calls'[c].step = "queued" /\ calls'[c].at = calls[c].at
  <2>1. ~Dropped(c)
    BY <1>11 DEF Dropped
  <2> QED
    BY <1>4, <1>5, <1>11, <2>1
<1>12. Queued'
  <2>1. ASSUME NEW t \in Servers \ {s}, NEW i \in 1..Len(queue[t]), queue[t][i] \in Callers
        PROVE  /\ calls'[queue[t][i]].step = "queued" /\ calls'[queue[t][i]].at = t
               /\ \A j \in 1..Len(queue[t]) : queue[t][j] = queue[t][i] => j = i
    BY <1>11, <2>1 DEF IInv, Queued
  <2> QED
    BY <1>3, <2>1 DEF Queued
<1> QED
  BY <1>6, <1>7, <1>9, <1>10, <1>12 DEF IInv

\* Arduino's end, and a begin that finds its listener.
LEMMA ServingKeeps ==
  ASSUME IInv, serving' \in [Servers -> BOOLEAN],
         UNCHANGED <<host, configuredPort, localPort, socket, queue, calls>>
  PROVE  IInv'
<1>1. Typed' /\ OwnPort' /\ SharedPort'
  BY DEF IInv, Typed, OwnPort, SharedPort, Open, Listens
<1>2. Queued' /\ SureOfIt' /\ ReachesWhoItAsked'
  BY CallersKept
<1> QED
  BY <1>1, <1>2 DEF IInv

\* A step of a caller, or an accept, leaves servers and ports alone.
LEMMA PortsKept ==
  ASSUME IInv, UNCHANGED <<host, configuredPort, localPort, socket, serving>>,
         queue' \in [Servers -> Seq(Callers \cup {Gone})], calls' \in [Callers -> CallRecords]
  PROVE  Typed' /\ OwnPort' /\ SharedPort'
BY DEF IInv, Typed, OwnPort, SharedPort, Open, Listens

\* The oldest connection is accepted.
LEMMA AcceptKeeps ==
  ASSUME IInv, NEW s \in Servers, Accept(s)
  PROVE  IInv'
<1> DEFINE q == queue[s]
<1>1. /\ q # <<>> /\ queue' = [queue EXCEPT ![s] = Tail(q)]
      /\ calls' = [c \in Callers |->
           IF c = Head(q) THEN [calls[c] EXCEPT !.step = "accepted"] ELSE calls[c]]
      /\ UNCHANGED <<host, configuredPort, localPort, socket, serving>>
  BY DEF Accept
<1>2. Typed /\ q \in Seq(Callers \cup {Gone})
  BY DEF IInv, Typed
<1>3. /\ Len(q) \in Nat /\ Len(q) > 0 /\ Head(q) = q[1]
      /\ Tail(q) \in Seq(Callers \cup {Gone}) /\ Len(Tail(q)) = Len(q) - 1
      /\ \A i \in 1..Len(Tail(q)) : Tail(q)[i] = q[i + 1]
  BY <1>1, <1>2, HeadAndTail
<1>4. /\ queue'[s] = Tail(q)
      /\ \A t \in Servers \ {s} : queue'[t] = queue[t]
  BY <1>1, <1>2 DEF Typed
<1>5. ASSUME Head(q) \in Callers
      PROVE  /\ calls[Head(q)].step = "queued" /\ calls[Head(q)].at = s
             /\ \A j \in 1..Len(q) : q[j] = Head(q) => j = 1
  <2>1. 1 \in 1..Len(q) /\ q[1] \in Callers
    BY <1>3, <1>5
  <2>2. /\ calls[q[1]].step = "queued" /\ calls[q[1]].at = s
        /\ \A j \in 1..Len(q) : q[j] = q[1] => j = 1
    BY <2>1 DEF IInv, Queued
  <2> QED
    BY <1>3, <2>2
<1>6. ASSUME NEW c \in Callers
      PROVE  /\ c # Head(q) => calls'[c] = calls[c]
             /\ c = Head(q) =>
                  /\ calls'[c] \in ConnectedCalls /\ calls[c].step = "queued"
                  /\ calls'[c].asked = calls[c].asked /\ calls'[c].port = calls[c].port
                  /\ calls'[c].sure = calls[c].sure /\ calls'[c].at = calls[c].at
  <2>1. CASE c # Head(q)
    BY <1>1, <2>1
  <2>2. CASE c = Head(q)
    <3>1. calls[c].step = "queued" /\ calls[c] \in ConnectedCalls
      BY <1>2, <1>5, <2>2, CallFacts
    <3>2. calls'[c] = [calls[c] EXCEPT !.step = "accepted"]
      BY <1>1, <2>2
    <3> QED
      BY <2>2, <3>1, <3>2 DEF ConnectedCalls
  <2> QED
    BY <2>1, <2>2
<1> HIDE DEF q
<1>7. Typed' /\ OwnPort' /\ SharedPort'
  <2>1. queue' \in [Servers -> Seq(Callers \cup {Gone})]
    BY <1>1, <1>2, <1>3 DEF Typed
  <2>2. ASSUME NEW c \in Callers PROVE calls'[c] \in CallRecords
    BY <1>2, <1>6 DEF Typed, CallRecords
  <2>3. calls' \in [Callers -> CallRecords]
    BY <1>1, <2>2
  <2> QED
    BY <1>1, <2>1, <2>3, PortsKept
<1>8. SureOfIt'
  <2>1. ASSUME NEW c \in Callers
        PROVE  calls'[c].step \in {"asked", "queued", "accepted"} =>
                 (calls'[c].sure => /\ socket[calls'[c].asked].step = "installed"
                                    /\ calls'[c].port = localPort[calls'[c].asked])
    BY <1>6 DEF IInv, SureOfIt
  <2> QED
    BY <1>1, <2>1 DEF SureOfIt
<1>9. ReachesWhoItAsked'
  <2>1. ASSUME NEW c \in Callers, calls'[c].step \in {"queued", "accepted"}, calls'[c].sure
        PROVE  \/ calls'[c].at = calls'[c].asked
               \/ host = "windows"
                  /\ calls'[c].port \in {configuredPort[calls'[c].at], configuredPort[calls'[c].asked]}
    BY <1>6, <2>1 DEF IInv, ReachesWhoItAsked
  <2> QED
    BY <1>1, <2>1 DEF ReachesWhoItAsked
<1>10. Queued'
  <2>1. ASSUME NEW t \in Servers \ {s}, NEW i \in 1..Len(queue[t]), queue[t][i] \in Callers
        PROVE  /\ calls'[queue[t][i]].step = "queued" /\ calls'[queue[t][i]].at = t
               /\ \A j \in 1..Len(queue[t]) : queue[t][j] = queue[t][i] => j = i
    <3>1. /\ calls[queue[t][i]].step = "queued" /\ calls[queue[t][i]].at = t
          /\ \A j \in 1..Len(queue[t]) : queue[t][j] = queue[t][i] => j = i
      BY <2>1 DEF IInv, Queued
    <3>2. queue[t][i] # Head(q)
      BY <1>5, <2>1, <3>1
    <3> QED
      BY <1>6, <2>1, <3>1, <3>2
  <2>2. ASSUME NEW i \in 1..Len(Tail(q)), Tail(q)[i] \in Callers
        PROVE  /\ calls'[Tail(q)[i]].step = "queued" /\ calls'[Tail(q)[i]].at = s
               /\ \A j \in 1..Len(Tail(q)) : Tail(q)[j] = Tail(q)[i] => j = i
    <3>1. i + 1 \in 1..Len(q) /\ Tail(q)[i] = q[i + 1] /\ i + 1 # 1
      BY <1>3
    <3>2. /\ calls[q[i + 1]].step = "queued" /\ calls[q[i + 1]].at = s
          /\ \A j \in 1..Len(q) : q[j] = q[i + 1] => j = i + 1
      BY <2>2, <3>1 DEF IInv, Queued, q
    <3>3. q[i + 1] # Head(q)
      BY <1>5, <2>2, <3>1
    <3>4. ASSUME NEW j \in 1..Len(Tail(q)), Tail(q)[j] = Tail(q)[i] PROVE j = i
      <4>1. j + 1 \in 1..Len(q) /\ q[j + 1] = q[i + 1]
        BY <1>3, <3>1, <3>4
      <4>2. j + 1 = i + 1
        BY <3>2, <4>1
      <4> QED
        BY <1>3, <4>2
    <3> QED
      BY <1>6, <2>2, <3>1, <3>2, <3>3, <3>4
  <2>3. ASSUME NEW t \in Servers, NEW i \in 1..Len(queue'[t]), queue'[t][i] \in Callers
        PROVE  /\ calls'[queue'[t][i]].step = "queued" /\ calls'[queue'[t][i]].at = t
               /\ \A j \in 1..Len(queue'[t]) : queue'[t][j] = queue'[t][i] => j = i
    <3>1. CASE t = s
      BY <1>4, <2>2, <2>3, <3>1
    <3>2. CASE t # s
      BY <1>4, <2>1, <2>3, <3>2
    <3> QED
      BY <3>1, <3>2
  <2> QED
    BY <2>3 DEF Queued
<1> QED
  BY <1>7, <1>8, <1>9, <1>10 DEF IInv

\* A step that changes one caller's record, and no queue.
LEMMA OneCallKeeps ==
  ASSUME IInv, NEW c \in Callers, NEW call \in CallRecords,
         calls[c].step # "queued", calls' = [calls EXCEPT ![c] = call],
         UNCHANGED <<host, configuredPort, localPort, socket, serving, queue>>,
         call.step \notin {"queued", "accepted"},
         call.step = "asked" =>
           (call.sure => /\ socket[call.asked].step = "installed"
                         /\ call.port = localPort[call.asked])
  PROVE  IInv'
<1>1. /\ Typed /\ calls'[c] = call
      /\ \A d \in Callers \ {c} : calls'[d] = calls[d]
      /\ calls' \in [Callers -> CallRecords]
  BY DEF IInv, Typed
<1>2. Typed' /\ OwnPort' /\ SharedPort'
  <2>1. queue' \in [Servers -> Seq(Callers \cup {Gone})]
    BY <1>1 DEF Typed
  <2> QED
    BY <1>1, <2>1, PortsKept
<1>3. SureOfIt'
  <2>1. ASSUME NEW d \in Callers, calls'[d].step \in {"asked", "queued", "accepted"}, calls'[d].sure
        PROVE  /\ socket[calls'[d].asked].step = "installed"
               /\ calls'[d].port = localPort[calls'[d].asked]
    <3>1. CASE d = c
      BY <1>1, <2>1, <3>1
    <3>2. CASE d # c
      BY <1>1, <2>1, <3>2 DEF IInv, SureOfIt
    <3> QED
      BY <3>1, <3>2
  <2> QED
    BY <2>1 DEF SureOfIt
<1>4. ReachesWhoItAsked'
  <2>1. ASSUME NEW d \in Callers, calls'[d].step \in {"queued", "accepted"}
        PROVE  d # c /\ calls'[d] = calls[d]
    BY <1>1, <2>1
  <2> QED
    BY <2>1 DEF IInv, ReachesWhoItAsked
<1>5. Queued'
  <2>1. ASSUME NEW s \in Servers, NEW i \in 1..Len(queue[s]), queue[s][i] \in Callers
        PROVE  /\ calls'[queue[s][i]] = calls[queue[s][i]]
               /\ calls[queue[s][i]].step = "queued" /\ calls[queue[s][i]].at = s
               /\ \A j \in 1..Len(queue[s]) : queue[s][j] = queue[s][i] => j = i
    <3>1. /\ calls[queue[s][i]].step = "queued" /\ calls[queue[s][i]].at = s
          /\ \A j \in 1..Len(queue[s]) : queue[s][j] = queue[s][i] => j = i
      BY <2>1 DEF IInv, Queued
    <3> QED
      BY <1>1, <2>1, <3>1
  <2> QED
    BY <2>1 DEF Queued
<1> QED
  BY <1>2, <1>3, <1>4, <1>5 DEF IInv

\* A caller asks a server for its port.
LEMMA AskPortKeeps ==
  ASSUME IInv, NEW c \in Callers, NEW s \in Servers, AskPort(c, s)
  PROVE  IInv'
<1> DEFINE call == [step |-> "asked", asked |-> s, port |-> localPort[s],
                    sure |-> socket[s].step = "installed"]
<1>1. /\ calls[c] = NoCall /\ calls' = [calls EXCEPT ![c] = call]
      /\ UNCHANGED <<host, configuredPort, localPort, socket, serving, queue>>
  BY DEF AskPort
<1>2. call \in CallRecords
  <2>1. localPort[s] \in Ports \cup {0} /\ (socket[s].step = "installed") \in BOOLEAN
    BY DEF IInv, Typed
  <2>2. call \in AskedCalls
    BY <2>1 DEF AskedCalls
  <2> QED
    BY <2>2 DEF CallRecords
<1>3. /\ calls[c].step # "queued"
      /\ call.step \notin {"queued", "accepted"}
      /\ call.sure => socket[call.asked].step = "installed" /\ call.port = localPort[call.asked]
  <2>1. call.step = "asked" /\ call.asked = s /\ call.port = localPort[s]
    OBVIOUS
  <2>2. call.sure = (socket[s].step = "installed")
    BY Zenon
  <2>3. calls[c].step # "queued"
    BY <1>1 DEF NoCall
  <2> HIDE DEF call
  <2> QED
    BY <2>1, <2>2, <2>3
<1> HIDE DEF call
<1> QED
  BY <1>1, <1>2, <1>3, OneCallKeeps

\* Nobody takes its connection.
LEMMA CreateClientFailsKeeps ==
  ASSUME IInv, NEW c \in Callers, CreateClientFails(c)
  PROVE  IInv'
<1>1. NoCall \in CallRecords /\ NoCall.step = "none"
  BY DEF CallRecords, NoCall
<1> QED
  BY <1>1, OneCallKeeps DEF CreateClientFails

\* The host connects a caller with a server that listens on the port it was
\* told: with the one that it asked, if it is sure of that, or on Windows with
\* another that shares the port.
LEMMA CreateClientKeeps ==
  ASSUME IInv, NEW c \in Callers, CreateClient(c)
  PROVE  IInv'
<1>1. PICK s \in Servers :
        /\ Listens(s) /\ socket[s].port = calls[c].port
        /\ queue' = [queue EXCEPT ![s] = Append(@, c)]
        /\ calls' = [calls EXCEPT ![c] =
             [step |-> "queued", asked |-> calls[c].asked, port |-> calls[c].port,
              sure |-> calls[c].sure, at |-> s]]
  BY DEF CreateClient
<1>2. /\ calls[c].step = "asked"
      /\ UNCHANGED <<host, configuredPort, localPort, socket, serving>>
  BY DEF CreateClient
<1> DEFINE q == queue[s]
           a == calls[c].asked
           call == [step |-> "queued", asked |-> a, port |-> calls[c].port,
                    sure |-> calls[c].sure, at |-> s]
<1>3. /\ Typed /\ q \in Seq(Callers \cup {Gone}) /\ Len(q) \in Nat
      /\ a \in Servers /\ calls[c].port \in Ports \cup {0} /\ calls[c].sure \in BOOLEAN
  BY <1>2, CallFacts DEF IInv, Typed, AskedCalls
<1>4. /\ Append(q, c) \in Seq(Callers \cup {Gone}) /\ Len(Append(q, c)) = Len(q) + 1
      /\ Append(q, c)[Len(q) + 1] = c
      /\ \A i \in 1..Len(q) : Append(q, c)[i] = q[i]
  <2> HIDE DEF q
  <2> QED
    BY <1>3, AppendProperties
<1>5. /\ queue'[s] = Append(q, c)
      /\ \A t \in Servers \ {s} : queue'[t] = queue[t]
      /\ calls'[c] = call
      /\ \A d \in Callers \ {c} : calls'[d] = calls[d]
  BY <1>1, <1>3 DEF Typed
<1>6. call \in ConnectedCalls
  BY <1>3 DEF ConnectedCalls
<1>7. Typed' /\ OwnPort' /\ SharedPort'
  <2>1. queue' \in [Servers -> Seq(Callers \cup {Gone})]
    BY <1>1, <1>3, <1>4 DEF Typed
  <2>2. calls' \in [Callers -> CallRecords]
    BY <1>1, <1>3, <1>6 DEF Typed, CallRecords
  <2> QED
    BY <1>2, <2>1, <2>2, PortsKept
<1>8. ASSUME calls[c].sure PROVE socket[a].step = "installed" /\ calls[c].port = localPort[a]
  BY <1>2, <1>8 DEF IInv, SureOfIt
<1>9. SureOfIt'
  <2>1. ASSUME NEW d \in Callers, calls'[d].step \in {"asked", "queued", "accepted"}, calls'[d].sure
        PROVE  /\ socket[calls'[d].asked].step = "installed"
               /\ calls'[d].port = localPort[calls'[d].asked]
    <3>1. CASE d = c
      BY <1>5, <1>8, <2>1, <3>1
    <3>2. CASE d # c
      BY <1>5, <2>1, <3>2 DEF IInv, SureOfIt
    <3> QED
      BY <3>1, <3>2
  <2> QED
    BY <1>2, <2>1 DEF SureOfIt
<1>10. ASSUME calls[c].sure
       PROVE  \/ s = a
              \/ host = "windows" /\ calls[c].port \in {configuredPort[s], configuredPort[a]}
  <2>1. Open(s) /\ Open(a) /\ Listens(a) /\ socket[s].port # 0
    BY <1>1, <1>3, <1>8, <1>10, SocketFacts DEF Listens, Open
  <2>2. socket[a].port = calls[c].port
    <3>1. CASE host # "arduino"
      BY <1>3, <1>8, <1>10, <3>1 DEF IInv, OwnPort
    <3>2. CASE host = "arduino"
      <4>1. localPort[a] = configuredPort[a] /\ configuredPort[a] # 0
        BY <1>1, <1>3, <1>8, <1>10, <2>1, <3>2 DEF IInv, OwnPort
      <4> QED
        BY <1>3, <1>8, <1>10, <2>1, <4>1 DEF IInv, OwnPort
    <3> QED
      BY <3>1, <3>2
  <2> QED
    BY <1>1, <1>3, <2>1, <2>2 DEF IInv, SharedPort
<1>11. ReachesWhoItAsked'
  <2>1. ASSUME NEW d \in Callers, calls'[d].step \in {"queued", "accepted"}, calls'[d].sure
        PROVE  \/ calls'[d].at = calls'[d].asked
               \/ host = "windows"
                  /\ calls'[d].port \in {configuredPort[calls'[d].at], configuredPort[calls'[d].asked]}
    <3>1. CASE d = c
      BY <1>5, <1>10, <2>1, <3>1
    <3>2. CASE d # c
      BY <1>5, <2>1, <3>2 DEF IInv, ReachesWhoItAsked
    <3> QED
      BY <3>1, <3>2
  <2> QED
    BY <1>2, <2>1 DEF ReachesWhoItAsked
<1>12. ASSUME NEW t \in Servers, NEW i \in 1..Len(queue[t]), queue[t][i] \in Callers
       PROVE  /\ queue[t][i] # c /\ calls'[queue[t][i]] = calls[queue[t][i]]
              /\ calls[queue[t][i]].step = "queued" /\ calls[queue[t][i]].at = t
              /\ \A j \in 1..Len(queue[t]) : queue[t][j] = queue[t][i] => j = i
  <2>1. /\ calls[queue[t][i]].step = "queued" /\ calls[queue[t][i]].at = t
        /\ \A j \in 1..Len(queue[t]) : queue[t][j] = queue[t][i] => j = i
    BY <1>12 DEF IInv, Queued
  <2>2. queue[t][i] # c
    BY <1>2, <2>1
  <2> QED
    BY <1>5, <1>12, <2>1, <2>2
<1>13. ASSUME NEW i \in 1..(Len(q) + 1), Append(q, c)[i] \in Callers
       PROVE  /\ calls'[Append(q, c)[i]].step = "queued" /\ calls'[Append(q, c)[i]].at = s
              /\ \A j \in 1..(Len(q) + 1) : Append(q, c)[j] = Append(q, c)[i] => j = i
  <2>1. ASSUME NEW j \in 1..Len(q) PROVE Append(q, c)[j] = q[j] /\ q[j] # c
    BY <1>4, <1>12, <2>1
  <2>2. \A j \in 1..(Len(q) + 1) : j = Len(q) + 1 \/ j \in 1..Len(q)
    BY <1>3
  <2>3. CASE i = Len(q) + 1
    <3>1. Append(q, c)[i] = c
      BY <1>4, <2>3
    <3> QED
      BY <1>5, <2>1, <2>2, <2>3, <3>1
  <2>4. CASE i \in 1..Len(q)
    <3>1. Append(q, c)[i] = q[i] /\ q[i] \in Callers /\ q[i] # c
      BY <1>13, <2>1, <2>4
    <3>2. /\ calls'[q[i]].step = "queued" /\ calls'[q[i]].at = s
          /\ \A j \in 1..Len(q) : q[j] = q[i] => j = i
      BY <1>12, <2>4, <3>1
    <3> QED
      BY <1>4, <2>1, <2>2, <3>1, <3>2
  <2> QED
    BY <2>2, <2>3, <2>4
<1>14. Queued'
  <2>1. ASSUME NEW t \in Servers, NEW i \in 1..Len(queue'[t]), queue'[t][i] \in Callers
        PROVE  /\ calls'[queue'[t][i]].step = "queued" /\ calls'[queue'[t][i]].at = t
               /\ \A j \in 1..Len(queue'[t]) : queue'[t][j] = queue'[t][i] => j = i
    <3>1. CASE t = s
      BY <1>4, <1>5, <1>13, <2>1, <3>1
    <3>2. CASE t # s
      BY <1>5, <1>12, <2>1, <3>2
    <3> QED
      BY <3>1, <3>2
  <2> QED
    BY <2>1 DEF Queued
<1> QED
  BY <1>7, <1>9, <1>11, <1>14 DEF IInv

\* A caller leaves: its connection stays in the queue, as nobody's.
LEMMA LeaveKeeps ==
  ASSUME IInv, NEW c \in Callers, Leave(c)
  PROVE  IInv'
<1>1. /\ calls' = [calls EXCEPT ![c] = NoCall]
      /\ queue' = [s \in Servers |->
           [i \in DOMAIN queue[s] |-> IF queue[s][i] = c THEN Gone ELSE queue[s][i]]]
      /\ UNCHANGED <<host, configuredPort, localPort, socket, serving>>
  BY DEF Leave
<1>2. /\ Typed /\ calls'[c] = NoCall
      /\ \A d \in Callers \ {c} : calls'[d] = calls[d]
  BY <1>1 DEF IInv, Typed
<1>3. ASSUME NEW s \in Servers
      PROVE  /\ queue'[s] \in Seq(Callers \cup {Gone}) /\ Len(queue'[s]) = Len(queue[s])
             /\ \A i \in 1..Len(queue[s]) :
                  queue'[s][i] = IF queue[s][i] = c THEN Gone ELSE queue[s][i]
  <2> DEFINE q == queue[s]
             r == queue'[s]
  <2>1. q \in Seq(Callers \cup {Gone}) /\ Len(q) \in Nat
    BY <1>2 DEF Typed
  <2>2. DOMAIN q = 1..Len(q) /\ \A i \in 1..Len(q) : q[i] \in Callers \cup {Gone}
    BY <2>1
  <2>3. r = [i \in 1..Len(q) |-> IF q[i] = c THEN Gone ELSE q[i]]
    BY <1>1, <2>2
  <2> HIDE DEF q, r
  <2>4. r \in [1..Len(q) -> Callers \cup {Gone}]
    BY <2>2, <2>3
  <2>5. r \in Seq(Callers \cup {Gone}) /\ Len(r) = Len(q)
    BY <2>1, <2>4
  <2>6. \A i \in 1..Len(q) : r[i] = IF q[i] = c THEN Gone ELSE q[i]
    BY <2>3
  <2> QED
    BY <2>5, <2>6 DEF q, r
<1>4. Typed' /\ OwnPort' /\ SharedPort'
  <2>1. queue' \in [Servers -> Seq(Callers \cup {Gone})]
    BY <1>1, <1>3
  <2>2. calls' \in [Callers -> CallRecords]
    BY <1>1, <1>2 DEF Typed, CallRecords
  <2> QED
    BY <1>1, <2>1, <2>2, PortsKept
<1>5. ASSUME NEW d \in Callers, calls'[d].step \in {"asked", "queued", "accepted"}
      PROVE  calls'[d] = calls[d]
  BY <1>2, <1>5 DEF NoCall
<1>6. SureOfIt'
  <2>1. ASSUME NEW d \in Callers, calls'[d].step \in {"asked", "queued", "accepted"}, calls'[d].sure
        PROVE  /\ socket[calls'[d].asked].step = "installed"
               /\ calls'[d].port = localPort[calls'[d].asked]
    BY <1>5, <2>1 DEF IInv, SureOfIt
  <2> QED
    BY <1>1, <2>1 DEF SureOfIt
<1>7. ReachesWhoItAsked'
  <2>1. ASSUME NEW d \in Callers, calls'[d].step \in {"queued", "accepted"}
        PROVE  calls'[d] = calls[d]
    BY <1>5, <2>1
  <2> QED
    BY <1>1, <2>1 DEF IInv, ReachesWhoItAsked
<1>8. Queued'
  <2>1. ASSUME NEW s \in Servers, NEW i \in 1..Len(queue[s]), queue'[s][i] \in Callers
        PROVE  queue'[s][i] = queue[s][i] /\ queue[s][i] # c
    BY <1>3, <2>1, GoneAssumption
  <2>2. ASSUME NEW s \in Servers, NEW i \in 1..Len(queue[s]), queue'[s][i] \in Callers
        PROVE  /\ calls'[queue'[s][i]].step = "queued" /\ calls'[queue'[s][i]].at = s
               /\ \A j \in 1..Len(queue[s]) : queue'[s][j] = queue'[s][i] => j = i
    <3>1. queue'[s][i] = queue[s][i] /\ queue[s][i] \in Callers \ {c}
      BY <2>1, <2>2
    <3>2. /\ calls[queue[s][i]].step = "queued" /\ calls[queue[s][i]].at = s
          /\ \A j \in 1..Len(queue[s]) : queue[s][j] = queue[s][i] => j = i
      BY <3>1 DEF IInv, Queued
    <3>3. ASSUME NEW j \in 1..Len(queue[s]), queue'[s][j] = queue'[s][i] PROVE j = i
      <4>1. queue[s][j] = queue[s][i]
        BY <2>1, <2>2, <3>1, <3>3
      <4> QED
        BY <3>2, <4>1
    <3> QED
      BY <1>2, <3>1, <3>2, <3>3
  <2> QED
    BY <1>3, <2>2 DEF Queued
<1> QED
  BY <1>4, <1>6, <1>7, <1>8 DEF IInv

-----------------------------------------------------------------------------
(* The theorem.                                                            *)

\* The invariant holds at the beginning.
LEMMA InitIInv == Init => IInv
<1> SUFFICES ASSUME Init PROVE IInv
  OBVIOUS
<1>1. <<>> \in Seq(Callers \cup {Gone}) /\ Len(<<>>) = 0
  OBVIOUS
<1>2. /\ \A s \in Servers : socket[s].step = "none" /\ queue[s] = <<>>
      /\ \A c \in Callers : calls[c].step = "none"
  BY DEF Init, NoSocket, NoCall
<1>3. Typed
  <2>1. host \in {"posix", "windows", "arduino"}
    BY HostsAssumption DEF Init
  <2>2. configuredPort \in [Servers -> Ports \cup {0}]
    BY PortsAssumption DEF Init
  <2>3. socket \in [Servers -> Sockets] /\ calls \in [Callers -> CallRecords]
    BY DEF Init, Sockets, CallRecords
  <2> QED
    BY <1>1, <2>1, <2>2, <2>3 DEF Init, Typed
<1>4. OwnPort /\ SharedPort
  BY <1>2 DEF Init, OwnPort, SharedPort, Open
<1>5. Queued /\ SureOfIt /\ ReachesWhoItAsked
  BY <1>1, <1>2 DEF Queued, SureOfIt, ReachesWhoItAsked
<1> QED
  BY <1>3, <1>4, <1>5 DEF IInv

\* A server's own calls keep it.
LEMMA ServerCallKeeps ==
  ASSUME IInv, NEW s \in Servers,
         PosixServerCall(s) \/ WindowsServerCall(s) \/ ArduinoServerCall(s)
  PROVE  IInv'
<1>1. serving \in [Servers -> BOOLEAN] /\ configuredPort[s] \in Ports \cup {0}
  BY DEF IInv, Typed
<1>2. CASE Bind(s)
  <2>1. PICK p \in Bindable(configuredPort[s]) :
          socket' = [socket EXCEPT ![s] = [step |-> "bound", port |-> p]]
    BY <1>2 DEF Bind
  <2> QED
    BY <1>2, <2>1, NewSocketKeeps DEF Bind
<1>3. CASE host # "arduino" /\ Listen(s)
  BY <1>3, ListenKeeps
<1>4. CASE host # "arduino" /\ Install(s)
  BY <1>4, InstallKeeps
<1>5. CASE BeginFails(s) \/ End(s)
  <2>1. CloseSocket(s) /\ UNCHANGED <<host, configuredPort, localPort>>
    BY <1>5 DEF BeginFails, End
  <2>2. serving' = serving \/ serving' = [serving EXCEPT ![s] = FALSE]
    BY <1>5 DEF BeginFails, End
  <2>3. serving' \in [Servers -> BOOLEAN]
    BY <1>1, <2>2
  <2> QED
    BY <2>1, <2>3, CloseKeeps
<1>6. CASE ArduinoBegin(s)
  <2>1. /\ host = "arduino" /\ serving' = [serving EXCEPT ![s] = TRUE]
        /\ UNCHANGED <<host, configuredPort, localPort, queue, calls>>
    BY <1>6 DEF ArduinoBegin
  <2>2. CASE socket[s].step # "none"
    <3>1. socket' = socket
      BY <1>6, <2>2 DEF ArduinoBegin
    <3>2. serving' \in [Servers -> BOOLEAN]
      BY <1>1, <2>1
    <3> QED
      BY <2>1, <3>1, <3>2, ServingKeeps
  <2>3. CASE socket[s].step = "none"
    <3>1. PICK p \in Bindable(configuredPort[s]) :
            socket' = [socket EXCEPT ![s] = [step |-> "installed", port |-> p]]
      BY <1>6, <2>3 DEF ArduinoBegin
    <3> QED
      BY <2>1, <2>3, <3>1, NewSocketKeeps
  <2> QED
    BY <2>2, <2>3
<1>7. CASE ArduinoEnd(s)
  <2>1. serving' \in [Servers -> BOOLEAN]
    BY <1>1, <1>7 DEF ArduinoEnd
  <2> QED
    BY <1>7, <2>1, ServingKeeps DEF ArduinoEnd
<1> QED
  BY <1>2, <1>3, <1>4, <1>5, <1>6, <1>7
     DEF PosixServerCall, WindowsServerCall, ArduinoServerCall

\* Every step keeps it.
LEMMA StepIInv == IInv /\ [Next]_vars => IInv'
<1> SUFFICES ASSUME IInv, [Next]_vars PROVE IInv'
  OBVIOUS
<1>1. CASE UNCHANGED vars
  <2>1. serving' \in [Servers -> BOOLEAN]
    BY <1>1 DEF IInv, Typed, vars
  <2> QED
    BY <1>1, <2>1, ServingKeeps DEF vars
<1>2. ASSUME NEW s \in Servers, PosixServerCall(s) \/ WindowsServerCall(s) \/ ArduinoServerCall(s)
      PROVE  IInv'
  BY <1>2, ServerCallKeeps
<1>3. ASSUME NEW s \in Servers, Accept(s) PROVE IInv'
  BY <1>3, AcceptKeeps
<1>4. ASSUME NEW c \in Callers, NEW s \in Servers, AskPort(c, s) PROVE IInv'
  BY <1>4, AskPortKeeps
<1>5. ASSUME NEW c \in Callers, CreateClient(c) PROVE IInv'
  BY <1>5, CreateClientKeeps
<1>6. ASSUME NEW c \in Callers, CreateClientFails(c) PROVE IInv'
  BY <1>6, CreateClientFailsKeeps
<1>7. ASSUME NEW c \in Callers, Leave(c) PROVE IInv'
  BY <1>7, LeaveKeeps
<1> QED
  BY <1>1, <1>2, <1>3, <1>4, <1>5, <1>6, <1>7 DEF Next

\* A caller who is sure of the port it was told is connected to the server it
\* asked, or on Windows to one that shares a configured port with it: for any
\* number of servers and callers, however they begin, fail and end.
THEOREM CallersReachWhoTheyAsked == Spec => []ReachesWhoItAsked
<1>1. Init => IInv
  BY InitIInv
<1>2. IInv /\ [Next]_vars => IInv'
  BY StepIInv
<1>3. IInv => ReachesWhoItAsked
  BY DEF IInv
<1> QED
  BY <1>1, <1>2, <1>3, PTL DEF Spec

\* On POSIX and Arduino no two servers listen on one port, and on Windows they do
\* only on a port that one of the two was created with.
THEOREM ListenersApart == Spec => []SharedPort
<1>1. Init => IInv
  BY InitIInv
<1>2. IInv /\ [Next]_vars => IInv'
  BY StepIInv
<1>3. IInv => SharedPort
  BY DEF IInv
<1> QED
  BY <1>1, <1>2, <1>3, PTL DEF Spec
=============================================================================
