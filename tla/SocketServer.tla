---------------------------- MODULE SocketServer ----------------------------
(***************************************************************************)
(* TCP servers and the factory's createClient: PosixSocketServer           *)
(* (posix/PosixSocketTransport.h), WindowsServer                           *)
(* (windows/WindowsSocketTransport.h) and ArduinoWiFiServerAdapter         *)
(* (arduino/ArduinoWiFiTransport.h).  Servers of several programs share    *)
(* the ports of a host, with one step for each system call of begin, and   *)
(* callers who ask a server for its port connect to it some time later.    *)
(***************************************************************************)
EXTENDS Naturals, Sequences

CONSTANTS
  Hosts,       \* the builds: a subset of {"posix", "windows", "arduino"}
  Servers,     \* IServer objects
  Callers,     \* programs that connect, one connection each at a time
  Gone,        \* a connection whose caller has left, told apart from Callers
  Ports,       \* the ports of the host
  Configured,  \* the ports servers are created with; 0 asks for any
  Backlog      \* bound: connections the host keeps for a server to accept

ASSUME HostsAssumption == Hosts \subseteq {"posix", "windows", "arduino"}
ASSUME PortsAssumption == Ports \subseteq Nat \ {0} /\ Configured \subseteq Ports \cup {0}
ASSUME GoneAssumption == Gone \notin Callers
ASSUME BacklogAssumption == Backlog \in Nat \ {0}

VARIABLES
  host,           \* the build that runs
  configuredPort,
  localPort,      \* what port() returns
  socket,         \* each server's socket: in begin, or as listener_
  serving,        \* servers whose program has called begin, and not end since
  queue,          \* the connections the host has for each server
  calls           \* each caller's connection, and how it came to it

vars == <<host, configuredPort, localPort, socket, serving, queue, calls>>

NoSocket == [step |-> "none", port |-> 0]
NoCall == [step |-> "none"]

Init ==
  /\ host \in Hosts
  /\ configuredPort \in [Servers -> Configured]
  /\ localPort = configuredPort
  /\ socket = [s \in Servers |-> NoSocket]
  /\ serving = [s \in Servers |-> FALSE]
  /\ queue = [s \in Servers |-> <<>>]
  /\ calls = [c \in Callers |-> NoCall]

-----------------------------------------------------------------------------
(* begin. Whatever fails in it, it returns without a word.                 *)

Listens(s) == socket[s].step \in {"listening", "installed"}

\* The ports bind accepts: for 0 the host picks one that nothing is bound to.
\* With SO_REUSEADDR, POSIX refuses a port somebody listens on, and Windows none.
Bindable(port) ==
  IF port = 0 THEN {p \in Ports : \A t \in Servers : socket[t].port # p}
  ELSE IF host = "windows" THEN {port}
  ELSE {p \in {port} : ~ \E t \in Servers : Listens(t) /\ socket[t].port = p}

\* Mutant of Bind: a server that listens begins again.
BindAgain(s) ==
  /\ host # "arduino" /\ socket[s].step \in {"none", "installed"}
  /\ \E p \in Bindable(configuredPort[s]) :
       socket' = [socket EXCEPT ![s] = [step |-> "bound", port |-> p]]
  /\ serving' = [serving EXCEPT ![s] = TRUE]
  /\ UNCHANGED <<host, configuredPort, localPort, queue, calls>>

\* A server that has its listener returns at once.
Bind(s) ==
  /\ host # "arduino" /\ socket[s].step = "none"
  /\ \E p \in Bindable(configuredPort[s]) :
       socket' = [socket EXCEPT ![s] = [step |-> "bound", port |-> p]]
  /\ serving' = [serving EXCEPT ![s] = TRUE]
  /\ UNCHANGED <<host, configuredPort, localPort, queue, calls>>

\* Two servers may bind one port before either listens; the second listen fails.
Listen(s) ==
  /\ socket[s].step = "bound"
  /\ socket[s].port \in Bindable(socket[s].port)
  /\ socket' = [socket EXCEPT ![s].step = "listening"]
  /\ UNCHANGED <<host, configuredPort, localPort, serving, queue, calls>>

\* The socket is made non-blocking and becomes the listener.
Install(s) ==
  /\ socket[s].step = "listening"
  /\ socket' = [socket EXCEPT ![s].step = "installed"]
  /\ localPort' = [localPort EXCEPT ![s] = socket[s].port]
  /\ UNCHANGED <<host, configuredPort, serving, queue, calls>>

\* The host closes a server's socket, and resets the connections that wait for
\* it. A caller can no longer be sure of a port that it asked for before.
CloseSocket(s) ==
  /\ socket' = [socket EXCEPT ![s] = NoSocket]
  /\ queue' = [queue EXCEPT ![s] = <<>>]
  /\ calls' = [c \in Callers |->
       IF calls[c].step = "queued" /\ calls[c].at = s THEN [step |-> "reset"]
       ELSE IF calls[c].step # "none" /\ calls[c].step # "reset" /\ calls[c].asked = s
       THEN [calls[c] EXCEPT !.sure = FALSE]
       ELSE calls[c]]

\* The second listen, or the switch to non-blocking, fails.
BeginFails(s) ==
  /\ socket[s].step \in {"bound", "listening"}
  /\ CloseSocket(s)
  /\ UNCHANGED <<host, configuredPort, localPort, serving>>

\* The vendor's begin: once for good, and with the port it was created with.
ArduinoBegin(s) ==
  /\ host = "arduino"
  /\ IF socket[s].step # "none" THEN UNCHANGED socket
     ELSE \E p \in Bindable(configuredPort[s]) :
            socket' = [socket EXCEPT ![s] = [step |-> "installed", port |-> p]]
  /\ serving' = [serving EXCEPT ![s] = TRUE]
  /\ UNCHANGED <<host, configuredPort, localPort, queue, calls>>

-----------------------------------------------------------------------------
(* end and accept.                                                         *)

\* Mutant of End: the listener stays open.
EndKeepingListener(s) ==
  /\ socket[s].step = "installed"
  /\ serving' = [serving EXCEPT ![s] = FALSE]
  /\ UNCHANGED <<host, configuredPort, localPort, socket, queue, calls>>

\* The port is not reset: port() goes on returning that of the closed listener.
End(s) ==
  /\ host # "arduino" /\ socket[s].step = "installed"
  /\ CloseSocket(s)
  /\ serving' = [serving EXCEPT ![s] = FALSE]
  /\ UNCHANGED <<host, configuredPort, localPort>>

\* end does nothing: the host goes on taking connections.
ArduinoEnd(s) ==
  /\ host = "arduino" /\ serving[s]
  /\ serving' = [serving EXCEPT ![s] = FALSE]
  /\ UNCHANGED <<host, configuredPort, localPort, socket, queue, calls>>

\* The oldest connection, whether or not its caller is still there.
Accept(s) ==
  /\ serving[s] /\ socket[s].step = "installed" /\ queue[s] # <<>>
  /\ queue' = [queue EXCEPT ![s] = Tail(@)]
  /\ calls' = [c \in Callers |->
       IF c = Head(queue[s]) THEN [calls[c] EXCEPT !.step = "accepted"] ELSE calls[c]]
  /\ UNCHANGED <<host, configuredPort, localPort, socket, serving>>

PosixServerCall(s) == host = "posix" /\ (Bind(s) \/ Listen(s) \/ Install(s) \/ BeginFails(s) \/ End(s))
WindowsServerCall(s) == host = "windows" /\ (Bind(s) \/ Listen(s) \/ Install(s) \/ BeginFails(s) \/ End(s))
ArduinoServerCall(s) == ArduinoBegin(s) \/ ArduinoEnd(s)

-----------------------------------------------------------------------------
(* The callers.                                                            *)

\* A caller learns a server's port. It may be sure of it while the server has
\* its listener, until it closes it.
AskPort(c, s) ==
  /\ calls[c] = NoCall
  /\ calls' = [calls EXCEPT ![c] =
       [step |-> "asked", asked |-> s, port |-> localPort[s],
        sure |-> socket[s].step = "installed"]]
  /\ UNCHANGED <<host, configuredPort, localPort, socket, serving, queue>>

\* createClient: the host completes the connection, before any accept, with
\* whoever listens on the port now. On Windows that may be several.
CreateClient(c) ==
  /\ calls[c].step = "asked"
  /\ \E s \in Servers :
       /\ Listens(s) /\ socket[s].port = calls[c].port /\ Len(queue[s]) < Backlog
       /\ queue' = [queue EXCEPT ![s] = Append(@, c)]
       /\ calls' = [calls EXCEPT ![c] =
            [step |-> "queued", asked |-> calls[c].asked, port |-> calls[c].port,
             sure |-> calls[c].sure, at |-> s]]
  /\ UNCHANGED <<host, configuredPort, localPort, socket, serving>>

\* Nobody listens, or the name, the socket or the network fails.
CreateClientFails(c) ==
  /\ calls[c].step = "asked"
  /\ calls' = [calls EXCEPT ![c] = NoCall]
  /\ UNCHANGED <<host, configuredPort, localPort, socket, serving, queue>>

\* The caller stops its client; the server still accepts the connection.
Leave(c) ==
  /\ calls[c].step \in {"queued", "accepted", "reset"}
  /\ calls' = [calls EXCEPT ![c] = NoCall]
  /\ queue' = [s \in Servers |->
       [i \in DOMAIN queue[s] |-> IF queue[s][i] = c THEN Gone ELSE queue[s][i]]]
  /\ UNCHANGED <<host, configuredPort, localPort, socket, serving>>

Next ==
  \/ \E s \in Servers :
       PosixServerCall(s) \/ WindowsServerCall(s) \/ ArduinoServerCall(s) \/ Accept(s)
  \/ \E c \in Callers :
       \/ \E s \in Servers : AskPort(c, s)
       \/ CreateClient(c)
       \/ CreateClientFails(c)
       \/ Leave(c)

\* begin does not stop half way, and a program that serves goes on calling
\* accept.
Spec ==
  /\ Init /\ [][Next]_vars
  /\ \A s \in Servers : WF_vars(Listen(s) \/ Install(s) \/ BeginFails(s)) /\ WF_vars(Accept(s))

-----------------------------------------------------------------------------
(* Correctness.                                                            *)

\* A caller who connects to the port of a server that has its listener, and
\* keeps it until then, is connected to that server and no other, however
\* servers begin, fail to begin and end around it. On Windows another server may
\* take its place, if one of the two was created with that very port; elsewhere,
\* and when the server has ended in between, only a port that was given up can
\* lead to a stranger.
ReachesWhoItAsked ==
  \A c \in Callers :
    LET call == calls[c] IN
    call.step \in {"queued", "accepted"} /\ call.sure =>
      \/ call.at = call.asked
      \/ host = "windows" /\ call.port \in {configuredPort[call.at], configuredPort[call.asked]}

\* A connection that the host has taken is accepted, or reset when the server
\* ends: its caller is not left waiting. On Arduino it is, once the server's
\* program has called end, which neither closes nor resets anything.
Served ==
  \A c \in Callers : \A s \in Servers :
    (calls[c].step = "queued" /\ calls[c].at = s)
      ~> \/ calls[c].step # "queued"
         \/ host = "arduino" /\ ~serving[s]
=============================================================================
