----------------------------- MODULE HostFiles -----------------------------
(***************************************************************************)
(* The file adapters over a host's file system: PosixFS and PosixFile      *)
(* (posix/PosixFileAdapter.h), WindowsFs and WindowsFile                   *)
(* (windows/WindowsFileAdapter.h), ArduinoFS and ArduinoFile               *)
(* (arduino/ArduinoFileAdapter.h).  Callers share the host's directory:    *)
(* between the stat and the open of one caller's call, and between the     *)
(* size a handle remembers and its next use, others create, replace, move  *)
(* and truncate.                                                           *)
(*                                                                         *)
(* A caller's bytes are its own name, so that a file shows who wrote it.   *)
(***************************************************************************)
EXTENDS Naturals, Sequences, FiniteSets, FiniteSetsExt

CONSTANTS
  Hosts,     \* the builds: a subset of {"posix", "windows", "arduino"}
  Names,     \* the paths callers use, all in one directory
  Callers,   \* each makes one call at a time and keeps one FileHandle
  Modes,     \* the modes callers open files with
  Zero,      \* the byte of a hole, told apart from Callers
  MaxNodes,  \* bound: files and directories ever created
  MaxOpens,  \* bound: calls of open
  MaxSize    \* bound: bytes in a file

ASSUME HostsAssumption == Hosts \subseteq {"posix", "windows", "arduino"}
ASSUME ModesAssumption == Modes \subseteq {"Read", "Write", "ReadWrite"}
ASSUME ZeroAssumption == Zero \notin Callers
ASSUME BoundsAssumption == MaxNodes \in Nat /\ MaxSize \in Nat \ {0}

VARIABLES
  host,      \* the build that runs
  opens,     \* how often open was called
  entries,   \* the host's directory: the node each path leads to, or Null
  nodes,     \* the host's files and directories, in order of creation
  files,     \* what each caller's FileHandle holds
  calls,     \* the open or remove each caller is in the middle of
  known      \* history: the bytes each caller last saw or put in its file, none
             \* once another caller has changed them

vars == <<host, opens, entries, nodes, files, calls, known>>

Null == 0
Node == [directory : BOOLEAN, data : Seq(Callers \cup {Zero})]
Sizes == {{}} \cup {{n} : n \in 0..MaxSize}  \* std::optional<std::size_t>

NoCall == [step |-> "none"]

\* No handle, or one without a stream, of a directory or closed: every call on
\* it returns at once.
NoFile == [stream |-> FALSE]

\* The host has no file, or one that a caller wrote in an earlier run.
Init ==
  /\ host \in Hosts
  /\ \/ nodes = <<>> /\ entries = [p \in Names |-> Null]
     \/ \E c \in Callers, p \in Names :
          /\ nodes = <<[directory |-> FALSE, data |-> <<c>>]>>
          /\ entries = [q \in Names |-> IF q = p THEN 1 ELSE Null]
  /\ files = [c \in Callers |-> NoFile]
  /\ calls = [c \in Callers |-> NoCall]
  /\ known = [c \in Callers |-> {}]
  /\ opens = 0

-----------------------------------------------------------------------------
(* The host.                                                               *)

IsDirectory(n) == n # Null /\ nodes[n].directory

\* The size stat gives for a path: none for a directory or a missing entry.
StatSize(p) ==
  IF entries[p] = Null \/ IsDirectory(entries[p]) THEN {}
  ELSE {Len(nodes[entries[p]].data)}

\* Bytes written at an offset; a hole before them reads as zeros.
Written(data, offset, bytes) ==
  LET need == offset + Len(bytes)
      size == IF Len(data) < need THEN need ELSE Len(data)
  IN [i \in 1..size |->
        IF offset < i /\ i <= need THEN bytes[i - offset]
        ELSE IF i <= Len(data) THEN data[i] ELSE Zero]

\* Mutant of Landed: the bytes go to where the position is now.
LandedAtPosition(c) ==
  LET f == files[c] IN
  IF f.pending = <<>> THEN nodes
  ELSE [nodes EXCEPT ![f.node].data = Written(@, f.position, f.pending)]

\* An fstream keeps a small write until the next seek, flush or close, each of
\* which writes it out where it was made: behind it the position has not moved.
Landed(c) ==
  LET f == files[c] IN
  IF f.pending = <<>> THEN nodes
  ELSE [nodes EXCEPT ![f.node].data = Written(@, f.position - Len(f.pending), f.pending)]

\* The callers who have the node open, or are about to.
Users(n) ==
  {c \in Callers : \/ files[c].stream /\ files[c].node = n
                   \/ calls[c].step = "refresh" /\ calls[c].node = n}

\* After a step of c, who then knows its file as k says, the others know theirs
\* as before if the step left its bytes alone.
Knows(c, k) ==
  known' = [d \in Callers |->
    IF d = c THEN k
    ELSE IF files[d].stream /\ nodes'[files[d].node] # nodes[files[d].node] THEN {}
    ELSE known[d]]

-----------------------------------------------------------------------------
(* open: a stat, the host's open, and but for Arduino a second stat.       *)

Free(c) == calls[c] = NoCall

Handle(n, p, mode, size) ==
  [stream |-> TRUE, node |-> n, path |-> p, mode |-> mode,
   size |-> size, position |-> 0, pending |-> <<>>]

\* Missing files are opened for writing only; a directory is returned at once,
\* as a handle without a stream. The call remembers the size it was told.
Stat(c, p, mode, size) ==
  /\ Free(c) /\ files[c] = NoFile
  /\ (entries[p] = Null => mode # "Read") /\ ~IsDirectory(entries[p])
  /\ opens < MaxOpens /\ opens' = opens + 1
  /\ calls' = [calls EXCEPT ![c] =
       [step |-> "open", path |-> p, mode |-> mode, found |-> entries[p], size |-> size]]
  /\ UNCHANGED <<host, entries, nodes, files, known>>

OpenStat(c, p, mode) == host # "arduino" /\ Stat(c, p, mode, {})

\* Mutant of Truncates: ReadWrite always creates the file anew.
TruncatesAll(mode, exists) == mode # "Read"

\* toOpenMode: whether the stream is opened with trunc, which creates the file
\* if there is none and empties it if there is one.
Truncates(mode, exists) == mode = "Write" \/ (mode = "ReadWrite" /\ ~exists)

\* What the host opens is what is there now, whatever stat found. A directory
\* can only be opened for reading, on POSIX as if it were a file, on Arduino as
\* the directory it is. A host that is full creates nothing.
Opens(call) ==
  LET n == entries[call.path] IN
  IF n = Null THEN Truncates(call.mode, call.found # Null) /\ Len(nodes) < MaxNodes
  ELSE IsDirectory(n) => host # "windows" /\ call.mode = "Read"

OpenFails(c) ==
  /\ calls[c].step = "open" /\ ~Opens(calls[c])
  /\ calls' = [calls EXCEPT ![c] = NoCall]
  /\ UNCHANGED <<host, opens, entries, nodes, files, known>>

\* The node the call gets, and what opening it does to the host.
Target(call) == IF entries[call.path] = Null THEN Len(nodes) + 1 ELSE entries[call.path]

HostOpens(c) ==
  LET call == calls[c] IN
  /\ call.step = "open" /\ Opens(call)
  /\ nodes' = IF Target(call) \notin DOMAIN nodes
              THEN Append(nodes, [directory |-> FALSE, data |-> <<>>])
              ELSE IF Truncates(call.mode, call.found # Null)
              THEN [nodes EXCEPT ![Target(call)].data = <<>>] ELSE nodes
  /\ entries' = [entries EXCEPT ![call.path] = Target(call)]
  /\ UNCHANGED <<host, opens>>

OpenStream(c) ==
  LET call == calls[c] IN
  /\ host # "arduino" /\ HostOpens(c)
  /\ calls' = [calls EXCEPT ![c] = [step |-> "refresh", path |-> call.path,
                                   mode |-> call.mode, node |-> Target(call)]]
  /\ Knows(c, {})
  /\ UNCHANGED files

\* The size the handle starts with is that of whatever the path leads to now.
OpenRefresh(c) ==
  LET call == calls[c] IN
  /\ call.step = "refresh"
  /\ files' = [files EXCEPT ![c] =
       Handle(call.node, call.path, call.mode, StatSize(call.path))]
  /\ known' = [known EXCEPT ![c] =
       IF entries[call.path] = call.node /\ ~IsDirectory(call.node)
       THEN {nodes[call.node].data} ELSE {}]
  /\ calls' = [calls EXCEPT ![c] = NoCall]
  /\ UNCHANGED <<host, opens, entries, nodes>>

-----------------------------------------------------------------------------
(* PosixFile and WindowsFile, the same code twice: an fstream, a position  *)
(* of their own that every read and write seeks to, and a remembered size. *)

Streams(c) == host # "arduino" /\ Free(c) /\ files[c].stream
Readable(f) == f.mode \in {"Read", "ReadWrite"}
Writable(f) == f.mode \in {"Write", "ReadWrite"}

AtRememberedEnd(f) == f.size # {} /\ f.position >= Max(f.size)

\* Mutant of Left: the position is not counted.
LeftOfWhole(data, f) == Len(data)

\* What is left in the file, whatever the remembered size says of it.
Left(data, f) == IF f.position < Len(data) THEN Len(data) - f.position ELSE 0

\* Seeks, which writes out what is pending, and reads what the host has from
\* the position on, up to n bytes, moving by as many.
Fetch(c, n) ==
  LET f    == files[c]
      left == Left(Landed(c)[f.node].data, f)
  IN /\ Streams(c) /\ Readable(f) /\ ~AtRememberedEnd(f)
     /\ nodes' = Landed(c)
     /\ files' = [files EXCEPT ![c].pending = <<>>, ![c].position = @ + (IF n <= left THEN n ELSE left)]
     /\ Knows(c, known[c])
     /\ UNCHANGED <<host, opens, entries, calls>>

Read(c, n) == Fetch(c, n)

\* Reads the same bytes, and leaves the position where it was.
Peek(c) == Fetch(c, 0)

\* Mutant of Grown: the size becomes the position, also in the middle of a file.
GrownToPosition(size, position) == {position}

\* size_ after a write: the position if it is behind the size.
Grown(size, position) == {Max(size \cup {position})}

\* The bytes stay in the stream's buffer, or go to the host if it is full.
Write(c) ==
  LET f == files[c]
      position == f.position + 1
  IN /\ Streams(c) /\ Writable(f) /\ position <= MaxSize
     /\ \E buffered \in BOOLEAN :
          /\ nodes' = IF buffered THEN Landed(c)
                      ELSE [Landed(c) EXCEPT ![f.node].data = Written(@, f.position, <<c>>)]
          /\ files' = [files EXCEPT ![c] =
               [f EXCEPT !.pending = IF buffered THEN <<c>> ELSE <<>>,
                         !.position = position,
                         !.size = Grown(@, position)]]
     /\ Knows(c, {Written(k, f.position, <<c>>) : k \in known[c]})
     /\ UNCHANGED <<host, opens, entries, calls>>

\* Mutant of Refreshed: a file that is gone has no size.
RefreshedAlways(f) ==
  IF entries[f.path] = Null \/ nodes'[entries[f.path]].directory THEN {}
  ELSE {Len(nodes'[entries[f.path]].data)}

\* refreshMetadata: the size of what the path leads to, if there is anything.
Refreshed(f) ==
  IF entries[f.path] = Null THEN f.size
  ELSE IF nodes'[entries[f.path]].directory THEN {}
  ELSE {Len(nodes'[entries[f.path]].data)}

\* What the caller knows after a refresh: its own file if that is what the path
\* leads to, nothing if it leads to another.
Seen(c) ==
  LET f == files[c] IN
  IF entries[f.path] = f.node THEN {nodes'[f.node].data}
  ELSE IF entries[f.path] = Null THEN known[c] ELSE {}

Flush(c) ==
  LET f == files[c] IN
  /\ Streams(c) /\ Writable(f)
  /\ nodes' = Landed(c)
  /\ files' = [files EXCEPT ![c] = [f EXCEPT !.pending = <<>>, !.size = Refreshed(f)]]
  /\ Knows(c, Seen(c))
  /\ UNCHANGED <<host, opens, entries, calls>>

\* close, and the destructor: what is pending is written out and the stream is
\* gone. The size that is left to a closed handle is not kept.
Close(c) ==
  /\ Streams(c)
  /\ nodes' = Landed(c)
  /\ files' = [files EXCEPT ![c] = NoFile]
  /\ Knows(c, {})
  /\ UNCHANGED <<host, opens, entries, calls>>

-----------------------------------------------------------------------------
(* ArduinoFile: the vendor's File has the position, and writes go through. *)

\* The size is taken first, the file opened after, and the size not asked again.
ArduinoStat(c, p, mode) == host = "arduino" /\ Stat(c, p, mode, StatSize(p))

ArduinoOpen(c) ==
  LET call == calls[c]
      file == ~IsDirectory(entries[call.path])
  IN /\ host = "arduino" /\ HostOpens(c)
     /\ files' = [files EXCEPT ![c] =
          IF file THEN Handle(Target(call), call.path, call.mode, call.size) ELSE NoFile]
     /\ calls' = [calls EXCEPT ![c] = NoCall]
     /\ Knows(c, IF file /\ call.size = StatSize(call.path)
                 THEN {nodes'[Target(call)].data} ELSE {})

Opened(c) == host = "arduino" /\ Free(c) /\ files[c].stream

ArduinoRead(c, n) ==
  LET f    == files[c]
      left == Left(nodes[f.node].data, f)
  IN /\ Opened(c) /\ Readable(f) /\ left > 0
     /\ files' = [files EXCEPT ![c].position = @ + (IF n <= left THEN n ELSE left)]
     /\ UNCHANGED <<host, opens, entries, nodes, calls, known>>

\* Reads and seeks back.
ArduinoPeek(c) == Opened(c) /\ Readable(files[c]) /\ UNCHANGED vars

ArduinoWrite(c) ==
  LET f == files[c] IN
  /\ Opened(c) /\ Writable(f) /\ f.position < MaxSize
  /\ nodes' = [nodes EXCEPT ![f.node].data = Written(@, f.position, <<c>>)]
  /\ files' = [files EXCEPT ![c] =
       [f EXCEPT !.position = @ + 1, !.size = {Len(nodes'[f.node].data)}]]
  /\ Knows(c, {Written(k, f.position, <<c>>) : k \in known[c]})
  /\ UNCHANGED <<host, opens, entries, calls>>

\* Opens what the path leads to for its size; a directory's is 0.
ArduinoRefreshed(f) ==
  IF entries[f.path] = Null THEN f.size ELSE {Len(nodes[entries[f.path]].data)}

ArduinoFlush(c) ==
  LET f == files[c] IN
  /\ Opened(c) /\ Writable(f)
  /\ UNCHANGED nodes
  /\ files' = [files EXCEPT ![c].size = ArduinoRefreshed(f)]
  /\ Knows(c, Seen(c))
  /\ UNCHANGED <<host, opens, entries, calls>>

ArduinoClose(c) ==
  /\ Opened(c)
  /\ UNCHANGED nodes
  /\ files' = [files EXCEPT ![c] = NoFile]
  /\ Knows(c, {})
  /\ UNCHANGED <<host, opens, entries, calls>>

-----------------------------------------------------------------------------
(* The other operations of the file system.                                *)

\* A path that exists, or a host that is full, makes no difference to the host.
Mkdir(p) ==
  /\ IF entries[p] = Null /\ Len(nodes) < MaxNodes
     THEN /\ nodes' = Append(nodes, [directory |-> TRUE, data |-> <<>>])
          /\ entries' = [entries EXCEPT ![p] = Len(nodes')]
     ELSE UNCHANGED <<nodes, entries>>
  /\ UNCHANGED <<host, opens, files, calls, known>>

\* remove asks first what is there.
RemoveStat(c, p) ==
  /\ Free(c) /\ entries[p] # Null
  /\ calls' = [calls EXCEPT ![c] =
       [step |-> "remove", path |-> p, directory |-> IsDirectory(entries[p])]]
  /\ UNCHANGED <<host, opens, entries, nodes, files, known>>

\* POSIX remove takes files and directories alike. Windows and Arduino have one
\* call for each, and make the one for what was there when they asked; Windows
\* does not delete a file that is open.
PosixRemoves(n, directory) == n # Null

WindowsRemoves(n, directory) == n # Null /\ IsDirectory(n) = directory /\ Users(n) = {}
ArduinoRemoves(n, directory) == n # Null /\ IsDirectory(n) = directory

RemoveHost(c) ==
  LET call == calls[c]
      n    == entries[call.path]
      removes == CASE host = "posix"   -> PosixRemoves(n, call.directory)
                   [] host = "windows" -> WindowsRemoves(n, call.directory)
                   [] OTHER            -> ArduinoRemoves(n, call.directory)
  IN /\ call.step = "remove"
     /\ entries' = IF removes THEN [entries EXCEPT ![call.path] = Null] ELSE entries
     /\ calls' = [calls EXCEPT ![c] = NoCall]
     /\ UNCHANGED <<host, opens, nodes, files, known>>

\* POSIX rename and Arduino's replace what has the new name if it is of the
\* same kind; MoveFile does not, nor does it move a file that is open.
PosixRenames(p, q) == entries[q] # Null => IsDirectory(entries[p]) = IsDirectory(entries[q])
WindowsRenames(p, q) == entries[q] = Null /\ Users(entries[p]) = {}
ArduinoRenames(p, q) == PosixRenames(p, q)

Rename(p, q) ==
  /\ p # q /\ entries[p] # Null
  /\ CASE host = "posix"   -> PosixRenames(p, q)
       [] host = "windows" -> WindowsRenames(p, q)
       [] OTHER            -> ArduinoRenames(p, q)
  /\ entries' = [entries EXCEPT ![q] = entries[p], ![p] = Null]
  /\ UNCHANGED <<host, opens, nodes, files, calls, known>>

-----------------------------------------------------------------------------
(* The three adapters. WindowsFs and WindowsFile run the statements of     *)
(* PosixFS and PosixFile over another host.                                *)

OpenCall(c) ==
  \/ \E p \in Names, mode \in Modes : OpenStat(c, p, mode)
  \/ OpenStream(c)
  \/ OpenFails(c)
  \/ OpenRefresh(c)

FileCall(c) ==
  \/ \E n \in 1..MaxSize : Read(c, n)
  \/ Peek(c)
  \/ Write(c)
  \/ Flush(c)
  \/ Close(c)

RemoveCall(c) == (\E p \in Names : RemoveStat(c, p)) \/ RemoveHost(c)

WindowsOpenCall(c) == host = "windows" /\ OpenCall(c)
WindowsFileCall(c) == host = "windows" /\ FileCall(c)
WindowsRemoveCall(c) == host = "windows" /\ RemoveCall(c)

PosixCall(c) == host = "posix" /\ (OpenCall(c) \/ FileCall(c) \/ RemoveCall(c))
WindowsCall(c) == WindowsOpenCall(c) \/ WindowsFileCall(c) \/ WindowsRemoveCall(c)

ArduinoCall(c) ==
  /\ host = "arduino"
  /\ \/ \E p \in Names, mode \in Modes : ArduinoStat(c, p, mode)
     \/ ArduinoOpen(c)
     \/ OpenFails(c)
     \/ \E n \in 1..MaxSize : ArduinoRead(c, n)
     \/ ArduinoPeek(c)
     \/ ArduinoWrite(c)
     \/ ArduinoFlush(c)
     \/ ArduinoClose(c)
     \/ RemoveCall(c)

Next ==
  \/ \E p \in Names : Mkdir(p)
  \/ \E p, q \in Names : Rename(p, q)
  \/ \E c \in Callers : PosixCall(c) \/ WindowsCall(c) \/ ArduinoCall(c)

Spec == Init /\ [][Next]_vars

-----------------------------------------------------------------------------
(* Correctness.                                                            *)

TypeOK ==
  /\ host \in Hosts
  /\ nodes \in Seq(Node)
  /\ entries \in [Names -> {Null} \cup DOMAIN nodes]
  /\ \A c \in Callers :
       \/ files[c] = NoFile
       \/ files[c] \in
            [stream : {TRUE}, node : DOMAIN nodes, path : Names, mode : Modes,
             size : Sizes, position : 0..MaxSize, pending : {<<>>, <<c>>}]
  /\ \A c \in Callers :
       calls[c].step = "refresh" => calls[c].node \in DOMAIN nodes

\* A file holds what its caller saw and wrote, with every acknowledged byte
\* where it was put, once what the stream keeps is written out: unless another
\* caller changed its bytes, no order of reads, peeks, writes and flushes, and
\* nothing done to its path, loses or misplaces one.
ContentsAsWritten ==
  \A c \in Callers : \A k \in known[c] : Landed(c)[files[c].node].data = k

\* The size a handle remembers is its file's, pending bytes included, unless
\* another caller changed the file or a refresh asked about what had taken its
\* path. Arduino alone gets it wrong by itself: a file that its open emptied or
\* created has the size from before until it is written or flushed.
SizeIsFileSize ==
  \A c \in Callers : \A k \in known[c] :
    \/ files[c].size = {Len(k)}
    \/ host = "arduino" /\ files[c].mode # "Read" /\ k = <<>>

\* What available answers: by the remembered size, and on Arduino by the
\* vendor's count first.
Available(c) ==
  LET f == files[c] IN
  IF ~f.stream \/ ~Readable(f) THEN "exhausted"
  ELSE IF host = "arduino" /\ Left(nodes[f.node].data, f) > 0 THEN "bytes"
  ELSE IF f.size = {} THEN "temporarilyUnavailable"
  ELSE IF AtRememberedEnd(f) THEN "exhausted"
  ELSE IF host = "arduino" THEN "temporarilyUnavailable" ELSE "bytes"

\* A caller whose file nobody disturbed is told of bytes exactly when there are
\* some, and of the end at the end; it is told to wait, for nothing, only by
\* Arduino on a file that its own open created and that is still empty.
AvailableIsHonest ==
  \A c \in Callers : \A k \in known[c] :
    Readable(files[c]) =>
      \/ Available(c) = IF files[c].position < Len(k) THEN "bytes" ELSE "exhausted"
      \/ host = "arduino" /\ k = <<>> /\ files[c].mode = "ReadWrite"

\* A ReadWrite open never empties the file that was at its path when it was
\* called; it can only empty one that another caller put there during the call.
OnlyWriteEmpties ==
  [][\A n \in DOMAIN nodes :
       Len(nodes'[n].data) < Len(nodes[n].data) =>
         \E c \in Callers :
           /\ calls[c].step = "open" /\ calls'[c] # calls[c]
           /\ calls[c].mode = "Write" \/ (calls[c].mode = "ReadWrite" /\ calls[c].found # n)]_vars
=============================================================================
