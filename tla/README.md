# A TLA+ development of lumalink-platform

`lumalink-platform` is a header-only C++ library: byte streams, sockets, file
systems and clocks behind small interfaces, each implemented for POSIX, Windows
and Arduino, the file system also in memory. There are no threads in it. What
is hard is the state behind the interfaces: shared nodes that several handles
and paths reach, sockets whose state changes between two calls, packets that are
begun and abandoned, results that are stale when they are used.

This directory holds TLA+ modules that model those parts, TLC configurations
that check them on small instances, and proofs that TLAPS checks for every
value of the constants. Source paths below are relative to
`src/src/lumalink/platform/`.

## 1. Inventory

| Component | State | Operations | Interacts with | Hard behaviour | Correct when | Here |
|---|---|---|---|---|---|---|
| In-memory file system, `memory/MemoryFileAdapter.h` | a tree of shared `Node`s; per handle a node, a mode, a position | `mkdir`, `remove`, `rename`, `open`, `list`, `exists`, `getScoped`; `read`, `peek`, `write`, `close`, `available`, `size` | handles share nodes with the tree and with each other; `list` calls back | a rename replaces, nests, or cuts off a subtree; handles outlive their entry; a callback edits the tree | the nodes stay a tree with true names and paths; it behaves as a map from locations to entries; handles leave no gaps and lose no bytes | modelled but for the `lastWrite` stamps; `list` in `DirectoryListing` |
| Paths, `filesystem/PathUtility.h` | none | `getFileName`, `getDirName`, `join`, `makeRelative`, extensions | every file system | leading, trailing and doubled slashes | what `open` finds, `remove` and `rename` find | `FilePath`, `ScopedFileSystem`, in part |
| UDP peer, `PosixSocketPeer` in `posix/PosixSocketTransport.h`, `WindowsPeer` | socket, inbound packet and offset, outbound packet and destination, remote address | `begin`, `beginMulticast`, `stop`, `beginPacket`, `write`, `endPacket`, `parsePacket`, `read`, `peek`, `available` | other peers through the network; the kernel's receive buffer | loss, duplication, reordering; abandoned packets; empty datagrams; partial reads | a packet comes out whole, with its own sender; nothing is mixed; no datagram is stuck | modelled |
| Byte sources, `buffers/ByteStream.h` | an offset; for `ConcatByteSource` the sources and the current index | `available`, `read`, `peek`; `ReadAsVector` and other helpers | a concatenation calls its sources, sockets among them | the source changes between `available` and `read`; "nothing now" against "nothing more" | the bytes in order, none lost, none twice, and all of them in the end | modelled; of the helpers `ReadAsVector` |
| TCP client, `PosixSocketClient`, `WindowsClient` | socket, timeout | `available`, `read`, `peek`, `write`, `connected`, `stop`, `setTimeout` | the remote end; `ConcatByteSource` as a source | disconnect probes that err; partial sends; blocking reads; ends and resets between two system calls | an end is reported only when there is one; writes report what was sent; every call returns when a timeout is set or the socket does not block | modelled: `SocketClient`; its receiving half as a source: `SocketStream` |
| TCP server and factory, `PosixSocketServer`, `WindowsServer`, `ArduinoWiFiServerAdapter` | listener, ports, address | `begin`, `accept`, `end`, `port`; `createClient`, `createServer` | the host's ports, clients | silent failure, a port that is stale when it is used, servers that share one | who connects to a server's port reaches it, and is accepted or reset | modelled: `SocketServer` |
| POSIX file system, `posix/PosixFileAdapter.h` | per handle a stream, a cached size, two paths, a position | as the in-memory one | the host file system, other handles, other processes | stale size, stat-then-open, metadata of another file, one buffer for reads and writes, listings of directories that vanish or cannot be read | bytes land where they were written; the cached size is right while nobody disturbs the file; a complete listing is complete, or the host failed | modelled: `HostFiles`; `list` in `DirectoryListing` |
| Scoped file system, `filesystem/ScopedFileSystem.h`, `FileSystem.h` | a root path | delegates every operation; `getScoped`; `ensureDirectory` | the inner file system | the root is renamed, replaced or removed; "/" and slashes | nothing outside the scope is touched; what its listings show leads back; `ensureDirectory` does what it says | modelled: `ScopedFileSystem` |
| Manual clock, synchronizer, `time/` | monotonic and UTC time | `advanceMillis`, `setMonotonicMillis`, `setUtcTime`, `clearUtcTime`, `synchronize` | a time source | none: see "Not modelled" | | not modelled |
| System clocks | none | `monotonicNow`, `utcNow` | the operating system | 32-bit `millis` | monotonic time does not go back | `MonotonicClock`; `utcNow` is not modelled |
| Windows file system, Arduino file system | as their POSIX counterpart; the Arduino one has no stream of its own | as their POSIX counterpart | Win32, vendor libraries | a host that locks open files; sizes from before the open | as their POSIX counterpart | variants of `HostFiles` and `DirectoryListing` |
| Windows sockets, Arduino WiFi | as their POSIX counterparts | as their POSIX counterparts | Winsock, vendor libraries | FIONREAD of all datagrams; ports that are taken twice; an `end` that does nothing | as their POSIX counterparts | the servers in `SocketServer`, `WindowsClient` in `SocketClient`, `WindowsPeer` in `UdpPeer`; Arduino's client and peer are not modelled |
| Interfaces, traits, umbrella headers | none | none | | | | nothing to model |

`PROJECT.json` lists these with their files, and under `hazards` each place
where something can go wrong that a test would hardly reach, with the properties
that cover it, or why none does.

## 2. The modules

```
FilePath <--- FileTree                        abstract: a map of locations
    ^             ^ implemented by
    +--- MemoryFileSystem <- MCMemoryFileSystem    3 runs
          ^     ^----- MemoryFileSystemProofs      8 theorems
          +--- ScopedFileSystem <- MCScopedFileSystem      1 run
                ^----- ScopedFileSystemProofs              3 theorems

HostFiles <- MCHostFiles                           1 run
    ^----- HostFilesProofs                         5 theorems
DirectoryListing <- MCDirectoryListing             1 run
    ^----- DirectoryListingProofs                  2 theorems

UdpPeer <- MCUdpPeer                               2 runs
    ^----- UdpPeerProofs                           6 theorems

SocketStream <- ConcatByteSource <- MCConcatByteSource   1 run
                       ^----- ConcatByteSourceProofs     4 theorems

SocketClient <- MCSocketClient                     1 run
    ^----- SocketClientProofs                      5 theorems

SocketServer <- MCSocketServer                     1 run
    ^----- SocketServerProofs                      2 theorems
MonotonicClock                                     1 run
```

### FilePath, FileTree, MemoryFileSystem

A path is the sequence of the segments that a lookup would take it apart into:
the code strips one leading `/` and splits at every other. `""` is a segment like
the others, because the code makes it one: `"a/"` ends in it, `"a//b"` holds it.
`FileName`, `DirName`, `JoinPath` are the `PathUtility` functions on such paths,
`Components` is what `findNode` and `createPath` walk (a final `/` ends their
loop without a segment), `Location` is where `remove` and `rename` look.

`heap` is the sequence of all nodes ever allocated; a `shared_ptr<Node>` is an
index into it and null is 0. A node that nothing reaches stays in the sequence
and is never reached again, which is what its destruction comes to. `handles`
maps each `FileHandle` variable of the callers to a node, a mode and a
position. `running` becomes FALSE when `rename` recurses without end. One
action stands for one call: `Mkdir`, `RemovePath`, `Rename`, `Open`, `Read`,
`Write`, `Close`, `Drop` (the caller destroys the handle). `CreatePath` is the
loop of `createPath` in closed form: how many segments exist, which nodes are
made for the rest. `Relink` and `UpdatePaths` are the two halves of `rename`.
The stamps in `lastWrite` are left out. `peek`, `available`, `size` and `exists`
change nothing and no property depends on what they say.

`FileTree` says what a file system promises without nodes: a map from
locations to entries that is closed under prefixes, where an operation touches
only what is below its arguments, a rename carries the contents along, and
contents change by writes alone. `MemoryFileSystem!Tree` instantiates it with
the locations that the nodes linked from the root spell out.

### ScopedFileSystem

A `ScopedFileSystem` is a root path in front of another file system, so the module
EXTENDS `MemoryFileSystem` and adds one variable, `scopes`, the `rootPath_` of
each scope. Its operations are those of the file system below with `ScopePath`
applied to their arguments (`ScopedMkdir`, `ScopedRemove`, `ScopedRename`,
`ScopedOpen`); the file system below goes on being used by others (`Others`).
`Construct` asks nothing of its root, `GetScoped` is that of `MemoryFileSystem`
and `GetScopedOfScope` that of a scope. `EnsureDirectory` is
`IFileSystem::ensureDirectory` when it returns true: its climb through `exists`
ends at the first path that is there or that `isRoot` takes for a root, and
`mkdir` below makes all levels at once. `IsRoot` is `PathUtility::isRoot`: `"/"`,
`"."` (`Dot`), and every path whose first segment starts with a drive's root
(`Drives`). Of such a path nothing changes; so that saying true is a step all the
same, and a property can speak of it, the history variable `said` is turned over
whenever `ensureDirectory` returns true.

`Shown` is what `list` on a scope shows: the path that the node has when it is
listed, through `exposePath`. The path of an open file is another matter: a
`MemoryFile` keeps the string it was opened with, and a `ScopedFile` what
`exposePath` made of it then, so that after a rename it leads elsewhere. Nothing in
the library goes by it, and it is not modelled.

Because `scopePath` and `exposePath` cut strings, a path here is split at every
`/`, the leading one included: `"/a"` is `<<"", "a">>`, `"a"` is `<<"a">>` and `"/"`
is `<<"", "">>`. `Segments` takes it to a path of `FilePath`.

### HostFiles

The adapters over a host's file system, with callers that share one directory.
`entries` and `nodes` are the host, `files` what each caller's `FileHandle` holds,
`calls` the `open` or `remove` a caller is in the middle of: a step is one call
to the host, so that between `stat` and `open`, `open` and the second `stat`, or
`stat` and `remove`, anybody may do anything (`OpenStat`, `OpenStream`,
`OpenRefresh`, `RemoveStat`, `RemoveHost`). `size` is `size_`, the optional size
that a handle remembers; `pending` is what the stream's buffer has not written out
yet, which a seek, a flush or a close does (`Landed`), and which the stream may
also write at once. `known` is a history variable: the bytes a caller last saw
or put in its file, none once another has changed them.

`host` is one of three builds. Windows runs the statements of the POSIX adapter,
line for line, over a host that neither deletes nor moves an open file and does
not replace on a rename. The Arduino adapter (`ArduinoStat`, `ArduinoOpen`,
`ArduinoRead`, ...) takes the size before it opens, never asks again until it
writes or flushes, and leaves buffering to the vendor. The hosts are external, modelled from what
the adapters ask of them. A caller's bytes are its own name; a write appends or
overwrites one byte, and a longer one is several.

### DirectoryListing

`list` of all four file systems. `stack` holds the enumerations in progress,
`asked` the entry the callback is running for; while it runs, it may create and
remove entries, and on a host so may others at any time. What an enumeration owes
(`due`) and what it may still return (`may`) come apart there: `readdir` promises
nothing about names that come or go. In memory the walk goes on from an iterator
of a `std::map`, and what the callback adds behind it is seen; what the callback
removes under it leaves a dangling reference, and the result `undefined`.
`MemoryRefused`, `PosixAccepted`, `ArduinoAccepted` and so on are the places where
the four differ: whether a refusal or a directory that cannot be entered ends one
directory or all of them, and what `list` then returns.

A directory cannot be entered when it vanished since it was reported, or when the
host fails: `opendir`, `FindFirstFileA` or Arduino's `open` (`NotEntered`). The
host may also fail in the middle of one (`Break`), which `readdir` and
`openNextFile` tell in the same way as the end, and `FindNextFileA` in another
(`PosixBroken`, `ArduinoBroken`, `WindowsBroken`). Up to `MaxFailures` of these
happen to directories that stay, besides those that vanish. `unopened` and `broken`
are history variables, the directories this happened to. Where neither `readdir` nor
a failing `stat` tells that an entry is a directory, or `FindFirstFileA` finds no
file in it, the walk goes on past it.

### UdpPeer

Several `PosixSocketPeer`s or `WindowsPeer`s, which run the same statements, each with the members of the class, and under each
the kernel's receive buffer `queue`. `sent` is what the network was given;
`Deliver` may put any of it into its destination's buffer at any time and any
number of times, which covers loss, delay, reordering and duplication. Ports are
not told apart from addresses. A byte carries the address of the packet it was
written for, so that mixing shows. `mark` and `taken` are history variables.
`beginPacket` may fail to resolve, `begin` and `beginMulticast` may fail at any
of their calls, `sendto` may fail. FIONREAD on Linux is the size of the
first datagram, which is 0 for an empty one; on Windows, for the peers in
`Windows`, that of all of them, and an empty datagram is then received and taken
for a failure (`ParseEmptyPacket`). `Write` appends one byte; a longer
buffer is several of them. `peek`, `available` and `flush` change nothing.

### SocketStream, ConcatByteSource

`SocketStream` is a connection as its reader sees it: bytes arrived, bytes
consumed, closed, reset. `StreamAvailability` is `PosixSocketClient::available`,
as the set of the answers that the kernel can make it give: with `Spurious`, a
`select` that fails or reports an exceptional state makes a live connection
look closed, because the code takes every failure for a disconnect.

`ConcatByteSource` runs over spans and such sockets. Its calls are split where
the code asks a source something: `Ask` and `Read` start a call, `Skip` is a turn
of the loop in `currentAvailability`, `NothingNow` and `BytesThere` end one,
`BytesToRead` is `read` being told of bytes, `ReadChunk` the read of the source
that follows, a step later. Between any two of these bytes arrive, remote ends
close, connections are reset, and on a socket of `Windows` a reset discards what
arrived and was not read (`Discard`). If that happens behind `BytesToRead` the
source returns nothing and the loop ends. The error
answer of `available` ends a read exactly as "temporarily unavailable" does, and
is not told apart from it.

### SocketClient

The two ends of a connection, each a `PosixSocketClient` or, for the ends in
`Windows`, a `WindowsClient` in a program of its own, and the kernel between
them. A step is one system call of a method, because that
is where the world can change: `available` is `ioctl`, `select`, `recv` with
MSG_PEEK (`Available`, `QueryPendingBytes`, `Select`, `ProbeByte`), a read is one
`recv`, `ReadAsVector` several, a write as many sends as it takes (`Write`,
`Send`). `call` is where each end's method has got to, `want` and `totalSent` are
its locals, 0 once it has returned. Bytes are numbered in the order in which an end writes them, and the
application goes on from what its writes reported.

The kernel is external: `wire` and `arrived` hold at most `Window` bytes of a
direction, an orderly end comes behind the last byte, a reset loses what is on its
way. `close` with unread bytes sends a reset instead of an end, and a byte that
reaches a closed socket is answered by one. Because `send` is called without
MSG_NOSIGNAL, a write on a connection that was reset may end the program
(`SigPipe`). With `Interrupts` a signal may end any call that has to wait, which
every method takes for "nothing" and `select`'s caller for a disconnect. A
blocking call without a timeout has no step until the kernel has something for
it: two ends that both read wait for each other for ever, as they do in the code.
The end named `"server"` is the socket that `accept` returned: on Windows it inherits the
listener's non-blocking mode (`NonBlocking`), and a read or write that would block
returns at once (`RecvWouldBlock`, `SendWouldBlock`). Windows has no signals, and a
reset may discard what arrived (`DiscardArrived`).
`peek`, `flush` and the endpoint information change nothing, and FIONREAD does not
fail. `misled`, `reported` and `received` are history variables.

### SocketServer

Servers of several programs on one host, and callers. `begin` is one step for
each system call that others can see: `Bind`, `Listen`, `Install` (where the
listener and `localPort_` are set), and `BeginFails` for a `listen` or `fcntl` that fails
after the bind. A `bind` that fails leaves no trace at all and is no step. `localPort` is what `port()` returns, `serving` whether
the server's program has called `begin` and not yet `end`. `AskPort` is a caller
that learns the port, `CreateClient` its connect, some time later, with whoever
listens there then; the host completes connections before any `accept` and holds
up to `Backlog` of them. `Bindable` is the host's way with SO_REUSEADDR:
POSIX refuses a port somebody listens on but lets two sockets be bound to it,
Windows refuses none. `ArduinoBegin` and `ArduinoEnd` are the vendor's
server, which begins once and whose adapter's `end` does nothing.

### MonotonicClock

What a program reads from `IMonotonicClock` over time. POSIX and Windows have 64
bits of it, and 0 if `clock_gettime` fails, which it does only for a clock that the
host does not have (`Failing`, off in the run so that it shows Arduino's clock alone);
`ArduinoNow` is the count of `millis`, of `Width` bits instead of 32.

## 3. What the runs check

| Run | Instance | Shows |
|---|---|---|
| `MemoryTree` | names `""`, `a`, `b`; paths `/`, `/a`, `/b`, `/a/`, `/a/b`, `/b/a`, `/a//b`; 4 nodes; one handle; no bytes | `SingleLink`, `Acyclic`, `ReportsItsPath`, `CrashOnlyIntoOwnSubtree` |
| `MemoryRefinement` | paths `/a`, `/b`, `/a/b`; 4 nodes; one handle; one byte | `ImplementsFileTree` |
| `MemoryFiles` | the same paths; 3 nodes; two handles; two byte values; files of 2 bytes | `TypeOK`, `PositionWithinData`, `NoUnwrittenByte`, `DataNeverShrinks` |
| `UdpPeer` | a peer on Linux and one on Windows; packets of 2 bytes; 2 different datagrams; buffers of 2 | `TypeOK`, `PacketIntegrity`, `UnmixedPackets`, `OffsetInsidePacket`, `NoPacketCutShort`, `EmptyDatagramBlocksQueue` |
| `UdpPeerLiveness` | the same with packets of 1 byte | `HeadIsParsed` |
| `ConcatByteSource` | a span of 1, a socket of 2 on Windows, an empty span, a socket of 2; reads of up to 3 bytes; false disconnects, resets that discard and that do not | `TypeOK`, `InOrder`, `NothingSkipped`, `ShortReadMeansNothingThere`, `Drained` |
| `SocketClient` | a client on Linux that writes 3 bytes and an accepted socket on Windows that writes 2; the kernel holds 1 byte of a direction; reads and writes of up to 2; `ReadAsVector` in chunks of 1; signals | `TypeOK`, `Contiguous`, `HonestWrites`, `EndedMeansEnd`, `ProbeDoesNotBlock`, `CallsReturn` |
| `HostFiles` | the three builds; 2 callers, 2 names, all modes; 2 files or directories; files of 2 bytes; 2 opens; symmetry of callers and names | `TypeOK`, `ContentsAsWritten`, `SizeIsFileSize`, `AvailableIsHonest`, `OnlyWriteEmpties` |
| `DirectoryListing` | the four file systems; every tree of 2 names and depth 2, listed recursively and not; 2 entries created or removed meanwhile; one failure of the host | `CompleteIfTrue`, `RefusalIsKept` |
| `ScopedFileSystem` | roots `/`, `/a`, `/a/`, `a`, `/a//`; arguments `/`, `b`, `/a/`, `//b/a`, `a/b`, `./a`, `C:/b`; others use `/a`, `/b`, `/a/b`; 3 nodes; one scope | `LeadsBack`, `Confined`, `EnsuredIsThere` |
| `SocketServer` | the three builds; 2 servers, 2 callers; ports 1 and 2, created with 1 or any; a backlog of 2 | `ReachesWhoItAsked`, `Served` |
| `MonotonicClock` | a count of 3 bits | violates `AlwaysIncreasing`: see "Findings" |

Deadlock is checked in every run, and symmetry used only where no liveness is. A short account of what the properties say and
what was learnt:

* **The tree.** `rename` erases the old link, makes the new one over whatever was
  there and rebuilds the paths below it. Nodes keep one link each and their own
  name (`SingleLink`), and `list` reports the path that finds an entry
  (`ReportsItsPath`), for locations without empty segments. There is one way to
  crash: renaming an entry to a path whose directory is the entry or below it.
  `CrashOnlyIntoOwnSubtree` says it is the only one; `Acyclic` that no cycle is
  ever left for a later `list` to run around in.
* **The files.** The positions of two handles stay within their files, so the
  zeros of `resize` are always overwritten, and no file ever shrinks: `open` with
  `Write` does not truncate, unlike the other adapters.
* **The peers.** A packet is never cut, glued or attributed to another sender.
  An empty datagram at the head of the buffer is never taken by `parsePacket`
  and holds up all datagrams behind it until `stop` or `begin`
  (`EmptyDatagramBlocksQueue`) on Linux. On Windows it goes as soon as there are bytes
  behind it, with an answer of error or nothing, and leaves the sender's address
  as it was. `HeadIsParsed` therefore speaks of non-empty datagrams, and says of
  Windows that empty ones in front do not hold them up.
* **The concatenation.** Order and completeness hold but for one way to lose
  bytes, which `NothingSkipped` states: a socket that was reset, or that reported
  a disconnect that had not happened, is skipped in the middle and the next
  source follows without a sign of it. Of a program that goes on reading,
  `Drained` says that every source is read to its end, or was cut off so. A read
  that comes back short had nothing more to return, with one exception that
  `ShortReadMeansNothingThere` names: a reset on Windows discards bytes after the
  source has reported them, the loop ends on a read of 0, and the next source's
  bytes have to wait for the next `read`. Without the exception the run finds it
  violated.
* **The connection.** What one end reads is the numbers from 1 on, however the
  other's writes were cut, timed out or interrupted (`Contiguous`): a write that
  reported one byte too few or too many would make the application repeat or skip
  one. `HonestWrites` says so of the write itself. `EndedMeansEnd` is about the
  gap between FIONREAD and the probe: a socket that became readable in it is not
  taken for closed, and after an orderly end nothing that was reported as written
  is missing; an answer that an interrupted `select` gave is wrong, and is
  excluded by name (`misled`). The probe itself never blocks
  (`ProbeDoesNotBlock`). With a timeout set, or on an accepted socket on Windows,
  every call returns (`CallsReturn`); otherwise none of this is promised. The same
  program therefore waits on Linux for what its accepted client has yet to send,
  and on Windows gets 0 bytes of it.
* **Host files.** Bytes land where they were written although one stream buffers
  writes and serves reads (`ContentsAsWritten`). The cached size is right, and an
  answer of "more" or "nothing" true, as long as no other caller changed the
  file and no refresh asked about another one (`SizeIsFileSize`,
  `AvailableIsHonest`): `flush` does ask by path, and gets the size of whatever
  took the file's place. Two exceptions had to be stated for Arduino: a file it
  created or emptied keeps the size from before, so that `available` may answer
  "temporarily unavailable" where there will never be more. Nothing but `Write` empties
  a file, except `ReadWrite` losing the race between its stat and its open
  (`OnlyWriteEmpties`).
* **Listings.** `CompleteIfTrue`: true means complete for all that stayed, but for
  what a failure hides (`Hidden`). On POSIX and Windows a directory that vanished
  between its report and its listing, or that the host does not open, ends the
  enumeration around it as if the callback had refused, and `list` returns true;
  Arduino returns false. A directory that the host fails to read to its end is taken
  for a shorter one on POSIX and Arduino; on Windows the directory around it ends
  too, and `list` returns false only for the outermost. Nothing else goes missing:
  all that is not in one of these directories is reported.
  `RefusalIsKept`: in memory a refusal stops everything and
  `list` returns false; over a host it stops one directory, and the callback is
  called on for those around it.
* **Scopes.** Nothing outside a scope's root changes through it, but for the
  directories above the root, which are made again if they are missing; a *file*
  that took the place of one of these becomes a directory (`Confined`). This is
  so of a root without doubled slashes; with one, the scope reaches whatever is
  below the part before it (`Boundary`): through `"/a//"`, `mkdir("b")` makes an
  entry of the directory `""` in `/a`, but `remove("b")` removes `/a/b`.
  `LeadsBack` holds for absolute roots: for a relative root, and for the root
  itself when given with a final `/`, the in-memory file system's absolute paths
  do not match the root as it was given, and are shown as they are.
  `ensureDirectory` leaves a directory behind when it says true
  (`EnsuredIsThere`), but is content with a file, takes what `isRoot` holds for a
  root to be there without looking, starts its climb at such a parent (`"./a"` is
  made with nothing above it) and fails for a relative path of which not even the
  first segment exists. `isRoot` is true of every path that begins with a drive's
  root, `"C:/root"` included, of which `test/test_native/test_path_utility.cpp:29`
  says that it is false: `ensureDirectory("C:/root")` says true and makes nothing. A
  rename of "/" to a path of the scope reaches the same endless recursion as in
  memory.
* **Servers.** Who asks a server for its port while it listens, and connects
  before it ends, reaches that server (`ReachesWhoItAsked`), though two servers may
  bind one port before either listens. On Windows SO_REUSEADDR lets another
  server take the port; that case is excluded by name. A connection the host has
  taken is accepted or reset (`Served`), on Arduino not after `end`.

**Findings.** One run is expected to end in a violation. `time/Clock.h:8` says that
`monotonicNow` returns "always-increasing relative milliseconds"; the Arduino clock
widens `millis()`, a 32-bit count, to 64 bits, and goes back to 0 after 49.7 days
(`MonotonicClock`, `AlwaysIncreasing`).

**Bounds.** They are named constants that appear in the guards. Four nodes hold
every shape that the operations distinguish: an entry with a child, a second
directory, an entry that is replaced, and nodes cut off that only a handle
reaches. Three paths of at most two segments include a parent and its child, both
ways of nesting them in `MemoryTree`, and the slash cases. A file of two bytes
has an inside; two handles can overtake each other. Two datagrams are enough to
be reordered and mixed, a packet of two bytes to be half read. A kernel buffer of one byte and a
write of two make a write that is cut and one that times out half way; two bytes
read in chunks of one make `ReadAsVector` wait in its middle. Two callers
with two opens race each other through every pair of host calls, and two files
are enough to be replaced by each other; a file of two bytes has a middle to write
into. A listing two levels deep has a directory around the one that vanishes or
refuses, and two edits remove it and an entry of it; one failure reaches each kind
at each depth, and a second would only hide more. Of the two sockets of the concatenation one is of
Windows, the one with sources behind it, where what a reset discards makes a difference. The scope needs nodes for the
root, what is in it and what is beside it; the three there are, the in-memory root
included, allow any two of them. Two servers on two ports can
take each other's port, and a backlog of two holds both callers. The width of the
clock makes no difference but to when it wraps. Of the
concatenation every pair of neighbours occurs: span before socket, socket before
an empty source, and the last.

**Fairness.** `UdpPeer!Polling` is a program that keeps calling `parsePacket` and
`read`: the library has no thread of its own and nothing happens without the
caller. `ConcatByteSource!FairSpec` assumes remote ends that send all they have
and then close, steps of a call in progress (the loops do not block: the sources
answer at once), and a caller that reads again and again whatever else it calls in
between, which needs strong fairness because other calls disable `Read`.
`SocketClient!FairSpec` assumes of each end that a system call which can return
does, at the latest when its timeout has passed, and nothing of the network, the
remote end or the applications; signals are not counted on. `SocketServer!Spec`
assumes that a `begin` does not stop half way and that a program that serves goes
on calling `accept`; nothing is assumed of the callers. The other modules state no
fairness and no liveness.

Each property has a mutant, a plausible bug in one of the modelled definitions
that the same run finds. The mutated forms stand before the definition they
replace, under the comment "Mutant of".

## 4. What is proved

For every value of the constants that satisfies the named assumptions of the
modules (`PeersAssumption`, `SpuriousAssumption`, `SourcesAssumption`,
`PathsAssumption`, `BuffersAssumption`, `BoundsAssumption`, `BudgetAssumption` and
the others):

| Theorem | States |
|---|---|
| `UdpPeerProofs!TypeCorrect` | `Spec => []TypeOK` |
| `UdpPeerProofs!OffsetStaysInside` | `Spec => []OffsetInsidePacket` |
| `UdpPeerProofs!PacketsUnmixed` | `Spec => [](Composing /\ UnmixedPackets)` |
| `UdpPeerProofs!PacketsWhole` | `Spec => [](QueueWasSent /\ PacketIntegrity)` |
| `UdpPeerProofs!PacketsReadToTheEnd` | `Spec => NoPacketCutShort` |
| `UdpPeerProofs!EmptyDatagramStays` | `Spec => EmptyDatagramBlocksQueue` |
| `ConcatByteSourceProofs!TypeCorrect` | `Spec => []TypeOK` |
| `ConcatByteSourceProofs!SourcesReadToTheEnd` | `Spec => []NothingSkipped` |
| `ConcatByteSourceProofs!OutputInOrder` | `Spec => [](InOrder /\ Frontier)` |
| `ConcatByteSourceProofs!ShortReadsHonest` | `Spec => ShortReadMeansNothingThere` |
| `SocketClientProofs!BytesContiguous` | `Spec => []Contiguous` |
| `SocketClientProofs!WritesHonest` | `Spec => []HonestWrites` |
| `SocketClientProofs!EndsTrue` | `Spec => []EndedMeansEnd` |
| `SocketClientProofs!ProbeFindsSomething` | `Spec => []ProbeDoesNotBlock` |
| `SocketClientProofs!TypeCorrect` | `Spec => []TypeOK` |
| `SocketServerProofs!CallersReachWhoTheyAsked` | `Spec => []ReachesWhoItAsked` |
| `SocketServerProofs!ListenersApart` | `Spec => []SharedPort` |
| `HostFilesProofs!TypeCorrect` | `Spec => []TypeOK` |
| `HostFilesProofs!ContentsKept` | `Spec => []ContentsAsWritten` |
| `HostFilesProofs!SizesKept` | `Spec => []SizeIsFileSize` |
| `HostFilesProofs!AvailableRight` | `Spec => []AvailableIsHonest` |
| `HostFilesProofs!OnlyOpensEmpty` | `Spec => OnlyWriteEmpties` |
| `DirectoryListingProofs!ListingComplete` | `Spec => []CompleteIfTrue` |
| `DirectoryListingProofs!RefusalKept` | `Spec => RefusalIsKept` |
| `MemoryFileSystemProofs!PositionsStayWithin` | `Spec => []PositionWithinData` |
| `MemoryFileSystemProofs!FilesHoldWrittenBytes` | `Spec => []NoUnwrittenByte` |
| `MemoryFileSystemProofs!FilesNeverShrink` | `Spec => DataNeverShrinks` |
| `MemoryFileSystemProofs!TypeCorrect` | `Spec => []TypeOK` |
| `MemoryFileSystemProofs!LinkedOnce` | `Spec => []SingleLink` |
| `MemoryFileSystemProofs!TreeStays` | `Spec => []Acyclic` |
| `MemoryFileSystemProofs!PathsAreWaysBack` | `Spec => []ReportsItsPath` |
| `MemoryFileSystemProofs!OverflowsOnlyIntoItself` | `Spec => CrashOnlyIntoOwnSubtree` |
| `ScopedFileSystemProofs!NothingOutsideChanges` | `ScopedSpec => Confined` |
| `ScopedFileSystemProofs!ShownPathsLeadBack` | `ScopedSpec => []LeadsBack` |
| `ScopedFileSystemProofs!EnsuredDirectories` | `ScopedSpec => EnsuredIsThere` |

The strengthenings. `UnmixedPackets` speaks of datagrams already sent; `Composing`
adds what is in the outbound buffer: its bytes carry the mark of the packet being
composed, and the destination, if there is one, is that mark. `PacketIntegrity`
needs that everything in a receive buffer was sent (`QueueWasSent`) and that a
read splits what is unread in two (`ReadSplits`); it also uses
`OffsetInsidePacket`, since a packet that is cleared at its end is replaced by the
empty one. `ConcatByteSource!TypeOK` is not inductive: only sockets can be cut
off, and that rests on a span being at its end when it is empty (`SpansClosed`),
while a source that has closed has given all it had and was not reset
(`ClosedComplete`). `InOrder`
needs `Frontier`: the last byte returned is the last one consumed of its source,
and the sources from the current one on have given only what was returned.
`ShortReadMeansNothingThere` needs to know what a read acts on that was told of bytes:
they are still there, or were discarded (`Told`). A turn of the loop that ends the
read has then filled the buffer, or found nothing of what its source had said it had
(`LastTurn`); and a read that gives up where it asks stands at a source that is alive
and has nothing (`NothingNowMeaning`).

The invariant `IInv` of `MemoryFileSystemProofs` is that the nodes have their
fields and hold bytes that were written (`IsHeap`), that handles are well typed
(`HandleType`) and that their positions are within their files. Each helper of
the operations `Keeps` the bytes of the nodes there are; `Longer` says the same of
a step. A `resize` leaves no zeros only because no position is behind the end, so
`NoUnwrittenByte` and `PositionWithinData` need each other. Nothing in it speaks
of a path or a child: what the tree has become does not matter to the bytes.

The theorems about the tree need `Forest`: nodes are well typed, every node has
one holder at most and hangs there under its own name (`Single`), none is its own
descendant (`NoCycle`), and its path is that of its holder joined with its name
(`PathsJoin`). It has to hold of all nodes, those that were removed and that only
a handle still reaches included, and after `rename` has run into itself too: a
`CreatePath` that a crash leaves behind is in the heap. `TreeInv` is this together
with `IInv`. What lies below a node is the least set that holds the node and is
closed under children (`SubtreeClosed`, `SubtreeLeast`), so that an induction over
the tree is the choice of a set: the nodes whose new path is right, or the nodes
that do not reach the one that moved. A rename makes no cycle because the new
holder is not below the node that moves, which is what ending the recursion in
`UpdatePaths` comes to (`MovedLinkNoCycle`). What the recursive functions `Walk`,
`NewPaths` and `UpdatePaths` compute is derived from their equations alone
(`WalkMeaning`, `NewPathsMeaning`, `UpdatePathsMeaning`); where a step counts, it is
to the smallest counterexample (`SmallestNumber`). That a node is at one location
(`OneLocation`) makes `CrashOnlyIntoOwnSubtree` a statement about paths:
`CrashIsIntoSubtree` finds the new holder below the node, and the one way there
goes through the old location. None of these lemmas asks a path to be one of
`Paths`: they hold of all non-empty sequences of `Names`.

The last part of that module is about where locations lead (`At`), before and
after an operation. `createPath` leaves every location that led somewhere where it
led and makes the rest of the way (`CreatePathMakes`); `remove` changes none that
does not start with its own, `rename` none that starts with neither of its two
(`RemovePlaces`, `RenamePlaces`), because a node is at one location, so that a link
that changed is on the way to no other (`LinkOnTheWay`). `LinkedMeaning` says that
the levels of `Linked` are these locations.

The invariant of `ScopedFileSystemProofs` is `TreeInv` and that a scope holds a
path. `CallsTree` has the tree invariant for all paths, those a scope makes
included. What is left is the arithmetic of slashes: what a scope hands on is the
location of its root followed by the argument without its leading slashes
(`ScopePathMeaning`), so that it starts with the `Boundary` (`InnerStarts`); and a
start without empty segments survives the stripping of final slashes, by a lookup
(`ComponentsKeepStart`) and by `remove` and `rename` (`LocationKeepsStart`). `Stays`
is `Confined` for one location. `LeadsBack` is `PathsJoin` seen through
`exposePath` and back.

The invariant of `SocketClientProofs` says where the bytes of a direction are:
those read, those in the buffer and those on the wire go on from each other
(`Follows`), and are as many as the other end has reported and its write in
progress has sent (`Carried`). That needs to know that only a closed socket sends
an end (`Closing`), that nothing is on its way behind one (`NothingBehind`), and,
for the ends, that an answer stays true: bytes cannot arrive behind an end
(`Answers`). The lemmas on sequences (`FirstMoves`, `PrefixMoves`, `NextFollow`)
carry the three ways bytes move: a segment that arrives, a read, a send. Neither
the window, nor how reads and writes are sized, nor the signals, nor which end
blocks matter to it; what a reset discards is behind all that was read.
`ProbeDoesNotBlock` is inductive with it: what made the socket readable for
`select` stays there until the probe, because only its own end reads, and a reset
takes the bytes but leaves an error to find. For `TypeOK` no byte may be beyond
what its writer was given to write: `WithinBudget` bounds a write in progress by
its budget, `BytesOfBudget` says it of every byte on its way.

The invariant of `SocketServerProofs` is about ports: a socket has the port it was
created with, and what `port()` answers is that of the socket (`OwnPort`); two
servers share a port only if one of them was created with it, and both listen only
on Windows (`SharedPort`). The second half is why a bind that races another's
between its bind and its listen does no harm: the host refuses the second listen.
A connection waits in one queue, once (`Queued`), and a caller that is sure of its
port asked a server that still has its listener (`SureOfIt`), so that the listener
found on that port can only be that server's.

The invariant of `HostFilesProofs` says of each caller by itself what its handle
looks like (`FileOK`), what a call in progress has found (`CallOK`), and what it
knows (`KnownOK`): the bytes it knows are its file's once what is pending is
written over them (`Whole`), and the size its handle remembers is their number.
It is the same for the three hosts, with the one exception that `SizeIsFileSize`
names. The helpers put bytes into one node and keep all others (`Puts`, `Grows`),
the stream's buffer being written out among them (`LandedPuts`); a caller's step on
its handle then needs only that the handle it leaves fits the bytes it leaves
(`HandleStepKeeps`), and another caller's knowledge is unchanged or gone
(`OthersKept`): every step that changes a node empties `known` of the others there.
`PerCaller` says no more than that the three variables are
functions of the callers.

The invariant of `DirectoryListingProofs` says that enumerations in progress are
of directories in each other, one of every depth (`Walking`), that none returns an
entry that was reported (`Fresh`), and that all that was there all along is
reported, awaited or hidden by a failure (`Covered`): an enumeration in progress has it, or a directory it is
in, still to return, or the callback is just running for such a directory. When
the stack is empty nothing is awaited, which is `CompleteIfTrue`. Removing a
directory removes what is in it (`Rooted`), so that an entry which stays is in
directories which stay. What is hidden stays hidden (`HiddenStays`): an enumeration
that is cut short hides all that it, and those inside it, still had to return
(`CutShortKeepsCovered`, `BreakKeeps`), and an entry of a directory that was not entered
is hidden with what is around it (`HidesBelow`).

What stays with TLC: liveness (`HeadIsParsed`, `Drained`, `CallsReturn`, `Served`),
which TLAPS cannot do under fairness, and the refinement `ImplementsFileTree`, not
proved yet. Every invariant and every other action property that a passing run
checks is proved.

## 5. Not modelled

* **Manual clock and synchronizer.** Each operation is one assignment to a counter
  or an optional, by one thread, under no condition but that UTC is known; the
  synchronizer is one call and one assignment. A model would repeat them.
* **`utcNow` and NTP.** A conversion of one operating-system call; on Arduino the
  waiting is the vendor's.
* **A FIONREAD that fails**, of which `available` returns the error.
* **Arduino's client and peer.** Every call goes to a vendor library that is not in
  the repository and differs between boards; the adapters keep nothing to model.
* **Full disks.** A write or flush that the host refuses is left out of `HostFiles`; an `open`
  or `mkdir` that it refuses is in.
* **`lastWrite`, metadata, `normalizePath`.** They change no control, or belong to the host. The
  one place where the library itself looks at `"."` and at drive letters, `isRoot`, is modelled.
* **The path of an open file**, which is the string it was opened with: see `ScopedFileSystem`.
* **`getScoped` of the host adapters.** `ScopedFileSystem` is composed with the in-memory file
  system alone. Over a host it adds the races of `HostFiles`; on Arduino the
  adapter hands `ScopedFileSystem` an `FS&` where it takes an `IFileSystem&`.
* **Extension helpers, string helpers, endpoint names, traits.** Text or types only.

## 6. The plan

What is left is one proof: `ImplementsFileTree`, the refinement of
`MemoryFileSystem`. The lemmas on locations say of each operation what it does to
all locations but those below the arguments of `rename`; what is missing is that
those move along, and that `Linked(heap, MaxNodes - 1)` is all of the tree, which
takes a bound on its depth by the number of nodes.

## 7. Running it

```
tlc -workers 2 -config MemoryTree.cfg MCMemoryFileSystem.tla
tlapm UdpPeerProofs.tla
```

`PROJECT.json` names the module and configuration of each run.
