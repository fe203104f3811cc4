-------------------------- MODULE HostFilesProofs --------------------------
(***************************************************************************)
(* Theorems about HostFiles: what a handle's caller may rely on while no   *)
(* other caller changes its file.  For any callers, paths and bounds, on   *)
(* every build.                                                            *)
(***************************************************************************)
EXTENDS HostFiles, SequenceTheorems, TLAPS

Bytes == Callers \cup {Zero}

\* A file's bytes, once what its stream keeps is written out.
Whole(f, data) ==
  IF f.pending = <<>> THEN data
  ELSE Written(data, f.position - Len(f.pending), f.pending)

HandleRecords(c) ==
  [stream : {TRUE}, node : DOMAIN nodes, path : Names, mode : Modes,
   size : Sizes, position : 0..MaxSize, pending : {<<>>, <<c>>}]

\* A handle that can be written has no directory, and what it has not written
\* out lies before its position; the vendor's File keeps nothing.
FileOK(c) ==
  files[c] # NoFile =>
    /\ files[c] \in HandleRecords(c)
    /\ Writable(files[c]) => ~IsDirectory(files[c].node)
    /\ Len(files[c].pending) <= files[c].position
    /\ host = "arduino" => files[c].pending = <<>>

Opening == [step : {"open"}, path : Names, mode : Modes, found : Nat, size : Sizes]
Refreshing == [step : {"refresh"}, path : Names, mode : Modes, node : DOMAIN nodes]
Removing == [step : {"remove"}, path : Names, directory : BOOLEAN]

\* A caller that opens a file has none yet.
CallOK(c) ==
  /\ calls[c] \in {NoCall} \cup Opening \cup Refreshing \cup Removing
  /\ calls[c].step \in {"open", "refresh"} => files[c] = NoFile
  /\ calls[c].step = "refresh" /\ Writable(calls[c]) => ~IsDirectory(calls[c].node)

\* The bytes a caller knows are its file's, and its handle has their number.
KnownOK(c) ==
  /\ files[c] = NoFile => known[c] = {}
  /\ \A k \in known[c] :
       /\ k = Whole(files[c], nodes[files[c].node].data)
       /\ \/ files[c].size = {Len(k)}
          \/ host = "arduino" /\ files[c].mode # "Read" /\ k = <<>>

CallerOK(c) == FileOK(c) /\ CallOK(c) /\ KnownOK(c)

HostOK ==
  /\ host \in Hosts
  /\ nodes \in Seq(Node)
  /\ \A n \in DOMAIN nodes : Len(nodes[n].data) <= MaxSize
  /\ entries \in [Names -> {Null} \cup DOMAIN nodes]

\* Each caller has one handle, one call and what it knows.
PerCaller ==
  /\ files = [c \in Callers |-> files[c]]
  /\ calls = [c \in Callers |-> calls[c]]
  /\ known = [c \in Callers |-> known[c]]

IInv == HostOK /\ PerCaller /\ \A c \in Callers : CallerOK(c)

-----------------------------------------------------------------------------
(* Bytes and sizes.                                                        *)

\* The larger of two numbers, and the largest of one.
LEMMA MaxOfFew ==
  ASSUME NEW x \in Nat, NEW y \in Nat
  PROVE  Max({x} \cup {y}) = (IF x < y THEN y ELSE x) /\ Max({} \cup {y}) = y /\ Max({x}) = x
<1> DEFINE m == IF x < y THEN y ELSE x
<1>1. m \in {x} \cup {y} /\ m \in Nat /\ m >= x /\ m >= y
  OBVIOUS
<1>2. \A z \in {x} \cup {y} : (\A w \in {x} \cup {y} : z >= w) => z = m
  OBVIOUS
<1> HIDE DEF m
<1>3. Max({x} \cup {y}) = m
  BY <1>1, <1>2 DEF Max
<1>4. Max({} \cup {y}) = y /\ Max({x}) = x
  BY DEF Max
<1> QED
  BY <1>3, <1>4 DEF m

\* One byte written at an offset: no byte is lost, the file grows to hold it.
LEMMA OneByteWritten ==
  ASSUME NEW data \in Seq(Bytes), NEW offset \in Nat, NEW b \in Bytes,
         NEW size, size = (IF Len(data) < offset + 1 THEN offset + 1 ELSE Len(data))
  PROVE  /\ Written(data, offset, <<b>>) \in Seq(Bytes)
         /\ Len(Written(data, offset, <<b>>)) = size
         /\ size \in Nat /\ size >= Len(data) /\ size >= offset + 1
<1>1. /\ Len(data) \in Nat /\ size \in Nat /\ size >= Len(data) /\ size >= offset + 1
      /\ \A i \in 1..Len(data) : data[i] \in Bytes
  OBVIOUS
<1>2. Len(<<b>>) = 1 /\ <<b>>[1] = b
  OBVIOUS
<1> DEFINE w == [i \in 1..size |->
                  IF offset < i /\ i <= offset + 1 THEN <<b>>[i - offset]
                  ELSE IF i <= Len(data) THEN data[i] ELSE Zero]
<1>3. Written(data, offset, <<b>>) = w
  BY <1>2 DEF Written
<1>4. ASSUME NEW i \in 1..size PROVE w[i] \in Bytes
  <2>1. i \in Nat /\ i >= 1
    BY <1>1
  <2>2. CASE offset < i /\ i <= offset + 1
    <3>1. i - offset = 1
      BY <2>1, <2>2
    <3> QED
      BY <1>2, <2>2, <3>1
  <2>3. CASE ~(offset < i /\ i <= offset + 1)
    <3>1. w[i] = IF i <= Len(data) THEN data[i] ELSE Zero
      BY <2>3
    <3>2. i <= Len(data) => data[i] \in Bytes
      BY <1>1, <2>1
    <3> QED
      BY <3>1, <3>2 DEF Bytes
  <2> QED
    BY <2>2, <2>3
<1>5. w = [i \in 1..size |-> w[i]]
  OBVIOUS
<1> HIDE DEF w
<1>6. w \in [1..size -> Bytes]
  BY <1>4, <1>5
<1>7. w \in Seq(Bytes) /\ Len(w) = size
  BY <1>1, <1>6
<1> QED
  BY <1>1, <1>3, <1>7

\* A handle and the node it has open are what their types say.
LEMMA HandleFacts ==
  ASSUME IInv, NEW c \in Callers, files[c] # NoFile
  PROVE  /\ files[c] \in HandleRecords(c) /\ files[c].stream
         /\ files[c].node \in DOMAIN nodes /\ files[c].position \in Nat
         /\ files[c].position <= MaxSize /\ files[c].path \in Names /\ files[c].mode \in Modes
         /\ files[c].size \in Sizes /\ files[c].pending \in {<<>>, <<c>>}
         /\ Len(files[c].pending) <= files[c].position
         /\ nodes[files[c].node] \in Node /\ nodes[files[c].node].data \in Seq(Bytes)
         /\ Len(nodes[files[c].node].data) \in Nat
         /\ Len(nodes[files[c].node].data) <= MaxSize
         /\ c \in Bytes /\ MaxSize \in Nat
<1>1. files[c] \in HandleRecords(c) /\ Len(files[c].pending) <= files[c].position
  BY DEF IInv, CallerOK, FileOK
<1>2. MaxSize \in Nat /\ c \in Bytes
  BY BoundsAssumption DEF Bytes
<1>3. /\ files[c].stream = TRUE /\ files[c].node \in DOMAIN nodes
      /\ files[c].position \in 0..MaxSize
      /\ files[c].path \in Names /\ files[c].mode \in Modes
      /\ files[c].size \in Sizes /\ files[c].pending \in {<<>>, <<c>>}
  BY <1>1 DEF HandleRecords
<1>4. nodes[files[c].node] \in Node /\ Len(nodes[files[c].node].data) <= MaxSize
  BY <1>3 DEF IInv, HostOK
<1>5. nodes[files[c].node].data \in Seq(Bytes)
  BY <1>4 DEF Node, Bytes
<1> QED
  BY <1>1, <1>2, <1>3, <1>4, <1>5

\* Every caller's handle is none, or one with a stream.
LEMMA StreamMeansHandle ==
  ASSUME IInv, NEW c \in Callers
  PROVE  files[c].stream <=> files[c] # NoFile
<1>1. CASE files[c] = NoFile
  BY <1>1 DEF NoFile
<1>2. CASE files[c] # NoFile
  BY <1>2, HandleFacts
<1> QED
  BY <1>1, <1>2

\* What a caller knows is what its file holds, and its handle's size fits it.
LEMMA KnownFacts ==
  ASSUME IInv, NEW c \in Callers, NEW x \in known[c]
  PROVE  /\ files[c] # NoFile
         /\ x = Whole(files[c], nodes[files[c].node].data)
         /\ \/ files[c].size = {Len(x)}
            \/ host = "arduino" /\ files[c].mode # "Read" /\ x = <<>>
BY DEF IInv, CallerOK, KnownOK

\* Writing out what a handle keeps loses no byte and stays in bounds.
LEMMA WholeFacts ==
  ASSUME IInv, NEW c \in Callers, files[c] # NoFile,
         NEW data, data = nodes[files[c].node].data
  PROVE  /\ Whole(files[c], data) \in Seq(Bytes) /\ Len(Whole(files[c], data)) \in Nat
         /\ Len(Whole(files[c], data)) <= MaxSize
         /\ Len(Whole(files[c], data)) >= Len(data)
<1> DEFINE f == files[c]
<1>1. /\ data \in Seq(Bytes) /\ Len(data) \in Nat /\ Len(data) <= MaxSize /\ MaxSize \in Nat
      /\ f.pending \in {<<>>, <<c>>} /\ c \in Bytes
      /\ f.position \in Nat /\ f.position <= MaxSize /\ Len(f.pending) <= f.position
  BY HandleFacts
<1> HIDE DEF f
<1>2. CASE f.pending = <<>>
  BY <1>1, <1>2 DEF Whole, f
<1>3. CASE f.pending = <<c>>
  <2>1. Len(f.pending) = 1 /\ f.pending # <<>>
    BY <1>3
  <2>2. PICK offset \in Nat : offset = f.position - 1 /\ offset + 1 = f.position
    BY <1>1, <2>1
  <2>3. Whole(f, data) = Written(data, offset, <<c>>)
    BY <1>3, <2>1, <2>2 DEF Whole
  <2>4. PICK size \in Nat : size = IF Len(data) < offset + 1 THEN offset + 1 ELSE Len(data)
    BY <1>1
  <2>5. size <= MaxSize
    BY <1>1, <2>2, <2>4
  <2>6. /\ Written(data, offset, <<c>>) \in Seq(Bytes)
        /\ Len(Written(data, offset, <<c>>)) = size
        /\ size >= Len(data)
    <3>1. data \in Seq(Bytes) /\ c \in Bytes
      BY <1>1
    <3> QED
      BY <2>4, <3>1, OneByteWritten
  <2> QED
    BY <2>3, <2>5, <2>6 DEF f
<1> QED
  BY <1>1, <1>2, <1>3

-----------------------------------------------------------------------------
(* The steps of a handle.                                                  *)

\* From one state of the host to another, a node is given these bytes, and every
\* other node has its own.
Puts(before, after, n, data) ==
  /\ after \in Seq(Node) /\ Len(after) = Len(before)
  /\ \A m \in DOMAIN before \ {n} : after[m] = before[m]
  /\ (after[n].directory <=> before[n].directory) /\ after[n].data = data

LEMMA DataPut ==
  ASSUME NEW before \in Seq(Node), NEW n \in DOMAIN before, NEW data \in Seq(Bytes),
         NEW after, after = [before EXCEPT ![n].data = data]
  PROVE  Puts(before, after, n, data)
<1>1. Len(before) \in Nat /\ DOMAIN before = 1..Len(before)
  OBVIOUS
<1>2. before[n] \in Node
  BY <1>1
<1>3. before[n].directory \in BOOLEAN
  BY <1>2 DEF Node
<1> DEFINE r == [before[n] EXCEPT !.data = data]
<1>4. r \in Node /\ r.data = data /\ r.directory = before[n].directory
  BY <1>2 DEF Node, Bytes
<1>5. after = [before EXCEPT ![n] = r]
  OBVIOUS
<1> HIDE DEF r
<1>6. after \in Seq(Node) /\ Len(after) = Len(before)
  BY <1>1, <1>4, <1>5
<1>7. after[n] = r /\ \A m \in DOMAIN before \ {n} : after[m] = before[m]
  BY <1>1, <1>5
<1> QED
  BY <1>4, <1>6, <1>7 DEF Puts

\* What a handle keeps, written out into its node.
LEMMA LandedPuts ==
  ASSUME IInv, NEW c \in Callers, files[c] # NoFile
  PROVE  Puts(nodes, Landed(c), files[c].node, Whole(files[c], nodes[files[c].node].data))
<1> DEFINE f == files[c]
           data == nodes[f.node].data
<1>1. f.node \in DOMAIN nodes /\ Whole(f, data) \in Seq(Bytes) /\ nodes \in Seq(Node)
  BY HandleFacts, WholeFacts DEF IInv, HostOK
<1>2. CASE f.pending = <<>>
  <2>1. Landed(c) = nodes /\ Whole(f, data) = data
    BY <1>2 DEF Landed, Whole
  <2> QED
    BY <1>1, <2>1 DEF Puts
<1>3. CASE f.pending # <<>>
  <2>1. Landed(c) = [nodes EXCEPT ![f.node].data = Whole(f, data)]
    BY <1>3 DEF Landed, Whole
  <2> QED
    BY <1>1, <2>1, DataPut
<1> QED
  BY <1>2, <1>3

\* A step that keeps every node and what it is, and may add some.
Grows ==
  /\ nodes' \in Seq(Node) /\ Len(nodes) <= Len(nodes')
  /\ \A n \in DOMAIN nodes : nodes'[n].directory <=> nodes[n].directory
  /\ \A n \in DOMAIN nodes' : Len(nodes'[n].data) <= MaxSize

\* A node stays one, and a directory one.
LEMMA NodesStay ==
  ASSUME IInv, Grows
  PROVE  /\ DOMAIN nodes \subseteq DOMAIN nodes' /\ DOMAIN nodes' = 1..Len(nodes')
         /\ DOMAIN nodes = 1..Len(nodes)
         /\ \A n \in DOMAIN nodes : IsDirectory(n)' <=> IsDirectory(n)
         /\ \A c \in Callers : HandleRecords(c) \subseteq HandleRecords(c)'
         /\ Refreshing \subseteq Refreshing'
<1>1. nodes \in Seq(Node) /\ nodes' \in Seq(Node)
  BY DEF IInv, HostOK, Grows
<1>2. Len(nodes) \in Nat /\ Len(nodes') \in Nat /\ Len(nodes) <= Len(nodes')
  BY <1>1 DEF Grows
<1>3. DOMAIN nodes = 1..Len(nodes) /\ DOMAIN nodes' = 1..Len(nodes')
  BY <1>1
<1>4. DOMAIN nodes \subseteq DOMAIN nodes'
  BY <1>2, <1>3
<1>5. \A n \in DOMAIN nodes : IsDirectory(n)' <=> IsDirectory(n)
  BY DEF Grows, IsDirectory
<1>6. \A c \in Callers : HandleRecords(c) \subseteq HandleRecords(c)'
  BY <1>4 DEF HandleRecords
<1>7. Refreshing \subseteq Refreshing'
  BY <1>4 DEF Refreshing
<1> QED
  BY <1>3, <1>4, <1>5, <1>6, <1>7

\* A caller that takes no step keeps its handle and its call, and knows its file
\* as before if the step left its bytes alone.
LEMMA OtherKept ==
  ASSUME IInv, NEW d \in Callers, Grows, host' = host,
         files'[d] = files[d], calls'[d] = calls[d],
         \/ known'[d] = {}
         \/ /\ known'[d] = known[d]
            /\ files[d] # NoFile => nodes'[files[d].node] = nodes[files[d].node]
  PROVE  CallerOK(d)'
<1>1. CallerOK(d)
  BY DEF IInv
<1>2. FileOK(d)'
  <2>1. ASSUME files[d] # NoFile
        PROVE  /\ files[d] \in HandleRecords(d)'
               /\ Writable(files[d]) => ~IsDirectory(files[d].node)'
               /\ Len(files[d].pending) <= files[d].position
               /\ host = "arduino" => files[d].pending = <<>>
    BY <1>1, <2>1, NodesStay, HandleFacts DEF CallerOK, FileOK
  <2> QED
    BY <2>1 DEF FileOK
<1>3. CallOK(d)'
  <2>1. calls[d].step = "refresh" => calls[d].node \in DOMAIN nodes
    BY <1>1 DEF CallerOK, CallOK, NoCall, Opening, Refreshing, Removing
  <2>2. calls[d].step = "refresh" /\ Writable(calls[d]) => ~IsDirectory(calls[d].node)'
    BY <1>1, <2>1, NodesStay DEF CallerOK, CallOK
  <2>3. calls[d] \in {NoCall} \cup Opening \cup Refreshing' \cup Removing
    BY <1>1, NodesStay DEF CallerOK, CallOK
  <2> QED
    BY <1>1, <2>2, <2>3 DEF CallerOK, CallOK, Opening, Removing
<1>4. KnownOK(d)'
  <2>1. CASE known'[d] = {}
    BY <2>1 DEF KnownOK
  <2>2. CASE known'[d] # {}
    <3>1. known'[d] = known[d] /\ files[d] # NoFile
      BY <1>1, <2>2 DEF CallerOK, KnownOK
    <3>2. nodes'[files[d].node] = nodes[files[d].node]
      BY <2>2, <3>1
    <3> QED
      BY <1>1, <3>1, <3>2 DEF CallerOK, KnownOK
  <2> QED
    BY <2>1, <2>2
<1> QED
  BY <1>2, <1>3, <1>4 DEF CallerOK

\* A step of c that keeps all nodes but may change some bytes: the others are
\* as the step's Knows has them.
LEMMA OthersKept ==
  ASSUME IInv, NEW c \in Callers, NEW k, Knows(c, k), Grows, host' = host,
         NEW d \in Callers \ {c}, files'[d] = files[d], calls'[d] = calls[d]
  PROVE  CallerOK(d)'
<1>1. known'[d] = IF files[d].stream /\ nodes'[files[d].node] # nodes[files[d].node]
                  THEN {} ELSE known[d]
  BY DEF Knows
<1>2. files[d].stream <=> files[d] # NoFile
  BY StreamMeansHandle
<1>3. \/ known'[d] = {}
      \/ /\ known'[d] = known[d]
         /\ files[d] # NoFile => nodes'[files[d].node] = nodes[files[d].node]
  BY <1>1, <1>2
<1> QED
  BY <1>3, OtherKept

\* A step that puts bytes into one node keeps all nodes.
LEMMA PutsGrows ==
  ASSUME IInv, NEW n \in DOMAIN nodes, NEW data, Len(data) <= MaxSize, Puts(nodes, nodes', n, data)
  PROVE  Grows /\ DOMAIN nodes' = DOMAIN nodes
<1>1. /\ nodes \in Seq(Node) /\ nodes' \in Seq(Node) /\ Len(nodes') = Len(nodes)
      /\ Len(nodes) \in Nat /\ DOMAIN nodes = 1..Len(nodes) /\ DOMAIN nodes' = 1..Len(nodes')
  BY DEF IInv, HostOK, Puts
<1>2. \A m \in DOMAIN nodes : nodes'[m].directory <=> nodes[m].directory
  BY DEF Puts
<1>3. \A m \in DOMAIN nodes' : Len(nodes'[m].data) <= MaxSize
  BY <1>1 DEF IInv, HostOK, Puts
<1> QED
  BY <1>1, <1>2, <1>3 DEF Grows

\* A handle that c can be left with when its file's bytes are these and it knows k.
Fits(c, f, k, data) ==
  /\ f # NoFile /\ f \in HandleRecords(c)
  /\ f.node = files[c].node /\ f.mode = files[c].mode
  /\ Len(f.pending) <= f.position
  /\ host = "arduino" => f.pending = <<>>
  /\ \A x \in k :
       /\ x = Whole(f, data)
       /\ \/ f.size = {Len(x)}
          \/ host = "arduino" /\ f.mode # "Read" /\ x = <<>>

\* A caller's step on its handle: read, write, flush or close. It suffices that
\* the handle it leaves fits the bytes it leaves in the file.
LEMMA HandleStepKeeps ==
  ASSUME IInv, NEW c \in Callers, files[c] # NoFile, calls[c] = NoCall,
         NEW data \in Seq(Bytes), Len(data) <= MaxSize, Puts(nodes, nodes', files[c].node, data),
         NEW f, files' = [files EXCEPT ![c] = f],
         NEW k, Knows(c, k), UNCHANGED <<host, entries, calls>>,
         (f = NoFile /\ k = {}) \/ Fits(c, f, k, data)
  PROVE  IInv'
<1>1. /\ files = [d \in Callers |-> files[d]] /\ calls = [d \in Callers |-> calls[d]]
  BY DEF IInv, PerCaller
<1>2. /\ files' = [d \in Callers |-> files'[d]] /\ files'[c] = f
      /\ \A d \in Callers \ {c} : files'[d] = files[d]
  BY <1>1
<1>3. known' = [d \in Callers |-> known'[d]] /\ known'[c] = k
  BY DEF Knows
<1>4. files[c].node \in DOMAIN nodes
  BY HandleFacts
<1>5. Grows /\ HostOK' /\ DOMAIN nodes' = DOMAIN nodes
  <2>1. Grows /\ DOMAIN nodes' = DOMAIN nodes
    BY <1>4, PutsGrows
  <2> QED
    BY <2>1 DEF IInv, HostOK, Grows
<1>6. ASSUME NEW d \in Callers \ {c} PROVE CallerOK(d)'
  BY <1>2, <1>5, <1>6, OthersKept
<1>7. FileOK(c)'
  <2>1. Writable(files[c]) => ~IsDirectory(files[c].node)
    BY DEF IInv, CallerOK, FileOK
  <2>2. ASSUME f # NoFile
        PROVE  /\ f \in HandleRecords(c)'
               /\ Writable(f) => ~IsDirectory(f.node)'
    BY <1>4, <1>5, <2>1, <2>2, NodesStay DEF Writable, Fits
  <2> QED
    BY <1>2, <2>2 DEF FileOK, Fits
<1>8. CallOK(c)'
  BY DEF CallOK, NoCall
<1>9. KnownOK(c)'
  <2>1. nodes'[files[c].node].data = data
    BY DEF Puts
  <2> QED
    BY <1>2, <1>3, <2>1 DEF KnownOK, Fits
<1>10. PerCaller'
  BY <1>1, <1>2, <1>3 DEF PerCaller
<1>11. ASSUME NEW d \in Callers PROVE CallerOK(d)'
  <2>1. CASE d = c
    BY <1>7, <1>8, <1>9, <2>1 DEF CallerOK
  <2>2. CASE d # c
    BY <1>6, <2>2
  <2> QED
    BY <2>1, <2>2
<1> QED
  BY <1>5, <1>10, <1>11 DEF IInv

\* A handle is not the lack of one.
LEMMA HandleIsOne ==
  ASSUME NEW c, NEW f \in HandleRecords(c)
  PROVE  f # NoFile
<1>1. f.stream = TRUE
  BY DEF HandleRecords
<1> QED
  BY <1>1 DEF NoFile

\* Reading and peeking: what is pending is written out, and the position stays in
\* the file or where it was.
LEMMA FetchKeeps ==
  ASSUME IInv, NEW c \in Callers, NEW n \in Nat, Fetch(c, n)
  PROVE  IInv'
<1> DEFINE f == files[c]
           w == Whole(f, nodes[f.node].data)
           left == Left(Landed(c)[f.node].data, f)
           moved == IF n <= left THEN n ELSE left
           g == [f EXCEPT !.pending = <<>>, !.position = @ + moved]
<1>1. /\ host # "arduino" /\ calls[c] = NoCall /\ f.stream
      /\ nodes' = Landed(c) /\ Knows(c, known[c])
      /\ UNCHANGED <<host, entries, calls>>
  BY DEF Fetch, Streams, Free
<1>2. files' = [files EXCEPT ![c].pending = <<>>, ![c].position = @ + moved]
  BY DEF Fetch
<1>3. files' = [files EXCEPT ![c] = g]
  BY <1>2
<1>4. f # NoFile
  BY <1>1, StreamMeansHandle
<1>5. w \in Seq(Bytes) /\ Len(w) \in Nat /\ Len(w) <= MaxSize
  BY <1>4, WholeFacts
<1>6. Puts(nodes, nodes', f.node, w) /\ Landed(c)[f.node].data = w
  BY <1>1, <1>4, LandedPuts DEF Puts
<1>7. f \in HandleRecords(c) /\ f.position \in Nat /\ f.position <= MaxSize /\ MaxSize \in Nat
  BY <1>4, HandleFacts
<1>8. f.position + moved \in 0..MaxSize
  <2>1. left = IF f.position < Len(w) THEN Len(w) - f.position ELSE 0
    BY <1>6 DEF Left
  <2>2. left \in Nat /\ f.position + left <= MaxSize
    BY <1>5, <1>7, <2>1
  <2> HIDE DEF left, f
  <2>3. moved \in Nat /\ moved <= left
    BY <2>2
  <2> QED
    BY <1>7, <2>2, <2>3
<1> HIDE DEF left, moved
<1>9. /\ g \in HandleRecords(c) /\ g.pending = <<>> /\ g.node = f.node /\ g.mode = f.mode
      /\ g.size = f.size /\ g.position = f.position + moved
  BY <1>7, <1>8 DEF HandleRecords
<1>10. g # NoFile
  BY <1>9, HandleIsOne
<1>11. Len(g.pending) <= g.position
  BY <1>8, <1>9
<1>12. \A x \in known[c] : x = Whole(g, w) /\ g.size = {Len(x)}
  BY <1>1, <1>9 DEF IInv, CallerOK, KnownOK, Whole
<1>13. Fits(c, g, known[c], w)
  BY <1>9, <1>10, <1>11, <1>12 DEF Fits
<1> HIDE DEF g, w
<1> QED
  BY <1>1, <1>3, <1>4, <1>5, <1>6, <1>13, HandleStepKeeps

\* The size a handle remembers after a write.
LEMMA GrownSize ==
  ASSUME NEW size \in Sizes, NEW position \in Nat, position <= MaxSize
  PROVE  /\ Grown(size, position) \in Sizes
         /\ \A n \in Nat : size = {n} =>
              Grown(size, position) = {IF n < position THEN position ELSE n}
<1>1. MaxSize \in Nat
  BY BoundsAssumption
<1>2. ASSUME NEW n \in Nat
      PROVE  Max({n} \cup {position}) = IF n < position THEN position ELSE n
  BY <1>2, MaxOfFew
<1>3. CASE size = {}
  <2>1. Grown(size, position) = {position}
    BY <1>3, MaxOfFew DEF Grown
  <2> QED
    BY <1>1, <1>3, <2>1 DEF Sizes
<1>4. ASSUME NEW n \in 0..MaxSize, size = {n}
      PROVE  Grown(size, position) \in Sizes
  <2> DEFINE m == IF n < position THEN position ELSE n
  <2>1. Grown(size, position) = {m} /\ m \in 0..MaxSize
    BY <1>1, <1>2, <1>4 DEF Grown
  <2> QED
    BY <2>1 DEF Sizes
<1>5. Grown(size, position) \in Sizes
  BY <1>3, <1>4 DEF Sizes
<1>6. ASSUME NEW n \in Nat, size = {n}
      PROVE  Grown(size, position) = {IF n < position THEN position ELSE n}
  BY <1>2, <1>6 DEF Grown
<1> QED
  BY <1>5, <1>6

\* A byte that a full buffer lets through to the host, behind what was pending.
LEMMA WrittenThrough ==
  ASSUME IInv, NEW c \in Callers, files[c] # NoFile, NEW w, NEW v,
         w = Whole(files[c], nodes[files[c].node].data),
         v = Written(w, files[c].position, <<c>>), v \in Seq(Bytes),
         nodes' = [Landed(c) EXCEPT ![files[c].node].data = Written(@, files[c].position, <<c>>)]
  PROVE  Puts(nodes, nodes', files[c].node, v)
<1> DEFINE f == files[c]
<1>1. Puts(nodes, Landed(c), f.node, w) /\ f.node \in DOMAIN nodes
  BY LandedPuts, HandleFacts
<1>2. /\ Landed(c) \in Seq(Node) /\ DOMAIN Landed(c) = DOMAIN nodes
      /\ Landed(c)[f.node].data = w
  BY <1>1 DEF Puts, IInv, HostOK
<1>3. nodes' = [Landed(c) EXCEPT ![f.node].data = v]
  BY <1>1, <1>2
<1>4. Puts(Landed(c), nodes', f.node, v)
  BY <1>1, <1>2, <1>3, DataPut
<1> QED
  BY <1>1, <1>2, <1>4 DEF Puts, IInv, HostOK

\* A write, whether or not the stream keeps it: behind what was pending comes
\* the byte that was written, at the position it was written at.
LEMMA WriteKeeps ==
  ASSUME IInv, NEW c \in Callers, Write(c)
  PROVE  IInv'
<1> DEFINE f == files[c]
           position == f.position + 1
           w == Whole(f, nodes[f.node].data)
           v == Written(w, f.position, <<c>>)
           k == {Written(x, f.position, <<c>>) : x \in known[c]}
<1>1. PICK buffered \in BOOLEAN :
        /\ nodes' = IF buffered THEN Landed(c)
                    ELSE [Landed(c) EXCEPT ![f.node].data = Written(@, f.position, <<c>>)]
        /\ files' = [files EXCEPT ![c] =
             [f EXCEPT !.pending = IF buffered THEN <<c>> ELSE <<>>,
                       !.position = position,
                       !.size = Grown(@, position)]]
  BY Zenon DEF Write
<1> DEFINE g == [f EXCEPT !.pending = IF buffered THEN <<c>> ELSE <<>>,
                          !.position = position, !.size = Grown(@, position)]
<1>2. /\ host # "arduino" /\ calls[c] = NoCall /\ f.stream
      /\ position <= MaxSize /\ Knows(c, k) /\ UNCHANGED <<host, entries, calls>>
  BY DEF Write, Streams, Free
<1>3. f # NoFile
  BY <1>2, StreamMeansHandle
<1>4. /\ f \in HandleRecords(c) /\ f.position \in Nat /\ f.node \in DOMAIN nodes
      /\ f.size \in Sizes /\ c \in Bytes /\ MaxSize \in Nat
  BY <1>3, HandleFacts
<1>5. w \in Seq(Bytes) /\ Len(w) \in Nat /\ Len(w) <= MaxSize
  BY <1>3, WholeFacts
<1>6. Puts(nodes, Landed(c), f.node, w)
  BY <1>3, LandedPuts
<1>7. PICK size \in Nat : size = IF Len(w) < position THEN position ELSE Len(w)
  BY <1>4, <1>5
<1>8. v \in Seq(Bytes) /\ Len(v) = size /\ size <= MaxSize
  <2> HIDE DEF w, f
  <2>1. size = IF Len(w) < f.position + 1 THEN f.position + 1 ELSE Len(w)
    BY <1>7
  <2>2. v \in Seq(Bytes) /\ Len(v) = size
    BY <1>4, <1>5, <2>1, OneByteWritten
  <2> QED
    BY <1>2, <1>5, <1>7, <2>2
<1>9. /\ position \in 0..MaxSize /\ position \in Nat /\ position - 1 = f.position /\ position >= 1
      /\ Grown(f.size, position) \in Sizes
  <2>1. position \in 0..MaxSize /\ position \in Nat /\ position - 1 = f.position /\ position >= 1
    BY <1>2, <1>4
  <2> HIDE DEF position
  <2> QED
    BY <1>2, <1>4, <2>1, GrownSize
<1>10. ASSUME NEW x \in known[c] PROVE x = w /\ Grown(f.size, position) = {size}
  <2>1. x = w /\ f.size = {Len(x)}
    BY <1>2 DEF IInv, CallerOK, KnownOK
  <2> HIDE DEF w, position, f
  <2> QED
    BY <1>2, <1>4, <1>5, <1>7, <1>9, <2>1, GrownSize
<1> HIDE DEF position
<1>11. /\ g \in HandleRecords(c) /\ g.node = f.node /\ g.mode = f.mode
       /\ g.position = position /\ g.size = Grown(f.size, position)
       /\ g.pending = IF buffered THEN <<c>> ELSE <<>>
  BY <1>4, <1>9 DEF HandleRecords
<1>12. g # NoFile
  BY <1>11, HandleIsOne
<1>13. Len(g.pending) <= g.position
  BY <1>9, <1>11
<1>14. files' = [files EXCEPT ![c] = g]
  BY <1>1
<1> HIDE DEF g
<1>15. CASE buffered
  <2>1. Puts(nodes, nodes', f.node, w)
    BY <1>1, <1>6, <1>15
  <2>2. Whole(g, w) = v
    BY <1>9, <1>11, <1>15 DEF Whole
  <2>3. \A x \in k : x = Whole(g, w) /\ g.size = {Len(x)}
    BY <1>8, <1>10, <1>11, <2>2
  <2> HIDE DEF w, v, k
  <2>4. Fits(c, g, k, w)
    BY <1>2, <1>11, <1>12, <1>13, <2>3 DEF Fits
  <2> QED
    BY <1>2, <1>3, <1>5, <1>14, <2>1, <2>4, HandleStepKeeps
<1>16. CASE ~buffered
  <2>3. Puts(nodes, nodes', f.node, v)
    BY <1>1, <1>3, <1>8, <1>16, WrittenThrough
  <2>4. Whole(g, v) = v
    BY <1>11, <1>16 DEF Whole
  <2>5. \A x \in k : x = Whole(g, v) /\ g.size = {Len(x)}
    BY <1>8, <1>10, <1>11, <2>4
  <2>6. g.pending = <<>> /\ Len(v) <= MaxSize /\ v \in Seq(Bytes)
    BY <1>8, <1>11, <1>16
  <2> HIDE DEF w, v, k
  <2>7. Fits(c, g, k, v)
    BY <1>2, <1>11, <1>12, <1>13, <2>5, <2>6 DEF Fits
  <2> QED
    BY <1>2, <1>3, <1>14, <2>3, <2>6, <2>7, HandleStepKeeps
<1> QED
  BY <1>15, <1>16

\* A flush: what is pending is written out, and the size is asked for, of what
\* the path leads to.
LEMMA FlushKeeps ==
  ASSUME IInv, NEW c \in Callers, Flush(c)
  PROVE  IInv'
<1> DEFINE f == files[c]
           w == Whole(f, nodes[f.node].data)
           g == [f EXCEPT !.pending = <<>>, !.size = Refreshed(f)]
<1>1. /\ host # "arduino" /\ calls[c] = NoCall /\ f.stream /\ Writable(f)
      /\ nodes' = Landed(c) /\ files' = [files EXCEPT ![c] = g] /\ Knows(c, Seen(c))
      /\ UNCHANGED <<host, entries, calls>>
  BY DEF Flush, Streams, Free
<1>2. f # NoFile
  BY <1>1, StreamMeansHandle
<1>3. /\ f \in HandleRecords(c) /\ f.position \in Nat /\ f.node \in DOMAIN nodes
      /\ f.size \in Sizes /\ f.path \in Names
  BY <1>2, HandleFacts
<1>4. w \in Seq(Bytes) /\ Len(w) \in Nat /\ Len(w) <= MaxSize
  BY <1>2, WholeFacts
<1>5. Puts(nodes, nodes', f.node, w)
  BY <1>1, <1>2, LandedPuts
<1>6. Grows /\ DOMAIN nodes' = DOMAIN nodes
  BY <1>3, <1>4, <1>5, PutsGrows
<1>7. nodes'[f.node].data = w /\ ~nodes'[f.node].directory
  <2>1. ~IsDirectory(f.node) /\ f.node # Null
    BY <1>1, <1>2, <1>3 DEF IInv, HostOK, CallerOK, FileOK, Null
  <2> QED
    BY <1>5, <2>1 DEF Puts, IsDirectory
<1>8. Refreshed(f) \in Sizes
  <2>1. ASSUME NEW n \in DOMAIN nodes' PROVE {Len(nodes'[n].data)} \in Sizes
    <3>1. nodes'[n] \in Node
      BY <1>6, <2>1 DEF Grows
    <3>2. Len(nodes'[n].data) \in Nat /\ Len(nodes'[n].data) <= MaxSize /\ MaxSize \in Nat
      BY <1>6, <2>1, <3>1, BoundsAssumption DEF Node, Grows
    <3> QED
      BY <3>2 DEF Sizes
  <2>2. entries[f.path] \in {Null} \cup DOMAIN nodes'
    BY <1>3, <1>6 DEF IInv, HostOK
  <2>3. {} \in Sizes
    BY DEF Sizes
  <2> QED
    BY <1>3, <2>1, <2>2, <2>3 DEF Refreshed
<1>9. \A x \in known[c] : x = w /\ f.size = {Len(x)}
  BY <1>1 DEF IInv, CallerOK, KnownOK
<1>10. /\ g \in HandleRecords(c) /\ g.node = f.node /\ g.mode = f.mode
       /\ g.pending = <<>> /\ g.size = Refreshed(f) /\ g.position = f.position
  BY <1>3, <1>8 DEF HandleRecords
<1>11. g # NoFile
  BY <1>10, HandleIsOne
<1>12. \A x \in Seen(c) : x = w /\ g.size = {Len(x)}
  <2>1. CASE entries[f.path] = f.node
    <3>1. Seen(c) = {w}
      BY <1>7, <2>1 DEF Seen
    <3>2. f.node # Null
      BY <1>3 DEF IInv, HostOK, Null
    <3>3. g.size = {Len(w)}
      BY <1>7, <1>10, <2>1, <3>2 DEF Refreshed
    <3> QED
      BY <3>1, <3>3
  <2>2. CASE entries[f.path] # f.node /\ entries[f.path] = Null
    <3>1. Seen(c) = known[c] /\ g.size = f.size
      BY <1>10, <2>2 DEF Seen, Refreshed
    <3> QED
      BY <1>9, <3>1
  <2>3. CASE entries[f.path] # f.node /\ entries[f.path] # Null
    BY <2>3 DEF Seen
  <2> QED
    BY <2>1, <2>2, <2>3
<1>13. Whole(g, w) = w
  BY <1>10 DEF Whole
<1>14. Fits(c, g, Seen(c), w)
  BY <1>1, <1>3, <1>10, <1>11, <1>12, <1>13 DEF Fits
<1> HIDE DEF g, w
<1> QED
  BY <1>1, <1>2, <1>4, <1>5, <1>14, HandleStepKeeps

\* A close writes out what is pending, and leaves no handle.
LEMMA CloseKeeps ==
  ASSUME IInv, NEW c \in Callers, Close(c) \/ ArduinoClose(c)
  PROVE  IInv'
<1> DEFINE f == files[c]
           d == nodes[f.node].data
<1>1. /\ calls[c] = NoCall /\ f.stream
      /\ files' = [files EXCEPT ![c] = NoFile] /\ Knows(c, {})
      /\ UNCHANGED <<host, entries, calls>>
      /\ nodes' = Landed(c) \/ nodes' = nodes
  BY DEF Close, ArduinoClose, Streams, Opened, Free
<1>2. f # NoFile
  BY <1>1, StreamMeansHandle
<1>3. /\ f.node \in DOMAIN nodes /\ d \in Seq(Bytes) /\ Len(d) <= MaxSize
      /\ Whole(f, d) \in Seq(Bytes) /\ Len(Whole(f, d)) <= MaxSize
  BY <1>2, HandleFacts, WholeFacts
<1>4. \/ Puts(nodes, nodes', f.node, Whole(f, d))
      \/ Puts(nodes, nodes', f.node, d)
  <2>1. CASE nodes' = Landed(c)
    BY <1>2, <2>1, LandedPuts
  <2>2. CASE nodes' = nodes
    BY <1>3, <2>2 DEF Puts, IInv, HostOK
  <2> QED
    BY <1>1, <2>1, <2>2
<1> HIDE DEF d
<1> QED
  BY <1>1, <1>2, <1>3, <1>4, HandleStepKeeps

\* On Arduino nothing is pending.
LEMMA ArduinoWhole ==
  ASSUME IInv, NEW c \in Callers, files[c] # NoFile, host = "arduino"
  PROVE  \A data : Whole(files[c], data) = data
BY DEF IInv, CallerOK, FileOK, Whole

\* The vendor's read.
LEMMA ArduinoReadKeeps ==
  ASSUME IInv, NEW c \in Callers, NEW n \in Nat, ArduinoRead(c, n)
  PROVE  IInv'
<1> DEFINE f == files[c]
           d == nodes[f.node].data
           left == Left(d, f)
           moved == IF n <= left THEN n ELSE left
           g == [f EXCEPT !.position = @ + moved]
<1>1. /\ host = "arduino" /\ calls[c] = NoCall /\ f.stream
      /\ files' = [files EXCEPT ![c] = g]
      /\ UNCHANGED <<host, entries, nodes, calls, known>>
  BY DEF ArduinoRead, Opened, Free
<1>2. f # NoFile
  BY <1>1, StreamMeansHandle
<1>3. /\ f \in HandleRecords(c) /\ f.position \in Nat /\ f.node \in DOMAIN nodes
      /\ f.position <= MaxSize /\ MaxSize \in Nat
      /\ d \in Seq(Bytes) /\ Len(d) \in Nat /\ Len(d) <= MaxSize
  BY <1>2, HandleFacts
<1>4. f.position + moved \in 0..MaxSize
  <2>1. left = IF f.position < Len(d) THEN Len(d) - f.position ELSE 0
    BY DEF Left
  <2>2. left \in Nat /\ f.position + left <= MaxSize
    BY <1>3, <2>1
  <2> HIDE DEF left, f, d
  <2>3. moved \in Nat /\ moved <= left
    BY <2>2
  <2> QED
    BY <1>3, <2>2, <2>3
<1> HIDE DEF left, moved
<1>5. Puts(nodes, nodes', f.node, d)
  BY <1>1, <1>3 DEF Puts, IInv, HostOK
<1>6. Knows(c, known[c])
  BY <1>1 DEF Knows, IInv, PerCaller
<1>7. /\ g \in HandleRecords(c) /\ g.node = f.node /\ g.mode = f.mode
      /\ g.pending = f.pending /\ g.size = f.size /\ g.position = f.position + moved
  BY <1>3, <1>4 DEF HandleRecords
<1>8. f.pending = <<>> /\ g # NoFile
  BY <1>1, <1>2, <1>7, HandleIsOne DEF IInv, CallerOK, FileOK
<1>9. Len(g.pending) <= g.position
  BY <1>4, <1>7, <1>8
<1>10. \A x \in known[c] :
         /\ x = Whole(g, d)
         /\ g.size = {Len(x)} \/ (g.mode # "Read" /\ x = <<>>)
  <2>1. Whole(g, d) = d /\ Whole(f, d) = d
    BY <1>7, <1>8 DEF Whole
  <2>2. \A x \in known[c] : x = Whole(f, d) /\ (f.size = {Len(x)} \/ (f.mode # "Read" /\ x = <<>>))
    BY KnownFacts
  <2> HIDE DEF g, d
  <2> QED
    BY <1>7, <2>1, <2>2
<1>11. Fits(c, g, known[c], d)
  BY <1>1, <1>7, <1>8, <1>9, <1>10 DEF Fits
<1> HIDE DEF g, d
<1> QED
  BY <1>1, <1>2, <1>3, <1>5, <1>6, <1>11, HandleStepKeeps

\* The vendor's write goes through, and the size is asked of the file itself.
LEMMA ArduinoWriteKeeps ==
  ASSUME IInv, NEW c \in Callers, ArduinoWrite(c)
  PROVE  IInv'
<1> DEFINE f == files[c]
           d == nodes[f.node].data
           v == Written(d, f.position, <<c>>)
           k == {Written(x, f.position, <<c>>) : x \in known[c]}
           g == [f EXCEPT !.position = @ + 1, !.size = {Len(nodes'[f.node].data)}]
<1>1. /\ host = "arduino" /\ calls[c] = NoCall /\ f.stream /\ f.position < MaxSize
      /\ nodes' = [nodes EXCEPT ![f.node].data = Written(@, f.position, <<c>>)]
      /\ files' = [files EXCEPT ![c] = g] /\ Knows(c, k)
      /\ UNCHANGED <<host, entries, calls>>
  BY DEF ArduinoWrite, Opened, Free
<1>2. f # NoFile
  BY <1>1, StreamMeansHandle
<1>3. /\ f \in HandleRecords(c) /\ f.position \in Nat /\ f.node \in DOMAIN nodes
      /\ d \in Seq(Bytes) /\ Len(d) \in Nat /\ Len(d) <= MaxSize
      /\ c \in Bytes /\ MaxSize \in Nat /\ nodes \in Seq(Node)
  BY <1>2, HandleFacts DEF IInv, HostOK
<1>4. PICK size \in Nat : size = IF Len(d) < f.position + 1 THEN f.position + 1 ELSE Len(d)
  BY <1>3
<1>5. v \in Seq(Bytes) /\ Len(v) = size /\ size <= MaxSize
  <2>1. v \in Seq(Bytes) /\ Len(v) = size
    <3> HIDE DEF d, f
    <3> QED
      BY <1>3, <1>4, OneByteWritten
  <2> QED
    BY <1>1, <1>3, <1>4, <2>1
<1>6. Puts(nodes, nodes', f.node, v)
  <2>1. nodes' = [nodes EXCEPT ![f.node].data = v]
    BY <1>1
  <2> QED
    BY <1>3, <1>5, <2>1, DataPut
<1>7. nodes'[f.node].data = v
  BY <1>6 DEF Puts
<1>8. {size} \in Sizes /\ f.position + 1 \in 0..MaxSize
  <2>1. size \in 0..MaxSize
    BY <1>3, <1>4, <1>5
  <2>2. f.position + 1 \in 0..MaxSize
    BY <1>1, <1>3
  <2> QED
    BY <2>1, <2>2 DEF Sizes
<1>9. /\ g \in HandleRecords(c) /\ g.node = f.node /\ g.mode = f.mode
      /\ g.pending = f.pending /\ g.size = {size} /\ g.position = f.position + 1
  BY <1>3, <1>5, <1>7, <1>8 DEF HandleRecords
<1>10. f.pending = <<>> /\ g # NoFile
  BY <1>1, <1>2, <1>9, HandleIsOne DEF IInv, CallerOK, FileOK
<1>11. Len(g.pending) <= g.position
  BY <1>8, <1>9, <1>10
<1>12. \A x \in k : x = Whole(g, v) /\ g.size = {Len(x)}
  <2>1. Whole(g, v) = v /\ Whole(f, d) = d
    BY <1>9, <1>10 DEF Whole
  <2>2. \A x \in known[c] : x = d
    BY <2>1 DEF IInv, CallerOK, KnownOK
  <2> QED
    BY <1>5, <1>9, <2>1, <2>2
<1>13. Fits(c, g, k, v)
  BY <1>1, <1>9, <1>10, <1>11, <1>12 DEF Fits
<1> HIDE DEF g, d, k, v
<1> QED
  BY <1>1, <1>2, <1>5, <1>6, <1>13, HandleStepKeeps

\* The vendor's flush asks for the size of what the path leads to.
LEMMA ArduinoFlushKeeps ==
  ASSUME IInv, NEW c \in Callers, ArduinoFlush(c)
  PROVE  IInv'
<1> DEFINE f == files[c]
           d == nodes[f.node].data
           g == [f EXCEPT !.size = ArduinoRefreshed(f)]
<1>1. /\ host = "arduino" /\ calls[c] = NoCall /\ f.stream /\ nodes' = nodes
      /\ files' = [files EXCEPT ![c] = g] /\ Knows(c, Seen(c))
      /\ UNCHANGED <<host, entries, calls>>
  BY DEF ArduinoFlush, Opened, Free
<1>2. f # NoFile
  BY <1>1, StreamMeansHandle
<1>3. /\ f \in HandleRecords(c) /\ f.position \in Nat /\ f.node \in DOMAIN nodes
      /\ f.size \in Sizes /\ f.path \in Names
      /\ d \in Seq(Bytes) /\ Len(d) <= MaxSize
  BY <1>2, HandleFacts
<1>4. Puts(nodes, nodes', f.node, d)
  BY <1>1, <1>3 DEF Puts, IInv, HostOK
<1>5. ArduinoRefreshed(f) \in Sizes
  <2>1. ASSUME NEW n \in DOMAIN nodes PROVE {Len(nodes[n].data)} \in Sizes
    <3>1. nodes[n] \in Node /\ Len(nodes[n].data) <= MaxSize /\ MaxSize \in Nat
      BY <2>1, BoundsAssumption DEF IInv, HostOK
    <3>2. Len(nodes[n].data) \in Nat
      BY <3>1 DEF Node
    <3> QED
      BY <3>1, <3>2 DEF Sizes
  <2>2. entries[f.path] \in {Null} \cup DOMAIN nodes
    BY <1>3 DEF IInv, HostOK
  <2> QED
    BY <1>3, <2>1, <2>2 DEF ArduinoRefreshed
<1>6. /\ g \in HandleRecords(c) /\ g.node = f.node /\ g.mode = f.mode
      /\ g.pending = f.pending /\ g.size = ArduinoRefreshed(f) /\ g.position = f.position
  BY <1>3, <1>5 DEF HandleRecords
<1>7. f.pending = <<>> /\ g # NoFile
  BY <1>1, <1>2, <1>6, HandleIsOne DEF IInv, CallerOK, FileOK
<1>8. Whole(g, d) = d /\ Whole(f, d) = d
  BY <1>6, <1>7 DEF Whole
<1>9. \A x \in Seen(c) :
        /\ x = d
        /\ g.size = {Len(x)} \/ (g.mode # "Read" /\ x = <<>>)
  <2>1. CASE entries[f.path] = f.node
    <3>1. Seen(c) = {d} /\ f.node # Null
      BY <1>1, <1>3, <2>1 DEF Seen, IInv, HostOK, Null
    <3>2. g.size = {Len(d)}
      BY <1>6, <2>1, <3>1 DEF ArduinoRefreshed
    <3> HIDE DEF g, d
    <3>3. ASSUME NEW x \in Seen(c) PROVE x = d /\ g.size = {Len(x)}
      BY <3>1, <3>2, <3>3
    <3> QED
      BY <3>3
  <2>2. CASE entries[f.path] # f.node /\ entries[f.path] = Null
    <3>1. Seen(c) = known[c] /\ g.size = f.size
      BY <1>6, <2>2 DEF Seen, ArduinoRefreshed
    <3>2. \A x \in known[c] : x = Whole(f, d) /\ (f.size = {Len(x)} \/ (f.mode # "Read" /\ x = <<>>))
      BY KnownFacts
    <3> HIDE DEF g, d
    <3> QED
      BY <1>6, <1>8, <3>1, <3>2
  <2>3. CASE entries[f.path] # f.node /\ entries[f.path] # Null
    BY <2>3 DEF Seen
  <2> QED
    BY <2>1, <2>2, <2>3
<1>10. Len(g.pending) <= g.position
  BY <1>3, <1>6, <1>7
<1>11. Fits(c, g, Seen(c), d)
  BY <1>1, <1>6, <1>7, <1>8, <1>9, <1>10 DEF Fits
<1> HIDE DEF g, d
<1> QED
  BY <1>1, <1>2, <1>3, <1>4, <1>11, HandleStepKeeps

-----------------------------------------------------------------------------
(* The steps of the file system.                                           *)

\* A step that touches no node, handle or knowledge: a stat, a failed open, a
\* remove or a rename.
LEMMA EntriesStepKeeps ==
  ASSUME IInv, UNCHANGED <<host, nodes, files, known>>,
         entries' \in [Names -> {Null} \cup DOMAIN nodes],
         calls' = [c \in Callers |-> calls'[c]],
         \A c \in Callers :
           \/ calls'[c] = calls[c]
           \/ /\ calls'[c] \in {NoCall} \cup Opening \cup Removing
              /\ calls'[c].step = "open" => files[c] = NoFile
  PROVE  IInv'
<1>1. HostOK' /\ PerCaller' /\ Grows
  BY DEF IInv, HostOK, PerCaller, Grows
<1>2. ASSUME NEW c \in Callers PROVE CallerOK(c)'
  <2>1. CASE calls'[c] = calls[c]
    BY <1>1, <2>1, OtherKept
  <2>2. CASE /\ calls'[c] \in {NoCall} \cup Opening \cup Removing
             /\ calls'[c].step = "open" => files[c] = NoFile
    <3>1. calls'[c].step # "refresh"
      BY <2>2 DEF NoCall, Opening, Removing
    <3>2. CallOK(c)'
      BY <2>2, <3>1 DEF CallOK, Opening, Removing
    <3>3. FileOK(c)' /\ KnownOK(c)'
      BY DEF IInv, CallerOK, FileOK, KnownOK, IsDirectory, HandleRecords
    <3> QED
      BY <3>2, <3>3 DEF CallerOK
  <2> QED
    BY <2>1, <2>2
<1> QED
  BY <1>1, <1>2 DEF IInv

\* A new node is one more, and the others are as they were.
LEMMA NodeAdded ==
  ASSUME IInv, NEW r \in Node, Len(r.data) <= MaxSize, nodes' = Append(nodes, r)
  PROVE  /\ Grows /\ DOMAIN nodes' = 1..(Len(nodes) + 1)
         /\ Len(nodes) + 1 \in DOMAIN nodes' /\ Len(nodes) + 1 \notin DOMAIN nodes
         /\ nodes'[Len(nodes) + 1] = r /\ \A n \in DOMAIN nodes : nodes'[n] = nodes[n]
<1>1. nodes \in Seq(Node) /\ Len(nodes) \in Nat /\ DOMAIN nodes = 1..Len(nodes)
  BY DEF IInv, HostOK
<1>2. /\ nodes' \in Seq(Node) /\ Len(nodes') = Len(nodes) + 1
      /\ nodes'[Len(nodes) + 1] = r /\ \A n \in 1..Len(nodes) : nodes'[n] = nodes[n]
  BY <1>1, AppendProperties
<1>3. DOMAIN nodes' = 1..(Len(nodes) + 1)
  BY <1>1, <1>2
<1>4. \A n \in DOMAIN nodes' : Len(nodes'[n].data) <= MaxSize
  <2>1. ASSUME NEW n \in DOMAIN nodes' PROVE Len(nodes'[n].data) <= MaxSize
    <3>1. n \in DOMAIN nodes \/ n = Len(nodes) + 1
      BY <1>1, <1>3, <2>1
    <3>2. CASE n \in DOMAIN nodes
      BY <1>1, <1>2, <3>2 DEF IInv, HostOK
    <3>3. CASE n = Len(nodes) + 1
      BY <1>2, <3>3
    <3> QED
      BY <3>1, <3>2, <3>3
  <2> QED
    BY <2>1
<1> QED
  BY <1>1, <1>2, <1>3, <1>4 DEF Grows

\* mkdir makes a directory that nobody has open.
LEMMA MkdirKeeps ==
  ASSUME IInv, NEW p \in Names, Mkdir(p)
  PROVE  IInv'
<1>1. UNCHANGED <<host, files, calls, known>>
  BY DEF Mkdir
<1>2. CASE UNCHANGED <<nodes, entries>>
  BY <1>1, <1>2, EntriesStepKeeps DEF IInv, HostOK, PerCaller
<1>3. CASE nodes' = Append(nodes, [directory |-> TRUE, data |-> <<>>])
           /\ entries' = [entries EXCEPT ![p] = Len(nodes')]
  <2> DEFINE r == [directory |-> TRUE, data |-> <<>>]
  <2>1. r \in Node /\ Len(r.data) <= MaxSize
    BY BoundsAssumption DEF Node
  <2>2. nodes' = Append(nodes, r)
    BY <1>3
  <2> HIDE DEF r
  <2>3. /\ Grows /\ DOMAIN nodes' = 1..(Len(nodes) + 1)
        /\ \A n \in DOMAIN nodes : nodes'[n] = nodes[n]
    BY <2>1, <2>2, NodeAdded
  <2>4. Len(nodes') \in DOMAIN nodes'
    BY <2>3 DEF Grows, IInv, HostOK
  <2>5. HostOK'
    <3>1. entries' \in [Names -> {Null} \cup DOMAIN nodes']
      BY <1>3, <2>3, <2>4, NodesStay DEF IInv, HostOK
    <3> QED
      BY <1>1, <2>3, <3>1 DEF IInv, HostOK, Grows
  <2>6. ASSUME NEW c \in Callers PROVE CallerOK(c)'
    <3>1. files[c] # NoFile => nodes'[files[c].node] = nodes[files[c].node]
      BY <2>3, HandleFacts
    <3> QED
      BY <1>1, <2>3, <3>1, OtherKept
  <2>7. PerCaller'
    BY <1>1 DEF IInv, PerCaller
  <2> QED
    BY <2>5, <2>6, <2>7 DEF IInv
<1> QED
  BY <1>2, <1>3 DEF Mkdir

\* What the host's open leaves: the node it opened, which is a directory only if
\* it is opened for reading and not on Windows.
LEMMA HostOpensFacts ==
  ASSUME IInv, NEW c \in Callers, HostOpens(c)
  PROVE  /\ Grows /\ HostOK' /\ host' = host
         /\ calls[c] \in Opening /\ files[c] = NoFile
         /\ calls[c].path \in Names /\ calls[c].mode \in Modes /\ calls[c].size \in Sizes
         /\ Target(calls[c]) \in DOMAIN nodes'
         /\ Writable(calls[c]) => ~nodes'[Target(calls[c])].directory
         /\ \/ nodes'[Target(calls[c])].data = <<>> /\ calls[c].mode # "Read"
            \/ /\ nodes' = nodes /\ Target(calls[c]) = entries[calls[c].path]
               /\ entries[calls[c].path] # Null
<1> DEFINE call == calls[c]
           t == Target(call)
           n == entries[call.path]
           r == [directory |-> FALSE, data |-> <<>>]
<1>1. /\ call.step = "open" /\ Opens(call) /\ host' = host
      /\ nodes' = IF t \notin DOMAIN nodes THEN Append(nodes, r)
                  ELSE IF Truncates(call.mode, call.found # Null)
                  THEN [nodes EXCEPT ![t].data = <<>>] ELSE nodes
      /\ entries' = [entries EXCEPT ![call.path] = t]
  BY DEF HostOpens
<1>2. /\ call \in Opening /\ files[c] = NoFile
  BY <1>1 DEF IInv, CallerOK, CallOK, NoCall, Opening, Refreshing, Removing
<1>3. call.path \in Names /\ call.mode \in Modes /\ call.size \in Sizes
  BY <1>2 DEF Opening
<1>4. /\ nodes \in Seq(Node) /\ Len(nodes) \in Nat /\ DOMAIN nodes = 1..Len(nodes)
      /\ n \in {Null} \cup DOMAIN nodes
  BY <1>3 DEF IInv, HostOK
<1>5. /\ n = Null => t = Len(nodes) + 1 /\ t \notin DOMAIN nodes
      /\ n # Null => t = n /\ t \in DOMAIN nodes
  BY <1>4 DEF Target
<1>6. n # Null /\ IsDirectory(n) => call.mode = "Read"
  BY <1>1 DEF Opens
<1>7. CASE n = Null
  <2>1. r \in Node /\ r.data = <<>> /\ ~r.directory /\ Len(r.data) <= MaxSize
    BY BoundsAssumption DEF Node
  <2>2. nodes' = Append(nodes, r)
    BY <1>1, <1>5, <1>7
  <2> HIDE DEF r
  <2>3. Grows /\ t \in DOMAIN nodes' /\ nodes'[t] = r
    BY <1>5, <1>7, <2>1, <2>2, NodeAdded
  <2>4. ~nodes'[t].directory
    BY <2>1, <2>3
  <2>5. call.mode # "Read"
    BY <1>1, <1>7 DEF Opens, Truncates
  <2>6. HostOK'
    <3>1. entries' \in [Names -> {Null} \cup DOMAIN nodes']
      BY <1>1, <2>3, NodesStay DEF IInv, HostOK
    <3> QED
      BY <1>1, <2>3, <3>1 DEF IInv, HostOK, Grows
  <2> QED
    BY <1>1, <1>2, <1>3, <2>1, <2>3, <2>4, <2>5, <2>6
<1>8. CASE n # Null /\ Truncates(call.mode, call.found # Null)
  <2>1. nodes' = [nodes EXCEPT ![t].data = <<>>] /\ t \in DOMAIN nodes
    BY <1>1, <1>5, <1>8
  <2>2. <<>> \in Seq(Bytes) /\ Len(<<>>) <= MaxSize
    BY BoundsAssumption
  <2>3. Puts(nodes, nodes', t, <<>>)
    BY <1>4, <2>1, <2>2, DataPut
  <2>4. Grows /\ DOMAIN nodes' = DOMAIN nodes
    BY <2>1, <2>2, <2>3, PutsGrows
  <2>5. nodes'[t].data = <<>> /\ call.mode # "Read"
    BY <1>8, <2>3 DEF Puts, Truncates
  <2>6. HostOK'
    <3>1. entries' \in [Names -> {Null} \cup DOMAIN nodes']
      BY <1>1, <2>1, <2>4 DEF IInv, HostOK
    <3> QED
      BY <1>1, <2>4, <3>1 DEF IInv, HostOK, Grows
  <2>7. ~nodes'[t].directory
    BY <1>5, <1>6, <1>8, <2>3, <2>5 DEF Puts, IsDirectory
  <2> QED
    BY <1>1, <1>2, <1>3, <2>1, <2>4, <2>5, <2>6, <2>7
<1>9. CASE n # Null /\ ~Truncates(call.mode, call.found # Null)
  <2>1. nodes' = nodes /\ t \in DOMAIN nodes /\ t = n
    BY <1>1, <1>5, <1>9
  <2>2. Grows
    BY <2>1 DEF IInv, HostOK, Grows
  <2>3. HostOK'
    BY <1>1, <2>1 DEF IInv, HostOK
  <2>4. Writable(call) => ~nodes'[t].directory
    BY <1>6, <1>9, <2>1 DEF Writable, IsDirectory
  <2> QED
    BY <1>1, <1>2, <1>3, <1>9, <2>1, <2>2, <2>3, <2>4
<1> QED
  BY <1>7, <1>8, <1>9

\* The stream is open, and the second stat comes next.
LEMMA OpenStreamKeeps ==
  ASSUME IInv, NEW c \in Callers, OpenStream(c)
  PROVE  IInv'
<1> DEFINE call == calls[c]
           next == [step |-> "refresh", path |-> call.path, mode |-> call.mode, node |-> Target(call)]
<1>1. /\ HostOpens(c) /\ calls' = [calls EXCEPT ![c] = next] /\ Knows(c, {}) /\ files' = files
  BY DEF OpenStream
<1>2. /\ Grows /\ HostOK' /\ host' = host /\ files[c] = NoFile
      /\ call.path \in Names /\ call.mode \in Modes /\ Target(call) \in DOMAIN nodes'
      /\ Writable(call) => ~nodes'[Target(call)].directory
  BY <1>1, HostOpensFacts
<1>3. /\ calls' = [d \in Callers |-> calls'[d]] /\ calls'[c] = next
      /\ \A d \in Callers \ {c} : calls'[d] = calls[d]
  BY <1>1 DEF IInv, PerCaller
<1>4. known' = [d \in Callers |-> known'[d]] /\ known'[c] = {}
  BY <1>1 DEF Knows
<1>5. PerCaller'
  BY <1>1, <1>3, <1>4 DEF IInv, PerCaller
<1>6. /\ next \in Refreshing' /\ next.step = "refresh" /\ next.node = Target(call)
      /\ Writable(next) => Writable(call)
  BY <1>2 DEF Refreshing, Writable
<1> HIDE DEF next
<1>7. CallOK(c)'
  BY <1>1, <1>2, <1>3, <1>6 DEF CallOK, IsDirectory
<1>8. FileOK(c)' /\ KnownOK(c)'
  BY <1>1, <1>2, <1>4 DEF FileOK, KnownOK
<1>9. ASSUME NEW d \in Callers PROVE CallerOK(d)'
  <2>1. CASE d = c
    BY <1>7, <1>8, <2>1 DEF CallerOK
  <2>2. CASE d # c
    BY <1>1, <1>2, <1>3, <2>2, OthersKept
  <2> QED
    BY <2>1, <2>2
<1> QED
  BY <1>2, <1>5, <1>9 DEF IInv

\* What stat says of a path is a size, and of a file its own.
LEMMA StatSizes ==
  ASSUME IInv, NEW p \in Names
  PROVE  /\ StatSize(p) \in Sizes
         /\ entries[p] # Null /\ ~IsDirectory(entries[p]) =>
              StatSize(p) = {Len(nodes[entries[p]].data)}
<1>1. ASSUME entries[p] # Null
      PROVE  Len(nodes[entries[p]].data) \in 0..MaxSize
  <2>1. entries[p] \in DOMAIN nodes /\ MaxSize \in Nat
    BY <1>1, BoundsAssumption DEF IInv, HostOK
  <2>2. nodes[entries[p]] \in Node /\ Len(nodes[entries[p]].data) <= MaxSize
    BY <2>1 DEF IInv, HostOK
  <2>3. Len(nodes[entries[p]].data) \in Nat
    BY <2>2 DEF Node
  <2> QED
    BY <2>1, <2>2, <2>3
<1> QED
  BY <1>1 DEF StatSize, Sizes

\* A new handle starts at the beginning with nothing pending.
LEMMA NewHandle ==
  ASSUME NEW c, NEW n \in DOMAIN nodes', NEW p \in Names, NEW mode \in Modes,
         NEW size \in Sizes, NEW f, f = Handle(n, p, mode, size)
  PROVE  /\ f \in HandleRecords(c)' /\ f # NoFile /\ f.node = n /\ f.mode = mode
         /\ f.size = size /\ f.position = 0 /\ f.pending = <<>>
         /\ \A data : Whole(f, data) = data
<1>1. 0 \in 0..MaxSize
  BY BoundsAssumption
<1>2. /\ f \in HandleRecords(c)' /\ f.node = n /\ f.mode = mode
      /\ f.size = size /\ f.position = 0 /\ f.pending = <<>> /\ f.stream = TRUE
  BY <1>1 DEF Handle, HandleRecords
<1>3. f # NoFile
  BY <1>2 DEF NoFile
<1> QED
  BY <1>2, <1>3 DEF Whole

\* The other callers know their files as before, or nothing.
Undisturbed(c) ==
  \A d \in Callers \ {c} :
    \/ known'[d] = {}
    \/ /\ known'[d] = known[d]
       /\ files[d] # NoFile => nodes'[files[d].node] = nodes[files[d].node]

\* What the caller of a new handle knows is in its node, and of the handle's size.
KnowsNode(c, n, mode, size) ==
  \A k \in known'[c] :
    /\ k = nodes'[n].data
    /\ \/ size = {Len(k)}
       \/ host = "arduino" /\ mode # "Read" /\ k = <<>>

\* A caller gets its handle, with a size that may not be its file's; what it
\* knows of its file is what the host has there, or nothing.
LEMMA HandleGivenKeeps ==
  ASSUME IInv, NEW c \in Callers, Grows, HostOK', host' = host,
         NEW f, files' = [files EXCEPT ![c] = f], calls' = [calls EXCEPT ![c] = NoCall],
         known' = [d \in Callers |-> known'[d]],
         Undisturbed(c),
         NEW n \in DOMAIN nodes', NEW p \in Names, NEW mode \in Modes, NEW size \in Sizes,
         (f = NoFile /\ known'[c] = {}) \/ f = Handle(n, p, mode, size),
         mode \in {"Write", "ReadWrite"} => ~nodes'[n].directory,
         KnowsNode(c, n, mode, size)
  PROVE  IInv'
<1>1. /\ files' = [d \in Callers |-> files'[d]] /\ files'[c] = f
      /\ calls' = [d \in Callers |-> calls'[d]] /\ calls'[c] = NoCall
      /\ \A d \in Callers \ {c} : files'[d] = files[d] /\ calls'[d] = calls[d]
  BY DEF IInv, PerCaller
<1>2. PerCaller'
  BY <1>1 DEF PerCaller
<1>3. ASSUME NEW d \in Callers \ {c} PROVE CallerOK(d)'
  BY <1>1, <1>3, OtherKept DEF Undisturbed
<1>4. CallOK(c)'
  BY <1>1 DEF CallOK, NoCall
<1>5. ASSUME f = NoFile, known'[c] = {} PROVE FileOK(c)' /\ KnownOK(c)'
  BY <1>1, <1>5 DEF FileOK, KnownOK
<1>6. ASSUME f = Handle(n, p, mode, size) PROVE FileOK(c)' /\ KnownOK(c)'
  <2>1. /\ f \in HandleRecords(c)' /\ f # NoFile /\ f.node = n /\ f.mode = mode
        /\ f.size = size /\ f.position = 0 /\ f.pending = <<>>
        /\ \A data : Whole(f, data) = data
    BY <1>6, NewHandle
  <2>2. FileOK(c)'
    BY <1>1, <2>1 DEF FileOK, Writable, IsDirectory
  <2>3. KnownOK(c)'
    BY <1>1, <2>1 DEF KnownOK, KnowsNode
  <2> QED
    BY <2>2, <2>3
<1>7. ASSUME NEW d \in Callers PROVE CallerOK(d)'
  <2>1. CASE d = c
    BY <1>4, <1>5, <1>6, <2>1 DEF CallerOK
  <2>2. CASE d # c
    BY <1>3, <2>2
  <2> QED
    BY <2>1, <2>2
<1> QED
  BY <1>2, <1>7 DEF IInv

\* The handle's first size is that of what the path leads to.
LEMMA OpenRefreshKeeps ==
  ASSUME IInv, NEW c \in Callers, OpenRefresh(c)
  PROVE  IInv'
<1> DEFINE call == calls[c]
           f == Handle(call.node, call.path, call.mode, StatSize(call.path))
           k == IF entries[call.path] = call.node /\ ~IsDirectory(call.node)
                THEN {nodes[call.node].data} ELSE {}
<1>1. /\ call.step = "refresh"
      /\ files' = [files EXCEPT ![c] = f] /\ calls' = [calls EXCEPT ![c] = NoCall]
      /\ known' = [known EXCEPT ![c] = k] /\ UNCHANGED <<host, entries, nodes>>
  BY DEF OpenRefresh
<1>2. /\ call \in Refreshing
      /\ Writable(call) => ~IsDirectory(call.node)
  BY <1>1 DEF IInv, CallerOK, CallOK, NoCall, Opening, Removing
<1>3. /\ call.node \in DOMAIN nodes' /\ call.path \in Names /\ call.mode \in Modes
      /\ call.mode \in {"Write", "ReadWrite"} => ~nodes'[call.node].directory
  <2>1. call.node \in DOMAIN nodes /\ call.path \in Names /\ call.mode \in Modes
    BY <1>2 DEF Refreshing
  <2>2. call.node # Null
    BY <2>1 DEF IInv, HostOK, Null
  <2> QED
    BY <1>1, <1>2, <2>1, <2>2 DEF Writable, IsDirectory
<1>4. StatSize(call.path) \in Sizes
  BY <1>3, StatSizes
<1>5. Grows /\ HostOK' /\ host' = host
  BY <1>1 DEF IInv, HostOK, Grows
<1>6. /\ known' = [d \in Callers |-> known'[d]] /\ known'[c] = k
      /\ \A d \in Callers \ {c} : known'[d] = known[d]
  BY <1>1 DEF IInv, PerCaller
<1>7. ASSUME NEW x \in k PROVE x = nodes'[call.node].data /\ StatSize(call.path) = {Len(x)}
  <2>1. /\ entries[call.path] = call.node /\ ~IsDirectory(call.node)
        /\ x = nodes[call.node].data
    BY <1>7
  <2>2. call.node # Null
    BY <1>1, <1>3 DEF IInv, HostOK, Null
  <2> QED
    BY <1>1, <1>3, <2>1, <2>2, StatSizes
<1> HIDE DEF k, f
<1>8. KnowsNode(c, call.node, call.mode, StatSize(call.path))
  BY <1>6, <1>7 DEF KnowsNode
<1>9. Undisturbed(c)
  BY <1>1, <1>6 DEF Undisturbed
<1>10. f = Handle(call.node, call.path, call.mode, StatSize(call.path))
  BY DEF f
<1> QED
  <2> DEFINE size == StatSize(call.path)
             n == call.node
             mode == call.mode
  <2>1. /\ n \in DOMAIN nodes' /\ mode \in Modes /\ size \in Sizes /\ call.path \in Names
        /\ mode \in {"Write", "ReadWrite"} => ~nodes'[n].directory
        /\ KnowsNode(c, n, mode, size) /\ f = Handle(n, call.path, mode, size)
        /\ known' = [d \in Callers |-> known'[d]]
        /\ files' = [files EXCEPT ![c] = f] /\ calls' = [calls EXCEPT ![c] = NoCall]
    BY <1>1, <1>3, <1>4, <1>6, <1>8, <1>10
  <2> HIDE DEF size, n, mode
  <2> QED
    BY <1>5, <1>9, <2>1, HandleGivenKeeps

\* The vendor's open, which keeps the size asked for before it.
LEMMA ArduinoOpenKeeps ==
  ASSUME IInv, NEW c \in Callers, ArduinoOpen(c)
  PROVE  IInv'
<1> DEFINE call == calls[c]
           t == Target(call)
           p == call.path
           file == ~IsDirectory(entries[p])
           f == IF file THEN Handle(t, p, call.mode, call.size) ELSE NoFile
           k == IF file /\ call.size = StatSize(p) THEN {nodes'[t].data} ELSE {}
<1>1. /\ host = "arduino" /\ HostOpens(c)
      /\ files' = [files EXCEPT ![c] = f] /\ calls' = [calls EXCEPT ![c] = NoCall]
      /\ Knows(c, k)
  BY DEF ArduinoOpen
<1>2. /\ Grows /\ HostOK' /\ host' = host
      /\ p \in Names /\ call.mode \in Modes /\ call.size \in Sizes /\ t \in DOMAIN nodes'
      /\ Writable(call) => ~nodes'[t].directory
      /\ \/ nodes'[t].data = <<>> /\ call.mode # "Read"
         \/ nodes' = nodes /\ t = entries[p] /\ entries[p] # Null
  BY <1>1, HostOpensFacts
<1>3. call.mode \in {"Write", "ReadWrite"} => ~nodes'[t].directory
  BY <1>2 DEF Writable
<1>4. /\ known' = [d \in Callers |-> known'[d]] /\ known'[c] = k
      /\ \A d \in Callers \ {c} :
           known'[d] = IF files[d].stream /\ nodes'[files[d].node] # nodes[files[d].node]
                       THEN {} ELSE known[d]
  BY <1>1 DEF Knows
<1>5. ASSUME NEW d \in Callers \ {c}
      PROVE  \/ known'[d] = {}
             \/ /\ known'[d] = known[d]
                /\ files[d] # NoFile => nodes'[files[d].node] = nodes[files[d].node]
  <2>1. files[d].stream <=> files[d] # NoFile
    BY StreamMeansHandle
  <2> QED
    BY <1>4, <2>1
<1>6. ASSUME NEW x \in k
      PROVE  /\ x = nodes'[t].data
             /\ call.size = {Len(x)} \/ (host = "arduino" /\ call.mode # "Read" /\ x = <<>>)
  <2>1. file /\ call.size = StatSize(p) /\ x = nodes'[t].data
    BY <1>6
  <2>2. CASE nodes'[t].data = <<>> /\ call.mode # "Read"
    BY <1>1, <2>1, <2>2
  <2>3. CASE nodes' = nodes /\ t = entries[p] /\ entries[p] # Null
    <3>1. call.size = {Len(nodes[entries[p]].data)}
      BY <1>2, <2>1, <2>3, StatSizes
    <3> QED
      BY <2>1, <2>3, <3>1
  <2> QED
    BY <1>2, <2>2, <2>3
<1>7. (f = NoFile /\ known'[c] = {}) \/ f = Handle(t, p, call.mode, call.size)
  BY <1>4
<1> HIDE DEF k, f, t, file
<1>8. KnowsNode(c, t, call.mode, call.size)
  BY <1>4, <1>6 DEF KnowsNode
<1>9. Undisturbed(c)
  BY <1>5 DEF Undisturbed
<1> QED
  BY <1>1, <1>2, <1>3, <1>4, <1>7, <1>8, <1>9, HandleGivenKeeps

-----------------------------------------------------------------------------
(* The invariant.                                                          *)

\* It holds at the beginning.
LEMMA InitIInv == Init => IInv
<1> SUFFICES ASSUME Init PROVE IInv
  OBVIOUS
<1>1. HostOK
  <2>1. CASE nodes = <<>> /\ entries = [p \in Names |-> Null]
    BY <2>1 DEF Init, HostOK
  <2>2. ASSUME NEW c \in Callers, NEW p \in Names,
               nodes = <<[directory |-> FALSE, data |-> <<c>>]>>,
               entries = [q \in Names |-> IF q = p THEN 1 ELSE Null]
        PROVE  HostOK
    <3>1. [directory |-> FALSE, data |-> <<c>>] \in Node
      BY DEF Node
    <3>2. nodes \in Seq(Node) /\ DOMAIN nodes = {1} /\ nodes[1].data = <<c>>
      BY <2>2, <3>1
    <3>3. Len(<<c>>) = 1 /\ 1 <= MaxSize
      BY BoundsAssumption
    <3>4. entries \in [Names -> {Null} \cup DOMAIN nodes]
      BY <2>2, <3>2
    <3> QED
      BY <3>2, <3>3, <3>4 DEF Init, HostOK
  <2> QED
    BY <2>1, <2>2 DEF Init
<1>2. PerCaller
  BY DEF Init, PerCaller
<1>3. ASSUME NEW c \in Callers PROVE CallerOK(c)
  <2>1. files[c] = NoFile /\ calls[c] = NoCall /\ known[c] = {}
    BY DEF Init
  <2> QED
    BY <2>1 DEF CallerOK, FileOK, CallOK, KnownOK, NoCall
<1> QED
  BY <1>1, <1>2, <1>3 DEF IInv

\* A stat, whatever the size it remembers.
LEMMA StatKeeps ==
  ASSUME IInv, NEW c \in Callers, NEW p \in Names, NEW mode \in Modes, NEW size \in Sizes,
         Stat(c, p, mode, size)
  PROVE  IInv'
<1> DEFINE call == [step |-> "open", path |-> p, mode |-> mode, found |-> entries[p], size |-> size]
<1>1. /\ files[c] = NoFile /\ calls' = [calls EXCEPT ![c] = call]
      /\ UNCHANGED <<host, entries, nodes, files, known>>
  BY DEF Stat
<1>2. call \in Opening
  <2>1. entries[p] \in Nat
    <3>1. entries[p] \in {Null} \cup DOMAIN nodes /\ nodes \in Seq(Node)
      BY DEF IInv, HostOK
    <3>2. DOMAIN nodes = 1..Len(nodes) /\ Len(nodes) \in Nat
      BY <3>1
    <3> QED
      BY <3>1, <3>2 DEF Null
  <2> QED
    BY <2>1 DEF Opening
<1> HIDE DEF call
<1>3. /\ calls' = [d \in Callers |-> calls'[d]] /\ calls'[c] = call
      /\ \A d \in Callers \ {c} : calls'[d] = calls[d]
  BY <1>1 DEF IInv, PerCaller
<1>4. entries' \in [Names -> {Null} \cup DOMAIN nodes]
  BY <1>1 DEF IInv, HostOK
<1>5. ASSUME NEW d \in Callers
      PROVE  \/ calls'[d] = calls[d]
             \/ /\ calls'[d] \in {NoCall} \cup Opening \cup Removing
                /\ calls'[d].step = "open" => files[d] = NoFile
  BY <1>1, <1>2, <1>3
<1> QED
  BY <1>1, <1>3, <1>4, <1>5, EntriesStepKeeps

\* An open that fails, and the two steps of a remove.
LEMMA RemoveKeeps ==
  ASSUME IInv, NEW c \in Callers,
         OpenFails(c) \/ RemoveHost(c) \/ \E p \in Names : RemoveStat(c, p)
  PROVE  IInv'
<1>1. /\ UNCHANGED <<host, nodes, files, known>>
      /\ \/ entries' = entries
         \/ entries' = [entries EXCEPT ![calls[c].path] = Null]
  BY DEF OpenFails, RemoveHost, RemoveStat
<1>2. PICK call \in {NoCall} \cup Removing : calls' = [calls EXCEPT ![c] = call]
  <2>1. CASE OpenFails(c) \/ RemoveHost(c)
    BY <2>1 DEF OpenFails, RemoveHost
  <2>2. ASSUME NEW p \in Names, RemoveStat(c, p)
        PROVE  \E call \in {NoCall} \cup Removing : calls' = [calls EXCEPT ![c] = call]
    <3>1. entries[p] \in DOMAIN nodes
      BY <2>2 DEF RemoveStat, IInv, HostOK
    <3>2. nodes[entries[p]] \in Node
      BY <3>1 DEF IInv, HostOK
    <3>3. IsDirectory(entries[p]) \in BOOLEAN
      BY <3>2 DEF IsDirectory, Node
    <3>4. [step |-> "remove", path |-> p, directory |-> IsDirectory(entries[p])] \in Removing
      BY <3>3 DEF Removing
    <3> QED
      BY <2>2, <3>4 DEF RemoveStat
  <2> QED
    BY <2>1, <2>2
<1>3. entries' \in [Names -> {Null} \cup DOMAIN nodes]
  <2>1. entries \in [Names -> {Null} \cup DOMAIN nodes]
    BY DEF IInv, HostOK
  <2>2. CASE entries' = entries
    BY <2>1, <2>2
  <2>3. CASE entries' = [entries EXCEPT ![calls[c].path] = Null]
    BY <2>1, <2>3
  <2> QED
    BY <1>1, <2>2, <2>3
<1>4. /\ calls' = [d \in Callers |-> calls'[d]] /\ calls'[c] = call
      /\ \A d \in Callers \ {c} : calls'[d] = calls[d]
  BY <1>2 DEF IInv, PerCaller
<1>5. call.step # "open"
  BY <1>2 DEF NoCall, Removing
<1>6. ASSUME NEW d \in Callers
      PROVE  \/ calls'[d] = calls[d]
             \/ /\ calls'[d] \in {NoCall} \cup Opening \cup Removing
                /\ calls'[d].step = "open" => files[d] = NoFile
  BY <1>2, <1>4, <1>5
<1> QED
  BY <1>1, <1>3, <1>4, <1>6, EntriesStepKeeps

\* A rename moves an entry.
LEMMA RenameKeeps ==
  ASSUME IInv, NEW p \in Names, NEW q \in Names, Rename(p, q)
  PROVE  IInv'
<1>1. /\ entries' = [entries EXCEPT ![q] = entries[p], ![p] = Null]
      /\ UNCHANGED <<host, nodes, files, calls, known>>
  BY DEF Rename
<1>2. entries' \in [Names -> {Null} \cup DOMAIN nodes]
  BY <1>1 DEF IInv, HostOK
<1>3. calls' = [c \in Callers |-> calls'[c]]
  BY <1>1 DEF IInv, PerCaller
<1> QED
  BY <1>1, <1>2, <1>3, EntriesStepKeeps

\* Nothing happens: the last peek of Arduino, and a step of something else.
LEMMA StutterKeeps ==
  ASSUME IInv, UNCHANGED vars
  PROVE  IInv'
<1>1. /\ UNCHANGED <<host, entries, nodes, files, calls, known>>
      /\ entries' \in [Names -> {Null} \cup DOMAIN nodes]
      /\ calls' = [c \in Callers |-> calls'[c]]
  BY DEF vars, IInv, HostOK, PerCaller
<1> QED
  BY <1>1, EntriesStepKeeps

\* A caller's step.
LEMMA CallerKeeps ==
  ASSUME IInv, NEW c \in Callers, PosixCall(c) \/ WindowsCall(c) \/ ArduinoCall(c)
  PROVE  IInv'
<1>1. ASSUME NEW n \in 1..MaxSize PROVE n \in Nat
  BY BoundsAssumption
<1>2. CASE OpenCall(c)
  <2>1. ASSUME NEW p \in Names, NEW mode \in Modes, OpenStat(c, p, mode) PROVE IInv'
    <3>1. {} \in Sizes
      BY DEF Sizes
    <3> QED
      BY <2>1, <3>1, StatKeeps DEF OpenStat
  <2> QED
    BY <1>2, <2>1, OpenStreamKeeps, RemoveKeeps, OpenRefreshKeeps DEF OpenCall
<1>3. CASE FileCall(c)
  <2>1. ASSUME NEW n \in 1..MaxSize, Read(c, n) PROVE IInv'
    BY <1>1, <2>1, FetchKeeps DEF Read
  <2>2. ASSUME Peek(c) PROVE IInv'
    BY <2>2, FetchKeeps DEF Peek
  <2> QED
    BY <1>3, <2>1, <2>2, WriteKeeps, FlushKeeps, CloseKeeps DEF FileCall
<1>4. CASE RemoveCall(c)
  BY <1>4, RemoveKeeps DEF RemoveCall
<1>5. CASE ArduinoCall(c)
  <2>1. ASSUME NEW p \in Names, NEW mode \in Modes, ArduinoStat(c, p, mode) PROVE IInv'
    <3>1. StatSize(p) \in Sizes
      BY StatSizes
    <3> QED
      BY <2>1, <3>1, StatKeeps DEF ArduinoStat
  <2>2. ASSUME NEW n \in 1..MaxSize, ArduinoRead(c, n) PROVE IInv'
    BY <1>1, <2>2, ArduinoReadKeeps
  <2>3. ASSUME ArduinoPeek(c) PROVE IInv'
    BY <2>3, StutterKeeps DEF ArduinoPeek
  <2>4. ASSUME ArduinoOpen(c) PROVE IInv'
    BY <2>4, ArduinoOpenKeeps
  <2>5. ASSUME OpenFails(c) PROVE IInv'
    BY <2>5, RemoveKeeps
  <2>6. ASSUME ArduinoWrite(c) PROVE IInv'
    BY <2>6, ArduinoWriteKeeps
  <2>7. ASSUME ArduinoFlush(c) PROVE IInv'
    BY <2>7, ArduinoFlushKeeps
  <2>8. ASSUME ArduinoClose(c) PROVE IInv'
    BY <2>8, CloseKeeps
  <2> QED
    BY <1>4, <1>5, <2>1, <2>2, <2>3, <2>4, <2>5, <2>6, <2>7, <2>8 DEF ArduinoCall
<1> QED
  BY <1>2, <1>3, <1>4, <1>5
     DEF PosixCall, WindowsCall, WindowsOpenCall, WindowsFileCall, WindowsRemoveCall

\* Every step keeps it.
LEMMA StepIInv == IInv /\ [Next]_vars => IInv'
<1> SUFFICES ASSUME IInv, [Next]_vars PROVE IInv'
  OBVIOUS
<1>1. CASE UNCHANGED vars
  BY <1>1, StutterKeeps
<1>2. ASSUME NEW p \in Names, Mkdir(p) PROVE IInv'
  BY <1>2, MkdirKeeps
<1>3. ASSUME NEW p \in Names, NEW q \in Names, Rename(p, q) PROVE IInv'
  BY <1>3, RenameKeeps
<1>4. ASSUME NEW c \in Callers, PosixCall(c) \/ WindowsCall(c) \/ ArduinoCall(c) PROVE IInv'
  BY <1>4, CallerKeeps
<1> QED
  BY <1>1, <1>2, <1>3, <1>4 DEF Next

\* So the invariant always holds.
LEMMA Invariant == Spec => []IInv
<1>1. Init => IInv
  BY InitIInv
<1>2. IInv /\ [Next]_vars => IInv'
  BY StepIInv
<1> QED
  BY <1>1, <1>2, PTL DEF Spec

-----------------------------------------------------------------------------
(* The theorems.                                                           *)

\* Handles, calls and the host's nodes are what their types say, and no handle's
\* position or remembered size leaves the bounds.
THEOREM TypeCorrect == Spec => []TypeOK
<1>1. ASSUME IInv, NEW c \in Callers
      PROVE  /\ files[c] = NoFile \/ files[c] \in HandleRecords(c)
             /\ calls[c].step = "refresh" => calls[c].node \in DOMAIN nodes
  BY <1>1 DEF IInv, CallerOK, FileOK, CallOK, NoCall, Opening, Refreshing, Removing
<1>2. IInv => TypeOK
  BY <1>1 DEF IInv, HostOK, TypeOK, HandleRecords
<1> QED
  BY <1>2, Invariant, PTL

\* Every acknowledged byte is where its caller put it, once what the stream keeps
\* is written out, on every build and for any number of callers.
THEOREM ContentsKept == Spec => []ContentsAsWritten
<1>1. ASSUME IInv, NEW c \in Callers, NEW k \in known[c]
      PROVE  Landed(c)[files[c].node].data = k
  <2>1. files[c] # NoFile /\ k = Whole(files[c], nodes[files[c].node].data)
    BY <1>1, KnownFacts
  <2> QED
    BY <1>1, <2>1, LandedPuts DEF Puts
<1>2. IInv => ContentsAsWritten
  BY <1>1 DEF ContentsAsWritten
<1> QED
  BY <1>2, Invariant, PTL

\* The size a handle remembers is its file's, but for a file that Arduino's own
\* open emptied or created.
THEOREM SizesKept == Spec => []SizeIsFileSize
<1>1. ASSUME IInv, NEW c \in Callers, NEW k \in known[c]
      PROVE  files[c].size = {Len(k)} \/ (host = "arduino" /\ files[c].mode # "Read" /\ k = <<>>)
  BY <1>1, KnownFacts
<1>2. IInv => SizeIsFileSize
  BY <1>1 DEF SizeIsFileSize
<1> QED
  BY <1>2, Invariant, PTL

\* available tells of bytes when there are some and of the end at the end: from
\* the size that is the file's, and on Arduino from the vendor's count.
THEOREM AvailableRight == Spec => []AvailableIsHonest
<1>1. ASSUME IInv, NEW c \in Callers, NEW k \in known[c], Readable(files[c])
      PROVE  \/ Available(c) = IF files[c].position < Len(k) THEN "bytes" ELSE "exhausted"
             \/ host = "arduino" /\ k = <<>> /\ files[c].mode = "ReadWrite"
  <2> DEFINE f == files[c]
             d == nodes[f.node].data
  <2>1. /\ f # NoFile /\ k = Whole(f, d)
        /\ f.size = {Len(k)} \/ (host = "arduino" /\ f.mode # "Read" /\ k = <<>>)
    BY <1>1, KnownFacts
  <2>2. f.stream /\ f.position \in Nat /\ Len(d) \in Nat /\ Len(k) \in Nat
    BY <1>1, <2>1, HandleFacts, WholeFacts
  <2>3. f.size = {Len(k)} => f.size # {} /\ (AtRememberedEnd(f) <=> f.position >= Len(k))
    BY <2>2, MaxOfFew DEF AtRememberedEnd
  <2>4. CASE host # "arduino"
    BY <1>1, <2>1, <2>2, <2>3, <2>4 DEF Available
  <2>5. CASE host = "arduino"
    <3>1. k = d
      BY <1>1, <2>1, <2>5, ArduinoWhole
    <3>2. Left(d, f) = IF f.position < Len(k) THEN Len(k) - f.position ELSE 0
      BY <3>1 DEF Left
    <3>3. Left(d, f) > 0 <=> f.position < Len(k)
      BY <2>2, <3>2
    <3>4. f.mode # "Read" => f.mode = "ReadWrite"
      BY <1>1 DEF Readable
    <3> QED
      BY <1>1, <2>1, <2>2, <2>3, <2>5, <3>3, <3>4 DEF Available
  <2> QED
    BY <2>4, <2>5
<1>2. IInv => AvailableIsHonest
  BY <1>1 DEF AvailableIsHonest
<1> QED
  BY <1>2, Invariant, PTL

\* A step that shortens no node.
Shortens == \E n \in DOMAIN nodes : Len(nodes'[n].data) < Len(nodes[n].data)

\* A node's length is a number.
LEMMA NodeLength ==
  ASSUME IInv, NEW n \in DOMAIN nodes
  PROVE  Len(nodes[n].data) \in Nat
<1>1. nodes[n] \in Node
  BY DEF IInv, HostOK
<1> QED
  BY <1>1 DEF Node

\* A node that keeps its bytes or is given as many keeps its length.
LEMMA PutsNoLess ==
  ASSUME IInv, NEW n \in DOMAIN nodes, NEW data, Puts(nodes, nodes', n, data),
         Len(data) \in Nat, Len(data) >= Len(nodes[n].data)
  PROVE  ~Shortens
<1>1. ASSUME NEW m \in DOMAIN nodes PROVE ~(Len(nodes'[m].data) < Len(nodes[m].data))
  <2>1. CASE m = n
    BY <2>1, NodeLength DEF Puts
  <2>2. CASE m # n
    BY <2>2, NodeLength DEF Puts
  <2> QED
    BY <2>1, <2>2
<1> QED
  BY <1>1 DEF Shortens

\* Nor does one that the host is left as it was, or given a node.
LEMMA SameNoLess ==
  ASSUME IInv, \A n \in DOMAIN nodes : nodes'[n] = nodes[n]
  PROVE  ~Shortens
BY NodeLength DEF Shortens

\* No call on a handle shortens a file.
LEMMA HandleNoLess ==
  ASSUME IInv, NEW c \in Callers,
         \/ \E n \in 1..MaxSize : Read(c, n)
         \/ Peek(c) \/ Write(c) \/ Flush(c) \/ Close(c) \/ ArduinoWrite(c)
  PROVE  ~Shortens
<1> DEFINE f == files[c]
           d == nodes[f.node].data
           w == Whole(f, d)
<1>1. f # NoFile
  BY StreamMeansHandle, Zenon
     DEF Read, Peek, Fetch, Write, Flush, Close, ArduinoWrite, Streams, Opened
<1>2. /\ f.node \in DOMAIN nodes /\ f.position \in Nat /\ c \in Bytes
      /\ d \in Seq(Bytes) /\ Len(d) \in Nat
      /\ w \in Seq(Bytes) /\ Len(w) \in Nat /\ Len(w) >= Len(d)
  BY <1>1, HandleFacts, WholeFacts
<1>3. ASSUME NEW x \in {d, w}
      PROVE  /\ Written(x, f.position, <<c>>) \in Seq(Bytes)
             /\ Len(Written(x, f.position, <<c>>)) \in Nat
             /\ Len(Written(x, f.position, <<c>>)) >= Len(d)
  <2>1. x \in Seq(Bytes) /\ Len(x) \in Nat /\ Len(x) >= Len(d)
    BY <1>2, <1>3
  <2>2. PICK size : size = IF Len(x) < f.position + 1 THEN f.position + 1 ELSE Len(x)
    OBVIOUS
  <2> HIDE DEF d, f
  <2>3. /\ Written(x, f.position, <<c>>) \in Seq(Bytes)
        /\ Len(Written(x, f.position, <<c>>)) = size
        /\ size \in Nat /\ size >= Len(x)
    BY <1>2, <2>1, <2>2, OneByteWritten
  <2> QED
    BY <1>2, <2>1, <2>3
<1>4. CASE nodes' = Landed(c)
  BY <1>1, <1>2, <1>4, LandedPuts, PutsNoLess
<1>5. CASE nodes' = [Landed(c) EXCEPT ![f.node].data = Written(@, f.position, <<c>>)]
  <2>1. Puts(nodes, nodes', f.node, Written(w, f.position, <<c>>))
    BY <1>1, <1>3, <1>5, WrittenThrough
  <2> QED
    BY <1>2, <1>3, <2>1, PutsNoLess
<1>6. CASE nodes' = [nodes EXCEPT ![f.node].data = Written(@, f.position, <<c>>)]
  <2>1. nodes' = [nodes EXCEPT ![f.node].data = Written(d, f.position, <<c>>)]
    BY <1>6
  <2>2. Puts(nodes, nodes', f.node, Written(d, f.position, <<c>>))
    BY <1>2, <1>3, <2>1, DataPut DEF IInv, HostOK
  <2> QED
    BY <1>2, <1>3, <2>2, PutsNoLess
<1> QED
  BY <1>4, <1>5, <1>6, Zenon DEF Read, Peek, Fetch, Write, Flush, Close, ArduinoWrite

\* The host's open shortens only the node it truncates.
LEMMA OpenEmpties ==
  ASSUME IInv, NEW c \in Callers, HostOpens(c), NEW n \in DOMAIN nodes,
         Len(nodes'[n].data) < Len(nodes[n].data)
  PROVE  /\ calls[c].step = "open"
         /\ calls[c].mode = "Write" \/ (calls[c].mode = "ReadWrite" /\ calls[c].found # n)
<1> DEFINE t == Target(calls[c])
<1>1. /\ calls[c].step = "open"
      /\ nodes' = IF t \notin DOMAIN nodes
                  THEN Append(nodes, [directory |-> FALSE, data |-> <<>>])
                  ELSE IF Truncates(calls[c].mode, calls[c].found # Null)
                  THEN [nodes EXCEPT ![t].data = <<>>] ELSE nodes
  BY DEF HostOpens
<1>2. nodes \in Seq(Node) /\ n \in 1..Len(nodes)
  BY DEF IInv, HostOK
<1>3. nodes'[n] # nodes[n]
  BY NodeLength
<1>4. CASE t \notin DOMAIN nodes
  <2>1. [directory |-> FALSE, data |-> <<>>] \in Node
    BY DEF Node
  <2>2. nodes'[n] = nodes[n]
    BY <1>1, <1>2, <1>4, <2>1, AppendProperties
  <2> QED
    BY <1>3, <2>2
<1>5. CASE t \in DOMAIN nodes
  <2>1. Truncates(calls[c].mode, calls[c].found # Null)
    BY <1>1, <1>3, <1>5
  <2>2. n # Null
    BY <1>2 DEF Null
  <2> QED
    BY <1>1, <2>1, <2>2 DEF Truncates
<1> QED
  BY <1>4, <1>5

\* Only an open for writing empties a file: a ReadWrite open only one that was
\* not at its path when it was called.
THEOREM OnlyOpensEmpty == Spec => OnlyWriteEmpties
<1> DEFINE Emptied(n) ==
             \E c \in Callers :
               /\ calls[c].step = "open" /\ calls'[c] # calls[c]
               /\ calls[c].mode = "Write" \/ (calls[c].mode = "ReadWrite" /\ calls[c].found # n)
           A == \A n \in DOMAIN nodes :
                  Len(nodes'[n].data) < Len(nodes[n].data) => Emptied(n)
<1>1. ASSUME ~Shortens PROVE A
  BY <1>1 DEF Shortens
<1>2. ASSUME IInv, NEW c \in Callers, OpenStream(c) \/ ArduinoOpen(c) PROVE A
  <2>1. HostOpens(c)
    BY <1>2 DEF OpenStream, ArduinoOpen
  <2>2. calls[c].step = "open" /\ calls'[c].step # "open"
    <3>1. calls'[c].step \in {"refresh", "none"}
      BY <1>2 DEF OpenStream, ArduinoOpen, IInv, PerCaller, NoCall
    <3> QED
      BY <2>1, <3>1 DEF HostOpens
  <2>3. ASSUME NEW n \in DOMAIN nodes, Len(nodes'[n].data) < Len(nodes[n].data) PROVE Emptied(n)
    BY <1>2, <2>1, <2>2, <2>3, OpenEmpties
  <2> QED
    BY <2>3
<1>3. ASSUME IInv, nodes' = nodes PROVE A
  BY <1>1, <1>3, SameNoLess
<1>4. ASSUME IInv, NEW p \in Names, Mkdir(p) PROVE A
  <2>1. CASE nodes' = Append(nodes, [directory |-> TRUE, data |-> <<>>])
    <3>1. [directory |-> TRUE, data |-> <<>>] \in Node /\ nodes \in Seq(Node)
      BY <1>4 DEF Node, IInv, HostOK
    <3>2. \A n \in DOMAIN nodes : nodes'[n] = nodes[n]
      BY <2>1, <3>1, AppendProperties
    <3> QED
      BY <1>1, <1>4, <3>2, SameNoLess
  <2>2. CASE nodes' = nodes
    BY <1>3, <1>4, <2>2
  <2> QED
    BY <1>4, <2>1, <2>2 DEF Mkdir
<1>5. ASSUME IInv, NEW c \in Callers, PosixCall(c) \/ WindowsCall(c) \/ ArduinoCall(c) PROVE A
  <2>1. CASE OpenCall(c)
    <3>1. nodes' = nodes \/ OpenStream(c)
      BY <2>1 DEF OpenCall, OpenStat, Stat, OpenFails, OpenRefresh
    <3> QED
      BY <1>2, <1>3, <1>5, <3>1
  <2>2. CASE FileCall(c)
    BY <1>1, <1>5, <2>2, HandleNoLess DEF FileCall
  <2>3. CASE RemoveCall(c)
    BY <1>3, <1>5, <2>3 DEF RemoveCall, RemoveStat, RemoveHost
  <2>4. CASE ArduinoCall(c)
    <3>1. nodes' = nodes \/ ArduinoOpen(c) \/ ArduinoWrite(c)
      BY <2>4 DEF ArduinoCall, ArduinoStat, Stat, OpenFails, ArduinoRead, ArduinoPeek, vars,
                  ArduinoFlush, ArduinoClose, RemoveCall, RemoveStat, RemoveHost
    <3> QED
      BY <1>1, <1>2, <1>3, <1>5, <3>1, HandleNoLess
  <2> QED
    BY <1>5, <2>1, <2>2, <2>3, <2>4
       DEF PosixCall, WindowsCall, WindowsOpenCall, WindowsFileCall, WindowsRemoveCall
<1>6. IInv /\ [Next]_vars => [A]_vars
  <2>1. ASSUME IInv, Next PROVE A
    <3>1. ASSUME NEW p \in Names, NEW q \in Names, Rename(p, q) PROVE A
      BY <1>3, <2>1, <3>1 DEF Rename
    <3> QED
      BY <1>4, <1>5, <2>1, <3>1 DEF Next
  <2> HIDE DEF A
  <2> QED
    BY <2>1
<1> QED
  BY <1>6, Invariant, PTL DEF Spec, OnlyWriteEmpties
=============================================================================
