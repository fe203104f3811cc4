-------------------------- MODULE MemoryFileSystem --------------------------
(***************************************************************************)
(* The in-memory file system of memory/MemoryFileAdapter.h: a tree of      *)
(* shared Node objects, the IFileSystem operations that edit it and the    *)
(* MemoryFile handles that keep a node alive and read and write its bytes. *)
(***************************************************************************)
EXTENDS FilePath, FiniteSets

CONSTANTS
  Names,     \* segments of a path, the empty one included
  Paths,     \* the path arguments callers pass
  Bytes,     \* the byte values callers write
  Zero,      \* the byte vector::resize fills with, told apart from Bytes
  Buffers,   \* the buffers callers pass to write
  Handles,   \* the FileHandle variables of callers
  Modes,     \* the modes callers open files with
  MaxNodes,  \* bound: nodes ever allocated
  MaxSize    \* bound: bytes in a file

ASSUME NamesAssumption == Empty \in Names
ASSUME PathsAssumption == Paths \subseteq Seq(Names) \ {<<>>}
ASSUME ModesAssumption == Modes \subseteq {"Read", "Write", "ReadWrite"}
ASSUME BuffersAssumption == Buffers \subseteq Seq(Bytes) /\ Zero \notin Bytes
ASSUME BoundsAssumption == MaxNodes \in Nat \ {0} /\ MaxSize \in Nat

VARIABLES
  heap,      \* the Node objects, in order of allocation; a node is its index
  handles,   \* what each FileHandle holds
  running    \* FALSE once an operation has overflowed the stack

vars == <<heap, handles, running>>

Null == 0
Root == 1
NoHandle == [node |-> Null, mode |-> "Read", position |-> 0]

Node(ids) ==
  [name : Names \cup {"/"}, path : Seq(Names), isDirectory : BOOLEAN,
   data : Seq(Bytes \cup {Zero}), children : [Names -> ids \cup {Null}]]

NoChildren == [s \in Names |-> Null]

-----------------------------------------------------------------------------
(* Looking a path up.                                                      *)

\* The node reached after each number of segments; whether a node on the way
\* is a directory is not asked.
Walk(h, s) ==
  LET at[i \in 0..Len(s)] ==
        IF i = 0 THEN Root
        ELSE IF at[i - 1] = Null THEN Null
        ELSE h[at[i - 1]].children[s[i]]
  IN at

FindNode(h, p) == LET s == Components(p) IN Walk(h, s)[Len(s)]

\* The parent of the path exists and has a child of the path's name.
HasEntry(h, p) ==
  \E parent \in DOMAIN h :
    parent = FindNode(h, DirName(p)) /\ h[parent].children[FileName(p)] # Null

-----------------------------------------------------------------------------
(* Creating a path.                                                        *)

\* How many segments of s lead to nodes that exist: those before the first that
\* does not.
Existing(h, s) == Cardinality({i \in 1..Len(s) : Walk(h, s)[i] # Null})

\* The paths of the nodes made for the missing segments, below base's own.
NewPaths(h, base, missing) ==
  LET path[i \in 0..Len(missing)] ==
        IF i = 0 THEN h[base].path ELSE JoinPath(path[i - 1], missing[i])
  IN path

\* Mutants of NewChildren: a node made holds itself, or one never made.
NewChildrenSelfLinked(h, missing, i) ==
  IF i < Len(missing) THEN [NoChildren EXCEPT ![missing[i + 1]] = Len(h) + i]
  ELSE NoChildren

NewChildrenDangling(h, missing, i) ==
  [NoChildren EXCEPT ![missing[i]] = Len(h) + i + 1]

\* Each node made holds the next one.
NewChildren(h, missing, i) ==
  IF i < Len(missing) THEN [NoChildren EXCEPT ![missing[i + 1]] = Len(h) + i + 1]
  ELSE NoChildren

\* Missing segments become directories, the last one what asDirectory says;
\* a last segment that exists is turned into a directory when one is asked
\* for. Behind a final '/' no segment counts as the last one.
CreatePath(h, p, asDirectory) ==
  LET s       == Components(p)
      last    == s = p
      k       == Existing(h, s)
      base    == Walk(h, s)[k]
      missing == SubSeq(s, k + 1, Len(s))
      made    == Len(missing)
      New(i) ==
        [name |-> missing[i], path |-> NewPaths(h, base, missing)[i],
         isDirectory |-> i < made \/ ~last \/ asDirectory,
         data |-> <<>>, children |-> NewChildren(h, missing, i)]
      Edited ==
        IF made > 0 THEN [h[base] EXCEPT !.children[missing[1]] = Len(h) + 1]
        ELSE [h[base] EXCEPT !.isDirectory = @ \/ (last /\ asDirectory)]
  IN [n \in 1..(Len(h) + made) |->
        IF n > Len(h) THEN New(n - Len(h)) ELSE IF n = base THEN Edited ELSE h[n]]

-----------------------------------------------------------------------------
(* Moving a node.                                                          *)

Closed(h, S) == \A n \in S : \A s \in Names : h[n].children[s] \in S \cup {Null}

\* The node and everything below it.
Subtree(h, node) ==
  {n \in DOMAIN h :
     \A S \in SUBSET DOMAIN h : node \in S /\ Closed(h, S) => n \in S}

\* updatePaths never returns from a node that has become its own descendant.
Cyclic(h, node) == \E n \in Subtree(h, node) : \E s \in Names : h[n].children[s] = node

\* Mutant of UpdatePaths: the descendants keep their old paths.
UpdatePathOfNodeOnly(h, node, parentPath) ==
  [h EXCEPT ![node].path = JoinPath(parentPath, h[node].name)]

\* The node's path and those of all its descendants, rebuilt from parentPath.
UpdatePaths(h, node, parentPath) ==
  LET sub == Subtree(h, node)
      Parent(n) == CHOOSE m \in sub : \E s \in Names : h[m].children[s] = n
      path[n \in sub] ==
        JoinPath(IF n = node THEN parentPath ELSE path[Parent(n)], h[n].name)
  IN [n \in DOMAIN h |-> IF n \in sub THEN [h[n] EXCEPT !.path = path[n]] ELSE h[n]]

\* Mutants of Relink: the old link stays, or goes only after the new one is made.
RelinkWithoutErase(h, oldParent, oldName, newParent, newName) ==
  LET node == h[oldParent].children[oldName]
  IN [[h EXCEPT ![node].name = newName] EXCEPT ![newParent].children[newName] = node]

RelinkThenErase(h, oldParent, oldName, newParent, newName) ==
  [RelinkWithoutErase(h, oldParent, oldName, newParent, newName)
     EXCEPT ![oldParent].children[oldName] = Null]

\* Erased from the old parent first, then linked over whatever the new parent
\* had under that name.
Relink(h, oldParent, oldName, newParent, newName) ==
  LET node   == h[oldParent].children[oldName]
      erased == [h EXCEPT ![oldParent].children[oldName] = Null]
      named  == [erased EXCEPT ![node].name = newName]
  IN [named EXCEPT ![newParent].children[newName] = node]

-----------------------------------------------------------------------------
(* IFileSystem. rename, open and the MemoryFile operations that return     *)
(* false, null or 0 without touching anything are no step; remove's early  *)
(* returns are the one failure kept as a step that changes nothing.        *)

Init ==
  /\ heap = <<[name |-> "/", path |-> <<Empty>>, isDirectory |-> TRUE,
               data |-> <<>>, children |-> NoChildren]>>
  /\ handles = [f \in Handles |-> NoHandle]
  /\ running = TRUE

Mkdir(p) ==
  /\ running
  /\ heap' = CreatePath(heap, p, TRUE)
  /\ Len(heap') <= MaxNodes
  /\ UNCHANGED <<handles, running>>

RemovePath(p) ==
  /\ running
  /\ IF p # <<Empty>> /\ HasEntry(heap, p)
     THEN \E parent \in DOMAIN heap :
            /\ parent = FindNode(heap, DirName(p))
            /\ heap' = [heap EXCEPT ![parent].children[FileName(p)] = Null]
     ELSE UNCHANGED heap
  /\ UNCHANGED <<handles, running>>

\* The source is checked before the target's parents are created; the node
\* moved is the one named in the source's parent.
Rename(from, to) ==
  /\ running
  /\ FindNode(heap, from) # Null /\ HasEntry(heap, from)
  /\ \E oldParent \in DOMAIN heap :
       /\ oldParent = FindNode(heap, DirName(from))
       /\ LET created == CreatePath(heap, DirName(to), TRUE)
              node    == heap[oldParent].children[FileName(from)]
          IN /\ Len(created) <= MaxNodes
             /\ \E newParent \in DOMAIN created :
                  /\ newParent = FindNode(created, DirName(to))
                  /\ LET moved == Relink(created, oldParent, FileName(from), newParent, FileName(to))
                     IN IF Cyclic(moved, node)
                        THEN running' = FALSE /\ UNCHANGED heap
                        ELSE /\ heap' = UpdatePaths(moved, node, moved[newParent].path)
                             /\ UNCHANGED running
  /\ UNCHANGED handles

\* Mutant of Open: opening a file for Write truncates it.
OpenTruncating(f, p, mode) ==
  LET found == IF FindNode(heap, p) = Null THEN CreatePath(heap, p, FALSE) ELSE heap
      node  == FindNode(found, p)
  IN /\ running /\ mode # "Read" /\ Len(found) <= MaxNodes
     /\ handles[f] = NoHandle
     /\ heap' = [found EXCEPT ![node].data = <<>>]
     /\ handles' = [handles EXCEPT ![f] = [node |-> node, mode |-> mode, position |-> 0]]
     /\ UNCHANGED running

\* A missing file is created unless the mode is Read. The opened node must not
\* be a directory; what createPath made stays even when it is one.
Open(f, p, mode) ==
  /\ running
  /\ handles[f] = NoHandle
  /\ IF FindNode(heap, p) = Null
     THEN mode # "Read" /\ heap' = CreatePath(heap, p, FALSE) /\ Len(heap') <= MaxNodes
     ELSE UNCHANGED heap
  /\ \E node \in DOMAIN heap' :
       /\ node = FindNode(heap', p)
       /\ handles' = IF heap'[node].isDirectory THEN handles
                     ELSE [handles EXCEPT ![f] = [node |-> node, mode |-> mode,
                                                  position |-> 0]]
  /\ UNCHANGED running

-----------------------------------------------------------------------------
(* MemoryFile.                                                             *)

Usable(f) == running /\ handles[f].node # Null

\* Mutant of Read: the position advances by what was asked for.
ReadPastEnd(f, size) ==
  /\ Usable(f)
  /\ handles[f].position < Len(heap[handles[f].node].data)
  /\ handles' = [handles EXCEPT ![f].position = @ + size]
  /\ UNCHANGED <<heap, running>>

Read(f, size) ==
  LET left == Len(heap[handles[f].node].data) - handles[f].position IN
  /\ Usable(f)
  /\ left > 0
  /\ handles' = [handles EXCEPT ![f].position = @ + (IF size <= left THEN size ELSE left)]
  /\ UNCHANGED <<heap, running>>

\* Mutant of Written: the vector is resized for one byte too many.
WrittenOneTooMany(data, position, buffer) ==
  LET need == position + Len(buffer)
  IN [i \in 1..(IF Len(data) <= need THEN need + 1 ELSE Len(data)) |->
        IF position < i /\ i <= need THEN buffer[i - position]
        ELSE IF i <= Len(data) THEN data[i] ELSE Zero]

\* The vector grows to position + size, filled with zeros, then the buffer is
\* copied in at position.
Written(data, position, buffer) ==
  LET need == position + Len(buffer)
      size == IF Len(data) < need THEN need ELSE Len(data)
  IN [i \in 1..size |->
        IF position < i /\ i <= need THEN buffer[i - position]
        ELSE IF i <= Len(data) THEN data[i] ELSE Zero]

Write(f, buffer) ==
  LET node == handles[f].node IN
  /\ Usable(f)
  /\ handles[f].mode # "Read"
  /\ handles[f].position + Len(buffer) <= MaxSize
  /\ heap' = [heap EXCEPT ![node].data = Written(@, handles[f].position, buffer)]
  /\ handles' = [handles EXCEPT ![f].position = @ + Len(buffer)]
  /\ UNCHANGED running

\* close only sets closed_, which no operation consults: a closed file goes on
\* reading and writing, and the flag is not part of the state.
Close(f) == Usable(f) /\ UNCHANGED vars

\* The caller destroys the unique_ptr.
Drop(f) ==
  /\ Usable(f)
  /\ handles' = [handles EXCEPT ![f] = NoHandle]
  /\ UNCHANGED <<heap, running>>

\* After a stack overflow the process is gone.
Crashed == ~running /\ UNCHANGED vars

Next ==
  \/ \E p \in Paths : Mkdir(p)
  \/ \E p \in Paths : RemovePath(p)
  \/ \E p, q \in Paths : Rename(p, q)
  \/ \E f \in Handles, p \in Paths, mode \in Modes : Open(f, p, mode)
  \/ \E f \in Handles, size \in 1..MaxSize : Read(f, size)
  \/ \E f \in Handles, buffer \in Buffers : Write(f, buffer)
  \/ \E f \in Handles : Close(f)
  \/ \E f \in Handles : Drop(f)
  \/ Crashed

Spec == Init /\ [][Next]_vars

-----------------------------------------------------------------------------
(* Correctness.                                                            *)

TypeOK ==
  /\ heap \in Seq(Node(DOMAIN heap)) /\ heap # <<>>
  /\ handles \in [Handles -> [node : DOMAIN heap \cup {Null}, mode : Modes \cup {"Read"},
                              position : Nat]]
  /\ running \in BOOLEAN

\* Every entry is in one directory under one name, and that name is its own:
\* erase-then-link in rename, and the overwriting of what the target name
\* held, leave no node linked twice and none under a stale name.
SingleLink ==
  \A m, n \in DOMAIN heap : \A s, t \in Names :
    LET child == heap[m].children[s] IN
    child # Null =>
      /\ child # Root /\ heap[child].name = s
      /\ heap[n].children[t] = child => m = n /\ s = t

\* No node is its own descendant while the program runs, so list and the
\* updatePaths of a later rename come to an end.
Acyclic == running => \A n \in DOMAIN heap : ~Cyclic(heap, n)

\* An entry reached along non-empty segments reports, in list, the very path
\* that finds it, however often it or a directory above it was renamed.
ReportsItsPath ==
  \A l \in BoundedSeq(Names \ {Empty}, MaxNodes) \ {<<>>} :
    LET n == Walk(heap, l)[Len(l)] IN n # Null => heap[n].path = l

\* A rename overflows the stack only when the destination's directory is the
\* renamed entry or below it.
CrashOnlyIntoOwnSubtree ==
  [][\A p, q \in Paths :
       running /\ ~running' /\ Rename(p, q) =>
         IsPrefix(Location(p), Components(DirName(q)))]_vars

\* The locations at most d deep, each with the node it leads to.
Linked(h, d) ==
  LET upTo[i \in 0..d] ==
        IF i = 0 THEN {[at |-> <<>>, node |-> Root]}
        ELSE upTo[i - 1] \cup
               UNION {{[at |-> Append(e.at, s), node |-> h[e.node].children[s]] :
                         s \in {t \in Names : h[e.node].children[t] # Null}} :
                        e \in upTo[i - 1]}
  IN upTo[d]

\* The pointers implement the map: each operation does to the locations what
\* FileTree says, and nothing to any other.
Tree ==
  INSTANCE FileTree WITH
    Contents <- BoundedSeq(Bytes, MaxSize),
    tree <- LET linked == Linked(heap, MaxNodes - 1) IN
            [l \in {e.at : e \in linked} |->
               LET e == CHOOSE e \in linked : e.at = l
               IN [isDirectory |-> heap[e.node].isDirectory, data |-> heap[e.node].data]]

ImplementsFileTree == Tree!Spec

\* No handle stands behind the end of its file, whatever other handles on the
\* same file do: what makes write append or overwrite and never leave a gap.
PositionWithinData ==
  \A f \in Handles :
    handles[f].node # Null => handles[f].position <= Len(heap[handles[f].node].data)

\* The zeros resize fills with are never left in a file.
NoUnwrittenByte ==
  \A n \in DOMAIN heap : \A i \in DOMAIN heap[n].data : heap[n].data[i] \in Bytes

\* A file never gets shorter: opening for Write does not truncate here, and
\* removing or replacing a file leaves the bytes of its open handles alone.
DataNeverShrinks ==
  [][\A n \in DOMAIN heap : Len(heap[n].data) <= Len(heap'[n].data)]_vars
=============================================================================
