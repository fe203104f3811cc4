----------------------- MODULE MemoryFileSystemProofs -----------------------
(***************************************************************************)
(* Theorems about MemoryFileSystem, for any names, paths, handles and      *)
(* bounds.  First those about the bytes in its files: they hold whatever   *)
(* shape the links between the nodes take, so IInv speaks of no path and   *)
(* no child.  Then those about the tree the nodes form: TreeInv adds that  *)
(* the heap is a forest whose paths join along its links.  Last, lemmas    *)
(* about the node each location leads to, before and after an operation.   *)
(***************************************************************************)
EXTENDS MemoryFileSystem, FiniteSetTheorems, SequenceTheorems, WellFoundedInduction, TLAPS

Fields == {"name", "path", "isDirectory", "data", "children"}

\* A sequence of nodes whose files hold bytes that were written.
IsHeap(h) ==
  /\ Len(h) \in Nat
  /\ DOMAIN h = 1..Len(h)
  /\ \A n \in DOMAIN h : DOMAIN h[n] = Fields /\ h[n].data \in Seq(Bytes)

\* No node of h is lost in c, and none of its files gets shorter.
Keeps(h, c) ==
  /\ IsHeap(c)
  /\ Len(h) <= Len(c)
  /\ \A n \in DOMAIN h : c[n].data = h[n].data

HandleType ==
  handles \in [Handles -> [node : DOMAIN heap \cup {Null}, mode : Modes \cup {"Read"},
                           position : Nat]]

IInv == IsHeap(heap) /\ HandleType /\ PositionWithinData

-----------------------------------------------------------------------------
(* The heap under the operations' helpers.                                 *)

\* The segments of a path are names.
LEMMA ComponentsType ==
  ASSUME NEW p \in Seq(Names)
  PROVE  Components(p) \in Seq(Names)
<1>1. CASE p # <<>>
  BY <1>1 DEF Components, Front
<1>2. CASE p = <<>>
  BY <1>2 DEF Components
<1> QED
  BY <1>1, <1>2

\* At most all segments of a path lead to nodes that exist.
LEMMA ExistingType ==
  ASSUME NEW h, NEW s \in Seq(Names)
  PROVE  Existing(h, s) \in 0..Len(s)
<1> DEFINE found == {i \in 1..Len(s) : Walk(h, s)[i] # Null}
<1>1. Len(s) \in Nat /\ 1 \in Int /\ Len(s) \in Int
  OBVIOUS
<1>2. IsFiniteSet(1..Len(s)) /\ Cardinality(1..Len(s)) = Len(s)
  <2> DEFINE n == Len(s)
  <2>1. n \in Int
    BY <1>1
  <2> HIDE DEF n
  <2>2. IsFiniteSet(1..n) /\ Cardinality(1..n) = IF 1 > n THEN 0 ELSE n - 1 + 1
    BY <2>1, <1>1, FS_Interval
  <2> USE DEF n
  <2>3. IsFiniteSet(1..Len(s)) /\ Cardinality(1..Len(s)) = IF 1 > Len(s) THEN 0 ELSE Len(s) - 1 + 1
    BY <2>2
  <2> QED
    BY <1>1, <2>3
<1>3. found \in SUBSET (1..Len(s))
  OBVIOUS
<1> HIDE DEF found
<1>4. IsFiniteSet(found) /\ Cardinality(found) <= Len(s)
  BY <1>2, <1>3, FS_Subset
<1>5. Cardinality(found) \in Nat
  BY <1>4, FS_CardinalityType
<1>6. Existing(h, s) = Cardinality(found)
  BY DEF Existing, found
<1> QED
  BY <1>1, <1>4, <1>5, <1>6

\* A function over 1..n is a sequence of length n.
LEMMA FunctionIsSequence ==
  ASSUME NEW T, NEW n \in Nat, NEW f \in [1..n -> T]
  PROVE  f \in Seq(T) /\ Len(f) = n
  OBVIOUS

\* createPath adds nodes with no bytes and leaves the bytes of the others alone.
LEMMA CreatePathKeeps ==
  ASSUME NEW h, IsHeap(h), NEW p \in Seq(Names), NEW asDirectory \in BOOLEAN
  PROVE  Keeps(h, CreatePath(h, p, asDirectory))
<1> DEFINE s       == Components(p)
           last    == s = p
           k       == Existing(h, s)
           base    == Walk(h, s)[k]
           missing == SubSeq(s, k + 1, Len(s))
           made    == Len(missing)
           New(i)  ==
             [name |-> missing[i], path |-> NewPaths(h, base, missing)[i],
              isDirectory |-> i < made \/ ~last \/ asDirectory,
              data |-> <<>>, children |-> NewChildren(h, missing, i)]
           Edited  ==
             IF made > 0 THEN [h[base] EXCEPT !.children[missing[1]] = Len(h) + 1]
             ELSE [h[base] EXCEPT !.isDirectory = @ \/ (last /\ asDirectory)]
           Created(n) ==
             IF n > Len(h) THEN New(n - Len(h)) ELSE IF n = base THEN Edited ELSE h[n]
           c == [n \in 1..(Len(h) + made) |-> Created(n)]
<1>1. c = CreatePath(h, p, asDirectory)
  BY DEF CreatePath
<1>2. made \in Nat
  <2>1. s \in Seq(Names) /\ Len(s) \in Nat
    BY ComponentsType
  <2>2. k \in 0..Len(s)
    BY <2>1, ExistingType
  <2> HIDE DEF s, k
  <2>3. missing \in Seq(Names)
    BY <2>1, <2>2
  <2> QED
    BY <2>3
<1>3. \A i : DOMAIN New(i) = Fields /\ New(i).data = <<>>
  BY DEF Fields
<1>4. base \in DOMAIN h => DOMAIN Edited = Fields /\ Edited.data = h[base].data
  BY DEF IsHeap, Fields
<1> HIDE DEF New, Edited, base, made
<1>5. Len(h) \in Nat /\ Len(h) + made \in Nat
  BY <1>2 DEF IsHeap
<1>6. \A n \in 1..(Len(h) + made) : DOMAIN Created(n) = Fields /\ Created(n).data \in Seq(Bytes)
  <2> SUFFICES ASSUME NEW n \in 1..(Len(h) + made)
               PROVE  DOMAIN Created(n) = Fields /\ Created(n).data \in Seq(Bytes)
    OBVIOUS
  <2>1. CASE n > Len(h)
    <3>1. Created(n) = New(n - Len(h))
      BY <2>1
    <3>2. DOMAIN New(n - Len(h)) = Fields /\ New(n - Len(h)).data = <<>>
      BY <1>3, Zenon
    <3>3. <<>> \in Seq(Bytes)
      OBVIOUS
    <3> QED
      BY <3>1, <3>2, <3>3
  <2>2. CASE n \in DOMAIN h
    <3>1. ~(n > Len(h)) /\ DOMAIN h[n] = Fields /\ h[n].data \in Seq(Bytes)
      BY <2>2, <1>5 DEF IsHeap
    <3>2. CASE n = base
      BY <3>1, <3>2, <2>2, <1>4
    <3>3. CASE n # base
      BY <3>1, <3>3
    <3> QED
      BY <3>2, <3>3
  <2> QED
    BY <2>1, <2>2, <1>5 DEF IsHeap
<1>7. \A n \in DOMAIN h : n \in 1..(Len(h) + made) /\ Created(n).data = h[n].data
  BY <1>2, <1>5, <1>4 DEF IsHeap
<1> HIDE DEF Created
<1>8. DOMAIN c = 1..(Len(h) + made) /\ Len(c) = Len(h) + made
  BY <1>5
<1>9. \A n \in 1..(Len(h) + made) : c[n] = Created(n)
  OBVIOUS
<1> HIDE DEF c
<1>10. IsHeap(c)
  BY <1>5, <1>6, <1>8, <1>9 DEF IsHeap
<1>11. Len(h) <= Len(c)
  BY <1>2, <1>5, <1>8
<1>12. \A n \in DOMAIN h : c[n].data = h[n].data
  BY <1>7, <1>9
<1> QED
  BY <1>1, <1>10, <1>11, <1>12 DEF Keeps

\* Keeping is transitive and reflexive.
LEMMA KeepsTransitive ==
  ASSUME NEW h, NEW c, NEW d, IsHeap(h), Keeps(h, c), Keeps(c, d)
  PROVE  Keeps(h, d)
<1>1. \A n \in DOMAIN h : n \in DOMAIN c
  BY DEF IsHeap, Keeps
<1> QED
  BY <1>1 DEF IsHeap, Keeps

\* Leaving the heap alone keeps it.
LEMMA KeepsItself ==
  ASSUME NEW h, IsHeap(h)
  PROVE  Keeps(h, h)
  BY DEF IsHeap, Keeps

\* Replacing a node by one with the same bytes.
LEMMA ReplaceKeeps ==
  ASSUME NEW h, IsHeap(h), NEW m, NEW node,
         m \in DOMAIN h => DOMAIN node = Fields /\ node.data = h[m].data
  PROVE  Keeps(h, [h EXCEPT ![m] = node])
<1> DEFINE c == [h EXCEPT ![m] = node]
<1>1. Len(h) \in Nat /\ DOMAIN h = 1..Len(h)
  BY DEF IsHeap
<1>2. DOMAIN c = 1..Len(h) /\ Len(c) = Len(h)
  BY <1>1
<1>3. \A n \in DOMAIN h : c[n] = IF n = m THEN node ELSE h[n]
  OBVIOUS
<1> HIDE DEF c
<1>4. \A n \in DOMAIN h : DOMAIN c[n] = Fields /\ c[n].data = h[n].data
  BY <1>3 DEF IsHeap
<1> QED
  BY <1>1, <1>2, <1>4 DEF IsHeap, Keeps, c

\* rename's move of a link touches no bytes.
LEMMA RelinkKeeps ==
  ASSUME NEW h, IsHeap(h), NEW oldParent, NEW oldName, NEW newParent, NEW newName
  PROVE  Keeps(h, Relink(h, oldParent, oldName, newParent, newName))
<1> DEFINE node   == h[oldParent].children[oldName]
           erased == [h EXCEPT ![oldParent].children[oldName] = Null]
           named  == [erased EXCEPT ![node].name = newName]
           linked == [named EXCEPT ![newParent].children[newName] = node]
<1>1. linked = Relink(h, oldParent, oldName, newParent, newName)
  BY DEF Relink
<1> HIDE DEF node
<1>2. Keeps(h, erased)
  <2> DEFINE new == [h[oldParent] EXCEPT !.children[oldName] = Null]
  <2>1. oldParent \in DOMAIN h => DOMAIN new = Fields /\ new.data = h[oldParent].data
    BY DEF IsHeap, Fields
  <2> HIDE DEF new
  <2>2. Keeps(h, [h EXCEPT ![oldParent] = new])
    BY <2>1, ReplaceKeeps
  <2> QED
    BY <2>2 DEF new
<1>3. IsHeap(erased)
  BY <1>2 DEF Keeps
<1> HIDE DEF erased
<1>4. Keeps(erased, named)
  <2> DEFINE new == [erased[node] EXCEPT !.name = newName]
  <2>1. node \in DOMAIN erased => DOMAIN new = Fields /\ new.data = erased[node].data
    BY <1>3 DEF IsHeap, Fields
  <2> HIDE DEF new
  <2>2. Keeps(erased, [erased EXCEPT ![node] = new])
    BY <1>3, <2>1, ReplaceKeeps
  <2> QED
    BY <2>2 DEF new
<1>5. IsHeap(named)
  BY <1>4 DEF Keeps
<1> HIDE DEF named
<1>6. Keeps(named, linked)
  <2> DEFINE new == [named[newParent] EXCEPT !.children[newName] = node]
  <2>1. newParent \in DOMAIN named => DOMAIN new = Fields /\ new.data = named[newParent].data
    BY <1>5 DEF IsHeap, Fields
  <2> HIDE DEF new
  <2>2. Keeps(named, [named EXCEPT ![newParent] = new])
    BY <1>5, <2>1, ReplaceKeeps
  <2> QED
    BY <2>2 DEF new
<1> HIDE DEF linked
<1>7. Keeps(h, named)
  BY <1>2, <1>4, KeepsTransitive
<1> QED
  BY <1>1, <1>6, <1>7, KeepsTransitive

\* Nor does its rebuilding of the paths.
LEMMA UpdatePathsKeeps ==
  ASSUME NEW h, IsHeap(h), NEW node, NEW parentPath
  PROVE  Keeps(h, UpdatePaths(h, node, parentPath))
<1> DEFINE sub == Subtree(h, node)
           Parent(n) == CHOOSE m \in sub : \E s \in Names : h[m].children[s] = n
           path[n \in sub] ==
             JoinPath(IF n = node THEN parentPath ELSE path[Parent(n)], h[n].name)
           New(n) == IF n \in sub THEN [h[n] EXCEPT !.path = path[n]] ELSE h[n]
           c == [n \in DOMAIN h |-> New(n)]
<1>1. c = UpdatePaths(h, node, parentPath)
  BY DEF UpdatePaths
<1> HIDE DEF path, sub
<1>2. Len(h) \in Nat /\ DOMAIN h = 1..Len(h)
  BY DEF IsHeap
<1>3. \A n \in DOMAIN h : DOMAIN New(n) = Fields /\ New(n).data = h[n].data
  BY DEF IsHeap, Fields
<1> HIDE DEF New
<1>4. DOMAIN c = 1..Len(h) /\ Len(c) = Len(h)
  BY <1>2
<1>5. \A n \in DOMAIN h : DOMAIN c[n] = Fields /\ c[n].data = h[n].data
  BY <1>3
<1> HIDE DEF c
<1>6. Keeps(h, c)
  BY <1>2, <1>4, <1>5 DEF IsHeap, Keeps
<1> QED
  BY <1>1, <1>6

-----------------------------------------------------------------------------
(* The operations.                                                         *)

\* What a step may do to the files.
Longer ==
  \A n \in DOMAIN heap : n \in DOMAIN heap' /\ Len(heap[n].data) <= Len(heap'[n].data)

\* An operation that keeps the heap and the handles keeps the invariant.
LEMMA KeptIInv ==
  ASSUME IInv, Keeps(heap, heap'), UNCHANGED handles
  PROVE  IInv' /\ Longer
<1>1. \A n \in DOMAIN heap : n \in DOMAIN heap' /\ heap'[n].data = heap[n].data
  BY DEF IInv, IsHeap, Keeps
<1>2. \A n \in DOMAIN heap : Len(heap[n].data) \in Nat
  BY DEF IInv, IsHeap
<1>3. Longer
  BY <1>1, <1>2 DEF Longer
<1>4. HandleType'
  BY <1>1 DEF IInv, HandleType
<1>5. PositionWithinData'
  <2> SUFFICES ASSUME NEW f \in Handles, handles'[f].node # Null
               PROVE  handles'[f].position <= Len(heap'[handles'[f].node].data)
    BY DEF PositionWithinData
  <2>1. handles[f].node \in DOMAIN heap
    BY DEF IInv, HandleType
  <2>2. handles[f].position <= Len(heap[handles[f].node].data)
    BY DEF IInv, PositionWithinData
  <2> QED
    BY <1>1, <2>1, <2>2
<1> QED
  BY <1>3, <1>4, <1>5 DEF IInv, Keeps

\* mkdir.
LEMMA MkdirKeeps ==
  ASSUME IInv, NEW p \in Seq(Names), Mkdir(p)
  PROVE  IInv' /\ Longer
<1>1. Keeps(heap, CreatePath(heap, p, TRUE))
  BY CreatePathKeeps DEF IInv
<1> QED
  BY <1>1, KeptIInv DEF Mkdir

\* remove.
LEMMA RemoveKeeps ==
  ASSUME IInv, NEW p \in Seq(Names), RemovePath(p)
  PROVE  IInv' /\ Longer
<1>1. IsHeap(heap)
  BY DEF IInv
<1>2. CASE UNCHANGED heap
  BY <1>1, <1>2, KeepsItself, KeptIInv DEF RemovePath
<1>3. ASSUME NEW parent \in DOMAIN heap,
             heap' = [heap EXCEPT ![parent].children[FileName(p)] = Null]
      PROVE  IInv' /\ Longer
  <2> DEFINE new == [heap[parent] EXCEPT !.children[FileName(p)] = Null]
  <2>1. DOMAIN new = Fields /\ new.data = heap[parent].data
    BY <1>1 DEF IsHeap, Fields
  <2> HIDE DEF new
  <2>2. Keeps(heap, [heap EXCEPT ![parent] = new])
    BY <1>1, <2>1, ReplaceKeeps
  <2>3. Keeps(heap, heap')
    BY <1>3, <2>2 DEF new
  <2> QED
    BY <2>3, KeptIInv DEF RemovePath
<1> QED
  BY <1>2, <1>3 DEF RemovePath

\* rename.
LEMMA RenameKeeps ==
  ASSUME IInv, NEW from \in Seq(Names), NEW to \in Seq(Names), to # <<>>, Rename(from, to)
  PROVE  IInv' /\ Longer
<1>1. IsHeap(heap)
  BY DEF IInv
<1> DEFINE created == CreatePath(heap, DirName(to), TRUE)
           Moved(old, new) == Relink(created, old, FileName(from), new, FileName(to))
<1>2. DirName(to) \in Seq(Names)
  BY DEF DirName, Front
<1>3. Keeps(heap, created) /\ IsHeap(created)
  <2>1. Keeps(heap, created)
    BY <1>1, <1>2, CreatePathKeeps
  <2> QED
    BY <2>1 DEF Keeps
<1> HIDE DEF created
<1>4. ASSUME NEW old, NEW new, NEW node, NEW parentPath,
             heap' = UpdatePaths(Moved(old, new), node, parentPath)
      PROVE  Keeps(heap, heap')
  <2>1. Keeps(created, Moved(old, new)) /\ IsHeap(Moved(old, new))
    <3>1. Keeps(created, Moved(old, new))
      BY <1>3, RelinkKeeps
    <3> QED
      BY <3>1 DEF Keeps
  <2> HIDE DEF Moved
  <2>2. Keeps(Moved(old, new), heap')
    BY <1>4, <2>1, UpdatePathsKeeps
  <2>3. Keeps(created, heap')
    BY <1>3, <2>1, <2>2, KeepsTransitive
  <2> QED
    BY <1>1, <1>3, <2>3, KeepsTransitive
<1>5. \/ UNCHANGED heap
      \/ \E old, new, node, parentPath :
            heap' = UpdatePaths(Moved(old, new), node, parentPath)
  BY DEF Rename, created
<1>6. Keeps(heap, heap')
  <2>1. CASE UNCHANGED heap
    BY <1>1, <2>1, KeepsItself
  <2>2. CASE \E old, new, node, parentPath :
               heap' = UpdatePaths(Moved(old, new), node, parentPath)
    <3> HIDE DEF Moved
    <3> QED
      BY <1>4, <2>2
  <2> QED
    BY <1>5, <2>1, <2>2
<1> QED
  BY <1>6, KeptIInv DEF Rename

\* open: a new handle starts at the front of its file.
LEMMA OpenKeeps ==
  ASSUME IInv, NEW f \in Handles, NEW p \in Seq(Names), NEW mode \in Modes, Open(f, p, mode)
  PROVE  IInv' /\ Longer
<1>1. IsHeap(heap)
  BY DEF IInv
<1>2. Keeps(heap, heap')
  <2>1. Keeps(heap, CreatePath(heap, p, FALSE))
    BY <1>1, CreatePathKeeps
  <2>2. heap' = CreatePath(heap, p, FALSE) \/ heap' = heap
    BY DEF Open
  <2> QED
    BY <1>1, <2>1, <2>2, KeepsItself
<1>3. CASE UNCHANGED handles
  BY <1>2, <1>3, KeptIInv
<1>4. ASSUME NEW node \in DOMAIN heap',
             handles' = [handles EXCEPT ![f] = [node |-> node, mode |-> mode, position |-> 0]]
      PROVE  IInv' /\ Longer
  <2>1. \A n \in DOMAIN heap : n \in DOMAIN heap' /\ heap'[n].data = heap[n].data
    BY <1>1, <1>2 DEF IsHeap, Keeps
  <2>2. \A n \in DOMAIN heap' : Len(heap'[n].data) \in Nat
    BY <1>2 DEF Keeps, IsHeap
  <2>3. Longer
    BY <2>1, <2>2 DEF Longer
  <2>4. HandleType'
    BY <1>4, <2>1 DEF IInv, HandleType
  <2>5. PositionWithinData'
    <3> SUFFICES ASSUME NEW g \in Handles, handles'[g].node # Null
                 PROVE  handles'[g].position <= Len(heap'[handles'[g].node].data)
      BY DEF PositionWithinData
    <3>1. CASE g = f
      <4>1. handles'[g].node = node /\ handles'[g].position = 0
        BY <1>4, <3>1 DEF IInv, HandleType
      <4> QED
        BY <2>2, <4>1
    <3>2. CASE g # f
      <4>1. handles'[g] = handles[g]
        BY <1>4, <3>2 DEF IInv, HandleType
      <4>2. handles[g].node \in DOMAIN heap
        BY <4>1 DEF IInv, HandleType
      <4>3. handles[g].position <= Len(heap[handles[g].node].data)
        BY <4>1 DEF IInv, PositionWithinData
      <4> QED
        BY <2>1, <4>1, <4>2, <4>3
    <3> QED
      BY <3>1, <3>2
  <2> QED
    BY <1>2, <2>3, <2>4, <2>5 DEF IInv, Keeps
<1> QED
  BY <1>3, <1>4 DEF Open

\* read: the position stops at the end of the file.
LEMMA ReadKeeps ==
  ASSUME IInv, NEW f \in Handles, NEW size \in 1..MaxSize, Read(f, size)
  PROVE  IInv' /\ Longer
<1> DEFINE node == handles[f].node
           old  == handles[f].position
           left == Len(heap[node].data) - old
           new  == old + (IF size <= left THEN size ELSE left)
<1>1. node \in DOMAIN heap /\ old \in Nat /\ old <= Len(heap[node].data)
  BY DEF IInv, HandleType, PositionWithinData, Read, Usable
<1>2. Len(heap[node].data) \in Nat /\ size \in Nat
  BY <1>1, BoundsAssumption DEF IInv, IsHeap
<1>3. new \in Nat /\ new <= Len(heap[node].data)
  <2> HIDE DEF node, old
  <2> QED
    BY <1>1, <1>2
<1>4. heap' = heap /\ handles' = [handles EXCEPT ![f].position = new]
  BY DEF Read
<1> HIDE DEF new, old
<1>5. HandleType'
  BY <1>3, <1>4 DEF IInv, HandleType
<1>6. PositionWithinData'
  <2> SUFFICES ASSUME NEW g \in Handles, handles'[g].node # Null
               PROVE  handles'[g].position <= Len(heap'[handles'[g].node].data)
    BY DEF PositionWithinData
  <2>1. CASE g = f
    BY <1>3, <1>4, <2>1 DEF IInv, HandleType
  <2>2. CASE g # f
    BY <1>4, <2>2 DEF IInv, HandleType, PositionWithinData
  <2> QED
    BY <2>1, <2>2
<1>7. Longer
  BY <1>4 DEF IInv, IsHeap, Longer
<1> QED
  BY <1>4, <1>5, <1>6, <1>7 DEF IInv

\* write into the data from a position that is not behind its end leaves no
\* byte unwritten and shortens nothing.
LEMMA WrittenMeaning ==
  ASSUME NEW data \in Seq(Bytes), NEW position \in 0..Len(data), NEW buffer \in Seq(Bytes)
  PROVE  LET w == Written(data, position, buffer) IN
         w \in Seq(Bytes) /\ Len(data) <= Len(w) /\ position + Len(buffer) <= Len(w)
<1> DEFINE need == position + Len(buffer)
           size == IF Len(data) < need THEN need ELSE Len(data)
           At(i) == IF position < i /\ i <= need THEN buffer[i - position]
                    ELSE IF i <= Len(data) THEN data[i] ELSE Zero
           w == [i \in 1..size |-> At(i)]
<1>1. w = Written(data, position, buffer)
  BY DEF Written
<1>2. size \in Nat /\ Len(data) <= size /\ need <= size
  OBVIOUS
<1>3. ASSUME NEW i \in 1..size PROVE At(i) \in Bytes
  <2>1. CASE position < i /\ i <= need
    <3>1. i - position \in 1..Len(buffer)
      BY <2>1
    <3> QED
      BY <2>1, <3>1
  <2>2. CASE ~(position < i /\ i <= need)
    <3>1. i \in 1..Len(data)
      BY <2>2
    <3> QED
      BY <2>2, <3>1
  <2> QED
    BY <2>1, <2>2
<1> HIDE DEF At, size
<1>4. w \in [1..size -> Bytes]
  BY <1>3
<1> HIDE DEF w
<1>5. w \in Seq(Bytes) /\ Len(w) = size
  BY <1>2, <1>4, FunctionIsSequence
<1> QED
  BY <1>1, <1>2, <1>5

\* write.
LEMMA WriteKeeps ==
  ASSUME IInv, NEW f \in Handles, NEW buffer \in Buffers, Write(f, buffer)
  PROVE  IInv' /\ Longer
<1> DEFINE node == handles[f].node
           old  == handles[f].position
           data == heap[node].data
           w    == Written(data, old, buffer)
<1>1. node \in DOMAIN heap /\ old \in Nat /\ old <= Len(data) /\ data \in Seq(Bytes)
  BY DEF IInv, IsHeap, HandleType, PositionWithinData, Write, Usable
<1>2. buffer \in Seq(Bytes) /\ Len(buffer) \in Nat
  BY BuffersAssumption
<1>3. w \in Seq(Bytes) /\ Len(data) <= Len(w) /\ old + Len(buffer) <= Len(w)
  <2>1. old \in 0..Len(data)
    BY <1>1
  <2> HIDE DEF data, old
  <2> QED
    BY <1>1, <1>2, <2>1, WrittenMeaning
<1>4. /\ heap' = [heap EXCEPT ![node].data = w]
      /\ handles' = [handles EXCEPT ![f].position = old + Len(buffer)]
  BY DEF Write
<1>5. Len(heap) \in Nat /\ DOMAIN heap = 1..Len(heap)
  BY DEF IInv, IsHeap
<1> HIDE DEF w
<1>6. DOMAIN heap' = 1..Len(heap) /\ Len(heap') = Len(heap)
  BY <1>4, <1>5
<1>7. /\ heap'[node].data = w /\ DOMAIN heap'[node] = Fields
      /\ \A n \in DOMAIN heap : n # node => heap'[n] = heap[n]
  BY <1>1, <1>4 DEF IInv, IsHeap, Fields
<1> HIDE DEF data
<1>8. IsHeap(heap')
  BY <1>3, <1>5, <1>6, <1>7 DEF IInv, IsHeap
<1>9. \A n \in DOMAIN heap : Len(heap[n].data) \in Nat /\ Len(heap[n].data) <= Len(heap'[n].data)
  <2> SUFFICES ASSUME NEW n \in DOMAIN heap
               PROVE  Len(heap[n].data) \in Nat /\ Len(heap[n].data) <= Len(heap'[n].data)
    OBVIOUS
  <2>1. Len(heap[n].data) \in Nat
    BY DEF IInv, IsHeap
  <2>2. CASE n = node
    BY <1>3, <1>7, <2>1, <2>2 DEF data
  <2>3. CASE n # node
    BY <1>7, <2>1, <2>3
  <2> QED
    BY <2>1, <2>2, <2>3
<1>10. Longer
  BY <1>5, <1>6, <1>9 DEF Longer
<1>11. HandleType'
  <2>1. old + Len(buffer) \in Nat
    BY <1>1, <1>2
  <2> HIDE DEF old
  <2> QED
    BY <1>4, <1>5, <1>6, <2>1 DEF IInv, HandleType
<1>12. PositionWithinData'
  <2> SUFFICES ASSUME NEW g \in Handles, handles'[g].node # Null
               PROVE  handles'[g].position <= Len(heap'[handles'[g].node].data)
    BY DEF PositionWithinData
  <2>1. CASE g = f
    <3>1. handles'[g].node = node /\ handles'[g].position = old + Len(buffer)
      BY <1>4, <2>1 DEF IInv, HandleType
    <3> QED
      BY <1>3, <1>7, <3>1
  <2>2. CASE g # f
    <3>1. handles'[g] = handles[g]
      BY <1>4, <2>2 DEF IInv, HandleType
    <3>2. handles[g].node \in DOMAIN heap /\ handles[g].position \in Nat
      BY <3>1 DEF IInv, HandleType
    <3>3. handles[g].position <= Len(heap[handles[g].node].data)
      BY <3>1 DEF IInv, PositionWithinData
    <3>4. /\ Len(heap'[handles[g].node].data) \in Nat
          /\ Len(heap[handles[g].node].data) <= Len(heap'[handles[g].node].data)
      BY <1>5, <1>6, <1>8, <1>9, <3>2 DEF IsHeap
    <3> QED
      BY <1>9, <3>1, <3>2, <3>3, <3>4
  <2> QED
    BY <2>1, <2>2
<1> QED
  BY <1>8, <1>10, <1>11, <1>12 DEF IInv

\* The destruction of a handle.
LEMMA DropKeeps ==
  ASSUME IInv, NEW f \in Handles, Drop(f)
  PROVE  IInv' /\ Longer
<1>1. heap' = heap /\ handles' = [handles EXCEPT ![f] = NoHandle]
  BY DEF Drop
<1>2. HandleType'
  BY <1>1 DEF IInv, HandleType, NoHandle
<1>3. PositionWithinData'
  BY <1>1 DEF IInv, HandleType, NoHandle, PositionWithinData
<1>4. Longer
  BY <1>1 DEF IInv, IsHeap, Longer
<1> QED
  BY <1>1, <1>2, <1>3, <1>4 DEF IInv

-----------------------------------------------------------------------------
(* The theorems about the bytes.                                           *)

\* The file system starts with an empty root directory and no open handle.
LEMMA InitIInv == Init => IInv
<1> SUFFICES ASSUME Init PROVE IInv
  OBVIOUS
<1>1. IsHeap(heap)
  <2> DEFINE root == [name |-> "/", path |-> <<Empty>>, isDirectory |-> TRUE,
                      data |-> <<>>, children |-> NoChildren]
  <2>1. DOMAIN root = Fields /\ root.data = <<>>
    BY DEF Fields
  <2>2. <<>> \in Seq(Bytes)
    OBVIOUS
  <2>3. heap = <<root>>
    BY DEF Init
  <2> HIDE DEF root
  <2>4. Len(heap) = 1 /\ DOMAIN heap = 1..1 /\ heap[1] = root
    BY <2>3
  <2>5. \A n \in DOMAIN heap : heap[n] = root
    BY <2>4
  <2>6. \A n \in DOMAIN heap : DOMAIN heap[n] = Fields /\ heap[n].data \in Seq(Bytes)
    BY <2>1, <2>2, <2>5, Zenon
  <2>7. Len(heap) \in Nat /\ DOMAIN heap = 1..Len(heap)
    BY <2>4
  <2> QED
    BY <2>6, <2>7, Zenon DEF IsHeap
<1>2. HandleType
  BY DEF Init, HandleType, NoHandle
<1>3. PositionWithinData
  BY DEF Init, PositionWithinData, NoHandle
<1> QED
  BY <1>1, <1>2, <1>3 DEF IInv

\* Every operation preserves the invariant, and none shortens a file.
LEMMA StepIInv == IInv /\ [Next]_vars => IInv' /\ Longer
<1> SUFFICES ASSUME IInv, [Next]_vars PROVE IInv' /\ Longer
  OBVIOUS
<1>1. ASSUME NEW p \in Paths, Mkdir(p) PROVE IInv' /\ Longer
  BY <1>1, PathsAssumption, MkdirKeeps
<1>2. ASSUME NEW p \in Paths, RemovePath(p) PROVE IInv' /\ Longer
  BY <1>2, PathsAssumption, RemoveKeeps
<1>3. ASSUME NEW p \in Paths, NEW q \in Paths, Rename(p, q) PROVE IInv' /\ Longer
  BY <1>3, PathsAssumption, RenameKeeps
<1>4. ASSUME NEW f \in Handles, NEW p \in Paths, NEW mode \in Modes, Open(f, p, mode)
      PROVE  IInv' /\ Longer
  BY <1>4, PathsAssumption, OpenKeeps
<1>5. ASSUME NEW f \in Handles, NEW size \in 1..MaxSize, Read(f, size) PROVE IInv' /\ Longer
  BY <1>5, ReadKeeps
<1>6. ASSUME NEW f \in Handles, NEW buffer \in Buffers, Write(f, buffer)
      PROVE  IInv' /\ Longer
  BY <1>6, WriteKeeps
<1>7. ASSUME NEW f \in Handles, Drop(f) PROVE IInv' /\ Longer
  BY <1>7, DropKeeps
<1>8. ASSUME UNCHANGED vars PROVE IInv' /\ Longer
  <2>1. Keeps(heap, heap') /\ UNCHANGED handles
    BY <1>8, KeepsItself DEF vars, IInv
  <2> QED
    BY <2>1, KeptIInv
<1>9. (\E f \in Handles : Close(f)) \/ Crashed => UNCHANGED vars
  BY DEF Close, Crashed
<1> QED
  BY <1>1, <1>2, <1>3, <1>4, <1>5, <1>6, <1>7, <1>8, <1>9 DEF Next

\* The nodes are well formed and no handle is behind the end of its file, always.
LEMMA Invariant == Spec => []IInv
<1>1. IInv /\ [Next]_vars => IInv'
  BY StepIInv
<1> QED
  BY InitIInv, <1>1, PTL DEF Spec

\* Whatever handles share a file and whatever happens to its entry meanwhile,
\* no handle stands behind the end of its file.
THEOREM PositionsStayWithin == Spec => []PositionWithinData
<1>1. IInv => PositionWithinData
  BY DEF IInv
<1> QED
  BY <1>1, Invariant, PTL

\* The zeros a resize fills with are never left in a file: every byte a read
\* returns was written.
THEOREM FilesHoldWrittenBytes == Spec => []NoUnwrittenByte
<1>1. IInv => NoUnwrittenByte
  BY DEF IInv, IsHeap, NoUnwrittenByte
<1> QED
  BY <1>1, Invariant, PTL

\* No operation shortens a file, opening it for Write included.
THEOREM FilesNeverShrink == Spec => DataNeverShrinks
<1>1. IInv /\ [Next]_vars =>
        [\A n \in DOMAIN heap : Len(heap[n].data) <= Len(heap'[n].data)]_vars
  BY StepIInv DEF Longer
<1> QED
  BY <1>1, Invariant, PTL DEF Spec, DataNeverShrinks

-----------------------------------------------------------------------------
(* The shape of the heap.                                                  *)

\* The nodes are typed; Null is none of them.
Typed(h) == h # <<>> /\ h \in Seq(Node(DOMAIN h))

\* What SingleLink says of the heap.
Single(h) ==
  \A m, n \in DOMAIN h : \A s, t \in Names :
    LET child == h[m].children[s] IN
    child # Null =>
      /\ child # Root /\ h[child].name = s
      /\ h[n].children[t] = child => m = n /\ s = t

\* No node is below itself, whether the root leads to it or not.
NoCycle(h) == \A n \in DOMAIN h : ~Cyclic(h, n)

\* The path of a node is that of the node that holds it, and its name.
PathsJoin(h) ==
  /\ h[Root].path = <<Empty>>
  /\ \A n \in DOMAIN h : h[n].path # <<>>
  /\ \A m \in DOMAIN h : \A s \in Names :
       LET child == h[m].children[s] IN
       child # Null => h[child].path = JoinPath(h[m].path, s)

Forest(h) == Typed(h) /\ Single(h) /\ NoCycle(h) /\ PathsJoin(h)

\* What is used of the nodes' types where only links matter.
Linking(h) ==
  /\ Null \notin DOMAIN h /\ Root \in DOMAIN h
  /\ \A n \in DOMAIN h : \A s \in Names : h[n].children[s] \in DOMAIN h \cup {Null}

\* A link of a typed heap is to a node of it, or to nothing.
LEMMA TypedLinking ==
  ASSUME NEW h, Typed(h)
  PROVE  /\ Linking(h)
         /\ Len(h) \in Nat \ {0} /\ DOMAIN h = 1..Len(h)
         /\ \A n \in DOMAIN h : h[n] \in Node(DOMAIN h)
<1>1. Len(h) \in Nat \ {0} /\ DOMAIN h = 1..Len(h)
  BY EmptySeq DEF Typed
<1>2. ASSUME NEW n \in DOMAIN h PROVE h[n] \in Node(DOMAIN h)
  BY DEF Typed
<1>3. \A n \in DOMAIN h : \A s \in Names : h[n].children[s] \in DOMAIN h \cup {Null}
  BY <1>2 DEF Node
<1> QED
  BY <1>1, <1>2, <1>3 DEF Linking, Null, Root

\* A node is held in one place, and by its name.
LEMMA OneHolder ==
  ASSUME NEW h, Single(h), NEW m \in DOMAIN h, NEW s \in Names, h[m].children[s] # Null
  PROVE  /\ h[m].children[s] # Root /\ h[h[m].children[s]].name = s
         /\ \A n \in DOMAIN h : \A t \in Names :
              h[n].children[t] = h[m].children[s] => m = n /\ s = t
  BY DEF Single

-----------------------------------------------------------------------------
(* What is below a node.                                                   *)

\* The node is in its subtree, and with a node all it holds.
LEMMA SubtreeClosed ==
  ASSUME NEW h, Linking(h), NEW n \in DOMAIN h
  PROVE  /\ n \in Subtree(h, n) /\ Subtree(h, n) \subseteq DOMAIN h
         /\ \A x \in Subtree(h, n) : \A s \in Names :
              h[x].children[s] # Null => h[x].children[s] \in Subtree(h, n)
<1>1. ASSUME NEW x \in Subtree(h, n), NEW s \in Names, h[x].children[s] # Null
      PROVE  h[x].children[s] \in Subtree(h, n)
  <2> DEFINE c == h[x].children[s]
  <2>1. x \in DOMAIN h /\ c \in DOMAIN h
    BY <1>1 DEF Subtree, Linking
  <2>2. ASSUME NEW S \in SUBSET DOMAIN h, n \in S, Closed(h, S) PROVE c \in S
    <3>1. x \in S
      BY <2>2 DEF Subtree
    <3> QED
      BY <1>1, <2>2, <3>1 DEF Closed
  <2> QED
    BY <2>1, <2>2 DEF Subtree
<1> QED
  BY <1>1 DEF Subtree

\* It is the smallest such set.
LEMMA SubtreeLeast ==
  ASSUME NEW h, NEW n, NEW S \in SUBSET DOMAIN h, n \in S,
         \A x \in S : \A s \in Names : h[x].children[s] # Null => h[x].children[s] \in S
  PROVE  Subtree(h, n) \subseteq S
  BY DEF Subtree, Closed

\* What is below a node below it is below it.
LEMMA SubtreeTransitive ==
  ASSUME NEW h, Linking(h), NEW n \in DOMAIN h, NEW m \in Subtree(h, n)
  PROVE  Subtree(h, m) \subseteq Subtree(h, n)
<1> DEFINE S == Subtree(h, n)
<1>1. /\ S \in SUBSET DOMAIN h /\ m \in S
      /\ \A x \in S : \A s \in Names : h[x].children[s] # Null => h[x].children[s] \in S
  BY SubtreeClosed
<1> HIDE DEF S
<1>2. Subtree(h, m) \subseteq S
  BY <1>1, SubtreeLeast
<1> QED
  BY <1>2 DEF S

\* But for the node itself, each is held by another of them.
LEMMA HeldBelow ==
  ASSUME NEW h, Linking(h), NEW n \in DOMAIN h, NEW x \in Subtree(h, n), x # n
  PROVE  \E y \in Subtree(h, n) : \E s \in Names : h[y].children[s] = x
<1> SUFFICES ASSUME \A y \in Subtree(h, n) : \A s \in Names : h[y].children[s] # x
             PROVE  FALSE
  OBVIOUS
<1> DEFINE S == Subtree(h, n) \ {x}
<1>1. S \in SUBSET DOMAIN h /\ n \in S
  BY SubtreeClosed
<1>2. \A y \in S : \A s \in Names : h[y].children[s] # Null => h[y].children[s] \in S
  BY SubtreeClosed
<1>3. Subtree(h, n) \subseteq S
  <2> HIDE DEF S
  <2> QED
    BY <1>1, <1>2, SubtreeLeast
<1> QED
  BY <1>3

-----------------------------------------------------------------------------
(* Links taken away, links to new nodes, and a link moved.                 *)

\* With fewer links there is no new way around.
LEMMA FewerLinksNoCycle ==
  ASSUME NEW h, Linking(h), NoCycle(h), NEW c, DOMAIN c = DOMAIN h, Linking(c),
         \A n \in DOMAIN h : \A s \in Names :
           c[n].children[s] # Null => c[n].children[s] = h[n].children[s]
  PROVE  NoCycle(c)
<1> SUFFICES ASSUME NEW n \in DOMAIN h, Cyclic(c, n)
             PROVE  FALSE
  BY DEF NoCycle
<1> DEFINE S == Subtree(h, n)
<1>1. /\ S \in SUBSET DOMAIN c /\ n \in S
      /\ \A x \in S : \A s \in Names : h[x].children[s] # Null => h[x].children[s] \in S
  BY SubtreeClosed
<1> HIDE DEF S
<1>2. \A x \in S : \A s \in Names : c[x].children[s] # Null => c[x].children[s] \in S
  BY <1>1
<1>3. Subtree(c, n) \subseteq S
  BY <1>1, <1>2, SubtreeLeast
<1>4. PICK x \in Subtree(c, n) : \E s \in Names : c[x].children[s] = n
  BY DEF Cyclic
<1>5. \E s \in Names : h[x].children[s] = n
  BY <1>1, <1>3, <1>4 DEF Linking
<1> QED
  BY <1>3, <1>4, <1>5 DEF S, NoCycle, Cyclic

\* Links to nodes made later lead nowhere back.
LEMMA LaterNodesNoCycle ==
  ASSUME NEW h, Linking(h), NoCycle(h), Len(h) \in Nat, DOMAIN h = 1..Len(h),
         NEW c, Linking(c), Len(c) \in Nat, DOMAIN c = 1..Len(c), Len(h) <= Len(c),
         \A n \in DOMAIN h : \A s \in Names :
           c[n].children[s] = h[n].children[s] \/ c[n].children[s] > Len(h),
         \A n \in DOMAIN c \ DOMAIN h : \A s \in Names :
           c[n].children[s] # Null => c[n].children[s] > n
  PROVE  NoCycle(c)
<1> SUFFICES ASSUME NEW n \in DOMAIN c, Cyclic(c, n)
             PROVE  FALSE
  BY DEF NoCycle
<1>1. PICK y \in Subtree(c, n), t \in Names : c[y].children[t] = n
  BY DEF Cyclic
<1>2. \A x \in DOMAIN c : \A s \in Names :
        c[x].children[s] # Null => c[x].children[s] \in DOMAIN c
  BY DEF Linking
<1>3. CASE n \notin DOMAIN h
  <2> DEFINE S == {x \in DOMAIN c : x >= n}
  <2>1. S \in SUBSET DOMAIN c /\ n \in S
    OBVIOUS
  <2>2. ASSUME NEW x \in S, NEW s \in Names, c[x].children[s] # Null
        PROVE  c[x].children[s] \in S /\ c[x].children[s] > n
    <3>1. x \in DOMAIN c \ DOMAIN h
      BY <1>3
    <3>2. c[x].children[s] > x /\ c[x].children[s] \in DOMAIN c
      BY <1>2, <2>2, <3>1
    <3> QED
      BY <3>2
  <2> HIDE DEF S
  <2>3. y \in S
    BY <2>1, <2>2, SubtreeLeast
  <2>4. n # Null /\ ~(n > n)
    BY DEF Linking
  <2> QED
    BY <1>1, <2>2, <2>3, <2>4
<1>4. CASE n \in DOMAIN h
  <2> DEFINE T == Subtree(h, n)
             S == T \cup (DOMAIN c \ DOMAIN h)
  <2>1. /\ T \in SUBSET DOMAIN h /\ n \in T
        /\ \A x \in T : \A s \in Names : h[x].children[s] # Null => h[x].children[s] \in T
    BY <1>4, SubtreeClosed
  <2> HIDE DEF T
  <2>2. S \in SUBSET DOMAIN c /\ n \in S
    BY <2>1
  <2>3. ASSUME NEW x \in S, NEW s \in Names, c[x].children[s] # Null
        PROVE  c[x].children[s] \in S
    <3>1. CASE x \in T
      <4>1. x \in DOMAIN h /\ x \in DOMAIN c
        BY <2>1, <3>1
      <4>2. c[x].children[s] \in DOMAIN c
        BY <1>2, <2>3, <4>1
      <4>3. CASE c[x].children[s] = h[x].children[s]
        BY <2>1, <2>3, <3>1, <4>3
      <4>4. CASE c[x].children[s] > Len(h)
        BY <4>2, <4>4
      <4> QED
        BY <4>1, <4>3, <4>4
    <3>2. CASE x \in DOMAIN c \ DOMAIN h
      <4>1. c[x].children[s] > x /\ c[x].children[s] \in DOMAIN c
        BY <1>2, <2>3, <3>2
      <4> QED
        BY <3>2, <4>1
    <3> QED
      BY <3>1, <3>2
  <2>4. y \in S
    <3> HIDE DEF S
    <3> QED
      BY <2>2, <2>3, SubtreeLeast
  <2>5. n # Null
    BY <1>4 DEF Linking
  <2>6. CASE y \in T
    <3>1. y \in DOMAIN h /\ h[y].children[t] = n
      BY <1>1, <1>4, <2>1, <2>6
    <3> QED
      BY <1>4, <2>6, <3>1 DEF NoCycle, Cyclic, T
  <2>7. CASE y \in DOMAIN c \ DOMAIN h
    <3>1. n > y
      BY <1>1, <2>5, <2>7
    <3> QED
      BY <1>4, <2>7, <3>1
  <2> QED
    BY <2>4, <2>6, <2>7
<1> QED
  BY <1>3, <1>4

\* A node linked anew: if it is not below itself, no other node has become so.
LEMMA MovedLinkNoCycle ==
  ASSUME NEW h, Linking(h), NoCycle(h), NEW c, DOMAIN c = DOMAIN h, Linking(c),
         NEW node \in DOMAIN h, ~Cyclic(c, node),
         \A n \in DOMAIN h : \A s \in Names :
           \/ c[n].children[s] \in {Null, node}
           \/ c[n].children[s] = h[n].children[s]
  PROVE  NoCycle(c)
<1> SUFFICES ASSUME NEW n \in DOMAIN h, Cyclic(c, n)
             PROVE  FALSE
  BY DEF NoCycle
<1>1. PICK y \in Subtree(c, n), t \in Names : c[y].children[t] = n
  BY DEF Cyclic
<1>2. n # Null /\ y \in DOMAIN h
  BY SubtreeClosed DEF Linking
<1>3. CASE n \in Subtree(c, node) /\ node \in Subtree(c, n)
  <2>1. n # node
    OBVIOUS
  <2>2. PICK x \in Subtree(c, n) : \E s \in Names : c[x].children[s] = node
    BY <1>3, <2>1, HeldBelow
  <2>3. x \in Subtree(c, node)
    BY <1>3, SubtreeTransitive
  <2> QED
    BY <2>2, <2>3 DEF Cyclic
<1>4. CASE ~(n \in Subtree(c, node) /\ node \in Subtree(c, n))
  <2> DEFINE S == {x \in Subtree(c, n) : n \in Subtree(c, x) => x \in Subtree(h, n)}
  <2>1. S \in SUBSET DOMAIN c /\ n \in S
    BY SubtreeClosed
  <2>2. ASSUME NEW x \in S, NEW s \in Names, c[x].children[s] # Null
        PROVE  c[x].children[s] \in S
    <3> DEFINE d == c[x].children[s]
    <3>1. x \in DOMAIN h /\ d \in DOMAIN h /\ d \in Subtree(c, n) /\ d \in Subtree(c, x)
      BY <2>1, <2>2, SubtreeClosed DEF Linking
    <3>2. ASSUME n \in Subtree(c, d) PROVE d \in Subtree(h, n)
      <4>1. n \in Subtree(c, x)
        BY <3>1, <3>2, SubtreeTransitive
      <4>2. x \in Subtree(h, n)
        BY <4>1
      <4>3. d # node
        BY <1>4, <3>1, <3>2
      <4>4. d = h[x].children[s]
        BY <2>2, <3>1, <4>3
      <4> QED
        BY <2>2, <4>2, <4>4, SubtreeClosed
    <3> QED
      BY <3>1, <3>2
  <2> HIDE DEF S
  <2>3. Subtree(c, n) \subseteq S
    BY <2>1, <2>2, SubtreeLeast
  <2> USE DEF S
  <2>4. n \in Subtree(c, y)
    <3>1. n \in Subtree(c, n) /\ y \in DOMAIN c
      BY <1>2, SubtreeClosed
    <3> QED
      BY <1>1, <1>2, <3>1, SubtreeClosed
  <2>5. y \in Subtree(h, n)
    BY <2>3, <2>4
  <2>6. n # node
    OBVIOUS
  <2>7. h[y].children[t] = n
    BY <1>1, <1>2, <2>6
  <2> QED
    BY <2>5, <2>7 DEF NoCycle, Cyclic
<1> QED
  BY <1>3, <1>4

-----------------------------------------------------------------------------
(* Walks.                                                                  *)

\* A set of numbers has a smallest one.
LEMMA SmallestNumber ==
  ASSUME NEW T \in SUBSET Nat, T # {}
  PROVE  \E x \in T : \A y \in T : x <= y
<1> DEFINE R == OpToRel(<, Nat)
<1>1. IsWellFoundedOn(R, Nat)
  BY NatLessThanWellFounded, Zenon
<1>2. \A x, y \in Nat : y < x => <<y, x>> \in R
  BY DEF OpToRel
<1> HIDE DEF R
<1>3. PICK x \in T : \A y \in T : ~(<<y, x>> \in R)
  BY <1>1, WFMin
<1>4. ASSUME NEW y \in T PROVE x <= y
  <2>1. x \in Nat /\ y \in Nat /\ ~(y < x)
    BY <1>2, <1>3, <1>4
  <2> QED
    BY <2>1
<1> QED
  BY <1>3, <1>4

\* As many numbers as are in a set of them that leaves none out.
LEMMA InitialNumbers ==
  ASSUME NEW n \in Nat, NEW S \in SUBSET (1..n), \A i \in S : \A j \in 1..i : j \in S
  PROVE  Cardinality(S) \in 0..n /\ S = 1..Cardinality(S)
<1> DEFINE T == (1..n) \ S
<1>1. PICK m \in 0..n : S = 1..m
  <2>1. CASE T = {}
    <3>1. \A i \in 1..n : i \in S
      BY <2>1
    <3>2. S = 1..n
      BY <3>1, Zenon
    <3>3. n \in 0..n
      OBVIOUS
    <3> QED
      BY <3>2, <3>3, Zenon
  <2>2. CASE T # {}
    <3>1. T \in SUBSET Nat
      OBVIOUS
    <3>2. PICK x \in T : \A y \in T : x <= y
      <4> HIDE DEF T
      <4> QED
        BY <2>2, <3>1, SmallestNumber
    <3>3. x \in 1..n /\ x \notin S
      BY <3>2
    <3>4. ASSUME NEW i \in 1..n PROVE i \in S <=> i \in 1..(x - 1)
      <4>1. CASE i < x
        <5>1. i \notin T /\ i \in 1..(x - 1)
          BY <3>2, <3>3, <4>1
        <5> QED
          BY <5>1
      <4>2. CASE ~(i < x)
        <5>1. x \in 1..i /\ i \notin 1..(x - 1)
          BY <3>3, <4>2
        <5> QED
          BY <3>3, <5>1
      <4> QED
        BY <4>1, <4>2
    <3>5. x - 1 \in 0..n /\ 1..(x - 1) \subseteq 1..n
      BY <3>3
    <3>6. S = 1..(x - 1)
      BY <3>4, <3>5
    <3> QED
      BY <3>5, <3>6
  <2> QED
    BY <2>1, <2>2
<1>2. m \in Int /\ 1 \in Int
  OBVIOUS
<1>3. Cardinality(1..m) = IF 1 > m THEN 0 ELSE m - 1 + 1
  BY <1>2, FS_Interval
<1>4. Cardinality(1..m) = m
  BY <1>3
<1> QED
  BY <1>1, <1>4

\* Values for a start and for n steps after it.
Follows(f, V, v, n, G) ==
  f \in [0..n -> V] /\ f[0] = v /\ \A i \in 1..n : f[i] = G[i][f[i - 1]]

\* There are such values wherever each step has one.
LEMMA StepByStep ==
  ASSUME NEW V, NEW v \in V, NEW n \in Nat, NEW G \in [1..n -> [V -> V]]
  PROVE  \E f : Follows(f, V, v, n, G)
<1> DEFINE Has(m) == \E f \in [0..m -> V] : f[0] = v /\ \A i \in 1..m : f[i] = G[i][f[i - 1]]
           T == {m \in 0..n : ~Has(m)}
<1>1. Has(0)
  <2> DEFINE g == [i \in 0..0 |-> v]
  <2>1. g \in [0..0 -> V] /\ g[0] = v
    OBVIOUS
  <2>2. \A i \in 1..0 : FALSE
    OBVIOUS
  <2> HIDE DEF g
  <2> QED
    BY <2>1, <2>2
<1>2. ASSUME NEW m \in 1..n, Has(m - 1) PROVE Has(m)
  <2>1. m \in Nat /\ m - 1 \in Nat /\ m > 0 /\ m \notin 0..(m - 1) /\ m - 1 \in 0..(m - 1)
    OBVIOUS
  <2>2. PICK f \in [0..(m - 1) -> V] : f[0] = v /\ \A i \in 1..(m - 1) : f[i] = G[i][f[i - 1]]
    BY <1>2
  <2>3. G[m][f[m - 1]] \in V
    BY <2>1
  <2> DEFINE g == [i \in 0..m |-> IF i = m THEN G[m][f[m - 1]] ELSE f[i]]
  <2>4. \A i \in 0..m : i # m => i \in 0..(m - 1)
    BY <2>1
  <2>5. g \in [0..m -> V]
    BY <2>3, <2>4
  <2>6. /\ \A i \in 0..(m - 1) : g[i] = f[i]
        /\ g[m] = G[m][f[m - 1]]
    BY <2>1
  <2> HIDE DEF g
  <2>7. g[0] = v
    BY <2>1, <2>2, <2>6
  <2>8. ASSUME NEW i \in 1..m PROVE g[i] = G[i][g[i - 1]]
    <3>1. i - 1 \in 0..(m - 1) /\ (i # m => i \in 1..(m - 1) /\ i \in 0..(m - 1))
      BY <2>1
    <3>2. g[i - 1] = f[i - 1]
      BY <2>6, <3>1
    <3>3. CASE i = m
      BY <2>6, <3>2, <3>3
    <3>4. CASE i # m
      BY <2>2, <2>6, <3>1, <3>2, <3>4
    <3> QED
      BY <3>3, <3>4
  <2> QED
    BY <2>5, <2>7, <2>8
<1> HIDE DEF Has
<1>3. T = {}
  <2> SUFFICES ASSUME T # {} PROVE FALSE
    OBVIOUS
  <2>1. T \in SUBSET Nat
    OBVIOUS
  <2>2. PICK x \in T : \A y \in T : x <= y
    <3> HIDE DEF T
    <3> QED
      BY <2>1, SmallestNumber
  <2>3. x # 0 /\ x \in 1..n
    BY <1>1
  <2>4. x - 1 \in 0..n /\ ~(x <= x - 1)
    BY <2>3
  <2>5. Has(x - 1)
    BY <2>2, <2>4
  <2> QED
    BY <1>2, <2>3, <2>5
<1>4. Has(n)
  BY <1>3
<1> QED
  BY <1>4 DEF Has, Follows

\* A lookup starts at the root, and each segment leads to what the node before
\* holds under it, or to nothing.
LEMMA WalkMeaning ==
  ASSUME NEW h, Linking(h), NEW s \in Seq(Names)
  PROVE  /\ Len(s) \in Nat
         /\ Walk(h, s) \in [0..Len(s) -> DOMAIN h \cup {Null}]
         /\ Walk(h, s)[0] = Root
         /\ \A i \in 1..Len(s) :
              Walk(h, s)[i] = IF Walk(h, s)[i - 1] = Null THEN Null
                              ELSE h[Walk(h, s)[i - 1]].children[s[i]]
<1> DEFINE V == DOMAIN h \cup {Null}
           n == Len(s)
           Step(i, x) == IF x = Null THEN Null ELSE h[x].children[s[i]]
           G == [i \in 1..n |-> [x \in V |-> Step(i, x)]]
<1>1. n \in Nat
  OBVIOUS
<1>2. Root \in V
  BY DEF Linking
<1>3. \A i \in 1..n : \A x \in V : Step(i, x) \in V
  BY DEF Linking
<1>4. \A i \in 1..n : \A x \in V : G[i][x] = Step(i, x)
  OBVIOUS
<1>5. G \in [1..n -> [V -> V]]
  <2> HIDE DEF Step, V, n
  <2> QED
    BY <1>3
<1> HIDE DEF G
<1>6. PICK f \in [0..n -> V] : f[0] = Root /\ \A i \in 1..n : f[i] = G[i][f[i - 1]]
  <2> HIDE DEF V, n, Step
  <2>1. \E f : Follows(f, V, Root, n, G)
    BY <1>1, <1>2, <1>5, StepByStep
  <2> QED
    BY <2>1 DEF Follows
<1> DEFINE Rec(w) == w = [i \in 0..Len(s) |->
                            IF i = 0 THEN Root
                            ELSE IF w[i - 1] = Null THEN Null
                            ELSE h[w[i - 1]].children[s[i]]]
<1>7. \A i \in 1..n : f[i] = Step(i, f[i - 1])
  <2>1. \A i \in 1..n : i - 1 \in 0..n
    BY <1>1
  <2>2. \A i \in 1..n : f[i - 1] \in V
    BY <2>1
  <2> HIDE DEF Step, V, n
  <2> QED
    BY <1>4, <1>6, <2>2
<1>8. Rec(f)
  <2>1. \A i \in 0..n : i # 0 => i \in 1..n
    BY <1>1
  <2>2. \A i \in 0..n : f[i] = IF i = 0 THEN Root ELSE Step(i, f[i - 1])
    BY <1>6, <1>7, <2>1
  <2>3. f = [i \in 0..n |-> f[i]]
    OBVIOUS
  <2>4. f = [i \in 0..n |-> IF i = 0 THEN Root ELSE Step(i, f[i - 1])]
    <3> HIDE DEF n, Step
    <3> QED
      BY <2>2, <2>3
  <2> QED
    BY <2>4, Zenon
<1> DEFINE w == CHOOSE x : Rec(x)
<1>9. Rec(w)
  <2> HIDE DEF Rec
  <2> QED
    BY <1>8
<1>10. w = Walk(h, s)
  BY DEF Walk
<1> HIDE DEF w
<1>11. /\ DOMAIN w = 0..n
       /\ w[0] = Root
       /\ \A i \in 1..n : w[i] = Step(i, w[i - 1])
  <2>1. \A i \in 1..n : i \in 0..n /\ i # 0
    BY <1>1
  <2>2. 0 \in 0..n
    BY <1>1
  <2>3. w = [i \in 0..n |-> IF i = 0 THEN Root ELSE Step(i, w[i - 1])]
    BY <1>9, Zenon
  <2> HIDE DEF Step, n
  <2>4. DOMAIN w = 0..n /\ \A i \in 0..n : w[i] = IF i = 0 THEN Root ELSE Step(i, w[i - 1])
    BY <2>3
  <2> QED
    BY <2>1, <2>2, <2>4
<1>12. \A i \in 0..n : w[i] \in V
  <2> DEFINE T == {i \in 0..n : w[i] \notin V}
  <2> SUFFICES ASSUME T # {} PROVE FALSE
    OBVIOUS
  <2>1. T \in SUBSET Nat
    BY <1>1
  <2>2. PICK x \in T : \A y \in T : x <= y
    <3> HIDE DEF T
    <3> QED
      BY <2>1, SmallestNumber
  <2>3. x \in 1..n /\ w[x] \notin V
    BY <1>1, <1>2, <1>11
  <2>4. x - 1 \in 0..n /\ ~(x <= x - 1)
    BY <1>1, <2>3
  <2>5. w[x - 1] \in V
    BY <2>2, <2>4
  <2> HIDE DEF Step, V, n
  <2> QED
    BY <1>3, <1>11, <2>3, <2>5
<1>13. w \in [0..n -> V]
  <2>1. w = [i \in 0..n |-> w[i]]
    BY <1>9
  <2> HIDE DEF n, V
  <2> QED
    BY <1>12, <2>1
<1> QED
  BY <1>1, <1>10, <1>11, <1>13

\* Behind a segment that leads nowhere no other leads anywhere.
LEMMA NowhereStays ==
  ASSUME NEW h, Linking(h), NEW s \in Seq(Names), NEW i \in 0..Len(s), NEW j \in 0..i,
         Walk(h, s)[i] # Null
  PROVE  Walk(h, s)[j] # Null
<1> SUFFICES ASSUME Walk(h, s)[j] = Null PROVE FALSE
  OBVIOUS
<1> DEFINE w == Walk(h, s)
           n == Len(s)
           T == {m \in j..n : w[m] # Null}
<1>1. n \in Nat /\ \A m \in 1..n : w[m - 1] = Null => w[m] = Null
  BY WalkMeaning
<1>2. w[j] = Null /\ w[i] # Null
  OBVIOUS
<1> HIDE DEF w
<1>3. T \in SUBSET Nat /\ T # {}
  BY <1>1, <1>2
<1>4. PICK x \in T : \A y \in T : x <= y
  <2> HIDE DEF T
  <2> QED
    BY <1>3, SmallestNumber
<1>5. x # j /\ x \in j..n /\ w[x] # Null
  BY <1>2
<1>6. x - 1 \in j..n /\ x \in 1..n /\ ~(x <= x - 1)
  BY <1>1, <1>5
<1>7. w[x - 1] = Null
  BY <1>4, <1>6
<1> QED
  BY <1>1, <1>5, <1>6, <1>7

\* Two walks to one node are one walk: a node is in one place.
LEMMA OneLocation ==
  ASSUME NEW h, Linking(h), Single(h), NEW s \in Seq(Names), NEW t \in Seq(Names),
         NEW i \in 0..Len(s), NEW j \in 0..Len(t),
         Walk(h, s)[i] # Null, Walk(h, s)[i] = Walk(h, t)[j]
  PROVE  i = j /\ \A k \in 1..i : s[k] = t[k]
<1> DEFINE v == Walk(h, s)
           w == Walk(h, t)
           m == Len(s)
           n == Len(t)
           Meet(a, b) == v[a] # Null /\ v[a] = w[b]
           Same(a, b) == a = b /\ \A k \in 1..a : s[k] = t[k]
           T == {a \in 0..m : \E b \in 0..n : Meet(a, b) /\ ~Same(a, b)}
<1>1. m \in Nat /\ n \in Nat
  OBVIOUS
<1>2. /\ v \in [0..m -> DOMAIN h \cup {Null}]
      /\ v[0] = Root
      /\ \A a \in 1..m : v[a] = IF v[a - 1] = Null THEN Null ELSE h[v[a - 1]].children[s[a]]
  BY WalkMeaning
<1>3. /\ w \in [0..n -> DOMAIN h \cup {Null}]
      /\ w[0] = Root
      /\ \A b \in 1..n : w[b] = IF w[b - 1] = Null THEN Null ELSE h[w[b - 1]].children[t[b]]
  BY WalkMeaning
<1>4. /\ \A a \in 1..m : s[a] \in Names
      /\ \A b \in 1..n : t[b] \in Names
  OBVIOUS
<1> HIDE DEF v, w
<1>5. ASSUME NEW a \in 1..m, v[a] # Null
      PROVE  /\ v[a - 1] \in DOMAIN h /\ v[a - 1] # Null
             /\ v[a] = h[v[a - 1]].children[s[a]] /\ v[a] # Root
  <2>1. a - 1 \in 0..m
    BY <1>1
  <2>2. v[a - 1] # Null /\ v[a - 1] \in DOMAIN h /\ v[a] = h[v[a - 1]].children[s[a]]
    BY <1>2, <1>5, <2>1
  <2> QED
    BY <1>4, <1>5, <2>2 DEF Single
<1>6. ASSUME NEW b \in 1..n, w[b] # Null
      PROVE  /\ w[b - 1] \in DOMAIN h /\ w[b - 1] # Null
             /\ w[b] = h[w[b - 1]].children[t[b]] /\ w[b] # Root
  <2>1. b - 1 \in 0..n
    BY <1>1
  <2>2. w[b - 1] # Null /\ w[b - 1] \in DOMAIN h /\ w[b] = h[w[b - 1]].children[t[b]]
    BY <1>3, <1>6, <2>1
  <2> QED
    BY <1>4, <1>6, <2>2 DEF Single
<1>7. T = {}
  <2> SUFFICES ASSUME T # {} PROVE FALSE
    OBVIOUS
  <2>1. T \in SUBSET Nat
    BY <1>1
  <2>2. PICK a \in T : \A y \in T : a <= y
    <3> HIDE DEF T
    <3> QED
      BY <2>1, SmallestNumber
  <2>3. PICK b \in 0..n : Meet(a, b) /\ ~Same(a, b)
    BY <2>2
  <2>4. a \in 0..m
    BY <2>2
  <2>5. CASE a = 0
    <3>1. w[b] = Root /\ w[b] # Null /\ (b # 0 => b \in 1..n)
      BY <1>1, <1>2, <2>3, <2>5
    <3>2. b = 0
      BY <1>6, <3>1
    <3>3. Same(a, b)
      BY <2>5, <3>2
    <3> QED
      BY <2>3, <3>3
  <2>6. CASE a # 0
    <3>1. a \in 1..m /\ v[a] # Null
      BY <1>1, <2>3, <2>4, <2>6
    <3>2. b \in 1..n
      <4>1. v[a] # Root /\ v[a] = w[b]
        BY <1>5, <2>3, <3>1
      <4>2. b # 0
        BY <1>3, <4>1
      <4> QED
        BY <1>1, <4>2
    <3>3. w[b] # Null /\ v[a] = w[b]
      BY <2>3
    <3>4. v[a - 1] = w[b - 1] /\ s[a] = t[b] /\ v[a - 1] # Null
      <4>1. /\ v[a - 1] \in DOMAIN h /\ v[a - 1] # Null
            /\ v[a] = h[v[a - 1]].children[s[a]]
        BY <1>5, <3>1
      <4>2. w[b - 1] \in DOMAIN h /\ w[b] = h[w[b - 1]].children[t[b]]
        BY <1>6, <3>2, <3>3
      <4>3. s[a] \in Names /\ t[b] \in Names
        BY <1>4, <3>1, <3>2
      <4>4. h[v[a - 1]].children[s[a]] # Null
        BY <3>1, <4>1
      <4>5. h[w[b - 1]].children[t[b]] = h[v[a - 1]].children[s[a]]
        BY <3>3, <4>1, <4>2
      <4> HIDE DEF T
      <4> QED
        BY <4>1, <4>2, <4>3, <4>4, <4>5, OneHolder
    <3>5. a - 1 \in 0..m /\ b - 1 \in 0..n /\ ~(a <= a - 1)
      <4> HIDE DEF T, m, n
      <4>1. a \in 1..m /\ b \in 1..n
        BY <3>1, <3>2
      <4> QED
        BY <1>1, <4>1
    <3>6. Meet(a - 1, b - 1)
      BY <3>4
    <3>7. Same(a - 1, b - 1)
      <4> HIDE DEF Meet, Same
      <4> QED
        BY <2>2, <3>5, <3>6
    <3>8. a = b /\ \A k \in 1..a : k # a => k \in 1..(a - 1)
      BY <1>1, <3>1, <3>2, <3>7
    <3>9. Same(a, b)
      BY <3>4, <3>7, <3>8
    <3> QED
      BY <2>3, <3>9
  <2> QED
    BY <2>5, <2>6
<1>8. Meet(i, j)
  BY DEF v, w
<1>9. Same(i, j)
  <2> HIDE DEF Meet, Same
  <2> QED
    BY <1>7, <1>8
<1> QED
  BY <1>9

\* Those that lead to nodes come first, so createPath starts at a node, and
\* that holds nothing under the first segment to be made.
LEMMA ExistingMeaning ==
  ASSUME NEW h, Linking(h), NEW s \in Seq(Names)
  PROVE  /\ Existing(h, s) \in 0..Len(s)
         /\ Walk(h, s)[Existing(h, s)] \in DOMAIN h
         /\ Existing(h, s) < Len(s) => Walk(h, s)[Existing(h, s) + 1] = Null
<1> DEFINE n == Len(s)
           w == Walk(h, s)
           found == {i \in 1..n : w[i] # Null}
<1>1. n \in Nat /\ w \in [0..n -> DOMAIN h \cup {Null}] /\ w[0] # Null
  BY WalkMeaning DEF Root, Null
<1>2. Existing(h, s) = Cardinality(found)
  BY DEF Existing
<1>3. \A i \in 1..n : \A j \in 1..i : w[i] # Null => w[j] # Null
  <2>1. \A i \in 1..n : i \in 0..n /\ \A j \in 1..i : j \in 0..i
    BY <1>1
  <2> QED
    BY <2>1, NowhereStays
<1> HIDE DEF w
<1>4. Cardinality(found) \in 0..n /\ found = 1..Cardinality(found)
  <2>1. found \in SUBSET (1..n) /\ \A i \in found : \A j \in 1..i : j \in found
    BY <1>1, <1>3
  <2> HIDE DEF found, n
  <2> QED
    BY <1>1, <2>1, InitialNumbers
<1>5. PICK m \in 0..n : m = Cardinality(found) /\ found = 1..m
  BY <1>4
<1>6. Existing(h, s) = m
  BY <1>2, <1>5
<1>7. w[m] # Null
  <2>1. m # 0 => m \in found
    BY <1>1, <1>5
  <2> QED
    BY <1>1, <2>1
<1>8. m < n => w[m + 1] = Null
  <2>1. m < n => m + 1 \in 1..n /\ m + 1 \notin 1..m
    BY <1>1
  <2> QED
    BY <1>5, <2>1
<1> QED
  BY <1>1, <1>6, <1>7, <1>8 DEF w

-----------------------------------------------------------------------------
(* createPath.                                                             *)

\* Joining makes a path.
LEMMA JoinPathType ==
  ASSUME NEW parent \in Seq(Names), parent # <<>>, NEW s \in Names
  PROVE  JoinPath(parent, s) \in Seq(Names) /\ JoinPath(parent, s) # <<>>
<1>1. Front(parent) \in Seq(Names)
  BY DEF Front
<1>2. \A q \in Seq(Names) : Append(q, s) \in Seq(Names) /\ Append(q, s) # <<>>
  BY AppendProperties
<1> QED
  BY <1>1, <1>2 DEF JoinPath

\* The paths of the nodes made, each joined to the one before.
LEMMA NewPathsMeaning ==
  ASSUME NEW h, NEW base, h[base].path \in Seq(Names), h[base].path # <<>>,
         NEW missing \in Seq(Names)
  PROVE  /\ NewPaths(h, base, missing) \in [0..Len(missing) -> Seq(Names) \ {<<>>}]
         /\ NewPaths(h, base, missing)[0] = h[base].path
         /\ \A i \in 1..Len(missing) :
              NewPaths(h, base, missing)[i]
                = JoinPath(NewPaths(h, base, missing)[i - 1], missing[i])
<1> DEFINE V == Seq(Names) \ {<<>>}
           n == Len(missing)
           start == h[base].path
           G == [i \in 1..n |-> [x \in V |-> JoinPath(x, missing[i])]]
           Rec(w) == w = [i \in 0..Len(missing) |->
                            IF i = 0 THEN h[base].path ELSE JoinPath(w[i - 1], missing[i])]
<1>1. n \in Nat /\ start \in V /\ \A i \in 1..n : missing[i] \in Names
  OBVIOUS
<1>2. \A i \in 1..n : \A x \in V : JoinPath(x, missing[i]) \in V
  BY <1>1, JoinPathType
<1>3. G \in [1..n -> [V -> V]] /\ \A i \in 1..n : \A x \in V : G[i][x] = JoinPath(x, missing[i])
  <2> HIDE DEF V, n
  <2> QED
    BY <1>2
<1> HIDE DEF G
<1>4. PICK f \in [0..n -> V] : f[0] = start /\ \A i \in 1..n : f[i] = G[i][f[i - 1]]
  <2> HIDE DEF V, n, start, Rec
  <2>1. \E f : Follows(f, V, start, n, G)
    BY <1>1, <1>3, StepByStep
  <2> QED
    BY <2>1 DEF Follows
<1>5. \A i \in 1..n : i - 1 \in 0..n /\ i \in 0..n /\ i # 0
  BY <1>1
<1>6. \A i \in 1..n : f[i] = JoinPath(f[i - 1], missing[i])
  <2>1. \A i \in 1..n : f[i - 1] \in V
    BY <1>5
  <2> HIDE DEF V, n
  <2> QED
    BY <1>3, <1>4, <2>1
<1>7. Rec(f)
  <2>1. \A i \in 0..n : i # 0 => i \in 1..n
    BY <1>1
  <2>2. \A i \in 0..n : f[i] = IF i = 0 THEN start ELSE JoinPath(f[i - 1], missing[i])
    BY <1>4, <1>6, <2>1
  <2>3. f = [i \in 0..n |-> f[i]]
    OBVIOUS
  <2>4. f = [i \in 0..n |-> IF i = 0 THEN start ELSE JoinPath(f[i - 1], missing[i])]
    <3> HIDE DEF n, start
    <3> QED
      BY <2>2, <2>3
  <2> QED
    BY <2>4
<1> DEFINE w == CHOOSE x : Rec(x)
<1>8. Rec(w)
  <2> HIDE DEF Rec
  <2> QED
    BY <1>7
<1>9. w = NewPaths(h, base, missing)
  BY DEF NewPaths
<1> HIDE DEF w
<1>10. /\ w = [i \in 0..n |-> w[i]]
       /\ w[0] = start
       /\ \A i \in 1..n : w[i] = JoinPath(w[i - 1], missing[i])
  <2>1. 0 \in 0..n
    BY <1>1
  <2>2. w = [i \in 0..n |-> IF i = 0 THEN start ELSE JoinPath(w[i - 1], missing[i])]
    BY <1>8
  <2> HIDE DEF n, start
  <2> QED
    BY <1>5, <2>1, <2>2
<1>11. \A i \in 0..n : w[i] \in V
  <2> DEFINE T == {i \in 0..n : w[i] \notin V}
  <2> SUFFICES ASSUME T # {} PROVE FALSE
    OBVIOUS
  <2>1. T \in SUBSET Nat
    BY <1>1
  <2>2. PICK x \in T : \A y \in T : x <= y
    <3> HIDE DEF T
    <3> QED
      BY <2>1, SmallestNumber
  <2>3. x \in 1..n /\ w[x] \notin V
    BY <1>1, <1>10
  <2>4. x - 1 \in 0..n /\ ~(x <= x - 1)
    BY <1>1, <2>3
  <2>5. w[x - 1] \in V
    BY <2>2, <2>4
  <2> HIDE DEF V, n, start
  <2> QED
    BY <1>2, <1>10, <2>3, <2>5
<1>12. w \in [0..n -> V]
  <2> HIDE DEF n, V
  <2> QED
    BY <1>10, <1>11
<1> QED
  BY <1>9, <1>10, <1>12

\* What createPath makes of h below base: a chain of nodes, one for each missing
\* segment.
Grown(h, c, base, missing) ==
  LET size == Len(h)
      made == Len(missing)
  IN /\ Len(c) = size + made /\ DOMAIN c = 1..(size + made)
     /\ made > 0 => h[base].children[missing[1]] = Null
     /\ \A n \in DOMAIN h :
          /\ c[n] \in Node(DOMAIN c) /\ c[n].name = h[n].name /\ c[n].path = h[n].path
          /\ \A s \in Names :
               c[n].children[s] = IF n = base /\ made > 0 /\ s = missing[1] THEN size + 1
                                  ELSE h[n].children[s]
     /\ \A i \in 1..made :
          /\ c[size + i] \in Node(DOMAIN c) /\ c[size + i].name = missing[i]
          /\ c[size + i].path = NewPaths(h, base, missing)[i]
          /\ \A s \in Names :
               c[size + i].children[s] = IF i < made /\ s = missing[i + 1] THEN size + i + 1
                                         ELSE Null

\* A node of a smaller heap is one of a larger.
LEMMA NodeGrows ==
  ASSUME NEW A, NEW B, A \subseteq B, NEW node \in Node(A)
  PROVE  node \in Node(B)
  BY DEF Node

\* A node with one link changed.
LEMMA NodeLinked ==
  ASSUME NEW A, NEW node \in Node(A), NEW s \in Names, NEW c \in A \cup {Null},
         NEW new, new = [node EXCEPT !.children[s] = c]
  PROVE  /\ new \in Node(A) /\ new.name = node.name /\ new.path = node.path
         /\ new.isDirectory = node.isDirectory /\ new.data = node.data
         /\ \A t \in Names : new.children[t] = IF t = s THEN c ELSE node.children[t]
  BY DEF Node

\* The last node that a path leads to, and the segments it has none for.
Base(h, p) == Walk(h, Components(p))[Existing(h, Components(p))]
Missing(h, p) == SubSeq(Components(p), Existing(h, Components(p)) + 1, Len(Components(p)))

\* createPath grows the heap below the last node that its path leads to.
LEMMA CreatePathGrows ==
  ASSUME NEW h, Typed(h), NEW p \in Seq(Names), NEW asDirectory \in BOOLEAN,
         \A n \in DOMAIN h : h[n].path # <<>>
  PROVE  /\ Base(h, p) \in DOMAIN h /\ Missing(h, p) \in Seq(Names)
         /\ Grown(h, CreatePath(h, p, asDirectory), Base(h, p), Missing(h, p))
<1> DEFINE s       == Components(p)
           last    == s = p
           k       == Existing(h, s)
           base    == Walk(h, s)[k]
           missing == SubSeq(s, k + 1, Len(s))
           made    == Len(missing)
           size    == Len(h)
           New(i)  ==
             [name |-> missing[i], path |-> NewPaths(h, base, missing)[i],
              isDirectory |-> i < made \/ ~last \/ asDirectory,
              data |-> <<>>, children |-> NewChildren(h, missing, i)]
           Edited  ==
             IF made > 0 THEN [h[base] EXCEPT !.children[missing[1]] = Len(h) + 1]
             ELSE [h[base] EXCEPT !.isDirectory = @ \/ (last /\ asDirectory)]
           Created(n) ==
             IF n > Len(h) THEN New(n - Len(h)) ELSE IF n = base THEN Edited ELSE h[n]
           c == [n \in 1..(Len(h) + made) |-> Created(n)]
<1>1. c = CreatePath(h, p, asDirectory)
  BY DEF CreatePath
<1>2. /\ Linking(h) /\ size \in Nat \ {0} /\ DOMAIN h = 1..size
      /\ \A n \in DOMAIN h : h[n] \in Node(DOMAIN h)
  BY TypedLinking
<1>3. s \in Seq(Names) /\ Len(s) \in Nat
  BY ComponentsType
<1>4. /\ k \in 0..Len(s) /\ base \in DOMAIN h
      /\ k < Len(s) => Walk(h, s)[k + 1] = Null
  <2> HIDE DEF s
  <2> QED
    BY <1>2, <1>3, ExistingMeaning
<1>5. missing \in Seq(Names) /\ made \in Nat /\ (made > 0 => missing[1] = s[k + 1] /\ k < Len(s))
  <2> HIDE DEF s, k
  <2> QED
    BY <1>3, <1>4
<1>6. made > 0 => h[base].children[missing[1]] = Null
  <2> SUFFICES ASSUME made > 0 PROVE h[base].children[missing[1]] = Null
    OBVIOUS
  <2>1. k + 1 \in 1..Len(s) /\ (k + 1) - 1 = k
    <3>1. \A i, n \in Nat : i < n => i + 1 \in 1..n /\ (i + 1) - 1 = i
      OBVIOUS
    <3>2. k \in Nat /\ Len(s) \in Nat /\ k < Len(s)
      <4> HIDE DEF s, k, base, missing, made, c
      <4> QED
        BY <1>3, <1>4, <1>5
    <3> QED
      BY <3>1, <3>2, Zenon
  <2>2. Walk(h, s)[k + 1] = IF Walk(h, s)[(k + 1) - 1] = Null THEN Null
                            ELSE h[Walk(h, s)[(k + 1) - 1]].children[s[k + 1]]
    <3> HIDE DEF s, k
    <3>1. \A i \in 1..Len(s) :
            Walk(h, s)[i] = IF Walk(h, s)[i - 1] = Null THEN Null
                            ELSE h[Walk(h, s)[i - 1]].children[s[i]]
      BY <1>2, <1>3, WalkMeaning
    <3> QED
      BY <2>1, <3>1, Zenon
  <2>3. Walk(h, s)[k + 1] = Null /\ base # Null
    BY <1>2, <1>4, <1>5 DEF Linking
  <2> QED
    BY <1>5, <2>1, <2>2, <2>3
<1> HIDE DEF k
<1> DEFINE paths == NewPaths(h, base, missing)
<1>7. \A i \in 1..made : paths[i] \in Seq(Names)
  <2>1. h[base].path \in Seq(Names) /\ h[base].path # <<>>
    BY <1>2, <1>4 DEF Node
  <2> HIDE DEF base, missing
  <2>2. paths \in [0..made -> Seq(Names) \ {<<>>}]
    BY <1>5, <2>1, NewPathsMeaning
  <2> QED
    BY <1>5, <2>2
<1> HIDE DEF paths, missing
<1>8. ASSUME NEW i \in 1..made
      PROVE  /\ NewChildren(h, missing, i) \in [Names -> 1..(size + made) \cup {Null}]
             /\ \A t \in Names : NewChildren(h, missing, i)[t]
                                   = IF i < made /\ t = missing[i + 1] THEN size + i + 1 ELSE Null
  <2>1. size + i + 1 = Len(h) + i + 1 /\ (i < made => size + i + 1 \in 1..(size + made))
    BY <1>2, <1>5
  <2>2. i < made => missing[i + 1] \in Names
    BY <1>5
  <2>3. NewChildren(h, missing, i)
          = [t \in Names |-> IF i < made /\ t = missing[i + 1] THEN Len(h) + i + 1 ELSE Null]
    BY <2>2 DEF NewChildren, NoChildren
  <2> HIDE DEF made, size
  <2> QED
    BY <2>1, <2>3
<1>9. ASSUME NEW i \in 1..made
      PROVE  /\ New(i) \in Node(1..(size + made)) /\ New(i).name = missing[i]
             /\ New(i).path = paths[i] /\ New(i).children = NewChildren(h, missing, i)
  <2>1. missing[i] \in Names \cup {"/"} /\ paths[i] \in Seq(Names)
    BY <1>5, <1>7
  <2>2. <<>> \in Seq(Bytes \cup {Zero})
    OBVIOUS
  <2>3. NewChildren(h, missing, i) \in [Names -> 1..(size + made) \cup {Null}]
    BY <1>8
  <2>4. (i < made \/ ~last \/ asDirectory) \in BOOLEAN
    OBVIOUS
  <2>5. paths[i] = NewPaths(h, base, missing)[i]
    BY DEF paths
  <2> HIDE DEF last, made, size, base
  <2> QED
    BY <2>1, <2>2, <2>3, <2>4, <2>5 DEF Node
<1>10. DOMAIN h \subseteq 1..(size + made)
  BY <1>2, <1>5
<1>11. ASSUME NEW n \in DOMAIN h
       PROVE  h[n] \in Node(1..(size + made))
  <2> HIDE DEF size, made
  <2>1. h[n] \in Node(DOMAIN h)
    BY <1>2, <1>11
  <2> QED
    BY <1>10, <2>1, NodeGrows, Zenon
<1>12. /\ Edited \in Node(1..(size + made))
       /\ Edited.name = h[base].name /\ Edited.path = h[base].path
       /\ \A t \in Names : Edited.children[t] = IF made > 0 /\ t = missing[1] THEN size + 1
                                                ELSE h[base].children[t]
  <2>1. h[base] \in Node(1..(size + made))
    BY <1>4, <1>11
  <2>2. CASE made > 0
    <3>1. missing[1] \in Names /\ size + 1 \in 1..(size + made) \cup {Null}
      BY <1>2, <1>5, <2>2
    <3>2. Edited = [h[base] EXCEPT !.children[missing[1]] = size + 1]
      BY <2>2
    <3> DEFINE A     == 1..(size + made)
               old   == h[base]
               first == missing[1]
               next  == size + 1
    <3>3. old \in Node(A) /\ first \in Names /\ next \in A \cup {Null}
      BY <2>1, <3>1
    <3>4. Edited = [old EXCEPT !.children[first] = next]
      BY <3>2
    <3> HIDE DEF Edited, A, old, first, next
    <3>5. /\ Edited \in Node(A) /\ Edited.name = old.name /\ Edited.path = old.path
          /\ \A t \in Names : Edited.children[t] = IF t = first THEN next ELSE old.children[t]
      BY <3>3, <3>4 DEF Node
    <3> QED
      BY <2>2, <3>5 DEF A, old, first, next
  <2>3. CASE ~(made > 0)
    <3>1. Edited = [h[base] EXCEPT !.isDirectory = @ \/ (last /\ asDirectory)]
      BY <2>3
    <3>2. (h[base].isDirectory \/ (last /\ asDirectory)) \in BOOLEAN
      OBVIOUS
    <3> HIDE DEF Edited, base, made, size, last
    <3> QED
      BY <2>1, <2>3, <3>1, <3>2 DEF Node
  <2> QED
    BY <2>2, <2>3
<1> HIDE DEF New, Edited, base, made
<1>13. Len(c) = size + made /\ DOMAIN c = 1..(size + made)
  BY <1>2, <1>5
<1>14. ASSUME NEW n \in DOMAIN h PROVE c[n] = IF n = base THEN Edited ELSE h[n]
  BY <1>2, <1>10, <1>14
<1>15. ASSUME NEW i \in 1..made PROVE c[size + i] = New(i)
  <2>1. size + i \in 1..(size + made) /\ size + i > Len(h) /\ (size + i) - Len(h) = i
    BY <1>2, <1>5, <1>15
  <2> QED
    BY <2>1
<1> HIDE DEF c, Created
<1>16. ASSUME NEW n \in DOMAIN h
       PROVE  /\ c[n] \in Node(DOMAIN c) /\ c[n].name = h[n].name /\ c[n].path = h[n].path
              /\ \A t \in Names :
                   c[n].children[t] = IF n = base /\ made > 0 /\ t = missing[1] THEN size + 1
                                      ELSE h[n].children[t]
  <2> HIDE DEF size
  <2>1. CASE n = base
    BY <1>12, <1>13, <1>14, <2>1
  <2>2. CASE n # base
    BY <1>11, <1>13, <1>14, <2>2
  <2> QED
    BY <2>1, <2>2
<1>17. ASSUME NEW i \in 1..made
       PROVE  /\ c[size + i] \in Node(DOMAIN c) /\ c[size + i].name = missing[i]
              /\ c[size + i].path = NewPaths(h, base, missing)[i]
              /\ \A t \in Names :
                   c[size + i].children[t] = IF i < made /\ t = missing[i + 1] THEN size + i + 1
                                             ELSE Null
  <2> HIDE DEF size
  <2> QED
    BY <1>8, <1>9, <1>13, <1>15, <1>17 DEF paths
<1>18. Grown(h, c, base, missing)
  <2>1. made = Len(missing)
    BY DEF made
  <2> QED
    BY <1>6, <1>13, <1>16, <1>17, <2>1 DEF Grown
<1>19. base = Base(h, p) /\ missing = Missing(h, p)
  BY DEF base, missing, k, Base, Missing
<1> HIDE DEF s
<1> QED
  BY <1>1, <1>4, <1>5, <1>18, <1>19

\* What createPath puts into nodes besides links: a new node is empty and a
\* directory unless it is the file that was asked for; one that was there keeps
\* its bytes, and becomes a directory only when the path names it and asks for one.
Filled(h, c, p, asDirectory) ==
  LET made == Len(Missing(h, p))
      last == Components(p) = p
  IN /\ \A n \in DOMAIN h :
          /\ c[n].data = h[n].data
          /\ c[n].isDirectory <=> h[n].isDirectory
                                     \/ (n = Base(h, p) /\ made = 0 /\ last /\ asDirectory)
     /\ \A i \in 1..made :
          /\ c[Len(h) + i].data = <<>>
          /\ c[Len(h) + i].isDirectory <=> i < made \/ ~last \/ asDirectory

LEMMA CreatePathFills ==
  ASSUME NEW h, Typed(h), NEW p \in Seq(Names), NEW asDirectory \in BOOLEAN,
         \A n \in DOMAIN h : h[n].path # <<>>
  PROVE  Filled(h, CreatePath(h, p, asDirectory), p, asDirectory)
<1> DEFINE base    == Base(h, p)
           missing == Missing(h, p)
           made    == Len(missing)
           last    == Components(p) = p
           New(i)  ==
             [name |-> missing[i], path |-> NewPaths(h, base, missing)[i],
              isDirectory |-> i < made \/ ~last \/ asDirectory,
              data |-> <<>>, children |-> NewChildren(h, missing, i)]
           Edited  ==
             IF made > 0 THEN [h[base] EXCEPT !.children[missing[1]] = Len(h) + 1]
             ELSE [h[base] EXCEPT !.isDirectory = @ \/ (last /\ asDirectory)]
           Created(n) ==
             IF n > Len(h) THEN New(n - Len(h)) ELSE IF n = base THEN Edited ELSE h[n]
           c == [n \in 1..(Len(h) + made) |-> Created(n)]
<1>1. c = CreatePath(h, p, asDirectory)
  BY DEF CreatePath, Base, Missing
<1>2. /\ Len(h) \in Nat \ {0} /\ DOMAIN h = 1..Len(h)
      /\ \A n \in DOMAIN h : h[n] \in Node(DOMAIN h)
  BY TypedLinking
<1>3. base \in DOMAIN h /\ missing \in Seq(Names) /\ made \in Nat
  BY CreatePathGrows
<1>4. \A i : New(i).data = <<>> /\ (New(i).isDirectory <=> i < made \/ ~last \/ asDirectory)
  BY Zenon
<1>5. /\ Edited.data = h[base].data
      /\ Edited.isDirectory <=> h[base].isDirectory \/ (made = 0 /\ last /\ asDirectory)
  <2>1. h[base] \in Node(DOMAIN h)
    BY <1>2, <1>3
  <2>2. CASE made > 0
    <3>1. Edited = [h[base] EXCEPT !.children[missing[1]] = Len(h) + 1] /\ made # 0
      BY <1>3, <2>2
    <3> HIDE DEF Edited, base, missing
    <3>2. Edited.data = h[base].data /\ (Edited.isDirectory <=> h[base].isDirectory)
      BY <2>1, <3>1 DEF Node
    <3> QED
      BY <3>1, <3>2
  <2>3. CASE ~(made > 0)
    <3>1. Edited = [h[base] EXCEPT !.isDirectory = @ \/ (last /\ asDirectory)] /\ made = 0
      BY <1>3, <2>3
    <3> HIDE DEF Edited, base, made, last
    <3>2. /\ Edited.data = h[base].data
          /\ Edited.isDirectory <=> h[base].isDirectory \/ (last /\ asDirectory)
      BY <2>1, <3>1 DEF Node
    <3> QED
      BY <3>1, <3>2
  <2> QED
    BY <2>2, <2>3
<1> HIDE DEF New, Edited, base, made, missing, last
<1>6. ASSUME NEW n \in DOMAIN h PROVE c[n] = IF n = base THEN Edited ELSE h[n]
  BY <1>2, <1>3, <1>6
<1>7. ASSUME NEW i \in 1..made PROVE c[Len(h) + i] = New(i)
  <2>1. Len(h) + i \in 1..(Len(h) + made) /\ Len(h) + i > Len(h) /\ (Len(h) + i) - Len(h) = i
    BY <1>2, <1>3, <1>7
  <2> QED
    BY <2>1
<1> HIDE DEF c, Created
<1>8. ASSUME NEW n \in DOMAIN h
      PROVE  /\ c[n].data = h[n].data
             /\ c[n].isDirectory <=> h[n].isDirectory
                                       \/ (n = base /\ made = 0 /\ last /\ asDirectory)
  <2>1. CASE n = base
    BY <1>5, <1>6, <2>1
  <2>2. CASE n # base
    BY <1>6, <2>2
  <2> QED
    BY <2>1, <2>2
<1>9. ASSUME NEW i \in 1..made
      PROVE  /\ c[Len(h) + i].data = <<>>
             /\ c[Len(h) + i].isDirectory <=> i < made \/ ~last \/ asDirectory
  BY <1>4, <1>7, Zenon
<1>10. Filled(h, c, p, asDirectory)
  BY <1>8, <1>9 DEF Filled, base, made, missing, last
<1> QED
  BY <1>1, <1>10

\* Nothing of h is lost in c: its nodes keep their names, paths and links.
Extends(h, c) ==
  \A n \in DOMAIN h :
    /\ n \in DOMAIN c /\ c[n].name = h[n].name /\ c[n].path = h[n].path
    /\ \A s \in Names : h[n].children[s] # Null => c[n].children[s] = h[n].children[s]

\* A heap of typed nodes.
LEMMA TypedIs ==
  ASSUME NEW c, NEW n \in Nat \ {0}, DOMAIN c = 1..n, c = [i \in 1..n |-> c[i]],
         \A i \in DOMAIN c : c[i] \in Node(DOMAIN c)
  PROVE  Typed(c) /\ Len(c) = n
<1>1. c \in [1..n -> Node(DOMAIN c)] /\ n \in Nat
  OBVIOUS
<1>2. c \in Seq(Node(DOMAIN c)) /\ Len(c) = n
  BY <1>1, FunctionIsSequence
<1>3. c # <<>>
  BY <1>2
<1> QED
  BY <1>2, <1>3 DEF Typed

\* An old node is held as before, a new one by the one before it in the chain.
OldOrNew(h, c, base, missing, m, s) ==
  \/ /\ m \in DOMAIN h /\ c[m].children[s] \in DOMAIN h
     /\ c[m].children[s] = h[m].children[s]
  \/ \E j \in 1..Len(missing) :
       /\ c[m].children[s] = Len(h) + j /\ s = missing[j]
       /\ m = IF j = 1 THEN base ELSE Len(h) + (j - 1)

\* No other links are in a grown heap.
LEMMA GrownLinks ==
  ASSUME NEW h, Typed(h), NEW c, NEW base \in DOMAIN h, NEW missing \in Seq(Names),
         Grown(h, c, base, missing),
         NEW m \in DOMAIN c, NEW s \in Names, c[m].children[s] # Null
  PROVE  OldOrNew(h, c, base, missing, m, s)
<1> DEFINE size == Len(h)
           made == Len(missing)
<1>1. /\ Linking(h) /\ size \in Nat \ {0} /\ DOMAIN h = 1..size
  BY TypedLinking
<1>2. made \in Nat
  OBVIOUS
<1>3. /\ Len(c) = size + made /\ DOMAIN c = 1..(size + made)
      /\ \A n \in DOMAIN h : \A t \in Names :
           c[n].children[t] = IF n = base /\ made > 0 /\ t = missing[1] THEN size + 1
                              ELSE h[n].children[t]
      /\ \A i \in 1..made : \A t \in Names :
           c[size + i].children[t] = IF i < made /\ t = missing[i + 1] THEN size + i + 1 ELSE Null
  BY DEF Grown
<1> HIDE DEF size, made, OldOrNew
<1>4. CASE m \in DOMAIN h
  <2>1. CASE m = base /\ made > 0 /\ s = missing[1]
    <3>1. c[m].children[s] = size + 1 /\ 1 \in 1..made
      BY <1>2, <1>3, <1>4, <2>1
    <3> QED
      BY <2>1, <3>1 DEF size, made, OldOrNew
  <2>2. CASE ~(m = base /\ made > 0 /\ s = missing[1])
    <3>1. c[m].children[s] = h[m].children[s]
      BY <1>3, <1>4, <2>2
    <3> QED
      BY <1>1, <1>4, <3>1 DEF Linking, OldOrNew
  <2> QED
    BY <2>1, <2>2
<1>5. CASE m \notin DOMAIN h
  <2>1. PICK i \in 1..made : m = size + i
    <3>1. m - size \in 1..made /\ m = size + (m - size)
      BY <1>1, <1>2, <1>3, <1>5
    <3> QED
      BY <3>1
  <2>2. c[m].children[s] = IF i < made /\ s = missing[i + 1] THEN size + i + 1 ELSE Null
    BY <1>3, <2>1
  <2>3. i < made /\ s = missing[i + 1] /\ c[m].children[s] = size + i + 1
    BY <2>2
  <2>4. PICK j \in 1..made : j = i + 1
    <3>1. i + 1 \in 1..made
      BY <1>2, <2>3
    <3> QED
      BY <3>1
  <2>5. size + i + 1 = size + j /\ j # 1 /\ i = j - 1
    BY <1>1, <1>2, <2>4
  <2> QED
    BY <2>1, <2>3, <2>4, <2>5 DEF size, made, OldOrNew
<1> QED
  BY <1>4, <1>5

\* The heap grown is a forest, with all it had.
LEMMA GrownForest ==
  ASSUME NEW h, Forest(h), NEW c, c = [i \in DOMAIN c |-> c[i]], NEW base \in DOMAIN h,
         NEW missing \in Seq(Names), Grown(h, c, base, missing)
  PROVE  Forest(c) /\ Extends(h, c)
<1> DEFINE size == Len(h)
           made == Len(missing)
           Holder(j) == IF j = 1 THEN base ELSE size + (j - 1)
           Old(m, s) == /\ m \in DOMAIN h /\ c[m].children[s] \in DOMAIN h
                        /\ c[m].children[s] = h[m].children[s]
           New(m, s, j) == c[m].children[s] = size + j /\ s = missing[j] /\ m = Holder(j)
           paths == NewPaths(h, base, missing)
<1>1. /\ Typed(h) /\ Single(h) /\ NoCycle(h) /\ PathsJoin(h)
      /\ Linking(h) /\ size \in Nat \ {0} /\ DOMAIN h = 1..size
      /\ \A n \in DOMAIN h : h[n] \in Node(DOMAIN h)
  BY TypedLinking DEF Forest
<1>2. made \in Nat /\ size + made \in Nat \ {0}
  BY <1>1
<1>3. /\ Len(c) = size + made /\ DOMAIN c = 1..(size + made)
      /\ made > 0 => h[base].children[missing[1]] = Null
      /\ \A n \in DOMAIN h :
           /\ c[n] \in Node(DOMAIN c) /\ c[n].name = h[n].name /\ c[n].path = h[n].path
           /\ \A t \in Names :
                c[n].children[t] = IF n = base /\ made > 0 /\ t = missing[1] THEN size + 1
                                   ELSE h[n].children[t]
      /\ \A i \in 1..made :
           /\ c[size + i] \in Node(DOMAIN c) /\ c[size + i].name = missing[i]
           /\ c[size + i].path = paths[i]
           /\ \A t \in Names :
                c[size + i].children[t] = IF i < made /\ t = missing[i + 1] THEN size + i + 1
                                          ELSE Null
  BY DEF Grown
<1>4. ASSUME NEW m \in DOMAIN c, NEW s \in Names, c[m].children[s] # Null
      PROVE  Old(m, s) \/ \E j \in 1..made : New(m, s, j)
  <2>1. OldOrNew(h, c, base, missing, m, s)
    <3> HIDE DEF Old, New, paths
    <3> QED
      BY <1>1, <1>4, GrownLinks
  <2> QED
    BY <2>1 DEF OldOrNew
<1>5. /\ paths \in [0..made -> Seq(Names) \ {<<>>}] /\ paths[0] = h[base].path
      /\ \A i \in 1..made : paths[i] = JoinPath(paths[i - 1], missing[i])
  <2>1. h[base].path \in Seq(Names) /\ h[base].path # <<>>
    BY <1>1 DEF Node, PathsJoin
  <2> QED
    BY <2>1, NewPathsMeaning
<1> HIDE DEF size, made, paths, Old, New
<1>6. \A n \in DOMAIN c : n \in DOMAIN h \/ \E i \in 1..made : n = size + i
  <2> SUFFICES ASSUME NEW n \in DOMAIN c, n \notin DOMAIN h PROVE \E i \in 1..made : n = size + i
    OBVIOUS
  <2>1. n - size \in 1..made /\ n = size + (n - size)
    BY <1>1, <1>2, <1>3
  <2> QED
    BY <2>1
<1>7. Typed(c) /\ Linking(c)
  <2>1. \A n \in DOMAIN c : c[n] \in Node(DOMAIN c)
    BY <1>3, <1>6
  <2>2. Typed(c)
    <3> DEFINE n == size + made
    <3>1. n \in Nat \ {0} /\ DOMAIN c = 1..n
      BY <1>2, <1>3
    <3> HIDE DEF n
    <3> QED
      BY <2>1, <3>1, TypedIs
  <2> QED
    BY <2>2, TypedLinking
<1>8. Single(c)
  <2> SUFFICES ASSUME NEW m \in DOMAIN c, NEW n \in DOMAIN c, NEW s \in Names, NEW t \in Names,
                      c[m].children[s] # Null
               PROVE  /\ c[m].children[s] # Root /\ c[c[m].children[s]].name = s
                      /\ c[n].children[t] = c[m].children[s] => m = n /\ s = t
    BY DEF Single
  <2>1. CASE Old(m, s)
    <3>1. m \in DOMAIN h /\ h[m].children[s] = c[m].children[s] /\ h[m].children[s] \in DOMAIN h
      BY <2>1 DEF Old
    <3>2. /\ h[m].children[s] # Root /\ h[h[m].children[s]].name = s
          /\ \A x \in DOMAIN h : \A y \in Names :
               h[x].children[y] = h[m].children[s] => m = x /\ s = y
      BY <1>1, <3>1, OneHolder
    <3>3. ASSUME c[n].children[t] = c[m].children[s] PROVE m = n /\ s = t
      <4>1. CASE Old(n, t)
        BY <3>1, <3>2, <3>3, <4>1 DEF Old
      <4>2. ASSUME NEW j \in 1..made, New(n, t, j) PROVE FALSE
        <5>1. size + j \in DOMAIN h
          BY <3>1, <3>3, <4>2 DEF New
        <5> QED
          BY <1>1, <1>2, <5>1
      <4> QED
        BY <1>4, <3>3, <4>1, <4>2
    <3> QED
      BY <1>3, <3>1, <3>2, <3>3
  <2>2. ASSUME NEW j \in 1..made, New(m, s, j)
        PROVE  /\ c[m].children[s] # Root /\ c[c[m].children[s]].name = s
               /\ c[n].children[t] = c[m].children[s] => m = n /\ s = t
    <3>1. c[m].children[s] = size + j /\ s = missing[j] /\ m = Holder(j)
      BY <2>2 DEF New
    <3>2. size + j # Root /\ size + j \notin DOMAIN h /\ c[size + j].name = missing[j]
      BY <1>1, <1>2, <1>3 DEF Root
    <3>3. ASSUME c[n].children[t] = c[m].children[s] PROVE m = n /\ s = t
      <4>1. CASE Old(n, t)
        BY <3>1, <3>2, <3>3, <4>1 DEF Old
      <4>2. ASSUME NEW i \in 1..made, New(n, t, i) PROVE m = n /\ s = t
        <5>1. size + i = size + j /\ t = missing[i] /\ n = Holder(i)
          BY <3>1, <3>3, <4>2 DEF New
        <5>2. i = j
          BY <1>1, <1>2, <5>1
        <5> QED
          BY <3>1, <5>1, <5>2
      <4> QED
        BY <1>4, <3>3, <4>1, <4>2
    <3> QED
      BY <3>1, <3>2, <3>3
  <2> QED
    BY <1>4, <2>1, <2>2
<1>9. NoCycle(c)
  <2>1. Len(h) = size /\ Len(c) = size + made /\ Len(h) <= Len(c)
    BY <1>1, <1>2, <1>3 DEF size
  <2>2. ASSUME NEW n \in DOMAIN h, NEW t \in Names
        PROVE  c[n].children[t] = h[n].children[t] \/ c[n].children[t] > Len(h)
    <3>1. size + 1 > size
      BY <1>1
    <3> QED
      BY <1>3, <2>1, <3>1
  <2>3. ASSUME NEW n \in DOMAIN c \ DOMAIN h, NEW t \in Names, c[n].children[t] # Null
        PROVE  c[n].children[t] > n
    <3>1. PICK i \in 1..made : n = size + i
      BY <1>6
    <3>2. c[n].children[t] = size + i + 1
      BY <1>3, <2>3, <3>1
    <3> QED
      BY <1>1, <1>2, <3>1, <3>2
  <2> QED
    <3>1. Linking(h) /\ NoCycle(h) /\ Linking(c) /\ Len(h) <= Len(c)
      BY <1>1, <1>7, <2>1
    <3> QED
      BY <2>2, <2>3, <3>1, LaterNodesNoCycle
<1>10. PathsJoin(c)
  <2>1. c[Root].path = <<Empty>>
    BY <1>1, <1>3 DEF Linking, PathsJoin
  <2>2. ASSUME NEW n \in DOMAIN c PROVE c[n].path # <<>>
    <3>1. CASE n \in DOMAIN h
      BY <1>1, <1>3, <3>1 DEF PathsJoin
    <3>2. ASSUME NEW i \in 1..made, n = size + i PROVE c[n].path # <<>>
      <4>1. i \in 0..made
        BY <1>2
      <4> QED
        BY <1>3, <1>5, <3>2, <4>1
    <3> QED
      BY <1>6, <3>1, <3>2
  <2>3. ASSUME NEW m \in DOMAIN c, NEW s \in Names, c[m].children[s] # Null
        PROVE  c[c[m].children[s]].path = JoinPath(c[m].path, s)
    <3>1. CASE Old(m, s)
      <4>1. m \in DOMAIN h /\ h[m].children[s] = c[m].children[s] /\ h[m].children[s] \in DOMAIN h
        BY <3>1 DEF Old
      <4>2. h[h[m].children[s]].path = JoinPath(h[m].path, s)
        BY <1>1, <2>3, <4>1 DEF PathsJoin
      <4> QED
        BY <1>3, <4>1, <4>2
    <3>2. ASSUME NEW j \in 1..made, New(m, s, j)
          PROVE  c[c[m].children[s]].path = JoinPath(c[m].path, s)
      <4>1. c[m].children[s] = size + j /\ s = missing[j] /\ m = Holder(j)
        BY <3>2 DEF New
      <4>2. c[m].path = paths[j - 1]
        <5>1. CASE j = 1
          BY <1>3, <1>5, <4>1, <5>1
        <5>2. CASE j # 1
          <6>1. j - 1 \in 1..made /\ m = size + (j - 1)
            BY <1>2, <4>1, <5>2
          <6> QED
            BY <1>3, <6>1
        <5> QED
          BY <5>1, <5>2
      <4> QED
        BY <1>3, <1>5, <4>1, <4>2
    <3> QED
      BY <1>4, <2>3, <3>1, <3>2
  <2> QED
    BY <2>1, <2>2, <2>3 DEF PathsJoin
<1>11. Extends(h, c)
  <2> SUFFICES ASSUME NEW n \in DOMAIN h
               PROVE  /\ n \in DOMAIN c /\ c[n].name = h[n].name /\ c[n].path = h[n].path
                      /\ \A s \in Names :
                           h[n].children[s] # Null => c[n].children[s] = h[n].children[s]
    BY DEF Extends
  <2>1. n \in DOMAIN c
    BY <1>1, <1>2, <1>3
  <2> QED
    BY <1>3, <2>1
<1> QED
  BY <1>7, <1>8, <1>9, <1>10, <1>11 DEF Forest

\* So does createPath for any path.
LEMMA CreatePathForest ==
  ASSUME NEW h, Forest(h), NEW p \in Seq(Names), NEW asDirectory \in BOOLEAN
  PROVE  Forest(CreatePath(h, p, asDirectory)) /\ Extends(h, CreatePath(h, p, asDirectory))
<1> DEFINE c == CreatePath(h, p, asDirectory)
<1>1. Typed(h) /\ \A n \in DOMAIN h : h[n].path # <<>>
  BY DEF Forest, PathsJoin
<1>2. /\ Base(h, p) \in DOMAIN h /\ Missing(h, p) \in Seq(Names)
      /\ Grown(h, c, Base(h, p), Missing(h, p))
  BY <1>1, CreatePathGrows
<1>3. c = [i \in DOMAIN c |-> c[i]]
  BY DEF CreatePath
<1> HIDE DEF c
<1>4. Forest(c) /\ Extends(h, c)
  BY <1>2, <1>3, GrownForest
<1> QED
  BY <1>4 DEF c

-----------------------------------------------------------------------------
(* updatePaths.                                                            *)

\* Paths for a node and all below it, each joined to that of the node above.
PathsBelow(f, h, node, parentPath) ==
  /\ f \in [Subtree(h, node) -> Seq(Names) \ {<<>>}]
  /\ f[node] = JoinPath(parentPath, h[node].name)
  /\ \A m \in Subtree(h, node) : \A s \in Names :
       h[m].children[s] # Null =>
         f[h[m].children[s]] = JoinPath(f[m], h[h[m].children[s]].name)

\* The node above, as updatePaths comes from it.
ParentIn(h, node, n) ==
  CHOOSE m \in Subtree(h, node) : \E s \in Names : h[m].children[s] = n

\* A node whose subtree updatePaths can go through.
Movable(h, node) ==
  /\ Linking(h) /\ Single(h) /\ node \in DOMAIN h /\ ~Cyclic(h, node)
  /\ h[node].name \in Names

\* It comes to every node once.
LEMMA ParentMeaning ==
  ASSUME NEW h, NEW node, Movable(h, node)
  PROVE  /\ node \in Subtree(h, node)
         /\ \A n \in Subtree(h, node) : n # node => ParentIn(h, node, n) \in Subtree(h, node)
         /\ \A n \in Subtree(h, node) : h[n].name \in Names
         /\ \A m \in Subtree(h, node) : \A s \in Names :
              h[m].children[s] # Null =>
                /\ h[m].children[s] \in Subtree(h, node) /\ h[m].children[s] # node
                /\ ParentIn(h, node, h[m].children[s]) = m
<1> DEFINE sub == Subtree(h, node)
           Parent(n) == ParentIn(h, node, n)
<1>1. /\ Linking(h) /\ Single(h) /\ node \in DOMAIN h /\ ~Cyclic(h, node)
      /\ h[node].name \in Names
  BY DEF Movable
<1>2. /\ node \in sub /\ sub \subseteq DOMAIN h
      /\ \A x \in sub : \A s \in Names : h[x].children[s] # Null => h[x].children[s] \in sub
  BY <1>1, SubtreeClosed
<1>3. ASSUME NEW n \in sub, n # node
      PROVE  Parent(n) \in sub /\ \E s \in Names : h[Parent(n)].children[s] = n
  <2>1. \E m \in sub : \E s \in Names : h[m].children[s] = n
    BY <1>1, <1>3, HeldBelow
  <2> HIDE DEF sub
  <2> QED
    BY <2>1 DEF ParentIn, sub
<1>4. ASSUME NEW n \in sub PROVE h[n].name \in Names
  <2>1. CASE n = node
    BY <1>1, <2>1
  <2>2. CASE n # node
    <3>1. PICK s \in Names : h[Parent(n)].children[s] = n
      BY <1>3, <2>2
    <3>2. Parent(n) \in DOMAIN h /\ n # Null
      BY <1>1, <1>2, <1>3, <2>2 DEF Linking
    <3> HIDE DEF sub, Parent
    <3>3. h[n].name = s
      BY <1>1, <3>1, <3>2, OneHolder
    <3> QED
      BY <3>3
  <2> QED
    BY <2>1, <2>2
<1>5. ASSUME NEW m \in sub, NEW s \in Names, h[m].children[s] # Null
      PROVE  /\ h[m].children[s] \in sub /\ h[m].children[s] # node
             /\ Parent(h[m].children[s]) = m
  <2> DEFINE c == h[m].children[s]
  <2>1. c \in sub
    BY <1>2, <1>5
  <2>2. c # node
    BY <1>1 DEF Cyclic
  <2>3. PICK t \in Names : h[Parent(c)].children[t] = c
    BY <1>3, <2>1, <2>2
  <2>4. Parent(c) \in DOMAIN h /\ m \in DOMAIN h
    BY <1>2, <1>3, <2>1, <2>2
  <2>5. \A x \in DOMAIN h : \A y \in Names : h[x].children[y] = c => m = x
    BY <1>1, <1>5, <2>4, OneHolder
  <2> HIDE DEF Parent, c
  <2>6. Parent(c) = m
    BY <2>3, <2>4, <2>5
  <2> QED
    BY <2>1, <2>2, <2>6 DEF c
<1> QED
  BY <1>2, <1>3, <1>4, <1>5

\* So there are such paths.
LEMMA PathsBelowExist ==
  ASSUME NEW h, NEW node, Movable(h, node), NEW parentPath \in Seq(Names), parentPath # <<>>
  PROVE  \E f : PathsBelow(f, h, node, parentPath)
<1> DEFINE sub == Subtree(h, node)
           V == Seq(Names) \ {<<>>}
           start == JoinPath(parentPath, h[node].name)
           Parent(n) == ParentIn(h, node, n)
           Good(D, f) ==
             /\ D \in SUBSET sub /\ f \in [D -> V]
             /\ node \in D /\ f[node] = start
             /\ \A n \in D : n # node =>
                  Parent(n) \in D /\ f[n] = JoinPath(f[Parent(n)], h[n].name)
           Reached == {x \in sub : \E D, f : Good(D, f) /\ x \in D}
           Agreed == {x \in sub : \A D, f, E, g : Good(D, f) /\ Good(E, g) /\ x \in D /\ x \in E
                                                  => f[x] = g[x]}
<1>1. /\ Linking(h) /\ node \in DOMAIN h /\ sub \in SUBSET DOMAIN h /\ node \in sub
      /\ \A n \in sub : n # node => Parent(n) \in sub
      /\ \A n \in sub : h[n].name \in Names
      /\ \A m \in sub : \A s \in Names :
           h[m].children[s] # Null =>
             /\ h[m].children[s] \in sub /\ h[m].children[s] # node
             /\ Parent(h[m].children[s]) = m
  BY ParentMeaning DEF Movable, Subtree
<1>2. \A x \in V : \A n \in sub : JoinPath(x, h[n].name) \in V
  BY <1>1, JoinPathType
<1>3. start \in V
  BY <1>1, JoinPathType
<1> HIDE DEF V, start, Parent
<1>4. ASSUME NEW S \in SUBSET sub, node \in S,
             \A x \in S : \A s \in Names : h[x].children[s] # Null => h[x].children[s] \in S
      PROVE  sub \subseteq S
  <2>1. S \in SUBSET DOMAIN h
    BY <1>1
  <2> QED
    BY <1>4, <2>1, SubtreeLeast
<1> HIDE DEF sub
<1>5. node \in Reached
  <2> DEFINE f == [x \in {node} |-> start]
  <2>1. f \in [{node} -> V] /\ f[node] = start
    BY <1>3
  <2> HIDE DEF f
  <2>2. Good({node}, f)
    BY <1>1, <2>1
  <2> HIDE DEF Good
  <2> QED
    BY <1>1, <2>2
<1>6. ASSUME NEW x \in Reached, NEW s \in Names, h[x].children[s] # Null
      PROVE  h[x].children[s] \in Reached
  <2> DEFINE c == h[x].children[s]
  <2>1. x \in sub /\ c \in sub /\ c # node /\ Parent(c) = x
    BY <1>1, <1>6
  <2>2. PICK D, f : Good(D, f) /\ x \in D
    OBVIOUS
  <2> HIDE DEF c
  <2>3. CASE c \in D
    <3> HIDE DEF Good
    <3> QED
      BY <2>1, <2>2, <2>3 DEF c
  <2>4. CASE c \notin D
    <3> DEFINE E == D \cup {c}
               g == [y \in E |-> IF y = c THEN JoinPath(f[x], h[c].name) ELSE f[y]]
    <3>1. f[x] \in V
      BY <2>2
    <3>2. g \in [E -> V]
      BY <1>2, <2>1, <2>2, <3>1
    <3>3. /\ \A y \in D : g[y] = f[y]
          /\ g[c] = JoinPath(f[x], h[c].name)
          /\ \A y \in D : y \in E
          /\ c \in E
      BY <2>4
    <3>4. E \in SUBSET sub
      BY <2>1, <2>2
    <3>5. \A y \in E : y \in D \/ y = c
      OBVIOUS
    <3> HIDE DEF g, E
    <3>6. ASSUME NEW n \in E, n # node
          PROVE  Parent(n) \in E /\ g[n] = JoinPath(g[Parent(n)], h[n].name)
      <4>1. CASE n = c
        BY <2>1, <2>2, <3>3, <4>1
      <4>2. CASE n \in D
        <5>1. Parent(n) \in D /\ f[n] = JoinPath(f[Parent(n)], h[n].name)
          BY <2>2, <3>6, <4>2
        <5> QED
          BY <3>3, <4>2, <5>1
      <4> QED
        BY <3>5, <4>1, <4>2
    <3>7. node \in E /\ g[node] = start
      BY <2>2, <3>3
    <3>8. Good(E, g)
      BY <3>2, <3>4, <3>6, <3>7
    <3> HIDE DEF Good
    <3> QED
      BY <2>1, <3>3, <3>8 DEF c
  <2> QED
    BY <2>3, <2>4
<1>7. sub \subseteq Reached
  <2>1. Reached \in SUBSET sub
    OBVIOUS
  <2> HIDE DEF Reached
  <2> QED
    BY <1>4, <1>5, <1>6, <2>1
<1>8. node \in Agreed
  BY <1>1
<1>9. ASSUME NEW x \in Agreed, NEW s \in Names, h[x].children[s] # Null
      PROVE  h[x].children[s] \in Agreed
  <2> DEFINE c == h[x].children[s]
  <2>1. x \in sub /\ c \in sub /\ c # node /\ Parent(c) = x
    BY <1>1, <1>9
  <2>2. ASSUME NEW D, NEW f, NEW E, NEW g, Good(D, f), Good(E, g), x \in D, x \in E
        PROVE  f[x] = g[x]
    <3> HIDE DEF Good
    <3> QED
      BY <2>2
  <2> HIDE DEF c
  <2>3. ASSUME NEW D, NEW f, NEW E, NEW g, Good(D, f), Good(E, g), c \in D, c \in E
        PROVE  f[c] = g[c]
    <3>1. x \in D /\ f[c] = JoinPath(f[x], h[c].name)
      BY <2>1, <2>3
    <3>2. x \in E /\ g[c] = JoinPath(g[x], h[c].name)
      BY <2>1, <2>3
    <3>3. f[x] = g[x]
      <4> HIDE DEF Good
      <4> QED
        BY <2>2, <2>3, <3>1, <3>2
    <3> QED
      BY <3>1, <3>2, <3>3
  <2> HIDE DEF Good
  <2>4. c \in Agreed
    BY <2>1, <2>3
  <2> QED
    BY <2>4 DEF c
<1>10. sub \subseteq Agreed
  <2>1. Agreed \in SUBSET sub
    OBVIOUS
  <2> HIDE DEF Agreed
  <2> QED
    BY <1>4, <1>8, <1>9, <2>1
<1> DEFINE Value(x) == CHOOSE v : \E D, f : Good(D, f) /\ x \in D /\ v = f[x]
           F == [x \in sub |-> Value(x)]
<1>11. ASSUME NEW D, NEW f, Good(D, f), NEW x \in D PROVE F[x] = f[x]
  <2>1. x \in sub
    BY <1>11
  <2>2. ASSUME NEW E, NEW g, Good(E, g), x \in E PROVE f[x] = g[x]
    <3>1. x \in Agreed
      BY <1>10, <2>1
    <3> HIDE DEF Good
    <3> QED
      BY <1>11, <2>2, <3>1
  <2> HIDE DEF Good
  <2>3. \E v : \E E, g : Good(E, g) /\ x \in E /\ v = g[x]
    BY <1>11
  <2>4. PICK E, g : Good(E, g) /\ x \in E /\ Value(x) = g[x]
    BY <2>3
  <2> HIDE DEF Value
  <2>5. F[x] = Value(x)
    BY <2>1
  <2> QED
    BY <2>2, <2>4, <2>5
<1> HIDE DEF F
<1>12. ASSUME NEW x \in sub
       PROVE  /\ F[x] \in V
              /\ x = node => F[x] = start
              /\ x # node => F[x] = JoinPath(F[Parent(x)], h[x].name)
  <2>1. PICK D, f : Good(D, f) /\ x \in D
    <3>1. x \in Reached
      BY <1>7
    <3> HIDE DEF Good
    <3> QED
      BY <3>1
  <2>2. \A y \in D : F[y] = f[y]
    <3> HIDE DEF Good
    <3> QED
      BY <1>11, <2>1
  <2> QED
    BY <2>1, <2>2
<1>13. F \in [sub -> V]
  <2>1. \A x \in sub : F[x] \in V
    BY <1>12
  <2> QED
    BY <2>1 DEF F
<1>14. F[node] = start
  BY <1>1, <1>12
<1>15. ASSUME NEW m \in sub, NEW s \in Names, h[m].children[s] # Null
       PROVE  F[h[m].children[s]] = JoinPath(F[m], h[h[m].children[s]].name)
  BY <1>1, <1>12, <1>15
<1>16. PathsBelow(F, h, node, parentPath)
  BY <1>13, <1>14, <1>15 DEF PathsBelow, sub, V, start
<1> QED
  BY <1>16

\* What updatePaths makes of the heap.
Repathed(u, h, node, parentPath) ==
  /\ DOMAIN u = DOMAIN h
  /\ \A n \in DOMAIN h :
       /\ u[n] \in Node(DOMAIN h) /\ u[n].path # <<>>
       /\ u[n].name = h[n].name /\ u[n].children = h[n].children
       /\ n \notin Subtree(h, node) => u[n] = h[n]
  /\ u[node].path = JoinPath(parentPath, h[node].name)
  /\ \A m \in Subtree(h, node) : \A s \in Names :
       h[m].children[s] # Null =>
         u[h[m].children[s]].path = JoinPath(u[m].path, h[h[m].children[s]].name)

\* updatePaths rebuilds the paths at and below the node, and nothing else.
LEMMA UpdatePathsMeaning ==
  ASSUME NEW h, Typed(h), \A n \in DOMAIN h : h[n].path # <<>>, NEW node, Movable(h, node),
         NEW parentPath \in Seq(Names), parentPath # <<>>
  PROVE  Repathed(UpdatePaths(h, node, parentPath), h, node, parentPath)
<1> DEFINE sub == Subtree(h, node)
           V == Seq(Names) \ {<<>>}
           start == JoinPath(parentPath, h[node].name)
           Parent(n) == ParentIn(h, node, n)
           Rec(w) == w = [n \in sub |->
                            JoinPath(IF n = node THEN parentPath ELSE w[Parent(n)], h[n].name)]
           path == CHOOSE w : Rec(w)
           New(n) == IF n \in sub THEN [h[n] EXCEPT !.path = path[n]] ELSE h[n]
           u == [n \in DOMAIN h |-> New(n)]
<1>1. u = UpdatePaths(h, node, parentPath)
  BY DEF UpdatePaths, ParentIn
<1>2. /\ Linking(h) /\ node \in DOMAIN h /\ sub \in SUBSET DOMAIN h /\ node \in sub
      /\ \A n \in sub : n # node => Parent(n) \in sub
      /\ \A n \in sub : h[n].name \in Names
      /\ \A m \in sub : \A s \in Names :
           h[m].children[s] # Null =>
             /\ h[m].children[s] \in sub /\ h[m].children[s] # node
             /\ Parent(h[m].children[s]) = m
  BY ParentMeaning DEF Movable, Subtree
<1>3. \A n \in sub : n # node => \E s \in Names : h[Parent(n)].children[s] = n
  <2> SUFFICES ASSUME NEW n \in sub, n # node
               PROVE  \E s \in Names : h[Parent(n)].children[s] = n
    OBVIOUS
  <2>1. \E m \in sub : \E s \in Names : h[m].children[s] = n
    BY <1>2, HeldBelow
  <2> HIDE DEF sub
  <2> QED
    BY <2>1 DEF ParentIn, sub
<1>4. PICK f : PathsBelow(f, h, node, parentPath)
  BY PathsBelowExist
<1>5. /\ f \in [sub -> V] /\ f[node] = start
      /\ \A m \in sub : \A s \in Names :
           h[m].children[s] # Null =>
             f[h[m].children[s]] = JoinPath(f[m], h[h[m].children[s]].name)
  BY <1>4 DEF PathsBelow
<1> HIDE DEF Parent, sub
<1>6. Rec(f)
  <2>1. ASSUME NEW n \in sub
        PROVE  f[n] = JoinPath(IF n = node THEN parentPath ELSE f[Parent(n)], h[n].name)
    <3>1. CASE n = node
      BY <1>5, <3>1
    <3>2. CASE n # node
      <4>1. PICK s \in Names : h[Parent(n)].children[s] = n
        BY <1>3, <3>2
      <4>2. Parent(n) \in sub /\ n # Null
        BY <1>2, <3>2 DEF Linking
      <4> QED
        BY <1>5, <3>2, <4>1, <4>2
    <3> QED
      BY <3>1, <3>2
  <2>2. f = [n \in sub |-> f[n]]
    BY <1>5
  <2> QED
    BY <2>1, <2>2
<1>7. Rec(path)
  <2> HIDE DEF Rec
  <2> QED
    BY <1>6
<1> HIDE DEF path
<1>8. /\ path = [n \in sub |-> path[n]]
      /\ \A n \in sub :
           path[n] = JoinPath(IF n = node THEN parentPath ELSE path[Parent(n)], h[n].name)
  BY <1>7
<1>9. \A m \in sub : \A s \in Names :
        h[m].children[s] # Null =>
          /\ h[m].children[s] \in sub
          /\ path[h[m].children[s]] = JoinPath(path[m], h[h[m].children[s]].name)
  BY <1>2, <1>8
<1>10. \A n \in sub : path[n] \in V
  <2> DEFINE S == {n \in sub : path[n] \in V}
  <2>1. S \in SUBSET DOMAIN h
    BY <1>2
  <2>2. node \in S
    <3>1. path[node] = JoinPath(parentPath, h[node].name)
      BY <1>2, <1>8
    <3>2. JoinPath(parentPath, h[node].name) \in V
      BY <1>2, JoinPathType
    <3> QED
      BY <1>2, <3>1, <3>2
  <2>3. ASSUME NEW x \in S, NEW s \in Names, h[x].children[s] # Null
        PROVE  h[x].children[s] \in S
    <3> DEFINE c == h[x].children[s]
    <3>1. c \in sub /\ path[c] = JoinPath(path[x], h[c].name) /\ h[c].name \in Names
      BY <1>2, <1>9, <2>3
    <3>2. JoinPath(path[x], h[c].name) \in V
      BY <3>1, JoinPathType
    <3> QED
      BY <3>1, <3>2
  <2> HIDE DEF S
  <2>4. sub \subseteq S
    BY <2>1, <2>2, <2>3, SubtreeLeast DEF sub
  <2> QED
    BY <2>4 DEF S
<1>11. ASSUME NEW n \in DOMAIN h
       PROVE  /\ New(n) \in Node(DOMAIN h) /\ New(n).path # <<>>
              /\ New(n).name = h[n].name /\ New(n).children = h[n].children
              /\ n \notin sub => New(n) = h[n]
              /\ n \in sub => New(n).path = path[n]
  <2>1. h[n] \in Node(DOMAIN h) /\ h[n].path # <<>>
    BY TypedLinking
  <2>2. CASE n \in sub
    <3>1. path[n] \in Seq(Names) /\ path[n] # <<>>
      BY <1>10, <2>2
    <3>2. New(n) = [h[n] EXCEPT !.path = path[n]]
      BY <2>2
    <3> HIDE DEF New
    <3> QED
      BY <2>1, <2>2, <3>1, <3>2 DEF Node
  <2>3. CASE n \notin sub
    BY <2>1, <2>3
  <2> QED
    BY <2>2, <2>3
<1> HIDE DEF New
<1>12. DOMAIN u = DOMAIN h /\ \A n \in DOMAIN h : u[n] = New(n)
  OBVIOUS
<1> HIDE DEF u
<1>13. u[node].path = start
  BY <1>2, <1>8, <1>11, <1>12, Zenon
<1>14. \A m \in sub : \A s \in Names :
         h[m].children[s] # Null =>
           u[h[m].children[s]].path = JoinPath(u[m].path, h[h[m].children[s]].name)
  BY <1>2, <1>9, <1>11, <1>12
<1>15. Repathed(u, h, node, parentPath)
  BY <1>11, <1>12, <1>13, <1>14 DEF Repathed, sub
<1> QED
  BY <1>1, <1>15

\* updatePaths undoes what the move of a link left wrong: the paths at and below
\* the node moved.
LEMMA UpdatePathsForest ==
  ASSUME NEW h, Typed(h), Single(h), NoCycle(h), h[Root].path = <<Empty>>,
         \A n \in DOMAIN h : h[n].path # <<>>,
         NEW node \in DOMAIN h, NEW parent \in DOMAIN h, NEW nm \in Names,
         h[parent].children[nm] = node,
         \A m \in DOMAIN h : \A s \in Names :
           h[m].children[s] \notin {Null, node} =>
             h[h[m].children[s]].path = JoinPath(h[m].path, s),
         NEW u, u = UpdatePaths(h, node, h[parent].path)
  PROVE  Forest(u)
<1> DEFINE sub == Subtree(h, node)
<1>1. /\ Linking(h) /\ Len(h) \in Nat \ {0} /\ DOMAIN h = 1..Len(h)
      /\ \A n \in DOMAIN h : h[n] \in Node(DOMAIN h)
      /\ Root \in DOMAIN h /\ Null \notin DOMAIN h
  BY TypedLinking DEF Linking
<1>2. node # Null /\ node # Root /\ h[node].name = nm
  BY <1>1, OneHolder
<1>3. Movable(h, node)
  BY <1>1, <1>2 DEF Movable, NoCycle
<1>4. h[parent].path \in Seq(Names) /\ h[parent].path # <<>>
  BY <1>1 DEF Node
<1>5. Repathed(u, h, node, h[parent].path)
  <2> DEFINE above == h[parent].path
  <2>1. above \in Seq(Names) /\ above # <<>> /\ u = UpdatePaths(h, node, above)
    BY <1>4
  <2> HIDE DEF above
  <2>2. Repathed(u, h, node, above)
    BY <1>3, <2>1, UpdatePathsMeaning
  <2> QED
    BY <2>2 DEF above
<1>6. /\ DOMAIN u = DOMAIN h
      /\ \A n \in DOMAIN h :
           /\ u[n] \in Node(DOMAIN h) /\ u[n].path # <<>>
           /\ u[n].name = h[n].name /\ u[n].children = h[n].children
           /\ n \notin sub => u[n] = h[n]
      /\ u[node].path = JoinPath(h[parent].path, nm)
      /\ \A m \in sub : \A s \in Names :
           h[m].children[s] # Null =>
             u[h[m].children[s]].path = JoinPath(u[m].path, h[h[m].children[s]].name)
  BY <1>2, <1>5 DEF Repathed
<1>7. /\ node \in sub /\ sub \subseteq DOMAIN h
      /\ \A x \in sub : \A s \in Names : h[x].children[s] # Null => h[x].children[s] \in sub
      /\ \A x \in sub : x # node => \E y \in sub : \E s \in Names : h[y].children[s] = x
  BY <1>1, SubtreeClosed, HeldBelow
<1>8. parent \notin sub
  BY DEF NoCycle, Cyclic
<1>9. Root \notin sub
  BY <1>1, <1>2, <1>7, OneHolder
<1> HIDE DEF sub
<1>10. Typed(u)
  <2>1. u = [n \in DOMAIN h |-> u[n]]
    BY DEF UpdatePaths
  <2> DEFINE n == Len(h)
  <2>2. n \in Nat \ {0} /\ DOMAIN u = 1..n /\ u = [i \in 1..n |-> u[i]]
    BY <1>1, <1>6, <2>1
  <2> HIDE DEF n
  <2> QED
    BY <1>6, <2>2, TypedIs
<1>11. Linking(u)
  BY <1>10, TypedLinking
<1>12. Single(u)
  <2> SUFFICES ASSUME NEW m \in DOMAIN h, NEW n \in DOMAIN h, NEW s \in Names, NEW t \in Names,
                      h[m].children[s] # Null
               PROVE  /\ h[m].children[s] # Root /\ u[h[m].children[s]].name = s
                      /\ h[n].children[t] = h[m].children[s] => m = n /\ s = t
    BY <1>6 DEF Single
  <2>1. h[m].children[s] \in DOMAIN h
    BY <1>1 DEF Linking
  <2> QED
    BY <1>6, <2>1, OneHolder
<1>13. NoCycle(u)
  BY <1>1, <1>6, <1>11, FewerLinksNoCycle
<1>14. PathsJoin(u)
  <2>1. u[Root].path = <<Empty>>
    BY <1>1, <1>6, <1>9
  <2>2. ASSUME NEW m \in DOMAIN h, NEW s \in Names, h[m].children[s] # Null
        PROVE  u[h[m].children[s]].path = JoinPath(u[m].path, s)
    <3> DEFINE c == h[m].children[s]
    <3>1. c \in DOMAIN h /\ h[c].name = s
      BY <1>1, <2>2, OneHolder DEF Linking
    <3>2. CASE m \in sub
      BY <1>6, <2>2, <3>1, <3>2
    <3>3. CASE m \notin sub /\ c \in sub
      <4>1. c = node
        <5> SUFFICES ASSUME c # node PROVE FALSE
          OBVIOUS
        <5>1. PICK y \in sub, t \in Names : h[y].children[t] = c
          BY <1>7, <3>3
        <5>2. y \in DOMAIN h /\ \A x \in DOMAIN h : \A z \in Names :
                h[x].children[z] = h[m].children[s] => m = x
          BY <1>7, <2>2, OneHolder
        <5> QED
          BY <3>3, <5>1, <5>2
      <4>2. m = parent /\ s = nm
        <5>1. \A x \in DOMAIN h : \A z \in Names :
                h[x].children[z] = h[m].children[s] => m = x /\ s = z
          BY <2>2, OneHolder
        <5> QED
          BY <4>1, <5>1
      <4> QED
        BY <1>6, <1>8, <4>1, <4>2
    <3>4. CASE m \notin sub /\ c \notin sub
      BY <1>6, <1>7, <2>2, <3>1, <3>4
    <3> QED
      BY <3>2, <3>3, <3>4
  <2> QED
    BY <1>6, <2>1, <2>2 DEF PathsJoin
<1> QED
  BY <1>10, <1>12, <1>13, <1>14 DEF Forest

-----------------------------------------------------------------------------
(* rename's move of a link.                                                *)

\* What Relink makes of the heap.
Relinked(c, h, oldParent, oldName, newParent, newName) ==
  LET node == h[oldParent].children[oldName] IN
  /\ DOMAIN c = DOMAIN h /\ c = [n \in DOMAIN h |-> c[n]]
  /\ \A n \in DOMAIN h :
       /\ c[n] \in Node(DOMAIN h) /\ c[n].path = h[n].path
       /\ c[n].name = IF n = node THEN newName ELSE h[n].name
       /\ \A s \in Names :
            c[n].children[s] = IF n = newParent /\ s = newName THEN node
                               ELSE IF n = oldParent /\ s = oldName THEN Null
                               ELSE h[n].children[s]

\* rename's move makes one link, takes the old one away and renames the node.
LEMMA RelinkMeaning ==
  ASSUME NEW h, Typed(h), NEW oldParent \in DOMAIN h, NEW oldName \in Names,
         NEW newParent \in DOMAIN h, NEW newName \in Names,
         h[oldParent].children[oldName] # Null
  PROVE  Relinked(Relink(h, oldParent, oldName, newParent, newName),
                  h, oldParent, oldName, newParent, newName)
<1> DEFINE A      == DOMAIN h
           node   == h[oldParent].children[oldName]
           erased == [h EXCEPT ![oldParent].children[oldName] = Null]
           named  == [erased EXCEPT ![node].name = newName]
           linked == [named EXCEPT ![newParent].children[newName] = node]
<1>1. linked = Relink(h, oldParent, oldName, newParent, newName)
  BY DEF Relink
<1>2. /\ Linking(h) /\ \A n \in A : h[n] \in Node(A)
      /\ node \in A
  BY TypedLinking DEF Linking
<1> HIDE DEF node, A
<1>3. /\ DOMAIN erased = A
      /\ \A n \in A :
           /\ erased[n] \in Node(A) /\ erased[n].path = h[n].path /\ erased[n].name = h[n].name
           /\ \A s \in Names :
                erased[n].children[s] = IF n = oldParent /\ s = oldName THEN Null
                                        ELSE h[n].children[s]
  <2> DEFINE old == h[oldParent]
             new == [old EXCEPT !.children[oldName] = Null]
  <2>1. old \in Node(A)
    BY <1>2 DEF A
  <2>2. /\ new \in Node(A) /\ new.path = old.path /\ new.name = old.name
        /\ \A s \in Names : new.children[s] = IF s = oldName THEN Null ELSE old.children[s]
    <3> HIDE DEF old
    <3> QED
      BY <2>1 DEF Node
  <2>3. erased = [h EXCEPT ![oldParent] = new]
    OBVIOUS
  <2> HIDE DEF erased, new
  <2>4. /\ DOMAIN erased = A /\ erased[oldParent] = new
        /\ \A n \in A : n # oldParent => erased[n] = h[n]
    BY <2>3 DEF A
  <2> QED
    BY <1>2, <2>2, <2>4
<1> HIDE DEF erased
<1>4. /\ DOMAIN named = A
      /\ \A n \in A :
           /\ named[n] \in Node(A) /\ named[n].path = erased[n].path
           /\ named[n].name = IF n = node THEN newName ELSE erased[n].name
           /\ named[n].children = erased[n].children
  <2> DEFINE old == erased[node]
             new == [old EXCEPT !.name = newName]
  <2>1. old \in Node(A)
    BY <1>2, <1>3
  <2>2. /\ new \in Node(A) /\ new.path = old.path /\ new.name = newName
        /\ new.children = old.children
    <3> HIDE DEF old
    <3> QED
      BY <2>1 DEF Node
  <2>3. named = [erased EXCEPT ![node] = new]
    OBVIOUS
  <2> HIDE DEF named, new
  <2>4. /\ DOMAIN named = A /\ named[node] = new
        /\ \A n \in A : n # node => named[n] = erased[n]
    BY <1>2, <1>3, <2>3
  <2> QED
    BY <1>3, <2>2, <2>4
<1> HIDE DEF named
<1>5. /\ DOMAIN linked = A /\ linked = [n \in A |-> linked[n]]
      /\ \A n \in A :
           /\ linked[n] \in Node(A) /\ linked[n].path = named[n].path /\ linked[n].name = named[n].name
           /\ \A s \in Names :
                linked[n].children[s] = IF n = newParent /\ s = newName THEN node
                                        ELSE named[n].children[s]
  <2> DEFINE old == named[newParent]
             new == [old EXCEPT !.children[newName] = node]
  <2>1. old \in Node(A)
    BY <1>4 DEF A
  <2>2. /\ new \in Node(A) /\ new.path = old.path /\ new.name = old.name
        /\ \A s \in Names : new.children[s] = IF s = newName THEN node ELSE old.children[s]
    <3> HIDE DEF old
    <3> QED
      BY <1>2, <2>1 DEF Node
  <2>3. linked = [named EXCEPT ![newParent] = new]
    OBVIOUS
  <2> HIDE DEF linked, new
  <2>4. /\ DOMAIN linked = A /\ linked = [n \in A |-> linked[n]] /\ linked[newParent] = new
        /\ \A n \in A : n # newParent => linked[n] = named[n]
    BY <1>4, <2>3 DEF A
  <2> QED
    BY <1>4, <2>2, <2>4
<1> HIDE DEF linked
<1>6. Relinked(linked, h, oldParent, oldName, newParent, newName)
  BY <1>3, <1>4, <1>5 DEF Relinked, A, node
<1> QED
  BY <1>1, <1>6

\* A forest but for the paths at and below a node whose link has been moved.
MovedLink(c, newParent, newName, node) ==
  /\ Typed(c) /\ Single(c) /\ c[Root].path = <<Empty>>
  /\ \A n \in DOMAIN c : c[n].path # <<>>
  /\ node \in DOMAIN c /\ newParent \in DOMAIN c /\ c[newParent].children[newName] = node
  /\ \A m \in DOMAIN c : \A s \in Names :
       c[m].children[s] \notin {Null, node} =>
         c[c[m].children[s]].path = JoinPath(c[m].path, s)
  /\ ~Cyclic(c, node) => NoCycle(c)

\* That is all a moved link leaves wrong, unless it closes a cycle.
LEMMA RelinkedForest ==
  ASSUME NEW h, Forest(h), NEW oldParent \in DOMAIN h, NEW oldName \in Names,
         NEW newParent \in DOMAIN h, NEW newName \in Names,
         NEW node, node = h[oldParent].children[oldName], node # Null,
         NEW c, Relinked(c, h, oldParent, oldName, newParent, newName)
  PROVE  MovedLink(c, newParent, newName, node)
<1>1. /\ Typed(h) /\ Linking(h) /\ Single(h) /\ NoCycle(h) /\ PathsJoin(h)
      /\ Len(h) \in Nat \ {0} /\ DOMAIN h = 1..Len(h)
      /\ Root \in DOMAIN h /\ Null \notin DOMAIN h
  BY TypedLinking DEF Forest, Linking
<1>2. /\ DOMAIN c = DOMAIN h /\ c = [n \in DOMAIN h |-> c[n]]
      /\ \A n \in DOMAIN h :
           /\ c[n] \in Node(DOMAIN h) /\ c[n].path = h[n].path
           /\ c[n].name = IF n = node THEN newName ELSE h[n].name
           /\ \A s \in Names :
                c[n].children[s] = IF n = newParent /\ s = newName THEN node
                                   ELSE IF n = oldParent /\ s = oldName THEN Null
                                   ELSE h[n].children[s]
  BY DEF Relinked
<1>3. /\ node \in DOMAIN h /\ node # Root
      /\ \A n \in DOMAIN h : \A t \in Names :
           h[n].children[t] = node => n = oldParent /\ t = oldName
  <2>1. node \in DOMAIN h
    BY <1>1 DEF Linking
  <2>2. /\ h[oldParent].children[oldName] # Root
        /\ \A n \in DOMAIN h : \A t \in Names :
             h[n].children[t] = h[oldParent].children[oldName] => oldParent = n /\ oldName = t
    BY <1>1, OneHolder
  <2> QED
    BY <2>1, <2>2
<1>4. Typed(c)
  <2> DEFINE n == Len(h)
  <2>1. n \in Nat \ {0} /\ DOMAIN c = 1..n /\ c = [i \in 1..n |-> c[i]]
    BY <1>1, <1>2
  <2> HIDE DEF n
  <2> QED
    BY <1>2, <2>1, TypedIs
<1>5. Linking(c)
  BY <1>4, TypedLinking
<1>6. \A n \in DOMAIN h : \A s \in Names :
        \/ c[n].children[s] = Null
        \/ c[n].children[s] = node /\ n = newParent /\ s = newName
        \/ /\ c[n].children[s] = h[n].children[s] /\ h[n].children[s] \in DOMAIN h
           /\ h[n].children[s] \notin {Null, node}
  <2> SUFFICES ASSUME NEW n \in DOMAIN h, NEW s \in Names, c[n].children[s] # Null,
                      ~(n = newParent /\ s = newName)
               PROVE  /\ c[n].children[s] = h[n].children[s] /\ h[n].children[s] \in DOMAIN h
                      /\ h[n].children[s] \notin {Null, node}
    BY <1>2
  <2>1. c[n].children[s] = h[n].children[s] /\ ~(n = oldParent /\ s = oldName)
    BY <1>2
  <2> QED
    BY <1>1, <1>3, <2>1 DEF Linking
<1>7. Single(c)
  <2> SUFFICES ASSUME NEW m \in DOMAIN h, NEW n \in DOMAIN h, NEW s \in Names, NEW t \in Names,
                      c[m].children[s] # Null
               PROVE  /\ c[m].children[s] # Root /\ c[c[m].children[s]].name = s
                      /\ c[n].children[t] = c[m].children[s] => m = n /\ s = t
    BY <1>2 DEF Single
  <2>1. CASE c[m].children[s] = node /\ m = newParent /\ s = newName
    BY <1>2, <1>3, <1>6, <2>1
  <2>2. CASE /\ c[m].children[s] = h[m].children[s] /\ h[m].children[s] \in DOMAIN h
             /\ h[m].children[s] \notin {Null, node}
    <3>1. /\ h[m].children[s] # Root /\ h[h[m].children[s]].name = s
          /\ \A x \in DOMAIN h : \A y \in Names :
               h[x].children[y] = h[m].children[s] => m = x /\ s = y
      BY <1>1, <2>2, OneHolder
    <3>2. c[h[m].children[s]].name = s
      BY <1>2, <2>2, <3>1
    <3>3. ASSUME c[n].children[t] = h[m].children[s] PROVE m = n /\ s = t
      BY <1>6, <2>2, <3>1, <3>3
    <3> QED
      BY <2>2, <3>1, <3>2, <3>3
  <2> QED
    BY <1>6, <2>1, <2>2
<1>8. c[Root].path = <<Empty>> /\ \A n \in DOMAIN c : c[n].path # <<>>
  BY <1>1, <1>2 DEF PathsJoin
<1>9. ASSUME NEW m \in DOMAIN c, NEW s \in Names, c[m].children[s] \notin {Null, node}
      PROVE  c[c[m].children[s]].path = JoinPath(c[m].path, s)
  <2>1. /\ c[m].children[s] = h[m].children[s] /\ h[m].children[s] \in DOMAIN h
        /\ h[m].children[s] # Null /\ m \in DOMAIN h
    BY <1>2, <1>6, <1>9
  <2>2. h[h[m].children[s]].path = JoinPath(h[m].path, s)
    BY <1>1, <2>1 DEF PathsJoin
  <2> QED
    BY <1>2, <2>1, <2>2
<1>10. ASSUME ~Cyclic(c, node) PROVE NoCycle(c)
  <2>1. \A n \in DOMAIN h : \A s \in Names :
          c[n].children[s] \in {Null, node} \/ c[n].children[s] = h[n].children[s]
    BY <1>6
  <2> QED
    BY <1>1, <1>2, <1>3, <1>5, <1>10, <2>1, MovedLinkNoCycle
<1>11. c[newParent].children[newName] = node
  BY <1>2
<1> QED
  BY <1>2, <1>3, <1>4, <1>7, <1>8, <1>9, <1>10, <1>11 DEF MovedLink

-----------------------------------------------------------------------------
(* The operations on the tree.                                             *)

\* The directory and the name of a path.
LEMMA PathParts ==
  ASSUME NEW p \in Seq(Names), p # <<>>
  PROVE  DirName(p) \in Seq(Names) /\ FileName(p) \in Names
<1>1. Len(p) \in Nat \ {0}
  BY EmptySeq
<1>2. Len(p) \in 1..Len(p)
  BY <1>1
<1> QED
  BY <1>1, <1>2 DEF DirName, FileName, Front, Last

\* A lookup finds a node or nothing.
LEMMA FindNodeType ==
  ASSUME NEW h, Linking(h), NEW p \in Seq(Names)
  PROVE  FindNode(h, p) \in DOMAIN h \cup {Null}
<1> DEFINE s == Components(p)
<1>1. s \in Seq(Names)
  BY ComponentsType
<1> HIDE DEF s
<1>2. Len(s) \in Nat /\ Walk(h, s) \in [0..Len(s) -> DOMAIN h \cup {Null}]
  BY <1>1, WalkMeaning
<1>3. Walk(h, s)[Len(s)] \in DOMAIN h \cup {Null}
  BY <1>2
<1> QED
  BY <1>3 DEF FindNode, s

\* remove.
LEMMA RemoveForest ==
  ASSUME Forest(heap), NEW p \in Seq(Names), p # <<>>, RemovePath(p)
  PROVE  Forest(heap')
<1> SUFFICES ASSUME NEW parent \in DOMAIN heap,
                    heap' = [heap EXCEPT ![parent].children[FileName(p)] = Null]
             PROVE  Forest(heap')
  BY DEF RemovePath
<1> DEFINE h   == heap
           c   == heap'
           nm  == FileName(p)
           old == h[parent]
           new == [old EXCEPT !.children[nm] = Null]
<1>1. /\ Typed(h) /\ Linking(h) /\ Single(h) /\ NoCycle(h) /\ PathsJoin(h)
      /\ Len(h) \in Nat \ {0} /\ DOMAIN h = 1..Len(h)
      /\ Root \in DOMAIN h /\ Null \notin DOMAIN h
      /\ \A n \in DOMAIN h : h[n] \in Node(DOMAIN h)
  BY TypedLinking DEF Forest, Linking
<1>2. nm \in Names
  BY PathParts
<1>3. c = [h EXCEPT ![parent] = new]
  OBVIOUS
<1>4. /\ new \in Node(DOMAIN h) /\ new.path = old.path /\ new.name = old.name
      /\ \A s \in Names : new.children[s] = IF s = nm THEN Null ELSE old.children[s]
  <2>1. old \in Node(DOMAIN h)
    BY <1>1
  <2> HIDE DEF old, nm
  <2> QED
    BY <1>2, <2>1 DEF Node
<1> HIDE DEF new, nm
<1>5. /\ DOMAIN c = DOMAIN h /\ c = [n \in DOMAIN h |-> c[n]]
      /\ \A n \in DOMAIN h : c[n] = IF n = parent THEN new ELSE h[n]
  BY <1>3
<1> HIDE DEF c
<1>6. \A n \in DOMAIN h :
        /\ c[n] \in Node(DOMAIN h) /\ c[n].path = h[n].path /\ c[n].name = h[n].name
        /\ \A s \in Names : c[n].children[s] \in {Null, h[n].children[s]}
  BY <1>1, <1>4, <1>5
<1> HIDE DEF h
<1>7. Typed(c)
  <2> DEFINE n == Len(h)
  <2>1. n \in Nat \ {0} /\ DOMAIN c = 1..n /\ c = [i \in 1..n |-> c[i]]
    BY <1>1, <1>5
  <2> HIDE DEF n
  <2> QED
    BY <1>5, <1>6, <2>1, TypedIs
<1>8. Linking(c)
  BY <1>7, TypedLinking
<1>9. Single(c)
  <2> SUFFICES ASSUME NEW m \in DOMAIN h, NEW n \in DOMAIN h, NEW s \in Names, NEW t \in Names,
                      c[m].children[s] # Null
               PROVE  /\ c[m].children[s] # Root /\ c[c[m].children[s]].name = s
                      /\ c[n].children[t] = c[m].children[s] => m = n /\ s = t
    BY <1>5 DEF Single
  <2>1. c[m].children[s] = h[m].children[s] /\ h[m].children[s] # Null
    BY <1>6
  <2>2. h[m].children[s] \in DOMAIN h
    BY <1>1, <2>1 DEF Linking
  <2>3. /\ h[m].children[s] # Root /\ h[h[m].children[s]].name = s
        /\ \A x \in DOMAIN h : \A y \in Names :
             h[x].children[y] = h[m].children[s] => m = x /\ s = y
    BY <1>1, <2>1, OneHolder
  <2>4. c[n].children[t] \in {Null, h[n].children[t]}
    BY <1>6
  <2> QED
    BY <1>6, <2>1, <2>2, <2>3, <2>4
<1>10. NoCycle(c)
  BY <1>1, <1>5, <1>6, <1>8, FewerLinksNoCycle
<1>11. PathsJoin(c)
  <2>1. c[Root].path = <<Empty>> /\ \A n \in DOMAIN c : c[n].path # <<>>
    BY <1>1, <1>5, <1>6 DEF PathsJoin
  <2>2. ASSUME NEW m \in DOMAIN c, NEW s \in Names, c[m].children[s] # Null
        PROVE  c[c[m].children[s]].path = JoinPath(c[m].path, s)
    <3>1. c[m].children[s] = h[m].children[s] /\ h[m].children[s] # Null /\ m \in DOMAIN h
      BY <1>5, <1>6, <2>2
    <3>2. h[m].children[s] \in DOMAIN h
      BY <1>1, <3>1 DEF Linking
    <3>3. h[h[m].children[s]].path = JoinPath(h[m].path, s)
      BY <1>1, <3>1 DEF PathsJoin
    <3> QED
      BY <1>6, <3>1, <3>2, <3>3
  <2> QED
    BY <2>1, <2>2 DEF PathsJoin
<1> QED
  BY <1>7, <1>9, <1>10, <1>11 DEF Forest, c

\* What a rename that goes through comes down to.
Moves(from, to, created, oldParent, newParent, node, moved) ==
  /\ created = CreatePath(heap, DirName(to), TRUE)
  /\ oldParent \in DOMAIN heap /\ oldParent = FindNode(heap, DirName(from))
  /\ newParent \in DOMAIN created /\ newParent = FindNode(created, DirName(to))
  /\ node = heap[oldParent].children[FileName(from)]
  /\ moved = Relink(created, oldParent, FileName(from), newParent, FileName(to))
  /\ IF Cyclic(moved, node) THEN running' = FALSE /\ UNCHANGED heap
     ELSE heap' = UpdatePaths(moved, node, moved[newParent].path) /\ UNCHANGED running

\* A rename is such a move.
LEMMA RenameMoves ==
  ASSUME NEW from, NEW to, Rename(from, to)
  PROVE  \E created, oldParent, newParent, node, moved :
           Moves(from, to, created, oldParent, newParent, node, moved)
<1> DEFINE created == CreatePath(heap, DirName(to), TRUE)
<1>1. PICK oldParent \in DOMAIN heap :
        /\ oldParent = FindNode(heap, DirName(from))
        /\ \E newParent \in DOMAIN created :
             /\ newParent = FindNode(created, DirName(to))
             /\ LET node  == heap[oldParent].children[FileName(from)]
                    moved == Relink(created, oldParent, FileName(from), newParent, FileName(to))
                IN IF Cyclic(moved, node)
                   THEN running' = FALSE /\ UNCHANGED heap
                   ELSE /\ heap' = UpdatePaths(moved, node, moved[newParent].path)
                        /\ UNCHANGED running
  BY DEF Rename
<1>2. PICK newParent \in DOMAIN created :
        /\ newParent = FindNode(created, DirName(to))
        /\ LET node  == heap[oldParent].children[FileName(from)]
               moved == Relink(created, oldParent, FileName(from), newParent, FileName(to))
           IN IF Cyclic(moved, node)
              THEN running' = FALSE /\ UNCHANGED heap
              ELSE /\ heap' = UpdatePaths(moved, node, moved[newParent].path)
                   /\ UNCHANGED running
  BY <1>1
<1> DEFINE node  == heap[oldParent].children[FileName(from)]
           moved == Relink(created, oldParent, FileName(from), newParent, FileName(to))
<1>3. Moves(from, to, created, oldParent, newParent, node, moved)
  BY <1>1, <1>2 DEF Moves
<1> QED
  BY <1>3

\* The heap half way through: the target's directories made, the link moved.
LEMMA MovedForest ==
  ASSUME Forest(heap), NEW from \in Seq(Names), from # <<>>, NEW to \in Seq(Names), to # <<>>,
         Rename(from, to),
         NEW created, NEW oldParent, NEW newParent, NEW node, NEW moved,
         Moves(from, to, created, oldParent, newParent, node, moved)
  PROVE  /\ Forest(created) /\ Extends(heap, created)
         /\ oldParent \in DOMAIN created /\ newParent \in DOMAIN created
         /\ node # Null /\ created[oldParent].children[FileName(from)] = node
         /\ Relinked(moved, created, oldParent, FileName(from), newParent, FileName(to))
<1>1. DirName(to) \in Seq(Names) /\ FileName(from) \in Names /\ FileName(to) \in Names
  BY PathParts
<1>2. created = CreatePath(heap, DirName(to), TRUE)
  BY DEF Moves
<1>3. Forest(created) /\ Extends(heap, created)
  BY <1>1, <1>2, CreatePathForest
<1>4. /\ oldParent \in DOMAIN heap /\ newParent \in DOMAIN created
      /\ node = heap[oldParent].children[FileName(from)]
      /\ oldParent = FindNode(heap, DirName(from))
      /\ moved = Relink(created, oldParent, FileName(from), newParent, FileName(to))
  BY DEF Moves
<1>5. node # Null
  BY <1>4 DEF Rename, HasEntry
<1>6. oldParent \in DOMAIN created /\ created[oldParent].children[FileName(from)] = node
  BY <1>1, <1>3, <1>4, <1>5 DEF Extends
<1>7. Typed(created)
  BY <1>3 DEF Forest
<1>8. Relinked(moved, created, oldParent, FileName(from), newParent, FileName(to))
  <2> DEFINE oldName == FileName(from)
             newName == FileName(to)
  <2>1. /\ oldName \in Names /\ newName \in Names /\ created[oldParent].children[oldName] # Null
        /\ moved = Relink(created, oldParent, oldName, newParent, newName)
    BY <1>1, <1>4, <1>5, <1>6
  <2> HIDE DEF oldName, newName
  <2>2. Relinked(moved, created, oldParent, oldName, newParent, newName)
    BY <1>4, <1>6, <1>7, <2>1, RelinkMeaning
  <2> QED
    BY <2>2 DEF oldName, newName
<1> QED
  BY <1>3, <1>4, <1>5, <1>6, <1>8

\* rename.
LEMMA RenameForest ==
  ASSUME Forest(heap), NEW from \in Seq(Names), from # <<>>, NEW to \in Seq(Names), to # <<>>,
         Rename(from, to)
  PROVE  Forest(heap') /\ running' \in {running, FALSE}
<1>1. PICK created, oldParent, newParent, node, moved :
        Moves(from, to, created, oldParent, newParent, node, moved)
  BY RenameMoves
<1> DEFINE oldName == FileName(from)
           newName == FileName(to)
<1>2. oldName \in Names /\ newName \in Names
  BY PathParts
<1>3. /\ Forest(created) /\ oldParent \in DOMAIN created /\ newParent \in DOMAIN created
      /\ node # Null /\ created[oldParent].children[oldName] = node
      /\ Relinked(moved, created, oldParent, oldName, newParent, newName)
  BY <1>1, MovedForest
<1> HIDE DEF oldName, newName
<1>4. MovedLink(moved, newParent, newName, node)
  BY <1>2, <1>3, RelinkedForest
<1>5. /\ Typed(moved) /\ Single(moved) /\ moved[Root].path = <<Empty>>
      /\ \A n \in DOMAIN moved : moved[n].path # <<>>
      /\ node \in DOMAIN moved /\ newParent \in DOMAIN moved
      /\ moved[newParent].children[newName] = node
      /\ \A m \in DOMAIN moved : \A s \in Names :
           moved[m].children[s] \notin {Null, node} =>
             moved[moved[m].children[s]].path = JoinPath(moved[m].path, s)
      /\ ~Cyclic(moved, node) => NoCycle(moved)
  BY <1>4 DEF MovedLink
<1>6. CASE Cyclic(moved, node)
  BY <1>1, <1>6 DEF Moves
<1>7. CASE ~Cyclic(moved, node)
  <2>1. heap' = UpdatePaths(moved, node, moved[newParent].path) /\ running' = running
    BY <1>1, <1>7 DEF Moves
  <2>2. Forest(heap')
    BY <1>2, <1>5, <1>7, <2>1, UpdatePathsForest
  <2> QED
    BY <2>1, <2>2
<1> QED
  BY <1>6, <1>7

\* write.
LEMMA WriteForest ==
  ASSUME IInv, IInv', Forest(heap), NEW f \in Handles, NEW buffer, Write(f, buffer)
  PROVE  Forest(heap')
<1> DEFINE h    == heap
           c    == heap'
           node == handles[f].node
           old  == h[node]
           data == Written(old.data, handles[f].position, buffer)
           new  == [old EXCEPT !.data = data]
<1>1. /\ Typed(h) /\ Linking(h) /\ Single(h) /\ NoCycle(h) /\ PathsJoin(h)
      /\ Len(h) \in Nat \ {0} /\ DOMAIN h = 1..Len(h)
      /\ Root \in DOMAIN h /\ Null \notin DOMAIN h
      /\ \A n \in DOMAIN h : h[n] \in Node(DOMAIN h)
  BY TypedLinking DEF Forest, Linking
<1>2. node \in DOMAIN h
  BY DEF IInv, HandleType, Write, Usable
<1>3. c = [h EXCEPT ![node] = new]
  BY DEF Write
<1>4. old \in Node(DOMAIN h)
  BY <1>1, <1>2
<1>5. new.data = data /\ DOMAIN c = DOMAIN h /\ c[node] = new
  <2>1. new.data = data
    <3> HIDE DEF old, data
    <3> QED
      BY <1>4 DEF Node
  <2> HIDE DEF new
  <2> QED
    BY <1>2, <1>3, <2>1
<1>6. data \in Seq(Bytes \cup {Zero})
  <2>1. c[node].data \in Seq(Bytes)
    BY <1>2, <1>5 DEF IInv, IsHeap
  <2>2. data \in Seq(Bytes)
    <3> HIDE DEF data
    <3> QED
      BY <1>5, <2>1
  <2> HIDE DEF data
  <2> QED
    BY <2>2
<1>7. /\ new \in Node(DOMAIN h) /\ new.path = old.path /\ new.name = old.name
      /\ new.children = old.children
  <2> HIDE DEF old, data
  <2> QED
    BY <1>4, <1>6 DEF Node
<1> HIDE DEF new, node
<1>8. /\ DOMAIN c = DOMAIN h /\ c = [n \in DOMAIN h |-> c[n]]
      /\ \A n \in DOMAIN h : c[n] = IF n = node THEN new ELSE h[n]
  BY <1>3
<1> HIDE DEF c
<1>9. \A n \in DOMAIN h :
        /\ c[n] \in Node(DOMAIN h) /\ c[n].path = h[n].path /\ c[n].name = h[n].name
        /\ c[n].children = h[n].children
  BY <1>1, <1>7, <1>8
<1> HIDE DEF h, old, data
<1>10. Typed(c)
  <2> DEFINE n == Len(h)
  <2>1. n \in Nat \ {0} /\ DOMAIN c = 1..n /\ c = [i \in 1..n |-> c[i]]
    BY <1>1, <1>8
  <2> HIDE DEF n
  <2> QED
    BY <1>8, <1>9, <2>1, TypedIs
<1>11. Linking(c)
  BY <1>10, TypedLinking
<1>12. Single(c)
  <2> SUFFICES ASSUME NEW m \in DOMAIN h, NEW n \in DOMAIN h, NEW s \in Names, NEW t \in Names,
                      h[m].children[s] # Null
               PROVE  /\ h[m].children[s] # Root /\ c[h[m].children[s]].name = s
                      /\ h[n].children[t] = h[m].children[s] => m = n /\ s = t
    BY <1>8, <1>9 DEF Single
  <2>1. h[m].children[s] \in DOMAIN h
    BY <1>1 DEF Linking
  <2> QED
    BY <1>1, <1>9, <2>1, OneHolder
<1>13. NoCycle(c)
  BY <1>1, <1>8, <1>9, <1>11, FewerLinksNoCycle
<1>14. PathsJoin(c)
  <2>1. c[Root].path = <<Empty>> /\ \A n \in DOMAIN c : c[n].path # <<>>
    BY <1>1, <1>8, <1>9 DEF PathsJoin
  <2>2. ASSUME NEW m \in DOMAIN c, NEW s \in Names, c[m].children[s] # Null
        PROVE  c[c[m].children[s]].path = JoinPath(c[m].path, s)
    <3>1. m \in DOMAIN h /\ c[m].children[s] = h[m].children[s] /\ c[m].path = h[m].path
      BY <1>8, <1>9, <2>2
    <3>2. h[m].children[s] \in DOMAIN h
      BY <1>1, <2>2, <3>1 DEF Linking
    <3>3. h[h[m].children[s]].path = JoinPath(h[m].path, s)
      BY <1>1, <2>2, <3>1 DEF PathsJoin
    <3>4. c[h[m].children[s]].path = h[h[m].children[s]].path
      BY <1>9, <3>2
    <3> QED
      BY <3>1, <3>3, <3>4, Zenon
  <2> QED
    BY <2>1, <2>2 DEF PathsJoin
<1> QED
  BY <1>10, <1>12, <1>13, <1>14 DEF Forest, c

-----------------------------------------------------------------------------
(* Paths found again.                                                      *)

\* The first k segments of a path are those before and one more.
LEMMA OneMoreSegment ==
  ASSUME NEW S, NEW l \in Seq(S), NEW k \in 1..Len(l)
  PROVE  /\ SubSeq(l, 1, k) = Append(SubSeq(l, 1, k - 1), l[k])
         /\ SubSeq(l, 1, k - 1) \in Seq(S) /\ Len(SubSeq(l, 1, k - 1)) = k - 1
         /\ k > 1 => Last(SubSeq(l, 1, k - 1)) = l[k - 1]
<1> DEFINE a == SubSeq(l, 1, k - 1)
           b == SubSeq(l, 1, k)
<1>1. Len(l) \in Nat /\ k \in Nat /\ k > 0 /\ k <= Len(l) /\ k - 1 \in Nat /\ l[k] \in S
  OBVIOUS
<1>2. a \in Seq(S) /\ Len(a) = k - 1 /\ \A i \in 1..(k - 1) : a[i] = l[i]
  BY <1>1
<1>3. b \in Seq(S) /\ Len(b) = k /\ \A i \in 1..k : b[i] = l[i]
  BY <1>1
<1> HIDE DEF a, b
<1>4. /\ Append(a, l[k]) \in Seq(S) /\ Len(Append(a, l[k])) = Len(a) + 1
      /\ \A i \in 1..Len(a) : Append(a, l[k])[i] = a[i]
      /\ Append(a, l[k])[Len(a) + 1] = l[k]
  BY <1>1, <1>2, AppendProperties
<1>5. \A i \in 1..k : b[i] = Append(a, l[k])[i]
  BY <1>1, <1>2, <1>3, <1>4
<1>6. b = Append(a, l[k])
  BY <1>1, <1>2, <1>3, <1>4, <1>5, SeqEqual
<1>7. k > 1 => Last(a) = l[k - 1]
  BY <1>1, <1>2 DEF Last
<1> QED
  BY <1>2, <1>6, <1>7 DEF a, b

\* Along segments that are not empty every node reports the way to it.
LEMMA ReportedPath ==
  ASSUME NEW h, Forest(h), NEW l \in Seq(Names \ {Empty}), NEW k \in 1..Len(l),
         Walk(h, l)[k] # Null
  PROVE  h[Walk(h, l)[k]].path = SubSeq(l, 1, k)
<1> DEFINE n == Len(l)
           w == Walk(h, l)
           T == {i \in 1..n : w[i] # Null /\ h[w[i]].path # SubSeq(l, 1, i)}
<1>1. Linking(h) /\ PathsJoin(h)
  BY TypedLinking DEF Forest
<1>2. l \in Seq(Names) /\ n \in Nat
  OBVIOUS
<1>3. /\ w \in [0..n -> DOMAIN h \cup {Null}] /\ w[0] = Root
      /\ \A i \in 1..n : w[i] = IF w[i - 1] = Null THEN Null ELSE h[w[i - 1]].children[l[i]]
  BY <1>1, <1>2, WalkMeaning
<1> HIDE DEF w
<1>4. T = {}
  <2> SUFFICES ASSUME T # {} PROVE FALSE
    OBVIOUS
  <2>1. T \in SUBSET Nat
    BY <1>2
  <2>2. PICK i \in T : \A y \in T : i <= y
    <3> HIDE DEF T
    <3> QED
      BY <2>1, SmallestNumber
  <2>3. i \in 1..n /\ w[i] # Null /\ h[w[i]].path # SubSeq(l, 1, i)
    BY <2>2
  <2>4. i - 1 \in 0..n /\ ~(i <= i - 1) /\ (i # 1 => i - 1 \in 1..n)
    BY <1>2, <2>3
  <2>5. /\ w[i - 1] \in DOMAIN h /\ w[i - 1] # Null
        /\ w[i] = h[w[i - 1]].children[l[i]]
    BY <1>1, <1>3, <2>3, <2>4 DEF Linking
  <2>6. l[i] \in Names /\ (i # 1 => l[i - 1] # Empty)
    <3>1. \A j \in 1..n : l[j] \in Names \ {Empty}
      OBVIOUS
    <3> QED
      BY <2>3, <2>4, <3>1
  <2>7. h[w[i]].path = JoinPath(h[w[i - 1]].path, l[i])
    BY <1>1, <2>3, <2>5, <2>6, Zenon DEF PathsJoin
  <2>8. /\ SubSeq(l, 1, i) = Append(SubSeq(l, 1, i - 1), l[i])
        /\ Len(SubSeq(l, 1, i - 1)) = i - 1 /\ SubSeq(l, 1, i - 1) \in Seq(Names)
        /\ i > 1 => Last(SubSeq(l, 1, i - 1)) = l[i - 1]
    BY <1>2, <2>3, OneMoreSegment
  <2>9. CASE i = 1
    <3>1. h[w[i - 1]].path = <<Empty>>
      BY <1>1, <1>3, <2>9 DEF PathsJoin
    <3>2. Last(<<Empty>>) = Empty /\ Front(<<Empty>>) = <<>>
      BY DEF Last, Front
    <3>3. SubSeq(l, 1, i - 1) = <<>>
      BY <2>8, <2>9, EmptySeq
    <3> QED
      BY <2>3, <2>7, <2>8, <3>1, <3>2, <3>3 DEF JoinPath
  <2>10. CASE i # 1
    <3>1. h[w[i - 1]].path = SubSeq(l, 1, i - 1)
      BY <2>2, <2>4, <2>5, <2>10
    <3>2. Last(SubSeq(l, 1, i - 1)) # Empty
      BY <2>3, <2>6, <2>8, <2>10
    <3> QED
      BY <2>3, <2>7, <2>8, <3>1, <3>2 DEF JoinPath
  <2> QED
    BY <2>9, <2>10
<1>5. k \notin T
  BY <1>4
<1> QED
  BY <1>5 DEF w

\* A path of a heap leads to the same node in a heap that extends it.
LEMMA WalkExtends ==
  ASSUME NEW h, Linking(h), NEW c, Linking(c), Extends(h, c), NEW s \in Seq(Names),
         NEW k \in 0..Len(s), Walk(h, s)[k] # Null
  PROVE  Walk(c, s)[k] = Walk(h, s)[k]
<1> DEFINE n == Len(s)
           v == Walk(h, s)
           w == Walk(c, s)
           T == {i \in 0..n : v[i] # Null /\ w[i] # v[i]}
<1>1. n \in Nat /\ \A i \in 1..n : s[i] \in Names
  OBVIOUS
<1>2. /\ v \in [0..n -> DOMAIN h \cup {Null}] /\ v[0] = Root
      /\ \A i \in 1..n : v[i] = IF v[i - 1] = Null THEN Null ELSE h[v[i - 1]].children[s[i]]
  BY WalkMeaning
<1>3. /\ w[0] = Root
      /\ \A i \in 1..n : w[i] = IF w[i - 1] = Null THEN Null ELSE c[w[i - 1]].children[s[i]]
  BY WalkMeaning
<1> HIDE DEF v, w
<1>4. T = {}
  <2> SUFFICES ASSUME T # {} PROVE FALSE
    OBVIOUS
  <2>1. T \in SUBSET Nat
    BY <1>1
  <2>2. PICK i \in T : \A y \in T : i <= y
    <3> HIDE DEF T
    <3> QED
      BY <2>1, SmallestNumber
  <2>3. i \in 0..n /\ v[i] # Null /\ w[i] # v[i]
    BY <2>2
  <2>4. i # 0
    BY <1>2, <1>3, <2>3
  <2>5. i \in 1..n /\ i - 1 \in 0..n /\ ~(i <= i - 1)
    BY <1>1, <2>3, <2>4
  <2>6. v[i - 1] \in DOMAIN h /\ v[i - 1] # Null /\ v[i] = h[v[i - 1]].children[s[i]]
    BY <1>2, <2>3, <2>5
  <2>7. w[i - 1] = v[i - 1]
    BY <2>2, <2>5, <2>6
  <2>8. c[v[i - 1]].children[s[i]] = h[v[i - 1]].children[s[i]]
    BY <1>1, <2>3, <2>5, <2>6 DEF Extends
  <2> QED
    BY <1>3, <2>3, <2>5, <2>6, <2>7, <2>8
<1>5. k \notin T
  BY <1>4
<1> QED
  BY <1>5 DEF v, w

\* A path to a node below another leads through that one.
LEMMA WalkThrough ==
  ASSUME NEW h, Linking(h), Single(h), NEW node \in DOMAIN h, node # Root,
         NEW s \in Seq(Names), NEW k \in 0..Len(s), Walk(h, s)[k] \in Subtree(h, node)
  PROVE  \E j \in 1..k : Walk(h, s)[j] = node
<1> DEFINE n == Len(s)
           w == Walk(h, s)
           sub == Subtree(h, node)
           T == {i \in 0..k : w[i] \in sub}
<1>1. n \in Nat /\ k \in 0..n /\ \A i \in 1..n : s[i] \in Names
  OBVIOUS
<1>2. /\ w \in [0..n -> DOMAIN h \cup {Null}] /\ w[0] = Root
      /\ \A i \in 1..n : w[i] = IF w[i - 1] = Null THEN Null ELSE h[w[i - 1]].children[s[i]]
  BY WalkMeaning
<1>3. w[k] \in sub
  OBVIOUS
<1> HIDE DEF w
<1>4. sub \subseteq DOMAIN h /\ Null \notin sub
  BY SubtreeClosed DEF Linking
<1>5. T \in SUBSET Nat /\ T # {}
  BY <1>1, <1>3
<1>6. PICK i \in T : \A y \in T : i <= y
  <2> HIDE DEF T
  <2> QED
    BY <1>5, SmallestNumber
<1>7. i \in 0..k /\ w[i] \in sub
  BY <1>6
<1>8. ASSUME w[i] # node PROVE FALSE
  <2>1. PICK y \in sub, t \in Names : h[y].children[t] = w[i]
    BY <1>7, <1>8, HeldBelow
  <2>2. y \in DOMAIN h /\ h[y].children[t] # Null
    BY <1>4, <1>7, <2>1
  <2>3. /\ w[i] # Root
        /\ \A x \in DOMAIN h : \A z \in Names : h[x].children[z] = w[i] => y = x
    <3>1. /\ h[y].children[t] # Root
          /\ \A x \in DOMAIN h : \A z \in Names :
               h[x].children[z] = h[y].children[t] => y = x /\ t = z
      BY <2>2, OneHolder
    <3> QED
      BY <2>1, <3>1
  <2>4. i # 0
    BY <1>2, <2>3
  <2>5. i \in 1..n /\ i - 1 \in 0..n /\ i - 1 \in 0..k /\ ~(i <= i - 1)
    BY <1>1, <1>7, <2>4
  <2>6. w[i - 1] \in DOMAIN h /\ h[w[i - 1]].children[s[i]] = w[i]
    BY <1>2, <1>4, <1>7, <2>5
  <2>7. w[i - 1] = y
    BY <1>1, <2>3, <2>5, <2>6
  <2>8. i - 1 \in T
    BY <2>5, <2>7
  <2> HIDE DEF T
  <2> QED
    BY <1>6, <2>5, <2>8
<1>9. i # 0
  BY <1>2, <1>8
<1>10. i \in 1..k
  BY <1>1, <1>7, <1>9
<1> QED
  BY <1>8, <1>10 DEF w

\* A rename that overflows the stack has its target below its source.
LEMMA CrashIsIntoSubtree ==
  ASSUME Forest(heap), NEW p \in Seq(Names), p # <<>>, NEW q \in Seq(Names), q # <<>>,
         Rename(p, q), running, ~running'
  PROVE  IsPrefix(Location(p), Components(DirName(q)))
<1>1. PICK created, oldParent, newParent, node, moved :
        Moves(p, q, created, oldParent, newParent, node, moved)
  BY RenameMoves
<1> DEFINE oldName == FileName(p)
           newName == FileName(q)
           e == Components(DirName(p))
           d == Components(DirName(q))
<1>2. /\ oldName \in Names /\ newName \in Names
      /\ e \in Seq(Names) /\ d \in Seq(Names) /\ Len(e) \in Nat /\ Len(d) \in Nat
  BY PathParts, ComponentsType
<1>3. /\ Forest(created) /\ Extends(heap, created)
      /\ oldParent \in DOMAIN created /\ newParent \in DOMAIN created
      /\ node # Null /\ created[oldParent].children[oldName] = node
      /\ Relinked(moved, created, oldParent, oldName, newParent, newName)
  BY <1>1, MovedForest
<1>4. /\ Cyclic(moved, node)
      /\ oldParent \in DOMAIN heap /\ oldParent = Walk(heap, e)[Len(e)]
      /\ newParent = Walk(created, d)[Len(d)]
  BY <1>1 DEF Moves, FindNode
<1> HIDE DEF oldName, newName, e, d
<1>5. /\ Linking(created) /\ Single(created) /\ Linking(heap) /\ Null \notin DOMAIN heap
  BY <1>3, TypedLinking DEF Forest, Linking
<1>6. /\ node \in DOMAIN created /\ node # Root
      /\ \A x \in DOMAIN created : \A t \in Names :
           created[x].children[t] = node => oldParent = x /\ oldName = t
  <2>1. node \in DOMAIN created
    BY <1>2, <1>3, <1>5 DEF Linking
  <2>2. /\ created[oldParent].children[oldName] # Root
        /\ \A x \in DOMAIN created : \A t \in Names :
             created[x].children[t] = created[oldParent].children[oldName]
               => oldParent = x /\ oldName = t
    BY <1>2, <1>3, <1>5, OneHolder
  <2> QED
    BY <1>3, <2>1, <2>2
<1>7. newParent \in Subtree(created, node)
  <2> DEFINE S == Subtree(created, node)
  <2>1. /\ node \in S /\ S \subseteq DOMAIN created
        /\ \A x \in S : \A t \in Names :
             created[x].children[t] # Null => created[x].children[t] \in S
    BY <1>5, <1>6, SubtreeClosed
  <2> HIDE DEF S
  <2>2. /\ DOMAIN moved = DOMAIN created
        /\ \A n \in DOMAIN created : \A t \in Names :
             moved[n].children[t] = IF n = newParent /\ t = newName THEN node
                                    ELSE IF n = oldParent /\ t = oldName THEN Null
                                    ELSE created[n].children[t]
    BY <1>3 DEF Relinked
  <2>3. \A x \in S : \A t \in Names : moved[x].children[t] # Null => moved[x].children[t] \in S
    BY <2>1, <2>2
  <2>4. Subtree(moved, node) \subseteq S
    BY <2>1, <2>2, <2>3, SubtreeLeast
  <2>5. PICK x \in Subtree(moved, node), t \in Names : moved[x].children[t] = node
    BY <1>4 DEF Cyclic
  <2>6. x \in DOMAIN created /\ x \in S
    BY <2>1, <2>4
  <2>7. x = newParent
    BY <1>3, <1>6, <2>2, <2>5, <2>6
  <2> QED
    BY <2>6, <2>7 DEF S
<1>8. PICK j \in 1..Len(d) : Walk(created, d)[j] = node
  <2> DEFINE k == Len(d)
  <2>1. k \in 0..Len(d) /\ Walk(created, d)[k] \in Subtree(created, node)
    BY <1>2, <1>4, <1>7
  <2> HIDE DEF k
  <2>2. \E j \in 1..k : Walk(created, d)[j] = node
    BY <1>2, <1>5, <1>6, <2>1, WalkThrough
  <2> QED
    BY <2>2 DEF k
<1>9. j - 1 \in 0..Len(d) /\ Walk(created, d)[j - 1] = oldParent /\ d[j] = oldName
  <2>1. j - 1 \in 0..Len(d) /\ d[j] \in Names
    BY <1>2
  <2>2. /\ Walk(created, d) \in [0..Len(d) -> DOMAIN created \cup {Null}]
        /\ Walk(created, d)[j] = IF Walk(created, d)[j - 1] = Null THEN Null
                                 ELSE created[Walk(created, d)[j - 1]].children[d[j]]
    BY <1>2, <1>5, WalkMeaning
  <2>3. /\ Walk(created, d)[j - 1] \in DOMAIN created
        /\ created[Walk(created, d)[j - 1]].children[d[j]] = node
    BY <1>3, <1>8, <2>1, <2>2
  <2> QED
    BY <1>6, <2>1, <2>3
<1>10. Len(e) \in 0..Len(e) /\ Walk(created, e)[Len(e)] = oldParent /\ oldParent # Null
  <2>1. Len(e) \in 0..Len(e) /\ Walk(heap, e)[Len(e)] # Null
    BY <1>2, <1>4, <1>5
  <2>2. Walk(created, e)[Len(e)] = Walk(heap, e)[Len(e)]
    BY <1>2, <1>3, <1>5, <2>1, WalkExtends
  <2> QED
    BY <1>4, <2>1, <2>2
<1>11. Len(e) = j - 1 /\ \A i \in 1..Len(e) : e[i] = d[i]
  <2> DEFINE a == Len(e)
             b == j - 1
  <2>1. /\ a \in 0..Len(e) /\ b \in 0..Len(d)
        /\ Walk(created, e)[a] # Null /\ Walk(created, e)[a] = Walk(created, d)[b]
    BY <1>9, <1>10
  <2> HIDE DEF a, b
  <2>2. a = b /\ \A i \in 1..a : e[i] = d[i]
    BY <1>2, <1>5, <2>1, OneLocation
  <2> QED
    BY <2>2 DEF a, b
<1>12. IsPrefix(Append(e, oldName), d)
  <2> DEFINE a == Append(e, oldName)
             b == SubSeq(d, 1, j)
  <2>1. a \in Seq(Names) /\ Len(a) = j /\ a[j] = oldName /\ \A i \in 1..(j - 1) : a[i] = d[i]
    <3>1. /\ a \in Seq(Names) /\ Len(a) = Len(e) + 1 /\ a[Len(e) + 1] = oldName
          /\ \A i \in 1..Len(e) : a[i] = e[i]
      BY <1>2, AppendProperties
    <3>2. Len(e) + 1 = j
      BY <1>2, <1>11
    <3> HIDE DEF a
    <3> QED
      BY <1>11, <3>1, <3>2
  <2>2. b \in Seq(Names) /\ Len(b) = j /\ \A i \in 1..j : b[i] = d[i]
    BY <1>2
  <2> HIDE DEF a, b
  <2>3. \A i \in 1..j : a[i] = b[i]
    BY <1>2, <1>9, <2>1, <2>2
  <2>4. a = b
    BY <2>1, <2>2, <2>3, SeqEqual
  <2>5. SubSeq(a, 1, Len(a)) = a /\ j <= Len(d)
    BY <1>2, <2>1, SubSeqFull
  <2> QED
    BY <2>1, <2>4, <2>5 DEF IsPrefix, a, b
<1> QED
  BY <1>12 DEF Location, e, d, oldName

-----------------------------------------------------------------------------
(* The theorems about the tree.                                            *)

TreeInv == IInv /\ Forest(heap) /\ running \in BOOLEAN

\* The file system starts with a root directory that holds nothing.
LEMMA InitTree == Init => TreeInv
<1> SUFFICES ASSUME Init PROVE TreeInv
  OBVIOUS
<1> DEFINE root == [name |-> "/", path |-> <<Empty>>, isDirectory |-> TRUE,
                    data |-> <<>>, children |-> NoChildren]
<1>1. heap = <<root>> /\ running = TRUE
  BY DEF Init
<1>2. DOMAIN heap = {1} /\ heap[1] = root
  BY <1>1
<1>3. /\ root \in Node({1}) /\ root.path = <<Empty>>
      /\ \A s \in Names : root.children[s] = Null
  <2>1. <<Empty>> \in Seq(Names) /\ <<>> \in Seq(Bytes \cup {Zero})
    BY NamesAssumption
  <2>2. NoChildren \in [Names -> {1} \cup {Null}] /\ \A s \in Names : NoChildren[s] = Null
    BY DEF NoChildren
  <2> HIDE DEF NoChildren
  <2> QED
    BY <2>1, <2>2 DEF Node
<1>4. Typed(heap)
  <2>1. heap \in Seq(Node({1})) /\ heap # <<>>
    <3> HIDE DEF root
    <3> QED
      BY <1>1, <1>3
  <2> QED
    BY <1>2, <2>1 DEF Typed
<1> HIDE DEF root
<1>5. Single(heap)
  BY <1>2, <1>3 DEF Single
<1>6. NoCycle(heap)
  <2> SUFFICES ASSUME NEW n \in DOMAIN heap, Cyclic(heap, n) PROVE FALSE
    BY DEF NoCycle
  <2>1. PICK x \in Subtree(heap, n), s \in Names : heap[x].children[s] = n
    BY DEF Cyclic
  <2>2. x = 1 /\ n = 1
    BY <1>2, <2>1 DEF Subtree
  <2> QED
    BY <1>2, <1>3, <2>1, <2>2 DEF Null
<1>7. PathsJoin(heap)
  <2>1. <<Empty>> # <<>>
    OBVIOUS
  <2> QED
    BY <1>2, <1>3, <2>1 DEF PathsJoin, Root
<1> QED
  BY <1>1, <1>4, <1>5, <1>6, <1>7, InitIInv DEF TreeInv, Forest

\* The calls that take paths, with paths from a set.
Calls(S) ==
  \/ \E p \in S : Mkdir(p)
  \/ \E p \in S : RemovePath(p)
  \/ \E p, q \in S : Rename(p, q)
  \/ \E f \in Handles, p \in S, mode \in Modes : Open(f, p, mode)

\* Whatever path they are given, they leave the tree a tree.
LEMMA CallsTree == TreeInv /\ Calls(Seq(Names) \ {<<>>}) => TreeInv'
<1> DEFINE S == Seq(Names) \ {<<>>}
<1> SUFFICES ASSUME TreeInv, Calls(S) PROVE TreeInv'
  OBVIOUS
<1>1. IInv /\ Forest(heap) /\ running \in BOOLEAN
  BY DEF TreeInv
<1>2. \A p \in S : p \in Seq(Names) /\ p # <<>>
  OBVIOUS
<1> HIDE DEF S
<1>3. ASSUME NEW p \in S, Mkdir(p) PROVE IInv' /\ Forest(heap') /\ running' \in BOOLEAN
  <2>1. heap' = CreatePath(heap, p, TRUE) /\ running' = running
    BY <1>3 DEF Mkdir
  <2> QED
    BY <1>1, <1>2, <1>3, <2>1, CreatePathForest, MkdirKeeps
<1>4. ASSUME NEW p \in S, RemovePath(p) PROVE IInv' /\ Forest(heap') /\ running' \in BOOLEAN
  <2>1. running' = running
    BY <1>4 DEF RemovePath
  <2> QED
    BY <1>1, <1>2, <1>4, <2>1, RemoveForest, RemoveKeeps
<1>5. ASSUME NEW p \in S, NEW q \in S, Rename(p, q)
      PROVE  IInv' /\ Forest(heap') /\ running' \in BOOLEAN
  BY <1>1, <1>2, <1>5, RenameForest, RenameKeeps
<1>6. ASSUME NEW f \in Handles, NEW p \in S, NEW mode \in Modes, Open(f, p, mode)
      PROVE  IInv' /\ Forest(heap') /\ running' \in BOOLEAN
  <2>1. heap' \in {heap, CreatePath(heap, p, FALSE)} /\ running' = running
    BY <1>6 DEF Open
  <2> QED
    BY <1>1, <1>2, <1>6, <2>1, CreatePathForest, OpenKeeps
<1> QED
  BY <1>3, <1>4, <1>5, <1>6 DEF Calls, TreeInv

\* Every operation leaves the tree a tree.
LEMMA StepTree == TreeInv /\ [Next]_vars => TreeInv'
<1> SUFFICES ASSUME TreeInv, [Next]_vars PROVE TreeInv'
  OBVIOUS
<1>1. IInv /\ IInv' /\ Forest(heap) /\ running \in BOOLEAN
  BY StepIInv DEF TreeInv
<1>2. ASSUME Calls(Paths) PROVE TreeInv'
  <2> DEFINE S == Seq(Names) \ {<<>>}
  <2>1. Paths \subseteq S
    BY PathsAssumption
  <2> HIDE DEF S
  <2>2. Calls(S)
    BY <1>2, <2>1 DEF Calls
  <2> QED
    BY <2>2, CallsTree DEF S
<1>3. ASSUME NEW f \in Handles, NEW buffer \in Buffers, Write(f, buffer)
      PROVE  Forest(heap') /\ running' \in BOOLEAN
  <2>1. Forest(heap')
    BY <1>1, <1>3, WriteForest
  <2> QED
    BY <1>1, <1>3, <2>1 DEF Write
<1>4. ASSUME UNCHANGED <<heap, running>> PROVE Forest(heap') /\ running' \in BOOLEAN
  BY <1>1, <1>4
<1>5. \/ \E f \in Handles, size \in 1..MaxSize : Read(f, size)
      \/ \E f \in Handles : Close(f)
      \/ \E f \in Handles : Drop(f)
      \/ Crashed
      \/ UNCHANGED vars
      => UNCHANGED <<heap, running>>
  BY DEF Read, Close, Drop, Crashed, vars
<1>6. \/ Calls(Paths)
      \/ \E f \in Handles, buffer \in Buffers : Write(f, buffer)
      \/ UNCHANGED <<heap, running>>
  BY <1>5 DEF Next, Calls
<1> QED
  BY <1>1, <1>2, <1>3, <1>4, <1>6 DEF TreeInv

\* The heap is a tree, with whatever was removed beside it, always.
LEMMA TreeInvariant == Spec => []TreeInv
  BY InitTree, StepTree, PTL DEF Spec

\* Nodes, handles and the flag keep their types, whatever is renamed or removed.
THEOREM TypeCorrect == Spec => []TypeOK
<1>1. TreeInv => TypeOK
  BY DEF TreeInv, Forest, Typed, IInv, HandleType, TypeOK
<1> QED
  BY <1>1, TreeInvariant, PTL

\* No sequence of makings, removals and renames leaves a node linked twice or
\* under a name that is not its own.
THEOREM LinkedOnce == Spec => []SingleLink
<1>1. TreeInv => SingleLink
  BY DEF TreeInv, Forest, Single, SingleLink
<1> QED
  BY <1>1, TreeInvariant, PTL

\* No node becomes its own descendant: list and updatePaths come to an end.
THEOREM TreeStays == Spec => []Acyclic
<1>1. TreeInv => Acyclic
  BY DEF TreeInv, Forest, NoCycle, Acyclic
<1> QED
  BY <1>1, TreeInvariant, PTL

\* What list reports of an entry is the path that finds it, after any renames.
THEOREM PathsAreWaysBack == Spec => []ReportsItsPath
<1>1. ASSUME TreeInv PROVE ReportsItsPath
  <2> SUFFICES ASSUME NEW l \in BoundedSeq(Names \ {Empty}, MaxNodes) \ {<<>>},
                      Walk(heap, l)[Len(l)] # Null
               PROVE  heap[Walk(heap, l)[Len(l)]].path = l
    BY DEF ReportsItsPath
  <2>1. l \in Seq(Names \ {Empty}) /\ l # <<>>
    <3>1. PICK m \in 0..MaxNodes : l \in [1..m -> Names \ {Empty}]
      BY DEF BoundedSeq, SeqOf
    <3>2. m \in Nat
      BY <3>1, BoundsAssumption
    <3> QED
      BY <3>1, <3>2
  <2>2. Len(l) \in 1..Len(l)
    BY <2>1, EmptySeq
  <2> DEFINE k == Len(l)
  <2>3. k \in 1..Len(l) /\ Walk(heap, l)[k] # Null
    BY <2>2
  <2> HIDE DEF k
  <2>4. heap[Walk(heap, l)[k]].path = SubSeq(l, 1, k)
    BY <1>1, <2>1, <2>3, ReportedPath DEF TreeInv
  <2>5. SubSeq(l, 1, Len(l)) = l
    BY <2>1, SubSeqFull
  <2> QED
    BY <2>4, <2>5 DEF k
<1> QED
  BY <1>1, TreeInvariant, PTL

\* The one way to overflow the stack is to rename an entry into itself or below
\* itself.
THEOREM OverflowsOnlyIntoItself == Spec => CrashOnlyIntoOwnSubtree
<1>1. TreeInv /\ [Next]_vars =>
        [\A p, q \in Paths :
           running /\ ~running' /\ Rename(p, q) =>
             IsPrefix(Location(p), Components(DirName(q)))]_vars
  BY PathsAssumption, CrashIsIntoSubtree DEF TreeInv
<1> QED
  BY <1>1, TreeInvariant, PTL DEF Spec, CrashOnlyIntoOwnSubtree

-----------------------------------------------------------------------------
(* Where locations lead, before and after an operation.                    *)

\* The node at a location.
At(h, l) == Walk(h, l)[Len(l)]

\* A prefix agrees with the sequence as far as it goes.
LEMMA PrefixMeaning ==
  ASSUME NEW S, NEW s \in Seq(S), NEW t \in Seq(S)
  PROVE  IsPrefix(s, t) <=> Len(s) <= Len(t) /\ \A i \in 1..Len(s) : s[i] = t[i]
<1> DEFINE n == Len(s)
           a == SubSeq(s, 1, n)
           b == SubSeq(t, 1, n)
<1>1. n \in Nat /\ a = s
  BY SubSeqFull
<1>2. ASSUME n <= Len(t)
      PROVE  a = b <=> \A i \in 1..n : s[i] = t[i]
  <2>1. b \in Seq(S) /\ Len(b) = n /\ \A i \in 1..n : b[i] = t[i]
    BY <1>1, <1>2
  <2> HIDE DEF b
  <2> QED
    BY <1>1, <2>1, SeqEqual
<1> QED
  BY <1>2 DEF IsPrefix

\* A part of a sequence.
LEMMA PartMeaning ==
  ASSUME NEW S, NEW s \in Seq(S), NEW a \in Nat \ {0}, NEW b \in Nat,
         a <= b + 1, b <= Len(s)
  PROVE  /\ SubSeq(s, a, b) \in Seq(S) /\ Len(SubSeq(s, a, b)) = (b + 1) - a
         /\ \A i \in 1..((b + 1) - a) : SubSeq(s, a, b)[i] = s[(a + i) - 1]
<1> DEFINE r == SubSeq(s, a, b)
           n == (b + 1) - a
<1>1. a \in Int /\ b \in Int /\ n \in Nat /\ b - a + 1 = n /\ (~(a <= b) => n = 0)
  OBVIOUS
<1>2. \A i \in a..b : s[i] \in S
  OBVIOUS
<1> HIDE DEF n
<1>3. /\ SubSeq(s, a, b) \in Seq(S)
      /\ Len(SubSeq(s, a, b)) = IF a <= b THEN b - a + 1 ELSE 0
      /\ \A i \in 1..(b - a + 1) : SubSeq(s, a, b)[i] = s[a + i - 1]
  BY <1>1, <1>2, SubSeqProperties
<1> HIDE DEF r
<1>4. \A i \in 1..n : a + i - 1 = (a + i) - 1
  BY <1>1
<1> QED
  BY <1>1, <1>3, <1>4 DEF n

\* Where the links along the way are the same, so are the nodes.
LEMMA WalkSameLinks ==
  ASSUME NEW h, Linking(h), NEW c, Linking(c), NEW l \in Seq(Names), NEW k \in 0..Len(l),
         \A i \in 1..k : Walk(h, l)[i - 1] # Null =>
           c[Walk(h, l)[i - 1]].children[l[i]] = h[Walk(h, l)[i - 1]].children[l[i]]
  PROVE  Walk(c, l)[k] = Walk(h, l)[k]
<1> DEFINE n == Len(l)
           v == Walk(h, l)
           w == Walk(c, l)
           T == {i \in 0..k : w[i] # v[i]}
<1>1. n \in Nat /\ k \in Nat /\ k <= n
  OBVIOUS
<1>2. v[0] = Root /\ \A i \in 1..n :
        v[i] = IF v[i - 1] = Null THEN Null ELSE h[v[i - 1]].children[l[i]]
  BY WalkMeaning
<1>3. w[0] = Root /\ \A i \in 1..n :
        w[i] = IF w[i - 1] = Null THEN Null ELSE c[w[i - 1]].children[l[i]]
  BY WalkMeaning
<1>4. \A i \in 1..k : v[i - 1] # Null => c[v[i - 1]].children[l[i]] = h[v[i - 1]].children[l[i]]
  OBVIOUS
<1> HIDE DEF v, w
<1>5. ASSUME T # {} PROVE FALSE
  <2>1. T \in SUBSET Nat
    BY <1>1
  <2>2. PICK i \in T : \A y \in T : i <= y
    <3> HIDE DEF T
    <3> QED
      BY <1>5, <2>1, SmallestNumber
  <2>3. i \in 0..k /\ w[i] # v[i]
    BY <2>2
  <2>4. i \in 1..k /\ i \in 1..n /\ i - 1 \in 0..k /\ ~(i <= i - 1)
    BY <1>1, <1>2, <1>3, <2>3
  <2>5. w[i - 1] = v[i - 1]
    BY <2>2, <2>4
  <2> QED
    BY <1>2, <1>3, <1>4, <2>3, <2>4, <2>5
<1>6. k \notin T
  BY <1>5
<1> QED
  BY <1>1, <1>6 DEF v, w

\* Locations lead to the same nodes as far as they agree.
LEMMA WalkAgrees ==
  ASSUME NEW h, Linking(h), NEW l \in Seq(Names), NEW m \in Seq(Names),
         NEW k \in 0..Len(l), k <= Len(m), \A i \in 1..k : l[i] = m[i]
  PROVE  Walk(h, l)[k] = Walk(h, m)[k]
<1> DEFINE v == Walk(h, l)
           w == Walk(h, m)
           T == {i \in 0..k : w[i] # v[i]}
<1>1. /\ k \in Nat /\ \A i \in 1..k : i \in 1..Len(l) /\ i \in 1..Len(m)
      /\ \A i \in 1..k : l[i] = m[i]
  OBVIOUS
<1>2. v[0] = Root /\ \A i \in 1..Len(l) :
        v[i] = IF v[i - 1] = Null THEN Null ELSE h[v[i - 1]].children[l[i]]
  BY WalkMeaning
<1>3. w[0] = Root /\ \A i \in 1..Len(m) :
        w[i] = IF w[i - 1] = Null THEN Null ELSE h[w[i - 1]].children[m[i]]
  BY WalkMeaning
<1> HIDE DEF v, w
<1>4. ASSUME T # {} PROVE FALSE
  <2>1. T \in SUBSET Nat
    BY <1>1
  <2>2. PICK i \in T : \A y \in T : i <= y
    <3> HIDE DEF T
    <3> QED
      BY <1>4, <2>1, SmallestNumber
  <2>3. i \in 0..k /\ w[i] # v[i]
    BY <2>2
  <2>4. i \in 1..k /\ i - 1 \in 0..k /\ ~(i <= i - 1)
    BY <1>1, <1>2, <1>3, <2>3
  <2>5. w[i - 1] = v[i - 1]
    BY <2>2, <2>4
  <2> QED
    BY <1>1, <1>2, <1>3, <2>3, <2>4, <2>5
<1>5. k \notin T
  BY <1>4
<1> QED
  BY <1>1, <1>5 DEF v, w

\* The node at a location, and at the one a segment further.
LEMMA AtMeaning ==
  ASSUME NEW h, Linking(h), NEW l \in Seq(Names)
  PROVE  /\ At(h, l) \in DOMAIN h \cup {Null}
         /\ \A k \in 0..Len(l) :
              /\ Walk(h, l)[k] = At(h, SubSeq(l, 1, k))
              /\ At(h, l) # Null => Walk(h, l)[k] # Null
<1>1. Len(l) \in Nat /\ Len(l) \in 0..Len(l)
  OBVIOUS
<1>2. At(h, l) \in DOMAIN h \cup {Null}
  BY <1>1, WalkMeaning DEF At
<1>3. ASSUME NEW k \in 0..Len(l) PROVE Walk(h, l)[k] = At(h, SubSeq(l, 1, k))
  <2> DEFINE m == SubSeq(l, 1, k)
  <2>1. m \in Seq(Names) /\ Len(m) = k /\ \A i \in 1..k : l[i] = m[i]
    BY <1>3
  <2> HIDE DEF m
  <2>2. k <= Len(m)
    BY <1>1, <2>1
  <2>3. Walk(h, l)[k] = Walk(h, m)[k]
    BY <2>1, <2>2, WalkAgrees
  <2> QED
    BY <2>1, <2>3 DEF At, m
<1>4. ASSUME NEW k \in 0..Len(l), At(h, l) # Null PROVE Walk(h, l)[k] # Null
  <2> DEFINE n == Len(l)
  <2>1. n \in 0..Len(l) /\ k \in 0..n /\ Walk(h, l)[n] # Null
    BY <1>1, <1>4 DEF At
  <2> HIDE DEF n
  <2> QED
    BY <2>1, NowhereStays
<1> QED
  BY <1>2, <1>3, <1>4

\* Only the location of a link goes over it.
LEMMA LinkOnTheWay ==
  ASSUME NEW h, Linking(h), Single(h), NEW e \in Seq(Names), At(h, e) # Null, NEW nm \in Names,
         NEW l \in Seq(Names), NEW i \in 1..Len(l), Walk(h, l)[i - 1] = At(h, e), l[i] = nm
  PROVE  i = Len(e) + 1 /\ IsPrefix(Append(e, nm), l)
<1> DEFINE a == Len(e)
           b == i - 1
<1>1. /\ a \in 0..Len(e) /\ b \in 0..Len(l)
      /\ Walk(h, e)[a] # Null /\ Walk(h, e)[a] = Walk(h, l)[b]
  BY DEF At
<1>2. a \in Nat /\ b \in Nat /\ i = b + 1 /\ i <= Len(l) /\ Len(l) \in Nat
  OBVIOUS
<1> HIDE DEF a, b
<1>3. a = b /\ \A k \in 1..a : e[k] = l[k]
  BY <1>1, OneLocation
<1> DEFINE f == Append(e, nm)
<1>4. /\ f \in Seq(Names) /\ Len(f) = a + 1 /\ f[a + 1] = nm
      /\ \A k \in 1..a : f[k] = e[k]
  BY AppendProperties DEF a
<1> HIDE DEF f
<1>5. Len(f) <= Len(l) /\ \A k \in 1..Len(f) : f[k] = l[k]
  BY <1>2, <1>3, <1>4
<1>6. IsPrefix(f, l)
  BY <1>4, <1>5, PrefixMeaning
<1> QED
  BY <1>2, <1>3, <1>6 DEF a, f

\* Where a location leads once createPath has made a path.
CreatedAt(h, p, l) ==
  IF At(h, l) # Null THEN At(h, l)
  ELSE IF IsPrefix(l, Components(p)) THEN Len(h) + (Len(l) - Existing(h, Components(p)))
  ELSE Null

\* createPath leaves every location where it led, and the way to its path, which
\* led nowhere from some segment on, leads along the nodes it made.
LEMMA CreatePathPlaces ==
  ASSUME NEW h, Forest(h), NEW p \in Seq(Names), NEW asDirectory \in BOOLEAN,
         NEW l \in Seq(Names)
  PROVE  At(CreatePath(h, p, asDirectory), l) = CreatedAt(h, p, l)
<1> DEFINE c == CreatePath(h, p, asDirectory)
           s == Components(p)
           k == Existing(h, s)
           u == Walk(h, s)
           v == Walk(h, l)
           w == Walk(c, l)
           base == Base(h, p)
           missing == Missing(h, p)
           On(i) == i <= Len(s) /\ \A j \in 1..i : l[j] = s[j]
           Right(i) == w[i] = IF v[i] # Null THEN v[i]
                              ELSE IF On(i) THEN Len(h) + (i - k) ELSE Null
           T == {i \in 0..Len(l) : ~Right(i)}
<1>1. /\ Typed(h) /\ Linking(h) /\ Single(h) /\ Len(h) \in Nat \ {0} /\ DOMAIN h = 1..Len(h)
      /\ Root \in DOMAIN h /\ Null \notin DOMAIN h /\ \A n \in DOMAIN h : h[n].path # <<>>
  BY TypedLinking DEF Forest, Linking, PathsJoin
<1>2. Linking(c)
  BY CreatePathForest, TypedLinking DEF Forest
<1>3. base \in DOMAIN h /\ missing \in Seq(Names) /\ Grown(h, c, base, missing)
  BY <1>1, CreatePathGrows
<1>4. s \in Seq(Names) /\ Len(s) \in Nat /\ Len(l) \in Nat
  BY ComponentsType
<1>5. /\ k \in 0..Len(s) /\ u[k] = base /\ base # Null
      /\ k < Len(s) => u[k + 1] = Null
  <2> HIDE DEF s
  <2>1. k \in 0..Len(s) /\ u[k] \in DOMAIN h /\ (k < Len(s) => u[k + 1] = Null)
    BY <1>1, <1>4, ExistingMeaning
  <2> QED
    BY <1>1, <2>1 DEF Base, s
<1>6. Len(missing) = Len(s) - k /\ \A j \in 1..(Len(s) - k) : missing[j] = s[k + j]
  <2> HIDE DEF k
  <2>1. missing = SubSeq(s, k + 1, Len(s))
    BY DEF Missing, k
  <2> HIDE DEF missing, s
  <2> QED
    BY <1>4, <1>5, <2>1
<1>7. v[0] = Root /\ \A i \in 1..Len(l) :
        v[i] = IF v[i - 1] = Null THEN Null ELSE h[v[i - 1]].children[l[i]]
  BY <1>1, WalkMeaning
<1>8. w[0] = Root /\ \A i \in 1..Len(l) :
        w[i] = IF w[i - 1] = Null THEN Null ELSE c[w[i - 1]].children[l[i]]
  <2> HIDE DEF c
  <2> QED
    BY <1>2, WalkMeaning
<1>9. \A i \in 0..Len(l) : v[i] \in DOMAIN h \cup {Null}
  BY <1>1, WalkMeaning
<1>10. /\ \A n \in DOMAIN h : \A t \in Names :
            c[n].children[t] = IF n = base /\ k < Len(s) /\ t = s[k + 1] THEN Len(h) + 1
                               ELSE h[n].children[t]
       /\ k < Len(s) => h[base].children[s[k + 1]] = Null
       /\ \A j \in 1..(Len(s) - k) : \A t \in Names :
            c[Len(h) + j].children[t] =
              IF j < Len(s) - k /\ t = s[k + j + 1] THEN Len(h) + j + 1 ELSE Null
  <2> HIDE DEF c, k, s, base, missing
  <2>1. /\ \A n \in DOMAIN h : \A t \in Names :
            c[n].children[t] = IF n = base /\ Len(missing) > 0 /\ t = missing[1]
                               THEN Len(h) + 1 ELSE h[n].children[t]
        /\ Len(missing) > 0 => h[base].children[missing[1]] = Null
        /\ \A j \in 1..Len(missing) : \A t \in Names :
             c[Len(h) + j].children[t] =
               IF j < Len(missing) /\ t = missing[j + 1] THEN Len(h) + j + 1 ELSE Null
    BY <1>3 DEF Grown
  <2>2. k < Len(s) => missing[1] = s[k + 1] /\ Len(missing) > 0
    BY <1>4, <1>5, <1>6
  <2>3. Len(missing) > 0 => k < Len(s)
    BY <1>4, <1>5, <1>6
  <2>4. \A j \in 1..(Len(s) - k) : j < Len(s) - k => missing[j + 1] = s[k + j + 1]
    BY <1>4, <1>5, <1>6
  <2>5. ASSUME NEW n \in DOMAIN h, NEW t \in Names
        PROVE  c[n].children[t] = IF n = base /\ k < Len(s) /\ t = s[k + 1] THEN Len(h) + 1
                                  ELSE h[n].children[t]
    <3>1. CASE k < Len(s)
      BY <2>1, <2>2, <3>1
    <3>2. CASE ~(k < Len(s))
      BY <2>1, <2>3, <3>2
    <3> QED
      BY <3>1, <3>2
  <2>6. k < Len(s) => h[base].children[s[k + 1]] = Null
    BY <2>1, <2>2
  <2>7. ASSUME NEW j \in 1..(Len(s) - k), NEW t \in Names
        PROVE  c[Len(h) + j].children[t] =
                 IF j < Len(s) - k /\ t = s[k + j + 1] THEN Len(h) + j + 1 ELSE Null
    <3>1. Len(missing) = Len(s) - k
      BY <1>6
    <3>2. c[Len(h) + j].children[t] =
            IF j < Len(s) - k /\ t = missing[j + 1] THEN Len(h) + j + 1 ELSE Null
      BY <2>1, <3>1
    <3>3. j < Len(s) - k => missing[j + 1] = s[k + j + 1]
      BY <2>4
    <3> QED
      BY <3>2, <3>3
  <2> QED
    BY <2>5, <2>6, <2>7
<1>11. ASSUME NEW i \in 0..Len(l), On(i) PROVE v[i] = u[i]
  <2> HIDE DEF s
  <2>1. i \in 0..Len(l) /\ i <= Len(s) /\ \A j \in 1..i : l[j] = s[j]
    BY <1>11
  <2> QED
    BY <1>1, <1>4, <2>1, WalkAgrees
<1>12. \A i \in (k + 1)..Len(s) : u[i] = Null
  <2> SUFFICES ASSUME NEW i \in (k + 1)..Len(s), u[i] # Null PROVE FALSE
    OBVIOUS
  <2> HIDE DEF s, k
  <2>1. i \in 0..Len(s) /\ k + 1 \in 0..i /\ k < Len(s)
    BY <1>4, <1>5
  <2> DEFINE j == k + 1
  <2>2. j \in 0..i
    BY <2>1
  <2> HIDE DEF j
  <2>3. u[j] # Null
    BY <1>1, <1>4, <2>1, <2>2, NowhereStays
  <2> QED
    BY <1>5, <2>1, <2>3 DEF j
<1>13. ASSUME NEW i \in 1..Len(l), v[i - 1] = base PROVE i = k + 1 /\ On(i - 1)
  <2> DEFINE a == i - 1
  <2>1. a \in 0..Len(l)
    BY <1>4
  <2> HIDE DEF a, s, k, base
  <2>2. u[k] # Null /\ u[k] = v[a]
    BY <1>5, <1>13 DEF a
  <2>3. k = a /\ \A j \in 1..k : s[j] = l[j]
    BY <1>1, <1>4, <1>5, <2>1, <2>2, OneLocation
  <2> QED
    BY <1>4, <1>5, <2>1, <2>3 DEF a
<1> HIDE DEF c, s, k, u, v, w, base, missing
<1>14. ASSUME T # {} PROVE FALSE
  <2>1. T \in SUBSET Nat
    BY <1>4
  <2>2. PICK i \in T : \A y \in T : i <= y
    <3> HIDE DEF T
    <3> QED
      BY <1>14, <2>1, SmallestNumber
  <2>3. i \in 0..Len(l) /\ ~Right(i)
    BY <2>2
  <2>4. i # 0
    BY <1>1, <1>7, <1>8, <2>3
  <2>5. i \in 1..Len(l) /\ i - 1 \in 0..Len(l) /\ ~(i <= i - 1) /\ l[i] \in Names
    BY <1>4, <2>3, <2>4
  <2>6. Right(i - 1)
    BY <2>2, <2>5
  <2>7. On(i) <=> On(i - 1) /\ i <= Len(s) /\ l[i] = s[i]
    BY <1>4, <2>5
  <2>8. w[i] = (IF w[i - 1] = Null THEN Null ELSE c[w[i - 1]].children[l[i]])
    BY <1>8, <2>5
  <2>9. v[i] = (IF v[i - 1] = Null THEN Null ELSE h[v[i - 1]].children[l[i]])
    BY <1>7, <2>5
  <2>10. On(i) => (v[i] = IF i <= k THEN u[i] ELSE Null)
    BY <1>4, <1>5, <1>11, <1>12, <2>5
  <2>11. On(i - 1) => v[i - 1] = u[i - 1]
    BY <1>11, <2>5
  <2> HIDE DEF On
  <2>12. CASE v[i - 1] # Null
    <3>1. w[i - 1] = v[i - 1] /\ v[i - 1] \in DOMAIN h
      BY <1>1, <1>9, <2>5, <2>6, <2>12
    <3>2. CASE v[i - 1] = base /\ k < Len(s) /\ l[i] = s[k + 1]
      <4>1. i = k + 1 /\ On(i - 1)
        BY <1>13, <2>5, <3>2
      <4>2. On(i) /\ v[i] = Null
        BY <1>4, <1>5, <2>5, <2>7, <2>10, <3>2, <4>1
      <4>3. w[i] = Len(h) + 1
        BY <1>1, <1>10, <2>5, <2>8, <3>1, <3>2, <2>12
      <4>4. i - k = 1
        BY <1>4, <1>5, <4>1
      <4> QED
        BY <2>3, <4>2, <4>3, <4>4
    <3>3. CASE ~(v[i - 1] = base /\ k < Len(s) /\ l[i] = s[k + 1])
      <4>1. w[i] = v[i]
        BY <1>10, <2>5, <2>8, <2>9, <2>12, <3>1, <3>3
      <4>2. ~On(i) \/ v[i] # Null
        <5> SUFFICES ASSUME On(i), v[i] = Null PROVE FALSE
          OBVIOUS
        <5>1. On(i - 1) /\ i <= Len(s) /\ l[i] = s[i] /\ v[i - 1] = u[i - 1]
          BY <2>7, <2>11
        <5>2. i - 1 <= k
          <6>1. i - 1 \in (k + 1)..Len(s) => u[i - 1] = Null
            BY <1>12
          <6> QED
            BY <1>4, <1>5, <2>5, <2>12, <5>1, <6>1
        <5>3. i - 1 # k
          <6> SUFFICES ASSUME i - 1 = k PROVE FALSE
            OBVIOUS
          <6>1. i = k + 1 /\ k < Len(s)
            BY <1>4, <1>5, <2>5, <5>1
          <6>2. v[i - 1] = base
            BY <1>5, <5>1
          <6> QED
            BY <3>3, <5>1, <6>1, <6>2
        <5>4. i <= k
          BY <1>4, <1>5, <2>5, <5>2, <5>3
        <5>5. u[i] # Null
          <6> DEFINE a == i
          <6>1. a \in 0..k /\ k \in 0..Len(s) /\ u[k] # Null
            BY <1>4, <1>5, <2>5, <5>4
          <6> HIDE DEF a
          <6>2. u[a] # Null
            BY <1>1, <1>4, <6>1, NowhereStays DEF u
          <6> QED
            BY <6>2 DEF a
        <5> QED
          BY <2>10, <5>4, <5>5
      <4> QED
        BY <2>3, <4>1, <4>2
    <3> QED
      BY <3>2, <3>3
  <2>13. CASE v[i - 1] = Null /\ On(i - 1)
    <3> DEFINE j == (i - 1) - k
    <3>1. k < i - 1 /\ i - 1 <= Len(s)
      <4>1. i - 1 <= Len(s)
        BY <2>13 DEF On
      <4>2. ASSUME i - 1 <= k PROVE FALSE
        <5> DEFINE a == i - 1
        <5>1. a \in 0..k /\ k \in 0..Len(s) /\ u[k] # Null
          BY <1>4, <1>5, <2>5, <4>2
        <5> HIDE DEF a
        <5>2. u[a] # Null
          BY <1>1, <1>4, <5>1, NowhereStays DEF u
        <5> QED
          BY <2>11, <2>13, <5>2 DEF a
      <4> QED
        BY <1>4, <1>5, <2>5, <4>1, <4>2
    <3>2. j \in 1..(Len(s) - k) /\ k + j + 1 = i /\ (j < Len(s) - k <=> i <= Len(s)) /\ i - k = j + 1
      BY <1>4, <1>5, <2>5, <3>1
    <3>3. w[i - 1] = Len(h) + j
      BY <2>6, <2>13
    <3> HIDE DEF j
    <3>4. w[i - 1] # Null /\ Len(h) + (j + 1) = Len(h) + j + 1
      BY <1>1, <1>4, <1>5, <3>2, <3>3 DEF Null
    <3>5. w[i] = IF i <= Len(s) /\ l[i] = s[i] THEN Len(h) + (i - k) ELSE Null
      <4>1. c[Len(h) + j].children[l[i]] =
              IF j < Len(s) - k /\ l[i] = s[k + j + 1] THEN Len(h) + j + 1 ELSE Null
        BY <1>10, <2>5, <3>2
      <4>2. w[i] = c[Len(h) + j].children[l[i]]
        BY <2>8, <3>3, <3>4
      <4> QED
        BY <3>2, <3>4, <4>1, <4>2
    <3>6. v[i] = Null
      BY <2>9, <2>13
    <3> QED
      BY <2>3, <2>7, <2>13, <3>5, <3>6
  <2>14. CASE v[i - 1] = Null /\ ~On(i - 1)
    <3>1. w[i - 1] = Null /\ w[i] = Null /\ v[i] = Null /\ ~On(i)
      BY <2>6, <2>7, <2>8, <2>9, <2>14
    <3> QED
      BY <2>3, <3>1
  <2> QED
    BY <2>12, <2>13, <2>14
<1> DEFINE n == Len(l)
<1>15. n \in 0..Len(l) /\ Right(n)
  BY <1>4, <1>14
<1>16. On(n) <=> IsPrefix(l, s)
  BY <1>4, PrefixMeaning
<1> HIDE DEF On
<1> QED
  BY <1>15, <1>16 DEF CreatedAt, At, c, s, k, v, w

\* What is at a location once createPath has made a path: what was there, turned
\* into a directory if the path names it and asks for one; at the prefixes of the
\* path that led nowhere a new entry, a directory unless it is the file asked for.
Makes(h, c, p, asDirectory, l) ==
  LET s == Components(p)
      named == l = s /\ s = p
  IN /\ At(h, l) # Null =>
          /\ At(c, l) = At(h, l) /\ c[At(c, l)].data = h[At(h, l)].data
          /\ c[At(c, l)].isDirectory <=> h[At(h, l)].isDirectory \/ (named /\ asDirectory)
     /\ At(h, l) = Null /\ IsPrefix(l, s) =>
          /\ At(c, l) \in DOMAIN c /\ At(c, l) # Null /\ c[At(c, l)].data = <<>>
          /\ c[At(c, l)].isDirectory <=> ~named \/ asDirectory
     /\ At(h, l) = Null /\ ~IsPrefix(l, s) => At(c, l) = Null

LEMMA CreatePathMakes ==
  ASSUME NEW h, Forest(h), NEW p \in Seq(Names), NEW asDirectory \in BOOLEAN,
         NEW l \in Seq(Names)
  PROVE  Makes(h, CreatePath(h, p, asDirectory), p, asDirectory, l)
<1> DEFINE c == CreatePath(h, p, asDirectory)
           s == Components(p)
           k == Existing(h, s)
           base == Base(h, p)
           missing == Missing(h, p)
           made == Len(missing)
<1>1. /\ Typed(h) /\ Linking(h) /\ Single(h) /\ Len(h) \in Nat \ {0} /\ DOMAIN h = 1..Len(h)
      /\ Null \notin DOMAIN h /\ \A n \in DOMAIN h : h[n].path # <<>>
  BY TypedLinking DEF Forest, Linking, PathsJoin
<1>2. s \in Seq(Names) /\ Len(s) \in Nat /\ Len(l) \in Nat
  BY ComponentsType
<1>3. k \in 0..Len(s) /\ base \in DOMAIN h /\ Walk(h, s)[k] = base
  <2>1. Walk(h, s)[k] = base
    BY DEF Base
  <2> HIDE DEF s, base
  <2> QED
    BY <1>1, <1>2, <2>1, ExistingMeaning
<1>4. made = Len(s) - k
  <2>1. missing = SubSeq(s, k + 1, Len(s))
    BY DEF Missing
  <2> HIDE DEF missing, s, k
  <2> QED
    BY <1>2, <1>3, <2>1
<1>5. Len(c) = Len(h) + made /\ DOMAIN c = 1..(Len(h) + made)
  <2>1. Grown(h, c, base, missing)
    BY <1>1, CreatePathGrows
  <2> HIDE DEF c, base, missing
  <2> QED
    BY <2>1 DEF Grown
<1>6. Filled(h, c, p, asDirectory)
  BY <1>1, CreatePathFills
<1>7. At(c, l) = CreatedAt(h, p, l)
  BY CreatePathPlaces
<1> HIDE DEF c
<1>8. ASSUME At(h, l) # Null PROVE Makes(h, c, p, asDirectory, l)
  <2> DEFINE n == At(h, l)
  <2>1. n \in DOMAIN h /\ At(c, l) = n
    BY <1>1, <1>7, <1>8, AtMeaning DEF CreatedAt
  <2>2. /\ c[n].data = h[n].data
        /\ c[n].isDirectory <=> h[n].isDirectory \/ (n = base /\ made = 0 /\ s = p /\ asDirectory)
    <3> HIDE DEF n, s, base, missing
    <3> QED
      BY <1>6, <2>1, Zenon DEF Filled, s, base, missing
  <2>3. n = base /\ made = 0 <=> l = s
    <3> HIDE DEF s, k, base, missing
    <3>1. ASSUME l = s PROVE n = base /\ made = 0
      <4>1. k = Len(s)
        <5>1. k < Len(s) => Walk(h, s)[k + 1] = Null
          BY <1>1, <1>2, ExistingMeaning DEF k
        <5>2. k < Len(s) => k + 1 \in 0..Len(s)
          BY <1>2, <1>3
        <5> DEFINE j == k + 1
        <5> HIDE DEF j
        <5>3. k < Len(s) => Walk(h, s)[j] # Null
          BY <1>1, <1>2, <1>8, <3>1, <5>2, AtMeaning DEF j
        <5>4. ~(k < Len(s))
          BY <5>1, <5>3 DEF j
        <5> QED
          BY <1>2, <1>3, <5>4
      <4> QED
        BY <1>2, <1>3, <1>4, <3>1, <4>1 DEF At
    <3>2. ASSUME n = base, made = 0 PROVE l = s
      <4> DEFINE a == Len(l)
      <4>1. a \in 0..Len(l) /\ a \in Nat /\ k = Len(s)
        BY <1>2, <1>3, <1>4, <3>2
      <4>2. Walk(h, l)[a] # Null /\ Walk(h, l)[a] = Walk(h, s)[k]
        BY <1>3, <1>8, <3>2 DEF At
      <4> HIDE DEF a
      <4>3. a = k /\ \A i \in 1..a : l[i] = s[i]
        BY <1>1, <1>2, <1>3, <4>1, <4>2, OneLocation
      <4> QED
        BY <1>2, <4>1, <4>3, SeqEqual DEF a
    <3> QED
      BY <3>1, <3>2
  <2> HIDE DEF n, s, base, missing
  <2>4. /\ c[At(c, l)].data = h[n].data
        /\ c[At(c, l)].isDirectory <=> h[n].isDirectory \/ (l = s /\ s = p /\ asDirectory)
    BY <2>1, <2>2, <2>3, Zenon
  <2> QED
    BY <1>8, <2>1, <2>4, Zenon DEF Makes, n, s
<1>9. ASSUME At(h, l) = Null /\ IsPrefix(l, s) PROVE Makes(h, c, p, asDirectory, l)
  <2> DEFINE j == Len(l) - k
  <2>1. Len(l) <= Len(s) /\ \A i \in 1..Len(l) : l[i] = s[i]
    <3> HIDE DEF s
    <3> QED
      BY <1>2, <1>9, PrefixMeaning
  <2>2. k < Len(l)
    <3> SUFFICES ASSUME ~(k < Len(l)) PROVE FALSE
      OBVIOUS
    <3> HIDE DEF s, k, base
    <3> DEFINE a == Len(l)
    <3>1. a \in 0..k /\ a \in 0..Len(l) /\ a <= Len(s)
      BY <1>2, <1>3, <2>1
    <3>2. \A i \in 1..a : l[i] = s[i]
      BY <2>1
    <3> HIDE DEF a
    <3>3. Walk(h, l)[a] = Walk(h, s)[a]
      BY <1>1, <1>2, <3>1, <3>2, WalkAgrees
    <3>4. Walk(h, s)[a] # Null
      BY <1>1, <1>2, <1>3, <3>1, NowhereStays
    <3> QED
      BY <1>9, <3>3, <3>4 DEF At, a
  <2> HIDE DEF s, k, base, missing
  <2>3. j \in 1..made /\ (j < made <=> Len(l) # Len(s)) /\ Len(h) + j \in DOMAIN c
        /\ Len(h) + j # Null
    BY <1>1, <1>2, <1>3, <1>4, <1>5, <2>1, <2>2 DEF Null
  <2>4. Len(l) = Len(s) <=> l = s
    BY <1>2, <2>1, SeqEqual
  <2>5. At(c, l) = Len(h) + j
    BY <1>7, <1>9 DEF CreatedAt, s, k
  <2> HIDE DEF j
  <2>6. /\ c[Len(h) + j].data = <<>>
        /\ c[Len(h) + j].isDirectory <=> j < made \/ s # p \/ asDirectory
    BY <1>6, <2>3, Zenon DEF Filled, s, missing
  <2>7. /\ c[At(c, l)].data = <<>>
        /\ c[At(c, l)].isDirectory <=> ~(l = s /\ s = p) \/ asDirectory
    BY <2>3, <2>4, <2>5, <2>6, Zenon
  <2>8. At(c, l) \in DOMAIN c /\ At(c, l) # Null
    BY <2>3, <2>5
  <2> QED
    BY <1>9, <2>7, <2>8, Zenon DEF Makes, s
<1>10. ASSUME At(h, l) = Null /\ ~IsPrefix(l, s) PROVE Makes(h, c, p, asDirectory, l)
  <2>1. At(c, l) = Null
    BY <1>7, <1>10 DEF CreatedAt
  <2> QED
    BY <1>10, <2>1 DEF Makes
<1>11. Makes(h, c, p, asDirectory, l)
  BY <1>8, <1>9, <1>10
<1> QED
  BY <1>11 DEF c

\* Nodes that are the same but for names, paths and links.
SameContents(h, c) ==
  /\ DOMAIN c = DOMAIN h
  /\ \A n \in DOMAIN h :
       DOMAIN c[n] = Fields /\ c[n].isDirectory = h[n].isDirectory /\ c[n].data = h[n].data

LEMMA ReplaceContents ==
  ASSUME NEW h, \A n \in DOMAIN h : DOMAIN h[n] = Fields, NEW m, NEW node,
         m \in DOMAIN h => /\ DOMAIN node = Fields
                           /\ node.isDirectory = h[m].isDirectory /\ node.data = h[m].data
  PROVE  SameContents(h, [h EXCEPT ![m] = node])
<1> DEFINE c == [h EXCEPT ![m] = node]
<1>1. DOMAIN c = DOMAIN h /\ \A n \in DOMAIN h : c[n] = IF n = m THEN node ELSE h[n]
  OBVIOUS
<1> HIDE DEF c
<1>2. SameContents(h, c)
  BY <1>1, Zenon DEF SameContents
<1> QED
  BY <1>2 DEF c

\* rename's move changes links and one name, and no contents.
LEMMA RelinkContents ==
  ASSUME NEW h, \A n \in DOMAIN h : DOMAIN h[n] = Fields,
         NEW oldParent, NEW oldName, NEW newParent, NEW newName
  PROVE  SameContents(h, Relink(h, oldParent, oldName, newParent, newName))
<1> DEFINE node   == h[oldParent].children[oldName]
           erased == [h EXCEPT ![oldParent].children[oldName] = Null]
           named  == [erased EXCEPT ![node].name = newName]
           linked == [named EXCEPT ![newParent].children[newName] = node]
<1>1. linked = Relink(h, oldParent, oldName, newParent, newName)
  BY DEF Relink
<1> HIDE DEF node
<1>2. SameContents(h, erased)
  <2> DEFINE new == [h[oldParent] EXCEPT !.children[oldName] = Null]
  <2>1. oldParent \in DOMAIN h =>
          /\ DOMAIN new = Fields
          /\ new.isDirectory = h[oldParent].isDirectory /\ new.data = h[oldParent].data
    BY DEF Fields
  <2> HIDE DEF new
  <2>2. SameContents(h, [h EXCEPT ![oldParent] = new])
    BY <2>1, ReplaceContents
  <2> QED
    BY <2>2 DEF new
<1> HIDE DEF erased
<1>3. \A n \in DOMAIN erased : DOMAIN erased[n] = Fields
  BY <1>2 DEF SameContents
<1>4. SameContents(erased, named)
  <2> DEFINE new == [erased[node] EXCEPT !.name = newName]
  <2>1. node \in DOMAIN erased =>
          /\ DOMAIN new = Fields
          /\ new.isDirectory = erased[node].isDirectory /\ new.data = erased[node].data
    BY <1>3 DEF Fields
  <2> HIDE DEF new
  <2>2. SameContents(erased, [erased EXCEPT ![node] = new])
    BY <1>3, <2>1, ReplaceContents
  <2> QED
    BY <2>2 DEF new
<1> HIDE DEF named
<1>5. \A n \in DOMAIN named : DOMAIN named[n] = Fields
  BY <1>4 DEF SameContents
<1>6. SameContents(named, linked)
  <2> DEFINE new == [named[newParent] EXCEPT !.children[newName] = node]
  <2>1. newParent \in DOMAIN named =>
          /\ DOMAIN new = Fields
          /\ new.isDirectory = named[newParent].isDirectory
          /\ new.data = named[newParent].data
    BY <1>5 DEF Fields
  <2> HIDE DEF new
  <2>2. SameContents(named, [named EXCEPT ![newParent] = new])
    BY <1>5, <2>1, ReplaceContents
  <2> QED
    BY <2>2 DEF new
<1> HIDE DEF linked
<1>7. SameContents(h, linked)
  BY <1>2, <1>4, <1>6, Zenon DEF SameContents
<1> QED
  BY <1>1, <1>7

\* Nor does its rebuilding of the paths.
LEMMA UpdatePathsContents ==
  ASSUME NEW h, \A n \in DOMAIN h : DOMAIN h[n] = Fields, NEW node, NEW parentPath
  PROVE  SameContents(h, UpdatePaths(h, node, parentPath))
<1> DEFINE sub == Subtree(h, node)
           Parent(n) == CHOOSE m \in sub : \E s \in Names : h[m].children[s] = n
           path[n \in sub] ==
             JoinPath(IF n = node THEN parentPath ELSE path[Parent(n)], h[n].name)
           New(n) == IF n \in sub THEN [h[n] EXCEPT !.path = path[n]] ELSE h[n]
           c == [n \in DOMAIN h |-> New(n)]
<1>1. c = UpdatePaths(h, node, parentPath)
  BY DEF UpdatePaths
<1> HIDE DEF path, sub
<1>2. \A n \in DOMAIN h :
        /\ DOMAIN New(n) = Fields
        /\ New(n).isDirectory = h[n].isDirectory /\ New(n).data = h[n].data
  BY DEF Fields
<1> HIDE DEF New
<1>3. DOMAIN c = DOMAIN h /\ \A n \in DOMAIN h : c[n] = New(n)
  OBVIOUS
<1> HIDE DEF c
<1>4. SameContents(h, c)
  BY <1>2, <1>3, Zenon DEF SameContents
<1> QED
  BY <1>1, <1>4

\* remove takes one link away and leaves the contents alone: a location that does
\* not start with the one removed leads where it led.
LEMMA RemovePlaces ==
  ASSUME Forest(heap), NEW p \in Seq(Names), p # <<>>, RemovePath(p)
  PROVE  /\ SameContents(heap, heap')
         /\ \A l \in Seq(Names) : ~IsPrefix(Location(p), l) => At(heap', l) = At(heap, l)
<1>1. /\ Typed(heap) /\ Linking(heap) /\ Single(heap) /\ Null \notin DOMAIN heap
      /\ \A n \in DOMAIN heap : heap[n] \in Node(DOMAIN heap)
  BY TypedLinking DEF Forest, Linking
<1>2. \A n \in DOMAIN heap : DOMAIN heap[n] = Fields
  BY <1>1 DEF Node, Fields
<1>3. CASE UNCHANGED heap
  BY <1>2, <1>3 DEF SameContents
<1>4. ASSUME NEW parent \in DOMAIN heap, parent = FindNode(heap, DirName(p)),
             heap' = [heap EXCEPT ![parent].children[FileName(p)] = Null]
      PROVE  /\ SameContents(heap, heap')
             /\ \A l \in Seq(Names) : ~IsPrefix(Location(p), l) => At(heap', l) = At(heap, l)
  <2> DEFINE e   == Components(DirName(p))
             nm  == FileName(p)
             old == heap[parent]
             new == [old EXCEPT !.children[nm] = Null]
  <2>1. /\ e \in Seq(Names) /\ nm \in Names /\ At(heap, e) = parent /\ parent # Null
        /\ Location(p) = Append(e, nm)
    BY <1>1, <1>4, PathParts, ComponentsType DEF FindNode, At, Location
  <2>2. heap' = [heap EXCEPT ![parent] = new]
    BY <1>4
  <2>3. /\ DOMAIN new = Fields /\ new.isDirectory = old.isDirectory /\ new.data = old.data
        /\ \A s \in Names : s # nm => new.children[s] = old.children[s]
    BY <1>1, <1>2 DEF Fields, Node
  <2>4. Linking(heap')
    BY RemoveForest, TypedLinking DEF Forest
  <2> HIDE DEF e, nm, new
  <2>5. SameContents(heap, heap')
    BY <1>2, <2>2, <2>3, ReplaceContents
  <2>6. ASSUME NEW l \in Seq(Names), ~IsPrefix(Append(e, nm), l)
        PROVE  At(heap', l) = At(heap, l)
    <3>1. ASSUME NEW i \in 1..Len(l), Walk(heap, l)[i - 1] # Null
          PROVE  heap'[Walk(heap, l)[i - 1]].children[l[i]]
                   = heap[Walk(heap, l)[i - 1]].children[l[i]]
      <4> DEFINE x == Walk(heap, l)[i - 1]
      <4>1. x \in DOMAIN heap /\ l[i] \in Names
        <5>1. i - 1 \in 0..Len(l) /\ l[i] \in Names
          OBVIOUS
        <5>2. Walk(heap, l) \in [0..Len(l) -> DOMAIN heap \cup {Null}]
          BY <1>1, WalkMeaning
        <5> QED
          BY <3>1, <5>1, <5>2
      <4>2. CASE x = parent
        <5>1. l[i] # nm
          BY <1>1, <2>1, <2>6, <4>2, LinkOnTheWay
        <5> QED
          BY <2>2, <2>3, <4>1, <4>2, <5>1
      <4>3. CASE x # parent
        BY <2>2, <4>1, <4>3
      <4> QED
        BY <4>2, <4>3
    <3> DEFINE k == Len(l)
    <3>2. k \in 0..Len(l)
      OBVIOUS
    <3> HIDE DEF k
    <3>3. \A i \in 1..k : i \in 1..Len(l)
      BY <3>2
    <3>4. Walk(heap', l)[k] = Walk(heap, l)[k]
      BY <1>1, <2>4, <3>1, <3>2, <3>3, WalkSameLinks
    <3> QED
      BY <3>4 DEF At, k
  <2> QED
    BY <2>1, <2>5, <2>6
<1> QED
  BY <1>3, <1>4 DEF RemovePath

\* rename, once the target's directories are made, leaves every location where it
\* led that starts with neither of its arguments.
LEMMA RenamePlaces ==
  ASSUME Forest(heap), NEW from \in Seq(Names), from # <<>>, NEW to \in Seq(Names), to # <<>>,
         Rename(from, to), heap' # heap,
         NEW created, NEW oldParent, NEW newParent, NEW node, NEW moved,
         Moves(from, to, created, oldParent, newParent, node, moved)
  PROVE  /\ SameContents(created, heap')
         /\ \A l \in Seq(Names) :
              ~IsPrefix(Location(from), l) /\ ~IsPrefix(Location(to), l)
                => At(heap', l) = At(created, l)
<1> DEFINE oldName == FileName(from)
           newName == FileName(to)
           e == Components(DirName(from))
           d == Components(DirName(to))
<1>2. /\ oldName \in Names /\ newName \in Names /\ e \in Seq(Names) /\ d \in Seq(Names)
  BY PathParts, ComponentsType
<1>3. /\ Forest(created) /\ Extends(heap, created)
      /\ oldParent \in DOMAIN created /\ newParent \in DOMAIN created
      /\ node # Null /\ created[oldParent].children[oldName] = node
      /\ Relinked(moved, created, oldParent, oldName, newParent, newName)
  BY MovedForest
<1>4. /\ heap' = UpdatePaths(moved, node, moved[newParent].path)
      /\ moved = Relink(created, oldParent, oldName, newParent, newName)
      /\ ~Cyclic(moved, node)
  BY DEF Moves
<1>5. /\ Linking(created) /\ Single(created) /\ Linking(heap) /\ Null \notin DOMAIN heap
      /\ Null \notin DOMAIN created
      /\ \A n \in DOMAIN created : created[n] \in Node(DOMAIN created)
  BY <1>3, TypedLinking DEF Forest, Linking
<1>6. At(created, e) = oldParent /\ At(created, d) = newParent
  <2>1. oldParent \in DOMAIN heap /\ oldParent = At(heap, e) /\ newParent = At(created, d)
    BY DEF Moves, FindNode, At
  <2> HIDE DEF e, d
  <2> DEFINE k == Len(e)
  <2>2. k \in 0..Len(e) /\ Walk(heap, e)[k] # Null
    BY <1>2, <1>5, <2>1 DEF At
  <2> HIDE DEF k
  <2>3. Linking(heap) /\ Linking(created) /\ Extends(heap, created) /\ e \in Seq(Names)
    BY <1>2, <1>3, <1>5
  <2>4. Walk(created, e)[k] = Walk(heap, e)[k]
    BY <2>2, <2>3, WalkExtends
  <2> QED
    BY <2>1, <2>4 DEF At, k
<1> DEFINE c == heap'
<1>7. SameContents(created, c)
  <2>1. \A n \in DOMAIN created : DOMAIN created[n] = Fields
    BY <1>5 DEF Node, Fields
  <2>2. SameContents(created, moved)
    BY <1>4, <2>1, RelinkContents
  <2>3. \A n \in DOMAIN moved : DOMAIN moved[n] = Fields
    BY <2>2 DEF SameContents
  <2>4. SameContents(moved, c)
    BY <1>4, <2>3, UpdatePathsContents
  <2> QED
    BY <2>2, <2>4, Zenon DEF SameContents
<1>8. Linking(c) /\ \A n \in DOMAIN created : c[n].children = moved[n].children
  <2>1. Forest(heap')
    BY RenameForest
  <2>2. Linking(c)
    BY <2>1, TypedLinking DEF Forest
  <2> HIDE DEF oldName, newName
  <2>3. MovedLink(moved, newParent, newName, node)
    BY <1>2, <1>3, RelinkedForest
  <2>4. \A n \in DOMAIN created : c[n].children = moved[n].children
    <3> DEFINE parentPath == moved[newParent].path
    <3>1. /\ Typed(moved) /\ Single(moved) /\ node \in DOMAIN moved /\ newParent \in DOMAIN moved
          /\ DOMAIN moved = DOMAIN created
          /\ moved[newParent].children[newName] = node
          /\ \A n \in DOMAIN moved : moved[n].path # <<>>
      BY <1>3, <2>3 DEF MovedLink, Relinked
    <3>2. Linking(moved) /\ parentPath \in Seq(Names) /\ parentPath # <<>>
      <4>1. Linking(moved) /\ \A n \in DOMAIN moved : moved[n] \in Node(DOMAIN moved)
        BY <3>1, TypedLinking
      <4> QED
        BY <3>1, <4>1 DEF Node
    <3>3. moved[node].name \in Names
      BY <1>2, <1>3, <1>5, <3>1 DEF Relinked
    <3>4. Movable(moved, node)
      BY <1>4, <3>1, <3>2, <3>3 DEF Movable
    <3> HIDE DEF parentPath
    <3>5. Repathed(UpdatePaths(moved, node, parentPath), moved, node, parentPath)
      BY <3>1, <3>2, <3>4, UpdatePathsMeaning
    <3>6. c = UpdatePaths(moved, node, parentPath)
      BY <1>4 DEF parentPath
    <3> QED
      BY <3>1, <3>5, <3>6 DEF Repathed
  <2> QED
    BY <2>2, <2>4
<1>9. \A n \in DOMAIN created : \A s \in Names :
        c[n].children[s] = IF n = newParent /\ s = newName THEN node
                           ELSE IF n = oldParent /\ s = oldName THEN Null
                           ELSE created[n].children[s]
  <2>1. \A n \in DOMAIN created : \A s \in Names :
          moved[n].children[s] = IF n = newParent /\ s = newName THEN node
                                 ELSE IF n = oldParent /\ s = oldName THEN Null
                                 ELSE created[n].children[s]
    <3> HIDE DEF oldName, newName
    <3> QED
      BY <1>3 DEF Relinked
  <2>2. \A n \in DOMAIN created : c[n].children = moved[n].children
    BY <1>8
  <2> HIDE DEF c, oldName, newName
  <2> QED
    BY <2>1, <2>2
<1> HIDE DEF c, e, d, oldName, newName
<1>10. ASSUME NEW l \in Seq(Names),
              ~IsPrefix(Append(e, oldName), l), ~IsPrefix(Append(d, newName), l)
       PROVE  At(c, l) = At(created, l)
  <2>1. ASSUME NEW i \in 1..Len(l), Walk(created, l)[i - 1] # Null
        PROVE  c[Walk(created, l)[i - 1]].children[l[i]]
                 = created[Walk(created, l)[i - 1]].children[l[i]]
    <3> DEFINE x == Walk(created, l)[i - 1]
    <3>1. x \in DOMAIN created /\ l[i] \in Names
      <4>1. i - 1 \in 0..Len(l) /\ l[i] \in Names
        OBVIOUS
      <4>2. Walk(created, l) \in [0..Len(l) -> DOMAIN created \cup {Null}]
        BY <1>5, WalkMeaning
      <4> QED
        BY <2>1, <4>1, <4>2
    <3>2. ~(x = oldParent /\ l[i] = oldName)
      BY <1>2, <1>3, <1>5, <1>6, <1>10, LinkOnTheWay
    <3>3. ~(x = newParent /\ l[i] = newName)
      BY <1>2, <1>3, <1>5, <1>6, <1>10, LinkOnTheWay
    <3> QED
      BY <1>9, <3>1, <3>2, <3>3
  <2> DEFINE k == Len(l)
  <2>2. k \in 0..Len(l)
    OBVIOUS
  <2> HIDE DEF k
  <2>3. \A i \in 1..k : i \in 1..Len(l)
    BY <2>2
  <2>4. Linking(created) /\ Linking(c)
    BY <1>5, <1>8
  <2>5. \A i \in 1..k : Walk(created, l)[i - 1] # Null =>
          c[Walk(created, l)[i - 1]].children[l[i]]
            = created[Walk(created, l)[i - 1]].children[l[i]]
    BY <2>1, <2>3
  <2>6. Walk(c, l)[k] = Walk(created, l)[k]
    BY <2>2, <2>4, <2>5, WalkSameLinks
  <2> QED
    BY <2>6 DEF At, k
<1> QED
  BY <1>7, <1>10 DEF c, e, d, oldName, newName, Location

\* One segment further down.
LEMMA AtAppend ==
  ASSUME NEW h, Linking(h), NEW l \in Seq(Names), NEW s \in Names
  PROVE  At(h, Append(l, s)) = IF At(h, l) = Null THEN Null ELSE h[At(h, l)].children[s]
<1> DEFINE m == Append(l, s)
           n == Len(l)
           k == n + 1
<1>1. /\ m \in Seq(Names) /\ Len(m) = k /\ m[k] = s /\ n \in Nat
      /\ \A i \in 1..n : m[i] = l[i]
  BY AppendProperties
<1> HIDE DEF m, n
<1>2. k \in 1..Len(m) /\ k - 1 = n /\ n \in 0..Len(m) /\ n <= Len(l) /\ Len(l) = n
  BY <1>1 DEF n
<1>3. Walk(h, m)[k] = IF Walk(h, m)[n] = Null THEN Null ELSE h[Walk(h, m)[n]].children[s]
  <2> HIDE DEF k
  <2> QED
    BY <1>1, <1>2, WalkMeaning
<1>4. Walk(h, m)[n] = Walk(h, l)[n]
  BY <1>1, <1>2, WalkAgrees
<1> QED
  BY <1>1, <1>2, <1>3, <1>4 DEF At, m

\* The locations at most d deep that lead to a node, with that node.
Reached(h, d) ==
  {[at |-> l, node |-> At(h, l)] : l \in {m \in Seq(Names) : Len(m) <= d /\ At(h, m) # Null}}

Further(h, S) ==
  S \cup UNION {{[at |-> Append(e.at, s), node |-> h[e.node].children[s]] :
                   s \in {t \in Names : h[e.node].children[t] # Null}} : e \in S}

LEMMA FurtherMeaning ==
  ASSUME NEW h, NEW S, NEW e \in S, NEW s \in Names, h[e.node].children[s] # Null
  PROVE  [at |-> Append(e.at, s), node |-> h[e.node].children[s]] \in Further(h, S)
<1> DEFINE x == [at |-> Append(e.at, s), node |-> h[e.node].children[s]]
           G(f) == {[at |-> Append(f.at, t), node |-> h[f.node].children[t]] :
                      t \in {u \in Names : h[f.node].children[u] # Null}}
<1>1. x \in G(e)
  <2>1. s \in {u \in Names : h[e.node].children[u] # Null}
    OBVIOUS
  <2> QED
    BY <2>1
<1> HIDE DEF x, G
<1>2. x \in UNION {G(f) : f \in S}
  BY <1>1
<1> QED
  BY <1>2 DEF x, G, Further

\* They are those less deep, and what these lead on to.
LEMMA ReachedFurther ==
  ASSUME NEW h, Linking(h), NEW d \in Nat
  PROVE  Reached(h, d + 1) = Further(h, Reached(h, d))
<1>1. Null \notin DOMAIN h
  BY DEF Linking
<1>2. ASSUME NEW x \in Reached(h, d + 1) PROVE x \in Further(h, Reached(h, d))
  <2>1. PICK l \in Seq(Names) :
          Len(l) <= d + 1 /\ At(h, l) # Null /\ x = [at |-> l, node |-> At(h, l)]
    BY <1>2 DEF Reached
  <2>2. CASE Len(l) <= d
    BY <2>1, <2>2 DEF Reached, Further
  <2>3. CASE ~(Len(l) <= d)
    <3> DEFINE m == SubSeq(l, 1, d)
               s == l[d + 1]
               e == [at |-> m, node |-> At(h, m)]
    <3>1. Len(l) = d + 1 /\ Len(l) \in 1..Len(l)
      BY <2>1, <2>3
    <3>2. m \in Seq(Names) /\ Len(m) = d /\ s \in Names /\ l = Append(m, s)
      <4> DEFINE k == d + 1
      <4>1. k \in 1..Len(l) /\ k - 1 = d /\ SubSeq(l, 1, k) = l
        BY <3>1, SubSeqFull
      <4> HIDE DEF k
      <4>2. SubSeq(l, 1, k) = Append(SubSeq(l, 1, k - 1), l[k]) /\ SubSeq(l, 1, k - 1) \in Seq(Names)
             /\ Len(SubSeq(l, 1, k - 1)) = k - 1
        BY <4>1, OneMoreSegment
      <4>3. l[k] \in Names
        BY <4>1
      <4> QED
        BY <4>1, <4>2, <4>3 DEF k
    <3> HIDE DEF m, s
    <3>3. At(h, m) # Null /\ At(h, l) = h[At(h, m)].children[s]
      BY <2>1, <3>2, AtAppend
    <3>4. e \in Reached(h, d)
      BY <3>2, <3>3 DEF Reached
    <3>5. e.at = m /\ e.node = At(h, m)
      OBVIOUS
    <3> HIDE DEF e
    <3>6. s \in {t \in Names : h[e.node].children[t] # Null}
      BY <2>1, <3>2, <3>3, <3>5
    <3>7. x = [at |-> Append(e.at, s), node |-> h[e.node].children[s]]
      BY <2>1, <3>2, <3>3, <3>5
    <3> QED
      BY <3>4, <3>6, <3>7, FurtherMeaning
  <2> QED
    BY <2>2, <2>3
<1>3. ASSUME NEW x \in Further(h, Reached(h, d)) PROVE x \in Reached(h, d + 1)
  <2>1. CASE x \in Reached(h, d)
    <3>1. PICK l \in Seq(Names) :
            Len(l) <= d /\ At(h, l) # Null /\ x = [at |-> l, node |-> At(h, l)]
      BY <2>1 DEF Reached
    <3>2. Len(l) <= d + 1
      BY <3>1
    <3> QED
      BY <3>1, <3>2 DEF Reached
  <2>2. CASE x \notin Reached(h, d)
    <3>1. PICK e \in Reached(h, d), s \in Names :
            /\ h[e.node].children[s] # Null
            /\ x = [at |-> Append(e.at, s), node |-> h[e.node].children[s]]
      BY <1>3, <2>2 DEF Further
    <3>2. PICK l \in Seq(Names) :
            Len(l) <= d /\ At(h, l) # Null /\ e = [at |-> l, node |-> At(h, l)]
      BY <3>1 DEF Reached
    <3> DEFINE m == Append(l, s)
    <3>3. m \in Seq(Names) /\ Len(m) <= d + 1
      BY <3>2, AppendProperties
    <3>4. At(h, m) = h[At(h, l)].children[s]
      BY <3>2, AtAppend
    <3> HIDE DEF m
    <3>5. At(h, m) # Null /\ x = [at |-> m, node |-> At(h, m)]
      BY <3>1, <3>2, <3>4 DEF m
    <3> QED
      BY <3>3, <3>5 DEF Reached
  <2> QED
    BY <2>1, <2>2
<1> QED
  BY <1>2, <1>3

\* What the properties enumerate as linked is what locations lead to.
LEMMA LinkedMeaning ==
  ASSUME NEW h, Linking(h), NEW d \in Nat
  PROVE  Linked(h, d) = Reached(h, d)
<1> DEFINE Is(f) == f = [i \in 0..d |->
                           IF i = 0 THEN {[at |-> <<>>, node |-> Root]}
                           ELSE Further(h, f[i - 1])]
           r == [i \in 0..d |-> Reached(h, i)]
           g == CHOOSE f : Is(f)
           T == {i \in 0..d : g[i] # Reached(h, i)}
<1>1. Reached(h, 0) = {[at |-> <<>>, node |-> Root]}
  <2>1. At(h, <<>>) = Root /\ Root # Null
    <3>1. \A m \in Seq(Names) : Walk(h, m)[0] = Root
      BY WalkMeaning
    <3>2. <<>> \in Seq(Names) /\ Len(<<>>) = 0
      OBVIOUS
    <3>3. Walk(h, <<>>)[0] = Root
      BY <3>1, <3>2
    <3>4. Root # Null
      BY DEF Root, Null
    <3> QED
      BY <3>2, <3>3, <3>4 DEF At
  <2>2. \A m \in Seq(Names) : Len(m) <= 0 <=> m = <<>>
    <3>1. \A m \in Seq(Names) : Len(m) \in Nat
      OBVIOUS
    <3> QED
      BY <3>1, EmptySeq
  <2>3. <<>> \in Seq(Names)
    OBVIOUS
  <2>4. {m \in Seq(Names) : Len(m) <= 0 /\ At(h, m) # Null} = {<<>>}
    BY <2>1, <2>2, <2>3
  <2> QED
    BY <2>1, <2>4 DEF Reached
<1>2. \A i \in 1..d : i - 1 \in 0..d /\ Reached(h, i) = Further(h, Reached(h, i - 1))
  <2> TAKE i \in 1..d
  <2> DEFINE j == i - 1
  <2>1. j \in Nat /\ j \in 0..d /\ j + 1 = i
    OBVIOUS
  <2> HIDE DEF j
  <2>2. Reached(h, j + 1) = Further(h, Reached(h, j))
    BY <2>1, ReachedFurther
  <2> QED
    BY <2>1, <2>2 DEF j
<1>3. Is(r)
  <2>1. \A i \in 0..d : r[i] = IF i = 0 THEN {[at |-> <<>>, node |-> Root]}
                               ELSE Further(h, r[i - 1])
    <3> TAKE i \in 0..d
    <3>1. i # 0 => i \in 1..d
      OBVIOUS
    <3> QED
      BY <1>1, <1>2, <3>1
  <2>2. r = [i \in 0..d |-> r[i]]
    OBVIOUS
  <2> HIDE DEF r
  <2> QED
    BY <2>1, <2>2
<1>4. Is(g)
  <2> HIDE DEF Is, r
  <2> QED
    BY <1>3
<1>5. Linked(h, d) = g[d]
  BY DEF Linked, Further
<1> HIDE DEF g
<1>6. \A i \in 0..d : g[i] = IF i = 0 THEN {[at |-> <<>>, node |-> Root]}
                             ELSE Further(h, g[i - 1])
  BY <1>4
<1> HIDE DEF Is
<1>7. ASSUME T # {} PROVE FALSE
  <2>1. T \in SUBSET Nat
    OBVIOUS
  <2>2. PICK i \in T : \A y \in T : i <= y
    <3> HIDE DEF T
    <3> QED
      BY <1>7, <2>1, SmallestNumber
  <2>3. i \in 0..d /\ g[i] # Reached(h, i)
    BY <2>2
  <2>4. i \in 1..d /\ i - 1 \in 0..d /\ ~(i <= i - 1)
    <3>1. 0 \in 0..d
      OBVIOUS
    <3>2. g[0] = Reached(h, 0)
      BY <1>1, <1>6, <3>1
    <3>3. i # 0
      BY <2>3, <3>2
    <3> QED
      BY <2>3, <3>3
  <2>5. g[i - 1] = Reached(h, i - 1)
    BY <2>2, <2>4
  <2> QED
    BY <1>2, <1>6, <2>3, <2>4, <2>5
<1>8. d \in 0..d /\ d \notin T
  BY <1>7
<1> QED
  BY <1>5, <1>8
=============================================================================
