----------------------- MODULE ScopedFileSystemProofs -----------------------
(***************************************************************************)
(* Theorems about ScopedFileSystem, for any roots, arguments, names and    *)
(* bounds.  They rest on what MemoryFileSystemProofs shows of the tree     *)
(* below and of where its locations lead; what is new here is that the     *)
(* path a scope hands on always starts with the location of its root.      *)
(***************************************************************************)
EXTENDS ScopedFileSystem, MemoryFileSystemProofs

\* A path string a caller can give, split at every '/'.
PathString(p) == p \in Seq(Names) /\ p # <<>> /\ p # <<Empty>>

ScopesType == scopes \in [Scopes -> Seq(Names)] /\ \A s \in Scopes : scopes[s] # <<Empty>>

ScopedInv == TreeInv /\ ScopesType

-----------------------------------------------------------------------------
(* Paths in and out.                                                       *)

\* Relative strips the leading empty segments, all of them and nothing else.
LEMMA RelativeMeaning ==
  ASSUME NEW p \in Seq(Names)
  PROVE  /\ Relative(p) \in Seq(Names)
         /\ Relative(p) # <<>> => Relative(p)[1] # Empty
         /\ \E k \in 0..Len(p) :
              /\ Relative(p) = SubSeq(p, k + 1, Len(p))
              /\ \A j \in 1..k : p[j] = Empty
<1> DEFINE leading == {i \in DOMAIN p : \A j \in 1..i : p[j] = Empty}
           n == Len(p)
           k == Cardinality(leading)
           r == SubSeq(p, k + 1, n)
<1>1. n \in Nat /\ DOMAIN p = 1..n /\ \A i \in 1..n : p[i] \in Names
  OBVIOUS
<1>2. Relative(p) = r
  BY DEF Relative
<1>3. k \in 0..n /\ leading = 1..k
  <2>1. leading \in SUBSET (1..n) /\ \A i \in leading : \A j \in 1..i : j \in leading
    BY <1>1
  <2> HIDE DEF leading, n
  <2> QED
    BY <1>1, <2>1, InitialNumbers
<1> HIDE DEF k
<1>4. \A j \in 1..k : p[j] = Empty
  <2> TAKE j \in 1..k
  <2>1. j \in leading /\ j \in 1..j
    BY <1>3
  <2> QED
    BY <2>1
<1>5. r \in Seq(Names) /\ Len(r) = n - k /\ \A i \in 1..(n - k) : r[i] = p[k + i]
  <2> DEFINE m == k + 1
  <2> HIDE DEF n
  <2>1. m \in Int /\ n \in Int /\ n - m + 1 = n - k /\ (~(m <= n) => n - k = 0)
    BY <1>1, <1>3
  <2>2. \A i \in m..n : p[i] \in Names
    BY <1>1, <1>3
  <2>3. \A i \in 1..(n - k) : m + i - 1 = k + i
    BY <1>1, <1>3
  <2> HIDE DEF m
  <2>4. /\ SubSeq(p, m, n) \in Seq(Names)
        /\ Len(SubSeq(p, m, n)) = IF m <= n THEN n - m + 1 ELSE 0
        /\ \A i \in 1..(n - m + 1) : SubSeq(p, m, n)[i] = p[m + i - 1]
    BY <2>1, <2>2, SubSeqProperties
  <2>5. r = SubSeq(p, m, n)
    BY DEF m
  <2> HIDE DEF r
  <2> QED
    BY <2>1, <2>3, <2>4, <2>5
<1> HIDE DEF r
<1>6. ASSUME r # <<>> PROVE r[1] # Empty
  <2> HIDE DEF n
  <2>1. Len(r) \in Nat \ {0} /\ Len(r) = n - k
    BY <1>5, <1>6, EmptySeq
  <2>2. 1 \in 1..(n - k) /\ k + 1 \in 1..n /\ k + 1 \notin 1..k
    BY <1>1, <1>3, <2>1
  <2>3. k + 1 \notin leading
    BY <1>3, <2>2
  <2>4. PICK j \in 1..(k + 1) : p[j] # Empty
    BY <1>1, <2>2, <2>3
  <2>5. j = k + 1
    BY <1>3, <1>4, <2>4
  <2> QED
    BY <1>5, <2>2, <2>4, <2>5
<1> QED
  BY <1>2, <1>3, <1>4, <1>5, <1>6 DEF r

\* The root's location, and what a scope makes of a path below it.
LEMMA ScopePathMeaning ==
  ASSUME NEW root, PathString(root), NEW p \in Seq(Names)
  PROVE  /\ PathString(ScopePath(root, p))
         /\ Components(Segments(root)) \in Seq(Names)
         /\ Segments(root) \in Seq(Names) /\ Segments(root) # <<>>
         /\ Relative(p) = <<>> => Segments(ScopePath(root, p)) = Segments(root)
         /\ Relative(p) # <<>> => Segments(ScopePath(root, p))
                                    = Components(Segments(root)) \o Relative(p)
<1> DEFINE rel == Relative(p)
           base == WithoutFinalSlash(root)
           at == Components(Segments(root))
<1>1. rel \in Seq(Names) /\ Len(rel) \in Nat
  BY RelativeMeaning
<1>2. root \in Seq(Names) /\ Len(root) \in Nat /\ Len(root) # 0 /\ root[1] \in Names
  BY EmptySeq DEF PathString
<1>3. root[1] = Empty => Len(root) > 1
  <2> SUFFICES ASSUME root[1] = Empty, Len(root) = 1 PROVE FALSE
    BY <1>2
  <2>1. root = <<Empty>>
    BY <1>2
  <2> QED
    BY <2>1 DEF PathString
<1>4. Segments(root) \in Seq(Names) /\ Segments(root) # <<>>
  <2>1. CASE root[1] = Empty
    <3>1. Tail(root) \in Seq(Names) /\ Len(Tail(root)) = Len(root) - 1
      BY <1>2, HeadTailProperties, EmptySeq
    <3>2. Len(Tail(root)) # 0
      BY <1>2, <1>3, <2>1, <3>1
    <3> QED
      BY <2>1, <3>1, <3>2, EmptySeq DEF Segments
  <2>2. CASE root[1] # Empty
    BY <1>2, <2>2, EmptySeq DEF Segments
  <2> QED
    BY <2>1, <2>2
<1>5. base \in Seq(Names) /\ base # <<>> /\ base[1] = root[1]
  <2>1. CASE Last(root) = Empty
    <3>1. Len(root) > 1
      BY <1>2, <1>3, <2>1 DEF Last
    <3>2. /\ Front(root) \in Seq(Names) /\ Len(Front(root)) = Len(root) - 1
          /\ Front(root)[1] = root[1]
      BY <1>2, <3>1 DEF Front
    <3>3. Len(Front(root)) # 0
      BY <1>2, <3>1, <3>2
    <3> QED
      BY <2>1, <3>2, <3>3, EmptySeq DEF WithoutFinalSlash
  <2>2. CASE Last(root) # Empty
    BY <1>2, <2>2, EmptySeq DEF WithoutFinalSlash
  <2> QED
    BY <2>1, <2>2
<1>6. at \in Seq(Names)
  BY <1>4, ComponentsType
<1>7. Segments(base) = at
  <2>1. CASE root[1] = Empty /\ Last(root) = Empty
    <3> DEFINE n == Len(root)
               t == Tail(root)
    <3>1. t \in Seq(Names) /\ Len(t) = n - 1 /\ \A i \in 1..(n - 1) : t[i] = root[i + 1]
      BY <1>2, <1>3, <2>1
    <3>2. t # <<>> /\ Last(t) = Empty
      BY <1>2, <1>3, <2>1, <3>1 DEF Last
    <3>3. Front(t) = Tail(Front(root))
      <4> DEFINE a == Front(t)
                 f == Front(root)
                 b == Tail(f)
      <4> HIDE DEF t
      <4>1. a \in Seq(Names) /\ Len(a) = n - 2 /\ \A i \in 1..(n - 2) : a[i] = root[i + 1]
        BY <1>2, <1>3, <2>1, <3>1 DEF Front
      <4>2. f \in Seq(Names) /\ Len(f) = n - 1 /\ \A i \in 1..(n - 1) : f[i] = root[i]
        BY <1>2, <1>3, <2>1 DEF Front
      <4> HIDE DEF f
      <4>3. b \in Seq(Names) /\ Len(b) = n - 2 /\ \A i \in 1..(n - 2) : b[i] = root[i + 1]
        BY <1>2, <1>3, <2>1, <4>2
      <4> HIDE DEF a, b, n
      <4>4. a = b
        BY <4>1, <4>3, SeqEqual
      <4> QED
        BY <4>4 DEF a, b, f, t
    <3> QED
      BY <1>5, <2>1, <3>2, <3>3 DEF Segments, Components, WithoutFinalSlash
  <2>2. CASE root[1] = Empty /\ Last(root) # Empty
    <3>1. Last(Tail(root)) = Last(root)
      BY <1>2, <1>3, <2>2 DEF Last
    <3> QED
      BY <2>2, <3>1 DEF Segments, Components, WithoutFinalSlash
  <2>3. CASE root[1] # Empty
    <3>1. root # <<>>
      BY <1>2
    <3> QED
      BY <1>5, <2>3, <3>1 DEF Segments, Components, WithoutFinalSlash
  <2> QED
    BY <2>1, <2>2, <2>3
<1>8. CASE rel = <<>>
  BY <1>4, <1>6, <1>8 DEF ScopePath, PathString
<1>9. CASE rel # <<>>
  <2>1. ScopePath(root, p) = base \o rel
    BY <1>9 DEF ScopePath
  <2> HIDE DEF base, rel, at
  <2>2. Len(rel) # 0 /\ Len(base) \in Nat /\ Len(base) # 0
    BY <1>1, <1>5, <1>9, EmptySeq
  <2> DEFINE q == base \o rel
  <2>3. /\ q \in Seq(Names) /\ Len(q) = Len(base) + Len(rel)
        /\ \A i \in 1..Len(base) : q[i] = base[i]
        /\ \A i \in 1..Len(rel) : q[Len(base) + i] = rel[i]
    BY <1>1, <1>5
  <2> HIDE DEF q
  <2>4. Len(q) > 1 /\ q[1] = base[1] /\ q # <<>>
    BY <1>1, <2>2, <2>3
  <2>5. PathString(q)
    <3> DEFINE one == <<Empty>>
    <3>1. Len(one) = 1
      OBVIOUS
    <3> HIDE DEF one
    <3>2. Len(q) # 1
      BY <1>1, <2>2, <2>3
    <3>3. q # one
      BY <3>1, <3>2, Zenon
    <3> QED
      BY <2>3, <2>4, <3>3, Zenon DEF PathString, one
  <2>6. Segments(q) = at \o rel
    <3>1. CASE base[1] = Empty
      <4>1. Segments(q) = Tail(q) /\ at = Tail(base)
        BY <1>7, <2>4, <3>1 DEF Segments
      <4>2. Tail(q) = Tail(base) \o rel
        <5> DEFINE a == Tail(q)
                   t == Tail(base)
                   b == t \o rel
                   n == Len(base) + Len(rel) - 1
        <5>1. a \in Seq(Names) /\ Len(a) = n /\ \A i \in 1..n : a[i] = q[i + 1]
          BY <1>1, <2>2, <2>3, <2>4
        <5>2. /\ t \in Seq(Names) /\ Len(t) = Len(base) - 1
              /\ \A i \in 1..(Len(base) - 1) : t[i] = base[i + 1]
          BY <1>5, <2>2
        <5> HIDE DEF t
        <5>3. /\ b \in Seq(Names) /\ Len(b) = n
              /\ \A i \in 1..(Len(base) - 1) : b[i] = base[i + 1]
              /\ \A i \in 1..Len(rel) : b[Len(base) - 1 + i] = rel[i]
          <6>1. /\ b \in Seq(Names) /\ Len(b) = Len(t) + Len(rel)
                /\ \A i \in 1..(Len(t) + Len(rel)) :
                     b[i] = IF i <= Len(t) THEN t[i] ELSE rel[i - Len(t)]
            BY <1>1, <5>2, ConcatProperties
          <6> HIDE DEF b
          <6>2. \A i \in 1..(Len(base) - 1) : i \in 1..(Len(t) + Len(rel)) /\ i <= Len(t)
            BY <1>1, <2>2, <5>2
          <6>3. \A i \in 1..Len(rel) :
                  /\ Len(base) - 1 + i \in 1..(Len(t) + Len(rel))
                  /\ ~(Len(base) - 1 + i <= Len(t)) /\ Len(base) - 1 + i - Len(t) = i
            BY <1>1, <2>2, <5>2
          <6>4. \A i \in 1..(Len(base) - 1) : b[i] = t[i]
            BY <6>1, <6>2
          <6>5. \A i \in 1..Len(rel) : b[Len(base) - 1 + i] = rel[i]
            <7> TAKE i \in 1..Len(rel)
            <7> DEFINE j == Len(base) - 1 + i
            <7>1. j \in 1..(Len(t) + Len(rel)) /\ ~(j <= Len(t)) /\ j - Len(t) = i
              BY <6>3
            <7> HIDE DEF j
            <7>2. b[j] = rel[i]
              BY <6>1, <7>1
            <7> QED
              BY <7>2 DEF j
          <6>6. Len(t) + Len(rel) = n
            BY <1>1, <2>2, <5>2
          <6> HIDE DEF n
          <6> QED
            BY <5>2, <6>1, <6>4, <6>5, <6>6
        <5> HIDE DEF a, b
        <5>4. \A i \in 1..n : a[i] = b[i]
          <6> TAKE i \in 1..n
          <6>1. CASE i <= Len(base) - 1
            BY <1>1, <2>2, <2>3, <5>1, <5>3, <6>1
          <6>2. CASE ~(i <= Len(base) - 1)
            <7> DEFINE j == i - (Len(base) - 1)
            <7>1. j \in 1..Len(rel) /\ Len(base) - 1 + j = i /\ Len(base) + j = i + 1
              BY <1>1, <2>2, <6>2
            <7> HIDE DEF j
            <7> QED
              BY <2>3, <5>1, <5>3, <7>1
          <6> QED
            BY <6>1, <6>2
        <5>5. a = b
          BY <5>1, <5>3, <5>4, SeqEqual
        <5> QED
          BY <5>5 DEF a, b, t
      <4> QED
        BY <4>1, <4>2
    <3>2. CASE base[1] # Empty
      BY <1>7, <2>4, <3>2 DEF Segments, q
    <3> QED
      BY <3>1, <3>2
  <2> QED
    BY <1>4, <1>6, <1>9, <2>1, <2>5, <2>6 DEF q, rel, at
<1> QED
  BY <1>8, <1>9

-----------------------------------------------------------------------------
(* The invariant.                                                          *)

\* What a scope hands on is a path of the file system below.
LEMMA InnerType ==
  ASSUME ScopesType, NEW s \in Scopes, scopes[s] # NoScope, NEW p \in Seq(Names)
  PROVE  PathString(scopes[s]) /\ Inner(s, p) \in Seq(Names) \ {<<>>}
<1>1. PathString(scopes[s])
  BY DEF ScopesType, PathString, NoScope
<1> DEFINE q == ScopePath(scopes[s], p)
<1>2. PathString(q)
  BY <1>1, ScopePathMeaning
<1> HIDE DEF q
<1>3. Segments(q) \in Seq(Names) /\ Segments(q) # <<>>
  <2>1. <<>> \in Seq(Names)
    OBVIOUS
  <2> QED
    BY <1>2, <2>1, ScopePathMeaning
<1> QED
  BY <1>1, <1>3 DEF Inner, q

\* A new scope has a path a caller gave, or one that a scope made of it.
LEMMA NewScope ==
  ASSUME ScopesType, NEW s \in Scopes, NEW root, PathString(root),
         scopes' = [scopes EXCEPT ![s] = root]
  PROVE  ScopesType'
<1>1. scopes \in [Scopes -> Seq(Names)] /\ \A t \in Scopes : scopes[t] # <<Empty>>
  BY DEF ScopesType
<1>2. scopes' \in [Scopes -> Seq(Names)]
  BY <1>1 DEF PathString
<1>3. \A t \in Scopes : scopes'[t] = IF t = s THEN root ELSE scopes[t]
  BY <1>1
<1> QED
  BY <1>1, <1>2, <1>3 DEF ScopesType, PathString

\* Roots and arguments are paths a caller can give.
LEMMA Given == \A p \in Roots \cup Arguments : PathString(p)
  BY ArgumentsAssumption DEF PathString

\* A call through a scope is one on the file system below, or changes nothing.
LEMMA CallThrough ==
  ASSUME ScopesType, NEW s \in Scopes, ScopedCall(s)
  PROVE  /\ UNCHANGED scopes
         /\ UNCHANGED vars \/ Calls(Seq(Names) \ {<<>>})
<1> DEFINE S == Seq(Names) \ {<<>>}
<1>1. ScopedCall(s) => scopes[s] # NoScope
  BY DEF ScopedCall, ScopedMkdir, ScopedRemove, ScopedRename, ScopedOpen, EnsureDirectory
<1>2. \A p \in Arguments : Inner(s, p) \in S
  <2> TAKE p \in Arguments
  <2>1. p \in Seq(Names)
    BY Given DEF PathString
  <2> HIDE DEF S
  <2> QED
    BY <1>1, <2>1, InnerType DEF S
<1> HIDE DEF S
<1>3. ASSUME NEW p \in Arguments, ScopedMkdir(s, p) PROVE UNCHANGED scopes /\ Calls(S)
  BY <1>2, <1>3 DEF ScopedMkdir, Calls
<1>4. ASSUME NEW p \in Arguments, ScopedRemove(s, p) PROVE UNCHANGED scopes /\ Calls(S)
  BY <1>2, <1>4 DEF ScopedRemove, Calls
<1>5. ASSUME NEW p \in Arguments, NEW q \in Arguments, ScopedRename(s, p, q)
      PROVE  UNCHANGED scopes /\ Calls(S)
  BY <1>2, <1>5 DEF ScopedRename, Calls
<1>6. ASSUME NEW f \in Handles, NEW p \in Arguments, NEW mode \in Modes, ScopedOpen(s, f, p, mode)
      PROVE  UNCHANGED scopes /\ Calls(S)
  BY <1>2, <1>6 DEF ScopedOpen, Calls
<1>7. ASSUME NEW p \in Arguments, EnsureDirectory(s, p)
      PROVE  UNCHANGED scopes /\ (UNCHANGED vars \/ Calls(S))
  BY <1>2, <1>7 DEF EnsureDirectory, Calls
<1> QED
  BY <1>3, <1>4, <1>5, <1>6, <1>7 DEF ScopedCall, S

LEMMA InitScoped == ScopedInit => ScopedInv
<1> SUFFICES ASSUME ScopedInit PROVE ScopedInv
  OBVIOUS
<1>1. TreeInv
  BY InitTree DEF ScopedInit
<1>2. ScopesType
  <2>1. scopes = [s \in Scopes |-> <<>>]
    BY DEF ScopedInit, NoScope
  <2>2. <<>> \in Seq(Names) /\ <<>> # <<Empty>>
    OBVIOUS
  <2> QED
    BY <2>1, <2>2 DEF ScopesType
<1> QED
  BY <1>1, <1>2 DEF ScopedInv

LEMMA StepScoped == ScopedInv /\ [ScopedNext]_scopedVars => ScopedInv'
<1> SUFFICES ASSUME ScopedInv, [ScopedNext]_scopedVars PROVE ScopedInv'
  OBVIOUS
<1>1. TreeInv /\ ScopesType
  BY DEF ScopedInv
<1>2. ASSUME UNCHANGED vars \/ Next \/ Calls(Seq(Names) \ {<<>>}) PROVE TreeInv'
  BY <1>1, <1>2, StepTree, CallsTree
<1>3. ASSUME UNCHANGED scopes PROVE ScopesType'
  BY <1>1, <1>3 DEF ScopesType
<1>4. ASSUME NEW s \in Scopes, NEW root \in Roots, Construct(s, root) \/ GetScoped(s, root)
      PROVE  ScopedInv'
  <2>1. UNCHANGED vars /\ scopes' = [scopes EXCEPT ![s] = root] /\ PathString(root)
    BY <1>4, Given DEF Construct, GetScoped
  <2> QED
    BY <1>1, <1>2, <2>1, NewScope DEF ScopedInv
<1>5. ASSUME NEW s \in Scopes, NEW t \in Scopes, NEW p \in Arguments, GetScopedOfScope(s, t, p)
      PROVE  ScopedInv'
  <2> DEFINE root == ScopePath(scopes[t], p)
  <2>1. UNCHANGED vars /\ scopes' = [scopes EXCEPT ![s] = root]
    BY <1>5 DEF GetScopedOfScope
  <2>2. PathString(scopes[t]) /\ p \in Seq(Names)
    BY <1>1, <1>5, Given DEF GetScopedOfScope, ScopesType, PathString, NoScope
  <2>3. PathString(root)
    BY <2>2, ScopePathMeaning
  <2> HIDE DEF root
  <2> QED
    BY <1>1, <1>2, <2>1, <2>3, NewScope DEF ScopedInv
<1>6. ASSUME NEW s \in Scopes, ScopedCall(s) PROVE ScopedInv'
  BY <1>1, <1>2, <1>3, <1>6, CallThrough DEF ScopedInv
<1>7. ASSUME Others \/ UNCHANGED scopedVars PROVE ScopedInv'
  BY <1>2, <1>3, <1>7 DEF ScopedInv, Others, scopedVars
<1> QED
  BY <1>4, <1>5, <1>6, <1>7 DEF ScopedNext

\* The tree below stays a tree and scopes hold paths, always.
LEMMA ScopedInvariant == ScopedSpec => []ScopedInv
  BY InitScoped, StepScoped, PTL DEF ScopedSpec

-----------------------------------------------------------------------------
(* ensureDirectory.                                                        *)

\* mkdir of a path that leads nowhere makes a directory there.
LEMMA MadeDirectory ==
  ASSUME NEW h, Forest(h), NEW p \in Seq(Names), FindNode(h, p) = Null,
         NEW c, c = CreatePath(h, p, TRUE)
  PROVE  FindNode(c, p) \in DOMAIN c /\ c[FindNode(c, p)].isDirectory
<1> DEFINE l == Components(p)
<1>1. l \in Seq(Names) /\ At(h, l) = Null /\ FindNode(c, p) = At(c, l)
  BY ComponentsType DEF FindNode, At
<1>2. IsPrefix(l, l)
  <2> HIDE DEF l
  <2>1. Len(l) \in Nat
    BY <1>1
  <2> QED
    BY <1>1, <2>1, PrefixMeaning
<1>3. TRUE \in BOOLEAN
  OBVIOUS
<1>4. Makes(h, c, p, TRUE, l)
  <2> HIDE DEF l
  <2> QED
    BY <1>1, <1>3, CreatePathMakes
<1> HIDE DEF l
<1>5. At(c, l) \in DOMAIN c /\ c[At(c, l)].isDirectory
  BY <1>1, <1>2, <1>4, Zenon DEF Makes, l
<1> QED
  BY <1>1, <1>5

\* When ensureDirectory says that a directory is there, one is, or the file that
\* was there before: through any scope, whatever its root has become.
THEOREM EnsuredDirectories == ScopedSpec => EnsuredIsThere
<1>1. ASSUME ScopedInv, NEW s \in Scopes, NEW p \in Arguments, EnsureDirectory(s, p), ~IsRoot(p)
      PROVE  \E node \in DOMAIN heap' :
               /\ node = FindNode(heap', Inner(s, p))
               /\ heap'[node].isDirectory \/ ScopedExists(heap, s, p)
  <2> DEFINE q == Inner(s, p)
  <2>1. Forest(heap) /\ Linking(heap) /\ ScopesType
    BY <1>1, TypedLinking DEF ScopedInv, TreeInv, Forest
  <2>2. q \in Seq(Names)
    <3>1. p \in Seq(Names) /\ scopes[s] # NoScope
      BY <1>1, Given DEF PathString, EnsureDirectory
    <3> QED
      BY <2>1, <3>1, InnerType
  <2>3. ScopedExists(heap, s, p) <=> FindNode(heap, q) # Null
    BY DEF ScopedExists
  <2>4. IF ScopedExists(heap, s, p) THEN heap' = heap ELSE heap' = CreatePath(heap, q, TRUE)
    BY <1>1 DEF EnsureDirectory, vars, Mkdir
  <2> HIDE DEF q
  <2>5. CASE ScopedExists(heap, s, p)
    <3>1. FindNode(heap, q) \in DOMAIN heap
      BY <2>1, <2>2, <2>3, <2>5, FindNodeType
    <3> QED
      BY <2>4, <2>5, <3>1 DEF q
  <2>6. CASE ~ScopedExists(heap, s, p)
    <3>1. FindNode(heap', q) \in DOMAIN heap' /\ heap'[FindNode(heap', q)].isDirectory
      BY <2>1, <2>2, <2>3, <2>4, <2>6, MadeDirectory
    <3> QED
      BY <3>1 DEF q
  <2> QED
    BY <2>5, <2>6
<1>2. ScopedInv /\ [ScopedNext]_scopedVars =>
        [\A s \in Scopes : \A p \in Arguments :
           EnsureDirectory(s, p) /\ ~IsRoot(p) =>
             \E node \in DOMAIN heap' :
               /\ node = FindNode(heap', Inner(s, p))
               /\ heap'[node].isDirectory \/ ScopedExists(heap, s, p)]_scopedVars
  BY <1>1
<1> QED
  BY <1>2, ScopedInvariant, PTL DEF ScopedSpec, EnsuredIsThere

-----------------------------------------------------------------------------
(* What a scope shows.                                                     *)

\* Behind one empty segment, a path with none is left whole.
LEMMA RelativeOfShown ==
  ASSUME NEW w \in Seq(Names \ {Empty})
  PROVE  <<Empty>> \o w \in Seq(Names) /\ Relative(<<Empty>> \o w) = w
<1> DEFINE p == <<Empty>> \o w
           r == Relative(p)
           n == Len(w)
<1>1. n \in Nat /\ w \in Seq(Names) /\ \A i \in 1..n : w[i] # Empty
  OBVIOUS
<1>2. p \in Seq(Names) /\ Len(p) = n + 1 /\ p[1] = Empty /\ \A i \in 1..n : p[i + 1] = w[i]
  BY <1>1, NamesAssumption
<1> HIDE DEF p, n
<1>3. r \in Seq(Names) /\ (r # <<>> => r[1] # Empty)
  BY <1>2, RelativeMeaning
<1>4. PICK k \in 0..Len(p) : r = SubSeq(p, k + 1, Len(p)) /\ \A j \in 1..k : p[j] = Empty
  BY <1>2, RelativeMeaning
<1> HIDE DEF r
<1>5. k <= 1
  <2> SUFFICES ASSUME ~(k <= 1) PROVE FALSE
    OBVIOUS
  <2>1. 2 \in 1..k /\ 1 \in 1..n
    BY <1>1, <1>2, <1>4
  <2>2. p[2] = Empty /\ p[1 + 1] # Empty
    BY <1>1, <1>2, <1>4, <2>1
  <2> QED
    BY <2>2
<1>6. k # 0
  <2> SUFFICES ASSUME k = 0 PROVE FALSE
    OBVIOUS
  <2>1. r = p
    BY <1>2, <1>4, SubSeqFull
  <2>2. p # <<>>
    BY <1>1, <1>2, EmptySeq
  <2> QED
    BY <1>2, <1>3, <2>1, <2>2
<1>7. r = SubSeq(p, 2, n + 1)
  BY <1>2, <1>4, <1>5, <1>6
<1>8. Len(r) = n /\ \A i \in 1..n : r[i] = w[i]
  BY <1>1, <1>2, <1>7
<1>9. r = w
  <2>1. Len(w) = n
    BY DEF n
  <2> QED
    BY <1>1, <1>3, <1>8, <2>1, SeqEqual
<1> QED
  BY <1>2, <1>9 DEF p, r

\* A root with a leading '/' and no final one is that and its location.
LEMMA RootAndLocation ==
  ASSUME NEW root, PathString(root), root[1] = Empty,
         NEW at, at = Components(Segments(root))
  PROVE  /\ WithoutFinalSlash(root) = <<Empty>> \o at
         /\ root = Slash <=> Segments(root) = <<Empty>>
         /\ Last(root) # Empty => root = <<Empty>> \o at /\ Segments(root) = at
<1> DEFINE t == Tail(root)
           n == Len(root)
<1>1. root \in Seq(Names) /\ n \in Nat \ {0}
  BY EmptySeq DEF PathString
<1>2. n > 1
  <2>1. n = 1 => root = <<Empty>>
    BY <1>1
  <2>2. n # 1
    BY <2>1 DEF PathString
  <2> HIDE DEF n
  <2> QED
    BY <1>1, <2>2
<1>3. /\ t \in Seq(Names) /\ Len(t) = n - 1 /\ \A i \in 1..(n - 1) : t[i] = root[i + 1]
      /\ Segments(root) = t
  <2>1. root # <<>>
    BY <1>1
  <2> QED
    BY <1>1, <2>1, HeadTailProperties DEF Segments
<1> HIDE DEF t, n
<1>4. ASSUME NEW a \in Seq(Names), NEW m \in Nat, Len(a) = m,
             \A i \in 1..m : a[i] = t[i], m <= n - 1,
             NEW b \in Seq(Names), Len(b) = m + 1, \A i \in 1..(m + 1) : b[i] = root[i]
      PROVE  b = <<Empty>> \o a
  <2> DEFINE c == <<Empty>> \o a
  <2>1. c \in Seq(Names) /\ Len(c) = m + 1 /\ c[1] = Empty /\ \A i \in 1..m : c[i + 1] = a[i]
    BY <1>4, NamesAssumption
  <2> HIDE DEF c
  <2>2. \A i \in 1..(m + 1) : b[i] = c[i]
    <3> TAKE i \in 1..(m + 1)
    <3>1. CASE i = 1
      BY <1>4, <2>1, <3>1
    <3>2. CASE i # 1
      <4> DEFINE j == i - 1
      <4>1. j \in 1..m /\ j \in 1..(n - 1) /\ j + 1 = i
        BY <1>1, <1>4, <3>2
      <4> HIDE DEF j
      <4>2. c[i] = a[j] /\ a[j] = t[j] /\ t[j] = root[i]
        BY <1>3, <1>4, <2>1, <4>1
      <4> QED
        BY <1>4, <4>2
    <3> QED
      BY <3>1, <3>2
  <2>3. b = c
    BY <1>4, <2>1, <2>2, SeqEqual
  <2> QED
    BY <2>3 DEF c
<1>5. Last(t) = Last(root)
  <2>1. n - 1 \in 1..(n - 1) /\ n - 1 + 1 = n
    BY <1>1, <1>2
  <2> QED
    BY <1>3, <2>1 DEF Last, n
<1>6. t # <<>>
  BY <1>1, <1>2, <1>3
<1>7. CASE Last(root) # Empty
  <2>1. at = t /\ WithoutFinalSlash(root) = root
    BY <1>3, <1>5, <1>7 DEF Components, WithoutFinalSlash
  <2>2. root = <<Empty>> \o t
    <3> DEFINE m == n - 1
    <3>1. m \in Nat /\ m <= n - 1 /\ Len(t) = m /\ Len(root) = m + 1
      BY <1>1, <1>3 DEF n
    <3> HIDE DEF m
    <3> QED
      BY <1>1, <1>3, <1>4, <3>1
  <2>3. root # Slash /\ t # <<Empty>>
    <3>1. Last(Slash) = Empty /\ Last(<<Empty>>) = Empty
      BY DEF Slash, Last
    <3> QED
      BY <1>5, <1>7, <3>1, Zenon
  <2> QED
    BY <1>3, <1>7, <2>1, <2>2, <2>3
<1>8. CASE Last(root) = Empty
  <2> DEFINE f == Front(root)
             g == Front(t)
             m == n - 2
  <2>1. at = g /\ WithoutFinalSlash(root) = f
    BY <1>3, <1>5, <1>6, <1>8 DEF Components, WithoutFinalSlash
  <2>2. m \in Nat /\ m <= n - 1 /\ m + 1 = n - 1
    BY <1>1, <1>2
  <2>3. f \in Seq(Names) /\ Len(f) = n - 1 /\ \A i \in 1..(n - 1) : f[i] = root[i]
    BY <1>1, <1>2 DEF Front, n
  <2>4. g \in Seq(Names) /\ Len(g) = m /\ \A i \in 1..m : g[i] = t[i]
    BY <1>1, <1>2, <1>3 DEF Front
  <2> HIDE DEF f, g, m
  <2>5. f = <<Empty>> \o g
    BY <1>4, <2>2, <2>3, <2>4
  <2>6. root = Slash <=> t = <<Empty>>
    <3>1. ASSUME t = <<Empty>> PROVE root = Slash
      <4>1. n = 2 /\ root[2] = Empty /\ root[1] = Empty
        BY <1>1, <1>3, <3>1
      <4>2. Slash \in Seq(Names) /\ Len(Slash) = 2 /\ \A i \in 1..2 : root[i] = Slash[i]
        BY <4>1, NamesAssumption DEF Slash
      <4>3. Len(root) = Len(Slash) /\ \A i \in 1..Len(root) : root[i] = Slash[i]
        BY <4>1, <4>2 DEF n
      <4> QED
        BY <1>1, <4>2, <4>3, SeqEqual
    <3>2. ASSUME root = Slash PROVE t = <<Empty>>
      BY <3>2 DEF Slash, t
    <3> QED
      BY <3>1, <3>2
  <2> QED
    BY <1>3, <1>8, <2>1, <2>5, <2>6
<1> QED
  BY <1>7, <1>8

\* "/" has nothing behind its slashes.
LEMMA RelativeOfSlash == Slash \in Seq(Names) /\ Relative(Slash) = <<>>
<1> DEFINE r == Relative(Slash)
<1>1. Slash \in Seq(Names) /\ Len(Slash) = 2 /\ \A i \in 1..2 : Slash[i] = Empty
  BY NamesAssumption DEF Slash
<1>2. r \in Seq(Names) /\ (r # <<>> => r[1] # Empty)
  BY <1>1, RelativeMeaning
<1>3. PICK k \in 0..Len(Slash) : r = SubSeq(Slash, k + 1, Len(Slash))
  BY <1>1, RelativeMeaning
<1> HIDE DEF r
<1>4. Len(r) = 2 - k /\ \A i \in 1..(2 - k) : r[i] = Slash[k + i]
  <2> DEFINE a == k + 1
             b == 2
  <2>1. /\ a \in Nat \ {0} /\ b \in Nat /\ a <= b + 1 /\ b <= Len(Slash)
        /\ (b + 1) - a = 2 - k /\ \A i \in 1..(2 - k) : (a + i) - 1 = k + i
    BY <1>1
  <2>2. r = SubSeq(Slash, a, b)
    BY <1>1, <1>3
  <2> HIDE DEF a, b
  <2>3. /\ Len(SubSeq(Slash, a, b)) = (b + 1) - a
        /\ \A i \in 1..((b + 1) - a) : SubSeq(Slash, a, b)[i] = Slash[(a + i) - 1]
    BY <1>1, <2>1, PartMeaning
  <2> QED
    BY <2>1, <2>2, <2>3
<1>5. ASSUME r # <<>> PROVE FALSE
  <2>1. Len(r) \in Nat \ {0}
    BY <1>2, <1>5, EmptySeq
  <2>2. 1 \in 1..(2 - k) /\ k + 1 \in 1..2
    BY <1>1, <1>3, <1>4, <2>1
  <2> QED
    BY <1>1, <1>2, <1>4, <1>5, <2>2
<1> QED
  BY <1>1, <1>5 DEF r

\* A path without empty segments is walked whole.
LEMMA FoundAt ==
  ASSUME NEW h, NEW l \in Seq(Names \ {Empty})
  PROVE  FindNode(h, l) = At(h, l)
<1>1. Components(l) = l
  <2>1. CASE l = <<>>
    BY <2>1 DEF Components
  <2>2. CASE l # <<>>
    <3>1. Len(l) \in 1..Len(l)
      BY <2>2, EmptySeq
    <3>2. Last(l) # Empty
      BY <3>1 DEF Last
    <3> QED
      BY <3>2 DEF Components
  <2> QED
    BY <2>1, <2>2
<1> QED
  BY <1>1 DEF FindNode, At

\* An entry below the root of a scope is found under the path a listing shows.
LEMMA ShownLeadsBack ==
  ASSUME Forest(heap), ScopesType, NEW s \in Scopes, scopes[s] # NoScope, scopes[s][1] = Empty,
         NEW l \in Seq(Names \ {Empty}), l # <<>>, NEW n, n = At(heap, l), n # Null,
         IsPrefix(RootLocation(s), l),
         l = RootLocation(s) => Last(scopes[s]) # Empty \/ scopes[s] = Slash
  PROVE  FindNode(heap, Inner(s, Shown(s, n))) = n
<1> DEFINE root == scopes[s]
           at == RootLocation(s)
           base == WithoutFinalSlash(root)
           p == <<Empty>> \o l
           i == Len(at)
<1>1. PathString(root) /\ at = Components(Segments(root))
  BY InnerType, RelativeOfSlash DEF RootLocation
<1>2. at \in Seq(Names) /\ l \in Seq(Names) /\ i \in Nat /\ Len(l) \in Nat \ {0}
  <2>1. l \in Seq(Names) /\ Len(l) \in Nat \ {0}
    BY EmptySeq
  <2>2. at \in Seq(Names)
    BY <1>1, <2>1, ScopePathMeaning
  <2> QED
    BY <2>1, <2>2
<1>3. heap[n].path = l
  <2> DEFINE k == Len(l)
  <2>1. k \in 1..Len(l) /\ Walk(heap, l)[k] = n
    BY <1>2 DEF At
  <2> HIDE DEF k
  <2>2. heap[n].path = SubSeq(l, 1, k)
    BY <2>1, ReportedPath
  <2> QED
    BY <1>2, <2>2, SubSeqFull DEF k
<1>4. /\ base = <<Empty>> \o at
      /\ root = Slash <=> Segments(root) = <<Empty>>
      /\ Last(root) # Empty => root = <<Empty>> \o at /\ Segments(root) = at
  <2> HIDE DEF root, at
  <2> QED
    BY <1>1, RootAndLocation DEF root
<1>5. Shown(s, n) = ExposePath(root, p)
  BY <1>3 DEF Shown
<1>6. ASSUME NEW q \in Seq(Names)
      PROVE  /\ Relative(q) = <<>> => Inner(s, q) = Segments(root)
             /\ Relative(q) # <<>> => Inner(s, q) = at \o Relative(q)
  BY <1>1, ScopePathMeaning DEF Inner
<1>7. FindNode(heap, l) = n
  BY FoundAt
<1>8. /\ i <= Len(l) /\ \A j \in 1..i : at[j] = l[j]
  <2> HIDE DEF at
  <2> QED
    BY <1>2, PrefixMeaning DEF at
<1>9. p \in Seq(Names) /\ Len(p) = Len(l) + 1 /\ p[1] = Empty
      /\ (\A j \in 1..Len(l) : p[j + 1] = l[j]) /\ Relative(p) = l
  BY <1>2, NamesAssumption, RelativeOfShown
<1> HIDE DEF at, base, p, i, root
<1>10. i = Len(at)
  BY DEF i
<1>11. CASE root = Slash
  <2>1. at = <<>>
    <3>1. Segments(root) = <<Empty>>
      BY <1>4, <1>11
    <3>2. Components(<<Empty>>) = <<>>
      BY DEF Components, Last, Front
    <3> QED
      BY <1>1, <3>1, <3>2
  <2>2. Shown(s, n) = p
    BY <1>5, <1>11 DEF ExposePath
  <2>3. Inner(s, p) = l
    BY <1>2, <1>6, <1>9, <2>1, ConcatEmptySeq
  <2> QED
    BY <1>7, <2>2, <2>3
<1>12. CASE root # Slash /\ p = root
  <2>1. Shown(s, n) = Slash
    BY <1>5, <1>12 DEF ExposePath
  <2>2. Inner(s, Slash) = Segments(root)
    BY <1>6, RelativeOfSlash
  <2>3. Last(root) # Empty
    <3>1. Len(l) \in 1..Len(l)
      BY <1>2
    <3> QED
      BY <1>2, <1>9, <1>12, <3>1 DEF Last
  <2>4. Segments(root) = at /\ root = <<Empty>> \o at
    BY <1>4, <2>3
  <2>5. at = l
    <3> DEFINE c == <<Empty>> \o at
    <3>1. /\ c = p /\ Len(c) = i + 1 /\ \A j \in 1..i : c[j + 1] = at[j]
      BY <1>2, <1>10, <1>12, <2>4, NamesAssumption
    <3> HIDE DEF c
    <3>2. Len(at) = Len(l)
      BY <1>2, <1>9, <1>10, <3>1
    <3> QED
      BY <1>2, <1>8, <1>10, <3>2, SeqEqual
  <2> QED
    BY <1>7, <2>1, <2>2, <2>4, <2>5
<1>13. CASE root # Slash /\ p # root
  <2> DEFINE w == SubSeq(p, Len(base) + 1, Len(p))
             v == SubSeq(l, i + 1, Len(l))
  <2>1. /\ base \in Seq(Names) /\ Len(base) = i + 1 /\ base[1] = Empty
        /\ \A j \in 1..i : base[j + 1] = at[j]
    BY <1>2, <1>4, <1>10, NamesAssumption
  <2>2. IsPrefix(base, p)
    <3>1. \A j \in 1..(i + 1) : base[j] = p[j]
      <4> TAKE j \in 1..(i + 1)
      <4>1. CASE j = 1
        BY <1>9, <2>1, <4>1
      <4>2. CASE j # 1
        <5> DEFINE m == j - 1
        <5>1. m \in 1..i /\ m \in 1..Len(l) /\ m + 1 = j
          BY <1>2, <1>8, <4>2
        <5> HIDE DEF m
        <5> QED
          BY <1>8, <1>9, <2>1, <5>1
      <4> QED
        BY <4>1, <4>2
    <3>2. Len(base) <= Len(p)
      BY <1>2, <1>8, <1>9, <2>1
    <3> QED
      BY <1>9, <2>1, <3>1, <3>2, PrefixMeaning
  <2>3. i # Len(l)
    <3> SUFFICES ASSUME i = Len(l) PROVE FALSE
      OBVIOUS
    <3>1. at = l
      BY <1>2, <1>8, <1>10, SeqEqual
    <3>2. Last(root) # Empty
      BY <1>13, <3>1 DEF root, at
    <3>3. root = p
      BY <1>4, <3>1, <3>2 DEF p
    <3> QED
      BY <1>13, <3>3
  <2>4. p # base
    BY <1>2, <1>8, <1>9, <2>1, <2>3
  <2>5. Shown(s, n) = <<Empty>> \o w
    BY <1>5, <1>13, <2>2, <2>4 DEF ExposePath, base
  <2>6. /\ v \in Seq(Names \ {Empty}) /\ v \in Seq(Names)
        /\ Len(v) = Len(l) - i /\ \A j \in 1..(Len(l) - i) : v[j] = l[i + j]
    <3> DEFINE a == i + 1
               b == Len(l)
    <3>1. a \in Int /\ b \in Int /\ a <= b /\ b - a + 1 = b - i
          /\ \A j \in 1..(b - i) : a + j - 1 = i + j
      BY <1>2, <1>8, <2>3
    <3>2. \A j \in a..b : l[j] \in Names \ {Empty}
      BY <1>2, <1>8
    <3>3. \A j \in a..b : l[j] \in Names
      BY <3>2
    <3> HIDE DEF a, b
    <3>4. /\ SubSeq(l, a, b) \in Seq(Names \ {Empty})
          /\ Len(SubSeq(l, a, b)) = IF a <= b THEN b - a + 1 ELSE 0
          /\ \A j \in 1..(b - a + 1) : SubSeq(l, a, b)[j] = l[a + j - 1]
      BY <3>1, <3>2, SubSeqProperties
    <3>5. SubSeq(l, a, b) \in Seq(Names)
      BY <3>1, <3>3, SubSeqProperties
    <3>6. v = SubSeq(l, a, b)
      BY DEF a, b
    <3>7. Len(l) = b
      BY DEF b
    <3> HIDE DEF v
    <3> QED
      BY <3>1, <3>4, <3>5, <3>6, <3>7
  <2>7. w = v
    <3> DEFINE a == i + 2
               b == Len(l) + 1
               c == Len(l)
    <3>1. c \in Nat /\ i \in Nat /\ i <= c
      BY <1>2, <1>8
    <3>2. w = SubSeq(p, a, b) /\ Len(p) = b
      BY <1>2, <1>9, <2>1
    <3>3. /\ v \in Seq(Names) /\ Len(v) = c - i
          /\ \A j \in 1..(c - i) : v[j] = l[i + j]
      BY <2>6
    <3>4. b = c + 1 /\ a = i + 2 /\ \A j \in 1..c : p[j + 1] = l[j]
      BY <1>9
    <3> HIDE DEF a, b, c, w, v
    <3>5. a \in Nat \ {0} /\ b \in Nat /\ a <= b + 1 /\ (b + 1) - a = c - i
      BY <3>1, <3>4
    <3>6. \A j \in 1..(c - i) : (a + j) - 1 = (i + j) + 1 /\ i + j \in 1..c
      BY <3>1, <3>4
    <3>7. b <= Len(p)
      BY <3>2, <3>5
    <3>8. /\ SubSeq(p, a, b) \in Seq(Names) /\ Len(SubSeq(p, a, b)) = (b + 1) - a
          /\ \A j \in 1..((b + 1) - a) : SubSeq(p, a, b)[j] = p[(a + j) - 1]
      BY <1>9, <3>5, <3>7, PartMeaning
    <3>9. w \in Seq(Names) /\ Len(w) = c - i /\ \A j \in 1..(c - i) : w[j] = p[(a + j) - 1]
      BY <3>2, <3>5, <3>8
    <3>10. \A j \in 1..(c - i) : w[j] = v[j]
      BY <3>3, <3>4, <3>6, <3>9
    <3> QED
      BY <3>3, <3>9, <3>10, SeqEqual
  <2> HIDE DEF w, v
  <2>8. v # <<>> /\ at \o v = l
    <3>1. v # <<>>
      BY <1>2, <1>8, <2>3, <2>6
    <3> DEFINE c == at \o v
    <3>2. /\ c \in Seq(Names) /\ Len(c) = i + Len(v)
          /\ \A j \in 1..(i + Len(v)) : c[j] = IF j <= i THEN at[j] ELSE v[j - i]
      BY <1>2, <1>10, <2>6, ConcatProperties
    <3> HIDE DEF c
    <3>3. Len(c) = Len(l)
      BY <1>2, <1>8, <2>6, <3>2
    <3>4. \A j \in 1..Len(l) : c[j] = l[j]
      <4> TAKE j \in 1..Len(l)
      <4>1. CASE j <= i
        BY <1>2, <1>8, <2>6, <3>2, <4>1
      <4>2. CASE ~(j <= i)
        <5> DEFINE m == j - i
        <5>1. m \in 1..(Len(l) - i) /\ i + m = j /\ j \in 1..(i + Len(v))
          BY <1>2, <1>8, <2>6, <4>2
        <5>2. c[j] = v[m]
          BY <3>2, <4>2, <5>1
        <5> HIDE DEF m
        <5> QED
          BY <2>6, <5>1, <5>2
      <4> QED
        BY <4>1, <4>2
    <3>5. c = l
      BY <1>2, <3>2, <3>3, <3>4, SeqEqual
    <3> QED
      BY <3>1, <3>5 DEF c
  <2> DEFINE q == <<Empty>> \o v
  <2>9. q \in Seq(Names) /\ Relative(q) = v
    BY <2>6, RelativeOfShown
  <2> HIDE DEF q
  <2>10. Inner(s, q) = l
    BY <1>6, <2>8, <2>9
  <2>11. Shown(s, n) = q
    BY <2>5, <2>7 DEF q
  <2> QED
    BY <1>7, <2>10, <2>11
<1> QED
  BY <1>11, <1>12, <1>13

\* The root of the file system is shown as "/" by a scope on it, and found there.
LEMMA RootLeadsBack ==
  ASSUME Forest(heap), ScopesType, NEW s \in Scopes, scopes[s] # NoScope, scopes[s][1] = Empty,
         NEW n, n = At(heap, <<>>), IsPrefix(RootLocation(s), <<>>)
  PROVE  FindNode(heap, Inner(s, Shown(s, n))) = n
<1> DEFINE root == scopes[s]
           at == RootLocation(s)
<1>1. PathString(root) /\ at = Components(Segments(root)) /\ <<>> \in Seq(Names)
  BY InnerType, RelativeOfSlash DEF RootLocation
<1>2. at \in Seq(Names) /\ Segments(root) \in Seq(Names) /\ Segments(root) # <<>>
  BY <1>1, ScopePathMeaning
<1>3. at = <<>>
  <2> HIDE DEF at
  <2>1. Len(at) <= Len(<<>>)
    BY <1>1, <1>2, PrefixMeaning DEF at
  <2> QED
    BY <1>2, <2>1, EmptySeq
<1>4. Segments(root) = <<Empty>>
  <2> DEFINE t == Segments(root)
  <2>1. Components(t) = <<>>
    BY <1>1, <1>3
  <2> HIDE DEF t, at, root
  <2>2. Last(t) = Empty /\ Front(t) = <<>>
    BY <1>2, <2>1 DEF Components, t
  <2>3. Len(t) \in Nat \ {0} /\ t \in Seq(Names)
    BY <1>2, EmptySeq DEF t
  <2>4. Len(t) = 1
    <3> DEFINE a == 1
               b == Len(t) - 1
    <3>1. a \in Nat \ {0} /\ b \in Nat /\ a <= b + 1 /\ b <= Len(t) /\ (b + 1) - a = b
      BY <2>3
    <3>2. Front(t) = SubSeq(t, a, b) /\ b = Len(t) - 1 /\ Len(<<>>) = 0
      BY DEF Front
    <3> HIDE DEF a, b
    <3>3. Len(SubSeq(t, a, b)) = (b + 1) - a
      BY <2>3, <3>1, PartMeaning
    <3>4. Len(SubSeq(t, a, b)) = 0
      BY <2>2, <3>2, Zenon
    <3>5. b = 0
      BY <3>1, <3>3, <3>4
    <3> QED
      BY <2>3, <3>2, <3>5
  <2>5. t = <<Empty>>
    BY <2>2, <2>3, <2>4 DEF Last
  <2> QED
    BY <2>5 DEF t
<1>5. root = Slash
  <2> HIDE DEF at, root
  <2> QED
    BY <1>1, <1>4, RootAndLocation DEF root
<1>6. n = Root /\ heap[n].path = <<Empty>>
  <2>1. Linking(heap) /\ heap[Root].path = <<Empty>>
    BY TypedLinking DEF Forest, PathsJoin
  <2>2. Len(<<>>) = 0
    OBVIOUS
  <2>3. \A l \in Seq(Names) : Walk(heap, l)[0] = Root
    BY <2>1, WalkMeaning
  <2> QED
    BY <1>1, <2>1, <2>2, <2>3 DEF At
<1>7. Shown(s, n) = Slash
  <2>1. <<Empty>> \o <<Empty>> = Slash
    <3> DEFINE e == <<Empty>>
               c == e \o e
    <3>1. e \in Seq(Names) /\ Len(e) = 1 /\ e[1] = Empty
      BY NamesAssumption
    <3>2. Slash \in Seq(Names) /\ Len(Slash) = 2 /\ \A i \in 1..2 : Slash[i] = Empty
      BY NamesAssumption DEF Slash
    <3> HIDE DEF e
    <3>3. c \in Seq(Names) /\ Len(c) = 2 /\ \A i \in 1..2 : c[i] = Empty
      <4>1. /\ c \in Seq(Names) /\ Len(c) = Len(e) + Len(e)
            /\ \A i \in 1..(Len(e) + Len(e)) : c[i] = IF i <= Len(e) THEN e[i] ELSE e[i - Len(e)]
        BY <3>1, ConcatProperties
      <4> HIDE DEF c
      <4>2. \A i \in 1..2 : i = 1 \/ i = 2
        OBVIOUS
      <4> QED
        BY <3>1, <4>1, <4>2
    <3> HIDE DEF c
    <3>4. c = Slash
      BY <3>2, <3>3, SeqEqual
    <3> QED
      BY <3>4 DEF c, e
  <2> QED
    BY <1>5, <1>6, <2>1 DEF Shown, ExposePath
<1>8. Inner(s, Slash) = <<Empty>>
  BY <1>1, <1>4, RelativeOfSlash, ScopePathMeaning DEF Inner
<1>9. FindNode(heap, <<Empty>>) = At(heap, <<>>)
  <2>1. Components(<<Empty>>) = <<>>
    BY DEF Components, Last, Front
  <2> QED
    BY <2>1 DEF FindNode, At
<1> QED
  BY <1>7, <1>8, <1>9

\* What a scope's listing shows of an entry leads back to it, through that scope,
\* after any renames of the root, of the entry and of whatever is between them.
THEOREM ShownPathsLeadBack == ScopedSpec => []LeadsBack
<1>1. ASSUME ScopedInv PROVE LeadsBack
  <2> SUFFICES ASSUME NEW s \in Scopes, scopes[s] # NoScope, scopes[s][1] = Empty,
                      NEW l \in BoundedSeq(Names \ {Empty}, MaxNodes),
                      Walk(heap, l)[Len(l)] # Null, IsPrefix(RootLocation(s), l),
                      l = RootLocation(s) => Last(scopes[s]) # Empty \/ scopes[s] = Slash
               PROVE  FindNode(heap, Inner(s, Shown(s, Walk(heap, l)[Len(l)])))
                        = Walk(heap, l)[Len(l)]
    BY DEF LeadsBack
  <2>1. l \in Seq(Names \ {Empty})
    <3>1. PICK m \in 0..MaxNodes : l \in [1..m -> Names \ {Empty}]
      BY DEF BoundedSeq, SeqOf
    <3>2. m \in Nat
      BY <3>1, BoundsAssumption
    <3> QED
      BY <3>1, <3>2
  <2>2. Forest(heap) /\ ScopesType
    BY <1>1 DEF ScopedInv, TreeInv
  <2> DEFINE n == At(heap, l)
  <2>3. FindNode(heap, Inner(s, Shown(s, n))) = n
    <3>1. n # Null
      BY DEF At
    <3>2. l # <<>> => FindNode(heap, Inner(s, Shown(s, n))) = n
      BY <2>1, <2>2, <3>1, ShownLeadsBack
    <3>3. l = <<>> => FindNode(heap, Inner(s, Shown(s, n))) = n
      BY <2>2, RootLeadsBack
    <3> QED
      BY <3>2, <3>3
  <2> QED
    BY <2>3 DEF At
<1> QED
  BY <1>1, ScopedInvariant, PTL

-----------------------------------------------------------------------------
(* Confinement: where a call through a scope can reach.                    *)

LEMMA PrefixTransitive ==
  ASSUME NEW a \in Seq(Names), NEW b \in Seq(Names), NEW c \in Seq(Names),
         IsPrefix(a, b), IsPrefix(b, c)
  PROVE  IsPrefix(a, c)
<1>1. Len(a) <= Len(b) /\ \A i \in 1..Len(a) : a[i] = b[i]
  BY PrefixMeaning
<1>2. Len(b) <= Len(c) /\ \A i \in 1..Len(b) : b[i] = c[i]
  BY PrefixMeaning
<1>3. Len(a) \in Nat /\ Len(b) \in Nat /\ Len(c) \in Nat
  OBVIOUS
<1>4. Len(a) <= Len(c) /\ \A i \in 1..Len(a) : a[i] = c[i]
  BY <1>1, <1>2, <1>3
<1> QED
  BY <1>4, PrefixMeaning

\* Of two prefixes one is a prefix of the other.
LEMMA PrefixesMeet ==
  ASSUME NEW a \in Seq(Names), NEW b \in Seq(Names), NEW c \in Seq(Names),
         IsPrefix(a, c), IsPrefix(b, c)
  PROVE  IsPrefix(a, b) \/ IsPrefix(b, a)
<1>1. Len(a) <= Len(c) /\ \A i \in 1..Len(a) : a[i] = c[i]
  BY PrefixMeaning
<1>2. Len(b) <= Len(c) /\ \A i \in 1..Len(b) : b[i] = c[i]
  BY PrefixMeaning
<1>3. Len(a) \in Nat /\ Len(b) \in Nat /\ Len(c) \in Nat
  OBVIOUS
<1>4. CASE Len(a) <= Len(b)
  <2>1. \A i \in 1..Len(a) : a[i] = b[i]
    BY <1>1, <1>2, <1>3, <1>4
  <2> QED
    BY <1>4, <2>1, PrefixMeaning
<1>5. CASE ~(Len(a) <= Len(b))
  <2>1. Len(b) <= Len(a) /\ \A i \in 1..Len(b) : b[i] = a[i]
    BY <1>1, <1>2, <1>3, <1>5
  <2> QED
    BY <2>1, PrefixMeaning
<1> QED
  BY <1>4, <1>5

\* All but the last element.
LEMMA FrontMeaning ==
  ASSUME NEW s \in Seq(Names), s # <<>>
  PROVE  /\ Front(s) \in Seq(Names) /\ Len(Front(s)) = Len(s) - 1
         /\ \A i \in 1..(Len(s) - 1) : Front(s)[i] = s[i]
<1>1. Len(s) \in Nat \ {0}
  BY EmptySeq
<1> DEFINE m == Len(s) - 1
<1>2. m \in Nat /\ 1 \in Nat \ {0} /\ 1 <= m + 1 /\ m <= Len(s) /\ (m + 1) - 1 = m
      /\ \A i \in 1..m : (1 + i) - 1 = i
  BY <1>1
<1> HIDE DEF m
<1> DEFINE f == SubSeq(s, 1, m)
<1>3. f \in Seq(Names) /\ Len(f) = (m + 1) - 1 /\ \A i \in 1..((m + 1) - 1) : f[i] = s[(1 + i) - 1]
  BY <1>2, PartMeaning
<1> HIDE DEF f
<1>4. f \in Seq(Names) /\ Len(f) = m /\ \A i \in 1..m : f[i] = s[i]
  BY <1>2, <1>3
<1> QED
  BY <1>4 DEF f, m, Front

\* What a lookup walks is the path, but for one empty segment at its end.
LEMMA ComponentsMeaning ==
  ASSUME NEW p \in Seq(Names)
  PROVE  /\ Components(p) \in Seq(Names) /\ IsPrefix(Components(p), p)
         /\ Len(p) <= Len(Components(p)) + 1
         /\ p # <<>> /\ p[Len(p)] # Empty => Components(p) = p
<1> DEFINE c == Components(p)
           n == Len(p)
<1>1. n \in Nat /\ c \in Seq(Names) /\ Len(c) \in Nat
  BY ComponentsType
<1>2. CASE p # <<>> /\ p[n] = Empty
  <2>1. n # 0 /\ n \in Nat
    BY <1>2, EmptySeq
  <2>2. c = Front(p) /\ Len(c) = n - 1 /\ \A i \in 1..(n - 1) : c[i] = p[i]
    <3>1. c = Front(p)
      BY <1>2 DEF Components, Last
    <3> QED
      BY <1>2, <3>1, FrontMeaning
  <2> HIDE DEF c
  <2>3. IsPrefix(c, p)
    BY <1>1, <2>1, <2>2, PrefixMeaning
  <2> QED
    BY <1>1, <1>2, <2>1, <2>2, <2>3 DEF c
<1>3. CASE ~(p # <<>> /\ p[n] = Empty)
  <2>1. c = p
    BY <1>3 DEF Components, Last
  <2>2. IsPrefix(p, p)
    BY <1>1, PrefixMeaning
  <2> QED
    BY <1>1, <2>1, <2>2
<1> QED
  BY <1>2, <1>3

\* Segments with a name.
Plain(k) == \A i \in 1..Len(k) : k[i] # Empty

\* A start without empty segments is there for a lookup too.
LEMMA ComponentsKeepStart ==
  ASSUME NEW k \in Seq(Names), Plain(k), NEW p \in Seq(Names), IsPrefix(k, p)
  PROVE  IsPrefix(k, Components(p))
<1> DEFINE c == Components(p)
<1>1. Len(k) \in Nat /\ Len(p) \in Nat /\ c \in Seq(Names) /\ Len(c) \in Nat
  BY ComponentsType
<1>2. Len(k) <= Len(p) /\ \A i \in 1..Len(k) : k[i] = p[i]
  BY PrefixMeaning
<1>3. CASE Len(k) = Len(p) /\ p # <<>>
  <2>1. Len(k) \in 1..Len(k)
    BY <1>1, <1>3, EmptySeq
  <2>2. p[Len(p)] # Empty
    BY <1>2, <1>3, <2>1 DEF Plain
  <2> QED
    BY <1>3, <2>2, ComponentsMeaning
<1>4. CASE p = <<>>
  BY <1>4, ComponentsMeaning DEF Components
<1>5. CASE Len(k) # Len(p)
  <2> HIDE DEF c
  <2>1. Len(c) <= Len(p) /\ \A i \in 1..Len(c) : c[i] = p[i]
    BY <1>1, ComponentsMeaning, PrefixMeaning DEF c
  <2>2. Len(p) <= Len(c) + 1
    BY ComponentsMeaning DEF c
  <2>3. Len(k) <= Len(c) /\ \A i \in 1..Len(k) : k[i] = c[i]
    BY <1>1, <1>2, <1>5, <2>1, <2>2
  <2>4. IsPrefix(k, c)
    BY <1>1, <2>3, PrefixMeaning
  <2> QED
    BY <2>4 DEF c
<1> QED
  BY <1>3, <1>4, <1>5

\* The operations that look an entry up in its directory stay behind it as well,
\* and the directory is behind it or on the way to it.
LEMMA LocationKeepsStart ==
  ASSUME NEW k \in Seq(Names), Plain(k), NEW p \in Seq(Names), p # <<>>, IsPrefix(k, p)
  PROVE  /\ Location(p) \in Seq(Names) /\ IsPrefix(k, Location(p))
         /\ IsPrefix(k, Components(DirName(p))) \/ IsPrefix(Components(DirName(p)), k)
<1> DEFINE d == DirName(p)
           c == Components(d)
           nm == FileName(p)
           n == Len(p)
           a == Append(c, nm)
<1>1. /\ d \in Seq(Names) /\ nm \in Names /\ c \in Seq(Names) /\ Len(c) \in Nat
      /\ Len(k) \in Nat /\ n \in Nat \ {0}
  BY PathParts, ComponentsType, EmptySeq
<1>2. Len(d) = n - 1 /\ (\A i \in 1..(n - 1) : d[i] = p[i]) /\ nm = p[n]
  BY FrontMeaning DEF DirName, FileName, Last
<1>3. Len(k) <= n /\ \A i \in 1..Len(k) : k[i] = p[i]
  BY PrefixMeaning
<1>4. Location(p) = a /\ a \in Seq(Names) /\ Len(a) = Len(c) + 1 /\ a[Len(c) + 1] = nm
      /\ \A i \in 1..Len(c) : a[i] = c[i]
  BY <1>1 DEF Location
<1> HIDE DEF d, c, nm, a, n
<1>5. IsPrefix(c, a)
  <2>1. Len(c) <= Len(a) /\ \A i \in 1..Len(c) : c[i] = a[i]
    BY <1>1, <1>4
  <2> QED
    BY <1>1, <1>4, <2>1, PrefixMeaning
<1>6. CASE Len(k) # n
  <2>1. Len(k) <= Len(d) /\ \A i \in 1..Len(k) : k[i] = d[i]
    BY <1>1, <1>2, <1>3, <1>6
  <2>2. IsPrefix(k, d)
    BY <1>1, <2>1, PrefixMeaning
  <2>3. IsPrefix(k, c)
    BY <1>1, <2>2, ComponentsKeepStart DEF c
  <2>4. IsPrefix(k, a)
    BY <1>1, <1>4, <1>5, <2>3, PrefixTransitive
  <2> QED
    BY <1>4, <2>3, <2>4 DEF c, d
<1>7. CASE Len(k) = n
  <2>1. c = d
    <3>1. CASE d = <<>>
      BY <3>1 DEF c, Components
    <3>2. CASE d # <<>>
      <4>1. n - 1 \in 1..(n - 1) /\ n - 1 \in 1..Len(k)
        BY <1>1, <1>2, <1>7, <3>2, EmptySeq
      <4>2. d[Len(d)] # Empty
        BY <1>2, <1>3, <4>1 DEF Plain
      <4> QED
        BY <1>1, <3>2, <4>2, ComponentsMeaning DEF c
    <3> QED
      BY <3>1, <3>2
  <2>2. Len(k) <= Len(a) /\ \A i \in 1..Len(k) : k[i] = a[i]
    <3>1. Len(a) = n
      BY <1>1, <1>2, <1>4, <2>1
    <3>2. ASSUME NEW i \in 1..Len(k) PROVE k[i] = a[i]
      <4>1. CASE i = n
        BY <1>1, <1>2, <1>3, <1>4, <2>1, <3>1, <4>1
      <4>2. CASE i # n
        <5>1. i \in 1..(n - 1) /\ i \in 1..Len(c)
          BY <1>1, <1>2, <1>7, <2>1, <4>2
        <5>2. k[i] = p[i] /\ d[i] = p[i] /\ a[i] = c[i]
          BY <1>2, <1>3, <1>4, <5>1
        <5> QED
          BY <2>1, <5>2
      <4> QED
        BY <4>1, <4>2
    <3> QED
      BY <1>1, <1>7, <3>1, <3>2
  <2>3. Len(d) <= Len(k) /\ \A i \in 1..Len(d) : d[i] = k[i]
    BY <1>1, <1>2, <1>3, <1>7
  <2>4. IsPrefix(k, a) /\ IsPrefix(d, k)
    BY <1>1, <1>4, <2>2, <2>3, PrefixMeaning
  <2> QED
    BY <1>4, <2>1, <2>4 DEF c, d
<1> QED
  BY <1>6, <1>7

\* The boundary of a scope is the start of its root's location.
LEMMA BoundaryMeaning ==
  ASSUME ScopesType, NEW s \in Scopes, scopes[s] # NoScope
  PROVE  /\ Boundary(s) \in Seq(Names) /\ Plain(Boundary(s))
         /\ RootLocation(s) \in Seq(Names) /\ IsPrefix(Boundary(s), RootLocation(s))
<1> DEFINE root == RootLocation(s)
           plain == {i \in DOMAIN root : \A j \in 1..i : root[j] # Empty}
           n == Len(root)
           m == Cardinality(plain)
           b == SubSeq(root, 1, m)
<1>1. root \in Seq(Names) /\ n \in Nat /\ DOMAIN root = 1..n
  <2>1. PathString(scopes[s]) /\ <<>> \in Seq(Names)
    BY DEF ScopesType, PathString, NoScope
  <2>2. root \in Seq(Names)
    BY <2>1, ScopePathMeaning DEF RootLocation
  <2> QED
    BY <2>2
<1>2. Boundary(s) = b
  BY DEF Boundary
<1> HIDE DEF root
<1>3. m \in 0..n /\ plain = 1..m
  <2>1. plain \in SUBSET (1..n) /\ \A i \in plain : \A j \in 1..i : j \in plain
    BY <1>1
  <2> HIDE DEF plain, n
  <2> QED
    BY <1>1, <2>1, InitialNumbers
<1>4. \A i \in 1..m : root[i] # Empty
  <2> TAKE i \in 1..m
  <2>1. i \in plain /\ i \in 1..i
    BY <1>3
  <2> QED
    BY <2>1
<1> HIDE DEF m, n
<1>5. m \in Nat /\ 1 <= m + 1 /\ m <= n /\ (m + 1) - 1 = m /\ 1 \in Nat \ {0}
      /\ \A i \in 1..m : (1 + i) - 1 = i
  BY <1>1, <1>3
<1>6. b \in Seq(Names) /\ Len(b) = m /\ \A i \in 1..m : b[i] = root[i]
  <2>1. b \in Seq(Names) /\ Len(b) = (m + 1) - 1 /\ \A i \in 1..((m + 1) - 1) : b[i] = root[(1 + i) - 1]
    <3>1. m <= Len(root)
      BY <1>5 DEF n
    <3> HIDE DEF b
    <3> QED
      BY <1>1, <1>5, <3>1, PartMeaning DEF b
  <2> HIDE DEF b
  <2> QED
    BY <1>5, <2>1
<1> HIDE DEF b
<1>7. Plain(b)
  BY <1>4, <1>6 DEF Plain
<1>8. IsPrefix(b, root)
  <2>1. Len(b) <= Len(root)
    BY <1>5, <1>6 DEF n
  <2> QED
    BY <1>1, <1>6, <2>1, PrefixMeaning
<1> QED
  BY <1>1, <1>2, <1>6, <1>7, <1>8 DEF root

\* Whatever a caller passes, the path handed on starts with the boundary.
LEMMA InnerStarts ==
  ASSUME ScopesType, NEW s \in Scopes, scopes[s] # NoScope, NEW p \in Seq(Names)
  PROVE  IsPrefix(Boundary(s), Inner(s, p))
<1> DEFINE at == RootLocation(s)
           q == Inner(s, p)
           b == Boundary(s)
<1>1. PathString(scopes[s]) /\ q \in Seq(Names)
  BY InnerType
<1>2. b \in Seq(Names) /\ at \in Seq(Names) /\ IsPrefix(b, at)
  BY BoundaryMeaning
<1>3. IsPrefix(at, q)
  <2>1. CASE Relative(p) = <<>>
    <3>1. q = Segments(scopes[s])
      BY <1>1, <2>1, ScopePathMeaning DEF Inner
    <3> QED
      BY <1>1, <3>1, ComponentsMeaning DEF RootLocation
  <2>2. CASE Relative(p) # <<>>
    <3> DEFINE r == Relative(p)
    <3>1. q = at \o r
      BY <1>1, <2>2, ScopePathMeaning DEF Inner, RootLocation
    <3>2. r \in Seq(Names)
      BY RelativeMeaning
    <3> HIDE DEF at, q, r
    <3>3. Len(at) <= Len(q) /\ \A i \in 1..Len(at) : at[i] = q[i]
      <4>1. Len(q) = Len(at) + Len(r) /\ Len(at) \in Nat /\ Len(r) \in Nat
        BY <1>2, <3>1, <3>2
      <4>2. \A i \in 1..Len(at) : q[i] = at[i]
        BY <1>2, <3>1, <3>2
      <4> QED
        BY <4>1, <4>2
    <3> QED
      BY <1>1, <1>2, <3>3, PrefixMeaning
  <2> QED
    BY <2>1, <2>2
<1> HIDE DEF at, q, b
<1>4. IsPrefix(b, q)
  BY <1>1, <1>2, <1>3, PrefixTransitive
<1> QED
  BY <1>4 DEF q, b

\* What may have become of location l, outside k, when h becomes c.
Stays(h, c, k, l) ==
  \/ At(h, l) = Null /\ At(c, l) = Null
  \/ At(h, l) # Null /\ At(c, l) = At(h, l) /\ c[At(c, l)].isDirectory = h[At(h, l)].isDirectory
  \/ /\ IsPrefix(l, k)
     /\ At(c, l) # Null /\ c[At(c, l)].isDirectory
     /\ At(h, l) # Null => At(c, l) = At(h, l)

\* A node says whether it is a directory.
LEMMA DirectoryOrNot ==
  ASSUME NEW h, Forest(h), NEW l \in Seq(Names), At(h, l) # Null
  PROVE  At(h, l) \in DOMAIN h /\ h[At(h, l)].isDirectory \in BOOLEAN
<1>1. Linking(h) /\ \A n \in DOMAIN h : h[n] \in Node(DOMAIN h)
  BY TypedLinking DEF Forest
<1>2. At(h, l) \in DOMAIN h
  BY <1>1, AtMeaning
<1> QED
  BY <1>1, <1>2 DEF Node

\* createPath of a path that starts with k, or of a directory on the way to it.
LEMMA CreateStays ==
  ASSUME NEW h, Forest(h), NEW k \in Seq(Names), NEW p \in Seq(Names), NEW asDirectory \in BOOLEAN,
         IsPrefix(k, Components(p)) \/ (asDirectory /\ IsPrefix(Components(p), k)),
         NEW l \in Seq(Names), ~IsPrefix(k, l)
  PROVE  Stays(h, CreatePath(h, p, asDirectory), k, l)
<1> DEFINE c == CreatePath(h, p, asDirectory)
           s == Components(p)
<1>1. Makes(h, c, p, asDirectory, l)
  BY CreatePathMakes
<1>2. Forest(c)
  BY CreatePathForest
<1>3. s \in Seq(Names)
  BY ComponentsType
<1>4. IsPrefix(l, s) => IsPrefix(l, k)
  BY <1>3, PrefixesMeet, PrefixTransitive
<1>5. l = s => asDirectory
  OBVIOUS
<1>6. l = s => IsPrefix(l, s)
  BY <1>3, ComponentsMeaning, PrefixMeaning
<1> HIDE DEF c, s
<1>7. ASSUME At(h, l) # Null PROVE Stays(h, c, k, l)
  <2>1. At(c, l) = At(h, l) /\ At(c, l) # Null
    BY <1>1, <1>7 DEF Makes
  <2>2. h[At(h, l)].isDirectory \in BOOLEAN /\ c[At(c, l)].isDirectory \in BOOLEAN
    BY <1>2, <1>7, <2>1, DirectoryOrNot
  <2>3. CASE l = s
    <3>1. IsPrefix(l, k)
      BY <1>4, <1>6, <2>3
    <3>2. CASE h[At(h, l)].isDirectory
      <4>1. c[At(c, l)].isDirectory
        BY <1>1, <1>7, <3>2, Zenon DEF Makes, s
      <4> QED
        BY <1>7, <2>1, <3>1, <4>1 DEF Stays
    <3>3. CASE ~h[At(h, l)].isDirectory
      <4>1. CASE c[At(c, l)].isDirectory
        BY <1>7, <2>1, <3>1, <4>1 DEF Stays
      <4>2. CASE ~c[At(c, l)].isDirectory
        <5>1. c[At(c, l)].isDirectory = h[At(h, l)].isDirectory
          BY <2>2, <3>3, <4>2
        <5> QED
          BY <1>7, <2>1, <5>1 DEF Stays
      <4> QED
        BY <4>1, <4>2
    <3> QED
      BY <3>2, <3>3
  <2>4. CASE l # s
    <3>1. c[At(c, l)].isDirectory <=> h[At(h, l)].isDirectory
      BY <1>1, <1>7, <2>4, Zenon DEF Makes, s
    <3>2. c[At(c, l)].isDirectory = h[At(h, l)].isDirectory
      BY <2>2, <3>1
    <3> QED
      BY <1>7, <2>1, <3>2 DEF Stays
  <2> QED
    BY <2>3, <2>4
<1>8. ASSUME At(h, l) = Null, IsPrefix(l, s) PROVE Stays(h, c, k, l)
  <2>1. At(c, l) # Null /\ c[At(c, l)].isDirectory
    BY <1>1, <1>5, <1>8, Zenon DEF Makes, s
  <2> QED
    BY <1>4, <1>8, <2>1 DEF Stays
<1>9. ASSUME At(h, l) = Null, ~IsPrefix(l, s) PROVE Stays(h, c, k, l)
  BY <1>1, <1>9 DEF Makes, Stays, s
<1> QED
  BY <1>7, <1>8, <1>9 DEF c

\* Contents that are the same where a location leads to the same node.
LEMMA SameStays ==
  ASSUME NEW h, NEW c, NEW d, Linking(c), NEW k \in Seq(Names), NEW l \in Seq(Names),
         Stays(h, c, k, l), SameContents(c, d), At(d, l) = At(c, l)
  PROVE  Stays(h, d, k, l)
<1>1. At(c, l) # Null => d[At(d, l)].isDirectory = c[At(c, l)].isDirectory
  <2> SUFFICES ASSUME At(c, l) # Null PROVE d[At(d, l)].isDirectory = c[At(c, l)].isDirectory
    OBVIOUS
  <2>1. At(c, l) \in DOMAIN c
    BY AtMeaning
  <2> QED
    BY <2>1 DEF SameContents
<1> QED
  BY <1>1 DEF Stays

\* Nothing happened to a location that leads where it led.
LEMMA NothingStays ==
  ASSUME NEW h, NEW k, NEW l
  PROVE  Stays(h, h, k, l)
  BY DEF Stays

\* Whatever a scope is asked to do, only what is at or below its boundary changes,
\* and the directories on the way there.
LEMMA CallStays ==
  ASSUME ScopedInv, ScopedInv', NEW s \in Scopes, scopes[s] # NoScope, ScopedCall(s), heap' # heap,
         NEW l \in Seq(Names), ~IsPrefix(Boundary(s), l)
  PROVE  Stays(heap, heap', Boundary(s), l)
<1> DEFINE k == Boundary(s)
<1>1. ScopesType /\ Forest(heap) /\ Linking(heap)
  BY TypedLinking DEF ScopedInv, TreeInv, Forest
<1>2. k \in Seq(Names) /\ Plain(k)
  BY <1>1, BoundaryMeaning
<1> DEFINE Good(q) ==
             /\ q \in Seq(Names) /\ q # <<>>
             /\ IsPrefix(k, Components(q)) /\ IsPrefix(k, Location(q)) /\ Location(q) \in Seq(Names)
             /\ DirName(q) \in Seq(Names)
             /\ IsPrefix(k, Components(DirName(q))) \/ IsPrefix(Components(DirName(q)), k)
<1>3. \A p \in Arguments : Good(Inner(s, p))
  <2> TAKE p \in Arguments
  <2> DEFINE q == Inner(s, p)
  <2>1. p \in Seq(Names)
    BY Given DEF PathString
  <2>2. q \in Seq(Names) /\ q # <<>> /\ IsPrefix(k, q)
    BY <1>1, <2>1, InnerType, InnerStarts
  <2> HIDE DEF q, k
  <2>3. IsPrefix(k, Components(q))
    BY <1>2, <2>2, ComponentsKeepStart
  <2>4. DirName(q) \in Seq(Names)
    BY <2>2, PathParts
  <2>5. /\ Location(q) \in Seq(Names) /\ IsPrefix(k, Location(q))
        /\ IsPrefix(k, Components(DirName(q))) \/ IsPrefix(Components(DirName(q)), k)
    BY <1>2, <2>2, LocationKeepsStart
  <2>6. Good(q)
    BY <2>2, <2>3, <2>4, <2>5
  <2> QED
    BY <2>6 DEF q
<1>4. ~IsPrefix(k, l)
  OBVIOUS
<1> HIDE DEF k
<1>5. ASSUME NEW q \in Seq(Names), IsPrefix(k, Location(q)), Location(q) \in Seq(Names)
      PROVE  ~IsPrefix(Location(q), l)
  BY <1>2, <1>4, <1>5, PrefixTransitive
<1>6. ASSUME NEW q, Good(q), Mkdir(q) PROVE Stays(heap, heap', k, l)
  <2>1. heap' = CreatePath(heap, q, TRUE) /\ TRUE \in BOOLEAN
    BY <1>6 DEF Mkdir
  <2>2. Stays(heap, CreatePath(heap, q, TRUE), k, l)
    BY <1>1, <1>2, <1>4, <1>6, CreateStays
  <2> QED
    BY <2>1, <2>2
<1>7. ASSUME NEW q, Good(q), RemovePath(q) PROVE Stays(heap, heap', k, l)
  <2>1. SameContents(heap, heap') /\ At(heap', l) = At(heap, l)
    BY <1>1, <1>5, <1>7, RemovePlaces
  <2> QED
    BY <1>1, <1>2, <2>1, NothingStays, SameStays
<1>8. ASSUME NEW from, NEW to, Good(from), Good(to), Rename(from, to)
      PROVE  Stays(heap, heap', k, l)
  <2>1. PICK created, oldParent, newParent, node, moved :
          Moves(from, to, created, oldParent, newParent, node, moved)
    BY <1>8, RenameMoves
  <2>2. from \in Seq(Names) /\ from # <<>> /\ to \in Seq(Names) /\ to # <<>>
    BY <1>8
  <2>3. SameContents(created, heap') /\ At(heap', l) = At(created, l)
    <3>1. ~IsPrefix(Location(from), l) /\ ~IsPrefix(Location(to), l)
      BY <1>5, <1>8
    <3> HIDE DEF Good
    <3> QED
      BY <1>1, <1>8, <2>1, <2>2, <3>1, RenamePlaces
  <2> DEFINE d == DirName(to)
  <2>4. /\ d \in Seq(Names) /\ TRUE \in BOOLEAN
        /\ IsPrefix(k, Components(d)) \/ (TRUE /\ IsPrefix(Components(d), k))
    BY <1>8
  <2>5. created = CreatePath(heap, d, TRUE)
    BY <2>1 DEF Moves
  <2> HIDE DEF d
  <2>6. Stays(heap, created, k, l) /\ Forest(created)
    BY <1>1, <1>2, <1>4, <2>4, <2>5, CreateStays, CreatePathForest
  <2>7. Linking(created)
    BY <2>6, TypedLinking DEF Forest
  <2> QED
    BY <1>2, <2>3, <2>6, <2>7, SameStays
<1>9. ASSUME NEW f, NEW q, Good(q), NEW mode, Open(f, q, mode)
      PROVE  Stays(heap, heap', k, l)
  <2>1. heap' = CreatePath(heap, q, FALSE) /\ FALSE \in BOOLEAN
    BY <1>9 DEF Open
  <2>2. Stays(heap, CreatePath(heap, q, FALSE), k, l)
    BY <1>1, <1>2, <1>4, <1>9, <2>1, CreateStays
  <2> QED
    BY <2>1, <2>2
<1>10. ASSUME NEW p \in Arguments, EnsureDirectory(s, p) PROVE Stays(heap, heap', k, l)
  <2>1. Mkdir(Inner(s, p))
    BY <1>10 DEF EnsureDirectory, vars
  <2> HIDE DEF Good
  <2> QED
    BY <1>3, <1>6, <2>1
<1> HIDE DEF Good
<1>11. Stays(heap, heap', k, l)
  <2>1. CASE \E p \in Arguments : ScopedMkdir(s, p)
    BY <1>3, <1>6, <2>1 DEF ScopedMkdir
  <2>2. CASE \E p \in Arguments : ScopedRemove(s, p)
    BY <1>3, <1>7, <2>2 DEF ScopedRemove
  <2>3. CASE \E p, q \in Arguments : ScopedRename(s, p, q)
    BY <1>3, <1>8, <2>3 DEF ScopedRename
  <2>4. CASE \E f \in Handles, p \in Arguments, mode \in Modes : ScopedOpen(s, f, p, mode)
    BY <1>3, <1>9, <2>4 DEF ScopedOpen
  <2> QED
    BY <1>10, <2>1, <2>2, <2>3, <2>4 DEF ScopedCall
<1> QED
  BY <1>11 DEF k

\* The entries are the locations that lead somewhere, as deep as there can be any.
LEMMA EntriesMeaning ==
  ASSUME NEW h, Linking(h)
  PROVE  /\ \A l : l \in DOMAIN Entries(h) <=>
                     l \in Seq(Names) /\ Len(l) <= MaxNodes - 1 /\ At(h, l) # Null
         /\ \A l \in DOMAIN Entries(h) :
              Entries(h)[l] = [node |-> At(h, l), isDirectory |-> h[At(h, l)].isDirectory]
<1> DEFINE d == MaxNodes - 1
           linked == Linked(h, d)
           S == {m \in Seq(Names) : Len(m) <= d /\ At(h, m) # Null}
           Of(l) == CHOOSE e \in linked : e.at = l
<1>1. d \in Nat
  BY BoundsAssumption
<1> HIDE DEF d
<1>2. linked = {[at |-> l, node |-> At(h, l)] : l \in S}
  BY <1>1, LinkedMeaning DEF Reached
<1>3. Entries(h) = [l \in {e.at : e \in linked} |->
                      [node |-> Of(l).node, isDirectory |-> h[Of(l).node].isDirectory]]
  BY DEF Entries, d
<1> HIDE DEF linked
<1>4. {e.at : e \in linked} = S
  <2>1. \A l \in S : [at |-> l, node |-> At(h, l)] \in linked /\ [at |-> l, node |-> At(h, l)].at = l
    BY <1>2
  <2>2. \A e \in linked : e.at \in S
    BY <1>2
  <2> HIDE DEF S
  <2> QED
    BY <2>1, <2>2
<1>5. ASSUME NEW l \in S PROVE Of(l).node = At(h, l)
  <2>1. [at |-> l, node |-> At(h, l)] \in linked /\ [at |-> l, node |-> At(h, l)].at = l
    BY <1>2
  <2>2. Of(l) \in linked /\ Of(l).at = l
    BY <2>1
  <2> HIDE DEF Of
  <2>3. PICK m \in S : Of(l) = [at |-> m, node |-> At(h, m)]
    BY <1>2, <2>2
  <2> QED
    BY <2>2, <2>3
<1>6. DOMAIN Entries(h) = S
  BY <1>3, <1>4
<1>7. ASSUME NEW l \in S
      PROVE  Entries(h)[l] = [node |-> At(h, l), isDirectory |-> h[At(h, l)].isDirectory]
  <2> HIDE DEF S, Of
  <2> QED
    BY <1>3, <1>4, <1>5
<1> QED
  BY <1>6, <1>7 DEF d

\* Whatever is asked of a scope, and whatever has become of the directory it was
\* made for, leaves every entry outside its root as it was, but for the
\* directories on the way to the root, which are made when they are missing.
THEOREM NothingOutsideChanges == ScopedSpec => Confined
<1>1. ASSUME ScopedInv, ScopedInv', NEW s \in Scopes, scopes[s] # NoScope, heap' # heap, ScopedCall(s),
             NEW l \in DOMAIN Entries(heap) \cup DOMAIN Entries(heap')
      PROVE  \/ IsPrefix(Boundary(s), l)
             \/ /\ l \in DOMAIN Entries(heap) /\ l \in DOMAIN Entries(heap')
                /\ Entries(heap)[l] = Entries(heap')[l]
             \/ /\ IsPrefix(l, Boundary(s))
                /\ l \in DOMAIN Entries(heap') /\ Entries(heap')[l].isDirectory
                /\ l \in DOMAIN Entries(heap) => Entries(heap)[l].node = Entries(heap')[l].node
  <2> DEFINE b == Entries(heap)
             a == Entries(heap')
             k == Boundary(s)
             n == At(heap, l)
             m == At(heap', l)
  <2> SUFFICES ASSUME ~IsPrefix(k, l)
               PROVE  \/ l \in DOMAIN b /\ l \in DOMAIN a /\ b[l] = a[l]
                      \/ /\ IsPrefix(l, k) /\ l \in DOMAIN a /\ a[l].isDirectory
                         /\ l \in DOMAIN b => b[l].node = a[l].node
    OBVIOUS
  <2>1. Linking(heap) /\ Linking(heap')
    BY <1>1, TypedLinking DEF ScopedInv, TreeInv, Forest
  <2>2. /\ l \in DOMAIN b <=> l \in Seq(Names) /\ Len(l) <= MaxNodes - 1 /\ n # Null
        /\ l \in DOMAIN b => b[l] = [node |-> n, isDirectory |-> heap[n].isDirectory]
    BY <2>1, EntriesMeaning
  <2>3. /\ l \in DOMAIN a <=> l \in Seq(Names) /\ Len(l) <= MaxNodes - 1 /\ m # Null
        /\ l \in DOMAIN a => a[l] = [node |-> m, isDirectory |-> heap'[m].isDirectory]
    BY <2>1, EntriesMeaning
  <2>4. l \in Seq(Names) /\ Len(l) <= MaxNodes - 1
    BY <2>2, <2>3
  <2>5. Stays(heap, heap', k, l)
    BY <1>1, <2>4, CallStays
  <2>6. \/ n = Null /\ m = Null
        \/ n # Null /\ m = n /\ heap'[m].isDirectory = heap[n].isDirectory
        \/ IsPrefix(l, k) /\ m # Null /\ heap'[m].isDirectory /\ (n # Null => m = n)
    BY <2>5 DEF Stays
  <2> HIDE DEF a, b, n, m, k
  <2>7. CASE n = Null /\ m = Null
    BY <2>2, <2>3, <2>7 DEF a, b
  <2>8. CASE n # Null /\ m = n /\ heap'[m].isDirectory = heap[n].isDirectory
    BY <2>2, <2>3, <2>4, <2>8
  <2>9. CASE IsPrefix(l, k) /\ m # Null /\ heap'[m].isDirectory /\ (n # Null => m = n)
    <3>1. l \in DOMAIN a /\ a[l].node = m /\ a[l].isDirectory = heap'[m].isDirectory
      <4>1. l \in DOMAIN a
        BY <2>3, <2>4, <2>9
      <4>2. a[l] = [node |-> m, isDirectory |-> heap'[m].isDirectory]
        BY <2>3, <4>1
      <4> QED
        BY <4>1, <4>2
    <3>2. l \in DOMAIN b => b[l].node = n /\ n # Null
      BY <2>2
    <3> QED
      BY <2>9, <3>1, <3>2
  <2> QED
    BY <2>6, <2>7, <2>8, <2>9
<1>2. ScopedInv /\ ScopedInv' =>
        \A s \in Scopes :
          LET before == Entries(heap)
              after  == Entries(heap')
          IN scopes[s] # NoScope /\ heap' # heap /\ ScopedCall(s) =>
               \A l \in DOMAIN before \cup DOMAIN after :
                 \/ IsPrefix(Boundary(s), l)
                 \/ l \in DOMAIN before /\ l \in DOMAIN after /\ before[l] = after[l]
                 \/ /\ IsPrefix(l, Boundary(s))
                    /\ l \in DOMAIN after /\ after[l].isDirectory
                    /\ l \in DOMAIN before => before[l].node = after[l].node
  BY <1>1
<1> QED
  BY <1>2, ScopedInvariant, PTL DEF Confined
=============================================================================
