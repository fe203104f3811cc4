----------------------- MODULE DirectoryListingProofs -----------------------
(***************************************************************************)
(* Theorems about DirectoryListing: what a listing that returned true has  *)
(* reported, and what a refusal stops.  For any names, any tree of any     *)
(* depth, any number of edits and of failures and any of the adapters.     *)
(***************************************************************************)
EXTENDS DirectoryListing, SequenceTheorems, WellFoundedInduction, TLAPS

-----------------------------------------------------------------------------
(* The inductive invariant.                                                *)

\* The first k names of a location.
UpTo(l, k) == SubSeq(l, 1, k)

Enumerations == [dir : Seq(Names), due : SUBSET Names, may : SUBSET Names, last : Nat]

Typed ==
  /\ backend \in Backends /\ recursive \in BOOLEAN
  /\ DOMAIN isDirectory \subseteq Locations
  /\ removed \subseteq DOMAIN isDirectory /\ added \subseteq DOMAIN isDirectory
  /\ reported \subseteq DOMAIN isDirectory
  /\ stack \in Seq(Enumerations)
  /\ result \in {"none", "true", "false", "undefined"}

\* Every entry is in directories that are there, and there as long as it is.
Rooted ==
  \A l \in DOMAIN isDirectory : \A k \in 1..(Len(l) - 1) :
    /\ UpTo(l, k) \in DOMAIN isDirectory /\ isDirectory[UpTo(l, k)]
    /\ l \notin removed => UpTo(l, k) \notin removed

\* The enumerations in progress are each of a directory in that of the one around
\* it, one of every depth, and the entry the callback runs for is the one the
\* innermost returned last.
Walking ==
  /\ result = "none" <=> stack # <<>>
  /\ result # "none" => asked = {}
  /\ \A i \in DOMAIN stack : Len(stack[i].dir) = i - 1
  /\ \A i \in DOMAIN stack : i - 1 \in DOMAIN stack => stack[i - 1].dir = Front(stack[i].dir)
  /\ asked # {} => asked = {Append(Top.dir, Top.last)} /\ Top.last \in Names
  /\ asked \subseteq reported

\* An enumeration returns no entry that was reported, and a directory is entered
\* before any entry of it is reported and before it is refused in it.
Fresh ==
  /\ \A i \in DOMAIN stack : \A n \in stack[i].may :
       Append(stack[i].dir, n) \in DOMAIN isDirectory \ reported
  /\ \A m \in reported : Front(m) \in reported \cup {<<>>}
  /\ refused \subseteq reported \cup {<<>>}
  /\ \A l \in asked : l \notin refused /\ \A m \in reported : Front(m) # l
  /\ \A i \in DOMAIN stack :
       stack[i].dir \notin refused /\ stack[i].dir \in reported \cup {<<>>}
  /\ backend = "memory" /\ refused # {} => result # "none"

\* An enumeration in progress still has to return this name of that directory.
Due(d, n) == \E i \in DOMAIN stack : stack[i].dir = d /\ n \in stack[i].due

\* The walk has yet to come to a location or to a directory it is in.
Awaited(l) ==
  \E k \in 1..Len(l) :
    Due(UpTo(l, k - 1), l[k]) \/ (k < Len(l) /\ UpTo(l, k) \in asked)

\* What was there all along is reported, awaited or hidden by a failure.
Covered ==
  refused = {} /\ result \in {"none", "true"} =>
    \A l \in Stable : (recursive \/ Len(l) = 1) => l \in reported \/ Awaited(l) \/ Hidden(l)

\* What failures have hidden stays hidden.
HiddenStays == \A l : Hidden(l) => Hidden(l)'

IInv == Typed /\ Rooted /\ Walking /\ Fresh /\ Covered

-----------------------------------------------------------------------------
(* Locations.                                                              *)

\* A set of numbers has a smallest one.
LEMMA SmallestNumber ==
  ASSUME NEW T \in SUBSET Nat, T # {}
  PROVE  \E x \in T : \A y \in T : x <= y
<1> DEFINE R == OpToRel(<, Nat)
<1>1. IsWellFoundedOn(R, Nat)
  BY NatLessThanWellFounded, Zenon
<1>2. \A x, y \in Nat : y < x => <<y, x>> \in R
  BY DEF OpToRel
<1> HIDE DEF R
<1>3. \E x \in T : \A y \in T : ~(<<y, x>> \in R)
  BY <1>1, WFMin
<1>4. PICK x \in T : \A y \in T : ~(<<y, x>> \in R)
  BY <1>3
<1>5. ASSUME NEW y \in T PROVE x <= y
  <2>1. x \in Nat /\ y \in Nat /\ ~(y < x)
    BY <1>2, <1>4, <1>5
  <2> QED
    BY <2>1
<1> QED
  BY <1>4, <1>5

\* A location with k names of l.
LEMMA UpToIs ==
  ASSUME NEW S, NEW l \in Seq(S), NEW k \in 0..Len(l)
  PROVE  /\ UpTo(l, k) \in Seq(S) /\ Len(UpTo(l, k)) = k
         /\ \A i \in 1..k : UpTo(l, k)[i] = l[i]
<1>1. Len(l) \in Nat /\ k \in Nat /\ k <= Len(l)
  OBVIOUS
<1> QED
  BY <1>1 DEF UpTo

\* Locations with the same names are the same.
LEMMA SameNames ==
  ASSUME NEW S, NEW s \in Seq(S), NEW t \in Seq(S), Len(s) = Len(t),
         \A i \in 1..Len(s) : s[i] = t[i]
  PROVE  s = t
  BY SeqEqual

\* The whole of it, and all but the last name of it.
LEMMA UpToEnds ==
  ASSUME NEW S, NEW l \in Seq(S), l # <<>>
  PROVE  /\ UpTo(l, Len(l)) = l /\ UpTo(l, 0) = <<>>
         /\ Front(l) = UpTo(l, Len(l) - 1) /\ Last(l) = l[Len(l)] /\ Last(l) \in S
         /\ Front(l) \in Seq(S) /\ Len(Front(l)) = Len(l) - 1
         /\ Len(l) \in Nat \ {0}
<1>1. Len(l) \in Nat \ {0}
  BY EmptySeq
<1>2. UpTo(l, Len(l)) = l
  BY SubSeqFull DEF UpTo
<1>3. UpTo(l, 0) = <<>>
  BY <1>1, SubSeqEmpty DEF UpTo
<1>4. Front(l) = UpTo(l, Len(l) - 1)
  BY DEF Front, UpTo
<1>5. Last(l) = l[Len(l)] /\ Last(l) \in S
  BY <1>1 DEF Last
<1>6. Len(l) - 1 \in 0..Len(l)
  BY <1>1
<1>7. Front(l) \in Seq(S) /\ Len(Front(l)) = Len(l) - 1
  BY <1>4, <1>6, UpToIs
<1> QED
  BY <1>1, <1>2, <1>3, <1>4, <1>5, <1>7

\* Fewer names of fewer names.
LEMMA UpToUpTo ==
  ASSUME NEW S, NEW l \in Seq(S), NEW k \in 0..Len(l), NEW j \in 0..k
  PROVE  UpTo(UpTo(l, k), j) = UpTo(l, j)
<1> DEFINE p == UpTo(l, k)
<1>1. Len(l) \in Nat /\ k \in Nat /\ j \in Nat /\ j <= k /\ j \in 0..Len(l)
  OBVIOUS
<1>2. p \in Seq(S) /\ Len(p) = k /\ \A i \in 1..k : p[i] = l[i]
  BY UpToIs
<1> HIDE DEF p
<1>3. UpTo(p, j) \in Seq(S) /\ Len(UpTo(p, j)) = j /\ \A i \in 1..j : UpTo(p, j)[i] = p[i]
  BY <1>2, UpToIs
<1>4. UpTo(l, j) \in Seq(S) /\ Len(UpTo(l, j)) = j /\ \A i \in 1..j : UpTo(l, j)[i] = l[i]
  BY <1>1, UpToIs
<1>5. \A i \in 1..j : UpTo(p, j)[i] = UpTo(l, j)[i]
  BY <1>1, <1>2, <1>3, <1>4
<1>6. UpTo(p, j) = UpTo(l, j)
  BY <1>3, <1>4, <1>5, SameNames
<1> QED
  BY <1>6 DEF p

\* One more name.
LEMMA UpToNext ==
  ASSUME NEW S, NEW l \in Seq(S), NEW k \in 1..Len(l)
  PROVE  /\ UpTo(l, k) = Append(UpTo(l, k - 1), l[k]) /\ l[k] \in S
         /\ Front(UpTo(l, k)) = UpTo(l, k - 1) /\ Last(UpTo(l, k)) = l[k]
         /\ UpTo(l, k) # <<>>
<1>1. /\ Len(l) \in Nat /\ k \in Nat /\ k > 0 /\ k <= Len(l) /\ k - 1 \in 0..Len(l)
      /\ k \in 0..Len(l) /\ k - 1 \in 0..k
  OBVIOUS
<1> DEFINE p == UpTo(l, k)
           q == UpTo(l, k - 1)
<1>2. p \in Seq(S) /\ Len(p) = k /\ \A i \in 1..k : p[i] = l[i]
  BY <1>1, UpToIs
<1>3. q \in Seq(S) /\ Len(q) = k - 1 /\ \A i \in 1..(k - 1) : q[i] = l[i]
  BY <1>1, UpToIs
<1>4. UpTo(p, k - 1) = q
  BY <1>1, UpToUpTo
<1> HIDE DEF p, q
<1>5. l[k] \in S
  BY <1>1
<1>6. p # <<>>
  BY <1>1, <1>2, EmptySeq
<1>7. Front(p) = q /\ Last(p) = l[k]
  <2>1. Front(p) = UpTo(p, Len(p) - 1) /\ Last(p) = p[Len(p)]
    BY <1>2, <1>6, UpToEnds
  <2> QED
    BY <1>1, <1>2, <1>4, <2>1
<1>8. /\ Append(q, l[k]) \in Seq(S) /\ Len(Append(q, l[k])) = Len(q) + 1
      /\ \A i \in 1..Len(q) : Append(q, l[k])[i] = q[i]
      /\ Append(q, l[k])[Len(q) + 1] = l[k]
  BY <1>3, <1>5, AppendProperties
<1>9. \A i \in 1..k : p[i] = Append(q, l[k])[i]
  BY <1>1, <1>2, <1>3, <1>8
<1>10. p = Append(q, l[k])
  BY <1>1, <1>2, <1>3, <1>8, <1>9, SameNames
<1> QED
  BY <1>5, <1>6, <1>7, <1>10 DEF p, q

\* A name behind a location, and the location and the name of that.
LEMMA AppendedName ==
  ASSUME NEW S, NEW d \in Seq(S), NEW n \in S
  PROVE  /\ Append(d, n) \in Seq(S) /\ Append(d, n) # <<>>
         /\ Len(Append(d, n)) = Len(d) + 1
         /\ Front(Append(d, n)) = d /\ Last(Append(d, n)) = n
<1> DEFINE a == Append(d, n)
<1>1. /\ a \in Seq(S) /\ a # <<>> /\ Len(a) = Len(d) + 1 /\ Len(d) \in Nat
      /\ \A i \in 1..Len(d) : a[i] = d[i]
      /\ a[Len(d) + 1] = n
  BY AppendProperties
<1> HIDE DEF a
<1>2. Front(a) \in Seq(S) /\ Len(Front(a)) = Len(d) /\ Front(a) = UpTo(a, Len(d)) /\ Last(a) = n
  BY <1>1, UpToEnds
<1>3. \A i \in 1..Len(d) : Front(a)[i] = d[i]
  <2>1. Len(d) \in 0..Len(a)
    BY <1>1
  <2>2. \A i \in 1..Len(d) : UpTo(a, Len(d))[i] = a[i]
    BY <1>1, <2>1, UpToIs
  <2> QED
    BY <1>1, <1>2, <2>2
<1>4. Front(a) = d
  BY <1>2, <1>3, SameNames
<1> QED
  BY <1>1, <1>2, <1>4 DEF a

\* A location is its directory and its name.
LEMMA LocationIs ==
  ASSUME NEW S, NEW l \in Seq(S), l # <<>>
  PROVE  Append(Front(l), Last(l)) = l
<1>1. Len(l) \in Nat \ {0} /\ UpTo(l, Len(l)) = l
  BY UpToEnds
<1>2. Len(l) \in 1..Len(l)
  BY <1>1
<1>3. /\ UpTo(l, Len(l)) = Append(UpTo(l, Len(l) - 1), l[Len(l)])
      /\ Front(UpTo(l, Len(l))) = UpTo(l, Len(l) - 1) /\ Last(UpTo(l, Len(l))) = l[Len(l)]
  BY <1>2, UpToNext
<1> QED
  BY <1>1, <1>3

\* What is in a directory or is it.
LEMMA PrefixIs ==
  ASSUME NEW S, NEW r \in Seq(S), NEW l \in Seq(S)
  PROVE  IsPrefix(r, l) <=> Len(r) \in 0..Len(l) /\ r = UpTo(l, Len(r))
<1>1. SubSeq(r, 1, Len(r)) = r /\ Len(r) \in Nat /\ Len(l) \in Nat
  BY SubSeqFull
<1> QED
  BY <1>1 DEF IsPrefix, UpTo

\* What is in a directory is in the one around it.
LEMMA FrontIsPrefix ==
  ASSUME NEW S, NEW r \in Seq(S), NEW l \in Seq(S), r # <<>>, IsPrefix(r, l)
  PROVE  IsPrefix(Front(r), l)
<1>1. Len(r) \in 0..Len(l) /\ r = UpTo(l, Len(r))
  BY PrefixIs
<1>2. /\ Len(r) \in Nat \ {0} /\ Front(r) \in Seq(S) /\ Len(Front(r)) = Len(r) - 1
      /\ Front(r) = UpTo(r, Len(r) - 1)
  BY UpToEnds
<1>3. Len(r) - 1 \in 0..Len(r) /\ Len(r) - 1 \in 0..Len(l)
  BY <1>1, <1>2
<1>4. UpTo(UpTo(l, Len(r)), Len(r) - 1) = UpTo(l, Len(r) - 1)
  BY <1>1, <1>3, UpToUpTo
<1>5. Front(r) = UpTo(l, Len(Front(r)))
  BY <1>1, <1>2, <1>4
<1> QED
  BY <1>2, <1>3, <1>5, PrefixIs

\* The directories an entry is in.
LEMMA UpToIsPrefix ==
  ASSUME NEW S, NEW l \in Seq(S), NEW k \in 0..Len(l)
  PROVE  IsPrefix(UpTo(l, k), l)
<1>1. UpTo(l, k) \in Seq(S) /\ Len(UpTo(l, k)) = k
  BY UpToIs
<1> QED
  BY <1>1, PrefixIs

\* What Locations has.
LEMMA LocationTyped ==
  ASSUME NEW l \in Locations
  PROVE  l \in Seq(Names) /\ l # <<>>
<1>1. PICK m \in 0..MaxDepth : l \in [1..m -> Names]
  BY DEF Locations, BoundedSeq, SeqOf
<1>2. m \in Nat
  BY <1>1, BoundsAssumption
<1>3. l \in Seq(Names)
  BY <1>1, <1>2
<1> QED
  BY <1>3 DEF Locations

-----------------------------------------------------------------------------
(* The beginning.                                                          *)

\* In a tree every location is in directories, up to the root.
LEMMA TreeIsRooted ==
  ASSUME NEW f \in Trees, NEW l \in DOMAIN f
  PROVE  \A k \in 1..Len(l) : /\ UpTo(l, k) \in DOMAIN f
                              /\ k < Len(l) => f[UpTo(l, k)]
<1>1. /\ DOMAIN f \subseteq Locations
      /\ \A m \in DOMAIN f : Len(m) > 1 => Front(m) \in DOMAIN f /\ f[Front(m)]
  BY DEF Trees
<1>2. l \in Seq(Names) /\ l # <<>>
  BY <1>1, LocationTyped
<1>3. Len(l) \in Nat \ {0} /\ UpTo(l, Len(l)) = l
  BY <1>2, UpToEnds
<1>4. ASSUME NEW k \in 1..(Len(l) - 1), UpTo(l, k + 1) \in DOMAIN f
      PROVE  UpTo(l, k) \in DOMAIN f /\ f[UpTo(l, k)]
  <2>1. k + 1 \in 1..Len(l) /\ k + 1 \in 0..Len(l) /\ k + 1 > 1 /\ k + 1 - 1 = k
    BY <1>3
  <2>2. Len(UpTo(l, k + 1)) = k + 1
    BY <1>2, <2>1, UpToIs
  <2>3. Front(UpTo(l, k + 1)) = UpTo(l, k + 1 - 1)
    BY <1>2, <2>1, UpToNext
  <2>4. Front(UpTo(l, k + 1)) = UpTo(l, k)
    BY <2>1, <2>3
  <2> QED
    BY <1>1, <1>4, <2>1, <2>2, <2>4
<1>5. \A k \in 1..Len(l) : UpTo(l, k) \in DOMAIN f
  <2> DEFINE T == {j \in Nat : j < Len(l) /\ UpTo(l, Len(l) - j) \notin DOMAIN f}
  <2>1. T = {}
    <3> SUFFICES ASSUME T # {} PROVE FALSE
      OBVIOUS
    <3>1. PICK x \in T : \A y \in T : x <= y
      BY SmallestNumber
    <3>2. x \in Nat /\ x < Len(l) /\ UpTo(l, Len(l) - x) \notin DOMAIN f
      OBVIOUS
    <3>3. x # 0
      BY <1>3, <3>2
    <3>4. x - 1 \in Nat /\ x - 1 < Len(l) /\ ~(x <= x - 1)
      BY <1>3, <3>2, <3>3
    <3>5. UpTo(l, Len(l) - (x - 1)) \in DOMAIN f
      BY <3>1, <3>4
    <3>6. PICK k \in 1..(Len(l) - 1) : k = Len(l) - x /\ k + 1 = Len(l) - (x - 1)
      <4>1. /\ Len(l) - x \in 1..(Len(l) - 1) /\ Len(l) - x = Len(l) - x
            /\ (Len(l) - x) + 1 = Len(l) - (x - 1)
        BY <1>3, <3>2, <3>3
      <4> QED
        BY <4>1
    <3> QED
      BY <1>4, <3>2, <3>5, <3>6
  <2>2. ASSUME NEW k \in 1..Len(l), UpTo(l, k) \notin DOMAIN f PROVE FALSE
    <3>1. PICK j \in Nat : j < Len(l) /\ Len(l) - j = k
      <4>1. Len(l) - k \in Nat /\ Len(l) - k < Len(l) /\ Len(l) - (Len(l) - k) = k
        BY <1>3
      <4> QED
        BY <4>1
    <3> QED
      BY <2>1, <2>2, <3>1
  <2> QED
    BY <2>2
<1>6. ASSUME NEW k \in 1..Len(l), k < Len(l) PROVE f[UpTo(l, k)]
  <2>1. k \in 1..(Len(l) - 1) /\ k + 1 \in 1..Len(l)
    BY <1>3, <1>6
  <2> QED
    BY <1>4, <1>5, <2>1
<1> QED
  BY <1>5, <1>6

\* The invariant holds at the beginning.
LEMMA InitIInv == Init => IInv
<1> SUFFICES ASSUME Init PROVE IInv
  OBVIOUS
<1> DEFINE E == Enumeration(<<>>)
<1>1. /\ stack = <<E>> /\ result = "none" /\ asked = {} /\ reported = {} /\ refused = {}
      /\ removed = {} /\ added = {} /\ isDirectory \in Trees
      /\ backend \in Backends /\ recursive \in BOOLEAN
  BY DEF Init
<1>2. DOMAIN isDirectory \subseteq Locations
  BY <1>1 DEF Trees
<1>3. /\ E \in Enumerations /\ E.dir = <<>> /\ E.due = Children(<<>>) /\ E.may = Children(<<>>)
  BY DEF Enumeration, Enumerations, Children
<1> HIDE DEF E
<1>4. stack \in Seq(Enumerations) /\ Len(stack) = 1 /\ stack[1] = E /\ DOMAIN stack = {1}
  BY <1>1, <1>3
<1>5. Typed
  BY <1>1, <1>2, <1>4 DEF Typed
<1>6. Rooted
  <2>1. ASSUME NEW l \in DOMAIN isDirectory, NEW k \in 1..(Len(l) - 1)
        PROVE  UpTo(l, k) \in DOMAIN isDirectory /\ isDirectory[UpTo(l, k)]
    <3>1. l \in Seq(Names) /\ Len(l) \in Nat
      BY <1>2, LocationTyped
    <3>2. k \in 1..Len(l) /\ k < Len(l)
      BY <3>1
    <3> QED
      BY <1>1, <3>2, TreeIsRooted
  <2> QED
    BY <1>1, <2>1 DEF Rooted
<1>7. Walking
  <2>1. Len(<<>>) = 0 /\ stack # <<>>
    BY <1>4
  <2> QED
    BY <1>1, <1>3, <1>4, <2>1 DEF Walking
<1>8. Fresh
  BY <1>1, <1>3, <1>4 DEF Fresh, Children, Present
<1>9. Covered
  <2>1. ASSUME NEW l \in Stable PROVE Awaited(l)
    <3>1. l \in DOMAIN isDirectory /\ l \in Seq(Names) /\ l # <<>>
      BY <1>2, <2>1, LocationTyped DEF Stable
    <3>2. Len(l) \in Nat \ {0} /\ UpTo(l, 0) = <<>>
      BY <3>1, UpToEnds
    <3>3. 1 \in 1..Len(l) /\ 1 - 1 = 0
      BY <3>2
    <3>4. UpTo(l, 1) = Append(UpTo(l, 1 - 1), l[1]) /\ l[1] \in Names
      BY <3>1, <3>3, UpToNext
    <3>5. UpTo(l, 1) \in DOMAIN isDirectory
      BY <1>1, <3>1, <3>3, TreeIsRooted
    <3>6. l[1] \in E.due
      BY <1>1, <1>3, <3>2, <3>3, <3>4, <3>5 DEF Children, Present
    <3>7. Due(UpTo(l, 1 - 1), l[1])
      BY <1>3, <1>4, <3>2, <3>3, <3>6 DEF Due
    <3> QED
      BY <3>3, <3>7 DEF Awaited
  <2> QED
    BY <2>1 DEF Covered
<1> QED
  BY <1>5, <1>6, <1>7, <1>8, <1>9 DEF IInv

-----------------------------------------------------------------------------
(* The edits.                                                              *)

\* A stack of as many enumerations.
LEMMA SameDepth ==
  ASSUME NEW S, NEW s \in Seq(S), NEW t \in [DOMAIN s -> S]
  PROVE  t \in Seq(S) /\ Len(t) = Len(s) /\ DOMAIN t = DOMAIN s
<1>1. DOMAIN s = 1..Len(s) /\ Len(s) \in Nat
  OBVIOUS
<1>2. t \in [1..Len(s) -> S]
  BY <1>1
<1> QED
  BY <1>1, <1>2

\* An edit changes what enumerations of the entry's directory have yet to return.
EditsStack(l) ==
  /\ stack' \in Seq(Enumerations) /\ Len(stack') = Len(stack) /\ DOMAIN stack' = DOMAIN stack
  /\ \A i \in DOMAIN stack :
       /\ stack'[i].dir = stack[i].dir /\ stack'[i].last = stack[i].last
       /\ stack[i].dir # Front(l) => stack'[i] = stack[i]
       /\ stack[i].due \subseteq stack'[i].due \cup {Last(l)}
       /\ stack'[i].may \subseteq stack[i].may \cup {Last(l)}

\* An edit of the stack leaves the walk where it is.
LEMMA EditKeepsWalking ==
  ASSUME Typed, Walking, NEW l, EditsStack(l), UNCHANGED <<result, asked>>,
         reported' = reported
  PROVE  Walking'
<1>1. stack \in Seq(Enumerations) /\ (stack' = <<>> <=> stack = <<>>)
  BY EmptySeq DEF Typed, EditsStack
<1>2. /\ \A i \in DOMAIN stack' : Len(stack'[i].dir) = i - 1
      /\ \A i \in DOMAIN stack' :
           i - 1 \in DOMAIN stack' => stack'[i - 1].dir = Front(stack'[i].dir)
  BY DEF Walking, EditsStack
<1>3. asked # {} => asked' = {Append(Top'.dir, Top'.last)} /\ Top'.last \in Names
  <2> SUFFICES ASSUME asked # {} PROVE asked' = {Append(Top'.dir, Top'.last)} /\ Top'.last \in Names
    OBVIOUS
  <2>1. stack # <<>> /\ asked = {Append(Top.dir, Top.last)} /\ Top.last \in Names
    BY DEF Walking
  <2>2. Len(stack) \in DOMAIN stack /\ Len(stack') = Len(stack)
    BY <1>1, <2>1 DEF EditsStack
  <2>3. Top' = stack'[Len(stack)] /\ Top = stack[Len(stack)]
    BY <2>2 DEF Top, Last
  <2>4. Top'.dir = Top.dir /\ Top'.last = Top.last
    BY <2>2, <2>3 DEF EditsStack
  <2> QED
    BY <2>1, <2>4
<1> QED
  BY <1>1, <1>2, <1>3 DEF Walking

\* A new entry.
LEMMA CreateKeeps ==
  ASSUME IInv, NEW l \in Locations, NEW directory \in BOOLEAN, CreateEntry(l, directory)
  PROVE  IInv'
<1> DEFINE D == DOMAIN isDirectory
<1>0. Typed /\ Rooted /\ Walking /\ Fresh /\ Covered
  BY DEF IInv
<1>1. /\ l \in Seq(Names) /\ l # <<>> /\ Len(l) \in Nat \ {0} /\ Last(l) \in Names
      /\ Front(l) = UpTo(l, Len(l) - 1) /\ Append(Front(l), Last(l)) = l
      /\ Front(l) \in Seq(Names)
  <2>1. l \in Seq(Names) /\ l # <<>>
    BY LocationTyped
  <2> QED
    BY <2>1, UpToEnds, LocationIs
<1>2. /\ l \notin D /\ D' = D \cup {l} /\ D \subseteq Locations /\ D' \subseteq Locations
      /\ \A m \in D : isDirectory'[m] = isDirectory[m]
      /\ Len(l) > 1 => Front(l) \in Present /\ isDirectory[Front(l)]
      /\ added' = added \cup {l}
      /\ UNCHANGED <<backend, recursive, removed, asked, reported, refused, failed, result>>
  BY <1>0, Zenon DEF CreateEntry, Typed
<1>3. EditsStack(l) /\ \A i \in DOMAIN stack : stack[i].due \subseteq stack'[i].due
  <2>1. stack \in Seq(Enumerations)
    BY <1>0 DEF Typed
  <2>2. ASSUME NEW i \in DOMAIN stack
        PROVE  /\ stack'[i] \in Enumerations
               /\ stack'[i].dir = stack[i].dir /\ stack'[i].last = stack[i].last
               /\ stack[i].dir # Front(l) => stack'[i] = stack[i]
               /\ stack[i].due \subseteq stack'[i].due
               /\ stack'[i].may \subseteq stack[i].may \cup {Last(l)}
    <3>1. stack[i] \in Enumerations
      BY <2>1
    <3>2. \/ stack'[i] = stack[i]
          \/ /\ stack[i].dir = Front(l)
             /\ stack'[i] = [stack[i] EXCEPT !.may = stack[i].may \cup {Last(l)}]
          \/ /\ stack[i].dir = Front(l)
             /\ stack'[i] = [stack[i] EXCEPT !.due = stack[i].due \cup {Last(l)},
                                             !.may = stack[i].may \cup {Last(l)}]
      BY Zenon DEF CreateEntry
    <3>3. CASE stack'[i] = stack[i]
      BY <3>1, <3>3
    <3>4. CASE /\ stack[i].dir = Front(l)
               /\ stack'[i] = [stack[i] EXCEPT !.may = stack[i].may \cup {Last(l)}]
      BY <1>1, <3>1, <3>4 DEF Enumerations
    <3>5. CASE /\ stack[i].dir = Front(l)
               /\ stack'[i] = [stack[i] EXCEPT !.due = stack[i].due \cup {Last(l)},
                                               !.may = stack[i].may \cup {Last(l)}]
      <4> DEFINE dues == stack[i].due \cup {Last(l)}
                 mays == stack[i].may \cup {Last(l)}
      <4>1. dues \in SUBSET Names /\ mays \in SUBSET Names
        BY <1>1, <3>1 DEF Enumerations
      <4>2. stack'[i] = [stack[i] EXCEPT !.due = dues, !.may = mays]
        BY <3>5
      <4> HIDE DEF dues, mays
      <4>3. /\ stack'[i] \in Enumerations /\ stack'[i].dir = stack[i].dir
            /\ stack'[i].last = stack[i].last /\ stack'[i].due = dues /\ stack'[i].may = mays
        BY <3>1, <4>1, <4>2 DEF Enumerations
      <4> USE DEF dues, mays
      <4> QED
        BY <3>5, <4>3
    <3> QED
      BY <3>2, <3>3, <3>4, <3>5
  <2>3. stack' \in [DOMAIN stack -> Enumerations]
    <3>1. stack' = [i \in DOMAIN stack |-> stack'[i]]
      BY Zenon DEF CreateEntry
    <3> QED
      BY <2>2, <3>1
  <2>4. stack' \in Seq(Enumerations) /\ Len(stack') = Len(stack) /\ DOMAIN stack' = DOMAIN stack
    BY <2>1, <2>3, SameDepth
  <2> QED
    BY <2>2, <2>4 DEF EditsStack
<1>4. Typed'
  BY <1>0, <1>2, <1>3 DEF Typed, EditsStack
<1>5. Rooted'
  <2>1. ASSUME NEW m \in D', NEW k \in 1..(Len(m) - 1)
        PROVE  /\ UpTo(m, k) \in D' /\ isDirectory'[UpTo(m, k)]
               /\ m \notin removed' => UpTo(m, k) \notin removed'
    <3>1. CASE m \in D
      <4>1. /\ UpTo(m, k) \in D /\ isDirectory[UpTo(m, k)]
            /\ m \notin removed => UpTo(m, k) \notin removed
        BY <1>0, <2>1, <3>1 DEF Rooted
      <4> QED
        BY <1>2, <4>1
    <3>2. CASE m = l
      <4>1. Front(l) \in D /\ Front(l) \notin removed /\ isDirectory[Front(l)] /\ Len(l) > 1
        BY <1>1, <1>2, <2>1, <3>2 DEF Present
      <4>2. CASE k = Len(l) - 1
        BY <1>1, <1>2, <3>2, <4>1, <4>2
      <4>3. CASE k # Len(l) - 1
        <5>1. Len(Front(l)) = Len(l) - 1
          BY <1>1, UpToEnds
        <5>2. /\ k \in 1..(Len(Front(l)) - 1) /\ k \in 0..(Len(l) - 1)
              /\ Len(l) - 1 \in 0..Len(l)
          BY <1>1, <3>2, <4>3, <5>1
        <5>3. UpTo(Front(l), k) = UpTo(l, k)
          BY <1>1, <5>2, UpToUpTo
        <5>4. /\ UpTo(Front(l), k) \in D /\ isDirectory[UpTo(Front(l), k)]
              /\ UpTo(Front(l), k) \notin removed
          BY <1>0, <4>1, <5>2 DEF Rooted
        <5> QED
          BY <1>2, <3>2, <5>3, <5>4
      <4> QED
        BY <4>2, <4>3
    <3> QED
      BY <1>2, <3>1, <3>2
  <2> QED
    BY <2>1 DEF Rooted
<1>6. Walking'
  BY <1>0, <1>2, <1>3, EditKeepsWalking
<1>7. Fresh'
  <2>1. ASSUME NEW i \in DOMAIN stack', NEW n \in stack'[i].may
        PROVE  Append(stack'[i].dir, n) \in D' \ reported'
    <3>1. stack'[i].dir = stack[i].dir /\ i \in DOMAIN stack /\ reported \subseteq D
      BY <1>0, <1>3 DEF EditsStack, Typed
    <3>2. CASE n \in stack[i].may
      <4>1. Append(stack[i].dir, n) \in D \ reported
        BY <1>0, <3>1, <3>2 DEF Fresh
      <4> QED
        BY <1>2, <3>1, <4>1
    <3>3. CASE n \notin stack[i].may
      <4>1. n = Last(l) /\ stack[i].dir = Front(l)
        BY <1>3, <2>1, <3>1, <3>3 DEF EditsStack
      <4> QED
        BY <1>1, <1>2, <3>1, <4>1
    <3> QED
      BY <3>2, <3>3
  <2>2. \A i \in DOMAIN stack' :
          stack'[i].dir \notin refused' /\ stack'[i].dir \in reported' \cup {<<>>}
    BY <1>0, <1>2, <1>3 DEF Fresh, EditsStack
  <2> QED
    BY <1>0, <1>2, <2>1, <2>2 DEF Fresh
<1>8. Covered'
  <2>1. Stable' = Stable
    BY <1>0, <1>2 DEF Stable, Typed
  <2>2. HiddenStays
    BY <1>2 DEF HiddenStays, Hidden, failed
  <2>3. \A d, n : Due(d, n) => Due(d, n)'
    BY <1>3 DEF Due, EditsStack
  <2>4. \A m : Awaited(m) => Awaited(m)'
    BY <1>2, <2>3 DEF Awaited
  <2> QED
    BY <1>0, <1>2, <2>1, <2>2, <2>4 DEF Covered, HiddenStays
<1> QED
  BY <1>4, <1>5, <1>6, <1>7, <1>8 DEF IInv

\* An entry that goes.
LEMMA RemoveKeeps ==
  ASSUME IInv, NEW l \in Present, RemoveEntry(l)
  PROVE  IInv'
<1> DEFINE D == DOMAIN isDirectory
           below == {m \in Present : IsPrefix(l, m)}
<1>0. Typed /\ Rooted /\ Walking /\ Fresh /\ Covered
  BY DEF IInv
<1>1. /\ l \in D /\ D \subseteq Locations
      /\ l \in Seq(Names) /\ l # <<>> /\ Len(l) \in Nat \ {0} /\ Last(l) \in Names
      /\ Append(Front(l), Last(l)) = l
  <2>1. l \in D /\ D \subseteq Locations
    BY <1>0 DEF Present, Typed
  <2>2. l \in Seq(Names) /\ l # <<>>
    BY <2>1, LocationTyped
  <2> QED
    BY <2>1, <2>2, UpToEnds, LocationIs
<1>2. /\ removed' = removed \cup below
      /\ UNCHANGED <<backend, recursive, isDirectory, added, asked, reported, refused, failed, result>>
  BY Zenon DEF RemoveEntry
<1>3. /\ EditsStack(l)
      /\ \A i \in DOMAIN stack : stack'[i].may \subseteq stack[i].may
  <2>1. stack \in Seq(Enumerations)
    BY <1>0 DEF Typed
  <2>2. ASSUME NEW i \in DOMAIN stack
        PROVE  /\ stack'[i] \in Enumerations
               /\ stack'[i].dir = stack[i].dir /\ stack'[i].last = stack[i].last
               /\ stack[i].dir # Front(l) => stack'[i] = stack[i]
               /\ stack[i].due \subseteq stack'[i].due \cup {Last(l)}
               /\ stack'[i].may \subseteq stack[i].may
    <3>1. stack[i] \in Enumerations
      BY <2>1
    <3>2. \/ stack'[i] = stack[i]
          \/ /\ stack[i].dir = Front(l)
             /\ \E may \in {stack[i].may, stack[i].may \ {Last(l)}} :
                  stack'[i] = [stack[i] EXCEPT !.due = stack[i].due \ {Last(l)}, !.may = may]
      BY Zenon DEF RemoveEntry
    <3> QED
      BY <3>1, <3>2 DEF Enumerations
  <2>3. stack' \in [DOMAIN stack -> Enumerations]
    <3>1. stack' = [i \in DOMAIN stack |-> stack'[i]]
      BY Zenon DEF RemoveEntry
    <3> QED
      BY <2>2, <3>1
  <2>4. stack' \in Seq(Enumerations) /\ Len(stack') = Len(stack) /\ DOMAIN stack' = DOMAIN stack
    BY <2>1, <2>3, SameDepth
  <2> QED
    BY <2>2, <2>4 DEF EditsStack
<1>4. Typed'
  BY <1>0, <1>2, <1>3 DEF Typed, EditsStack, Present
<1>5. ASSUME NEW m \in D, m \notin removed', NEW k \in 0..Len(m)
      PROVE  UpTo(m, k) # l
  <2> SUFFICES ASSUME UpTo(m, k) = l PROVE FALSE
    OBVIOUS
  <2>1. m \in Present /\ m \in Seq(Names)
    BY <1>1, <1>2, <1>5, LocationTyped DEF Present
  <2>2. Len(l) = k
    BY <2>1, UpToIs
  <2>3. IsPrefix(l, m)
    BY <1>1, <2>1, <2>2, PrefixIs
  <2> QED
    BY <1>2, <1>5, <2>1, <2>3
<1>6. Rooted'
  <2>1. ASSUME NEW m \in D, NEW k \in 1..(Len(m) - 1), m \notin removed'
        PROVE  UpTo(m, k) \notin removed'
    <3> DEFINE p == UpTo(m, k)
    <3>1. m \in Seq(Names) /\ Len(m) \in Nat /\ k \in 0..Len(m)
      BY <1>1, LocationTyped
    <3>2. p \in D /\ p \notin removed
      BY <1>0, <1>2, <2>1 DEF Rooted
    <3>3. p \notin below
      <4> SUFFICES ASSUME IsPrefix(l, p) PROVE FALSE
        OBVIOUS
      <4>1. p \in Seq(Names) /\ Len(p) = k
        BY <3>1, UpToIs
      <4>2. Len(l) \in 0..k /\ l = UpTo(p, Len(l))
        BY <1>1, <4>1, PrefixIs
      <4>3. UpTo(p, Len(l)) = UpTo(m, Len(l))
        BY <3>1, <4>2, UpToUpTo
      <4>4. Len(l) \in 0..Len(m)
        BY <3>1, <4>2
      <4> QED
        BY <1>5, <2>1, <4>2, <4>3, <4>4
    <3> QED
      BY <1>2, <3>2, <3>3
  <2> QED
    BY <1>0, <1>2, <2>1 DEF Rooted
<1>7. Walking'
  BY <1>0, <1>2, <1>3, EditKeepsWalking
<1>8. Fresh'
  <2>1. \A i \in DOMAIN stack' : \A n \in stack'[i].may :
          Append(stack'[i].dir, n) \in D' \ reported'
    BY <1>0, <1>2, <1>3 DEF Fresh, EditsStack
  <2>2. \A i \in DOMAIN stack' :
          stack'[i].dir \notin refused' /\ stack'[i].dir \in reported' \cup {<<>>}
    BY <1>0, <1>2, <1>3 DEF Fresh, EditsStack
  <2> QED
    BY <1>0, <1>2, <2>1, <2>2 DEF Fresh
<1>9. Covered'
  <2>1. HiddenStays
    BY <1>2 DEF HiddenStays, Hidden, failed
  <2>2. ASSUME NEW m \in Stable', Awaited(m) PROVE Awaited(m)'
    <3>1. m \in D /\ m \notin removed' /\ m \in Seq(Names)
      BY <1>1, <1>2, LocationTyped DEF Stable
    <3>2. PICK k \in 1..Len(m) :
            Due(UpTo(m, k - 1), m[k]) \/ (k < Len(m) /\ UpTo(m, k) \in asked)
      BY <2>2 DEF Awaited
    <3>3. CASE Due(UpTo(m, k - 1), m[k])
      <4>1. PICK i \in DOMAIN stack : stack[i].dir = UpTo(m, k - 1) /\ m[k] \in stack[i].due
        BY <3>3 DEF Due
      <4>2. UpTo(m, k) = Append(UpTo(m, k - 1), m[k]) /\ k \in 0..Len(m)
        BY <3>1, UpToNext
      <4>3. UpTo(m, k) # l
        BY <1>5, <3>1, <4>2
      <4>4. m[k] \in stack'[i].due
        <5>1. CASE stack[i].dir # Front(l)
          BY <1>3, <4>1, <5>1 DEF EditsStack
        <5>2. CASE stack[i].dir = Front(l)
          <6>1. m[k] # Last(l)
            BY <1>1, <4>1, <4>2, <4>3, <5>2
          <6> QED
            BY <1>3, <4>1, <6>1 DEF EditsStack
        <5> QED
          BY <5>1, <5>2
      <4>5. Due(UpTo(m, k - 1), m[k])'
        BY <1>3, <4>1, <4>4 DEF Due, EditsStack
      <4> QED
        BY <4>5 DEF Awaited
    <3>4. CASE k < Len(m) /\ UpTo(m, k) \in asked
      BY <1>2, <3>4 DEF Awaited
    <3> QED
      BY <3>2, <3>3, <3>4
  <2>3. Stable' \subseteq Stable
    BY <1>2 DEF Stable
  <2> QED
    BY <1>0, <1>2, <2>1, <2>2, <2>3 DEF Covered, HiddenStays
<1> QED
  BY <1>4, <1>6, <1>7, <1>8, <1>9 DEF IInv

-----------------------------------------------------------------------------
(* The walk.                                                               *)

\* The innermost enumeration, and that no other is of the same directory.
LEMMA TopIs ==
  ASSUME Typed, Walking, result = "none"
  PROVE  /\ Len(stack) \in Nat \ {0} /\ DOMAIN stack = 1..Len(stack) /\ Len(stack) \in DOMAIN stack
         /\ Top = stack[Len(stack)] /\ Top \in Enumerations
         /\ Len(Top.dir) = Len(stack) - 1 /\ Top.dir \in Seq(Names)
         /\ \A i \in DOMAIN stack : i # Len(stack) => stack[i].dir # Top.dir
<1>1. stack \in Seq(Enumerations) /\ stack # <<>>
  BY DEF Typed, Walking
<1>2. Len(stack) \in Nat \ {0} /\ DOMAIN stack = 1..Len(stack)
  BY <1>1, EmptySeq
<1>3. Len(stack) \in DOMAIN stack /\ Top = stack[Len(stack)]
  BY <1>2 DEF Top, Last
<1>4. Top \in Enumerations
  BY <1>1, <1>3
<1>5. \A i \in DOMAIN stack : Len(stack[i].dir) = i - 1
  BY DEF Walking
<1>6. Len(Top.dir) = Len(stack) - 1
  BY <1>3, <1>5
<1>7. ASSUME NEW i \in DOMAIN stack, i # Len(stack) PROVE stack[i].dir # Top.dir
  <2>1. i - 1 # Len(stack) - 1
    BY <1>2, <1>7
  <2> QED
    BY <1>5, <1>6, <2>1
<1> QED
  BY <1>2, <1>3, <1>4, <1>6, <1>7, Zenon DEF Enumerations

\* The entry the callback runs for.
LEMMA AskedIs ==
  ASSUME IInv, NEW l, asked = {l}, result = "none"
  PROVE  /\ l = Append(Top.dir, Top.last) /\ Top.last \in Names
         /\ l \in Seq(Names) /\ l # <<>> /\ Front(l) = Top.dir /\ Len(l) = Len(stack)
         /\ l \in reported /\ l \in DOMAIN isDirectory
<1>0. Typed /\ Walking
  BY DEF IInv
<1>1. l = Append(Top.dir, Top.last) /\ Top.last \in Names /\ l \in reported
  BY <1>0 DEF Walking
<1>2. Len(stack) \in Nat \ {0} /\ Len(Top.dir) = Len(stack) - 1 /\ Top.dir \in Seq(Names)
  BY <1>0, TopIs, Zenon
<1>3. /\ l \in Seq(Names) /\ l # <<>> /\ Front(l) = Top.dir /\ Len(l) = Len(Top.dir) + 1
  BY <1>1, <1>2, AppendedName
<1> QED
  BY <1>0, <1>1, <1>2, <1>3 DEF Typed

\* An entry of the innermost enumeration is reported.
LEMMA ReportKeeps ==
  ASSUME IInv, NEW n \in Names, Report(n)
  PROVE  IInv'
<1> DEFINE t == Len(stack)
           d == Top.dir
           l == Append(d, n)
           E == [Top EXCEPT !.due = Top.due \ {n}, !.may = Top.may \ {n}, !.last = n]
<1>0. Typed /\ Rooted /\ Walking /\ Fresh /\ Covered
  BY DEF IInv
<1>1. /\ result = "none" /\ asked = {} /\ n \in Top.may
      /\ stack' = [stack EXCEPT ![t] = E]
      /\ asked' = {l} /\ reported' = reported \cup {l}
      /\ UNCHANGED <<backend, recursive, edited, refused, failed, result>>
  BY DEF Report
<1>2. /\ t \in Nat \ {0} /\ DOMAIN stack = 1..t /\ t \in DOMAIN stack
      /\ Top = stack[t] /\ Top \in Enumerations
      /\ Len(d) = t - 1 /\ d \in Seq(Names)
      /\ \A i \in DOMAIN stack : i # t => stack[i].dir # d
      /\ d = Top.dir /\ l = Append(d, n)
  BY <1>0, <1>1, TopIs, Zenon
<1> HIDE DEF d, l
<1>3. /\ l \in Seq(Names) /\ l # <<>> /\ Len(l) = t /\ Front(l) = d /\ Last(l) = n
  <2>1. /\ l \in Seq(Names) /\ l # <<>> /\ Len(l) = Len(d) + 1 /\ Front(l) = d /\ Last(l) = n
    <3>1. d \in Seq(Names) /\ l = Append(d, n)
      BY <1>2, Zenon
    <3> QED
      BY <3>1, AppendedName, Zenon
  <2>2. \A x \in Nat : x - 1 + 1 = x
    OBVIOUS
  <2>3. Len(l) = t
    BY <1>2, <2>1, <2>2, Zenon
  <2> QED
    BY <2>1, <2>3
<1>4. l \in DOMAIN isDirectory /\ l \notin reported
  BY <1>0, <1>1, <1>2, Zenon DEF Fresh
<1>5. /\ E \in Enumerations /\ E.dir = d /\ E.last = n
      /\ E.due = Top.due \ {n} /\ E.may = Top.may \ {n}
  <2>1. n \in Nat
    BY NamesAssumption
  <2> QED
    BY <1>2, <2>1, Zenon DEF Enumerations
<1> HIDE DEF E
<1>6. /\ stack' \in Seq(Enumerations) /\ Len(stack') = t /\ DOMAIN stack' = DOMAIN stack
      /\ stack'[t] = E /\ \A i \in DOMAIN stack : i # t => stack'[i] = stack[i]
  <2>1. stack \in Seq(Enumerations)
    BY <1>0 DEF Typed
  <2>2. stack' \in [DOMAIN stack -> Enumerations]
    <3>1. stack \in [DOMAIN stack -> Enumerations]
      BY <2>1
    <3> QED
      BY <1>1, <1>5, <3>1
  <2>3. stack' \in Seq(Enumerations) /\ Len(stack') = Len(stack) /\ DOMAIN stack' = DOMAIN stack
    BY <2>1, <2>2, SameDepth
  <2> QED
    BY <1>1, <1>2, <2>3, Zenon
<1>7. Typed'
  BY <1>0, <1>1, <1>4, <1>6 DEF Typed, edited
<1>8. Rooted'
  BY <1>0, <1>1 DEF Rooted, edited
<1>9. Top' = E
  BY <1>6 DEF Top, Last
<1>10. Walking'
  <2>1. stack' # <<>>
    BY <1>2, <1>6, Zenon
  <2>2. /\ \A i \in DOMAIN stack' : Len(stack'[i].dir) = i - 1
        /\ \A i \in DOMAIN stack' :
             i - 1 \in DOMAIN stack' => stack'[i - 1].dir = Front(stack'[i].dir)
    <3>1. \A i \in DOMAIN stack' : i \in DOMAIN stack /\ stack'[i].dir = stack[i].dir
      BY <1>2, <1>5, <1>6, Zenon
    <3> QED
      BY <1>0, <3>1 DEF Walking
  <2>3. asked' = {Append(Top'.dir, Top'.last)} /\ Top'.last \in Names
    BY <1>1, <1>2, <1>5, <1>9, Zenon
  <2> QED
    BY <1>1, <2>1, <2>2, <2>3 DEF Walking
<1>11. \A m \in reported : Front(m) # l
  BY <1>0, <1>3, <1>4 DEF Fresh
<1>12. Fresh'
  <2>1. ASSUME NEW i \in DOMAIN stack', NEW m \in stack'[i].may
        PROVE  Append(stack'[i].dir, m) \in DOMAIN isDirectory \ reported'
    <3>1. i \in DOMAIN stack /\ stack'[i].dir = stack[i].dir /\ m \in stack[i].may
      BY <1>2, <1>5, <1>6, Zenon
    <3>2. Append(stack[i].dir, m) \in DOMAIN isDirectory \ reported
      BY <1>0, <3>1 DEF Fresh
    <3>3. Append(stack[i].dir, m) # l
      <4>1. stack[i].dir \in Seq(Names) /\ m \in Names
        <5>1. stack[i] \in Enumerations
          BY <1>0, <3>1 DEF Typed
        <5> QED
          BY <3>1, <5>1 DEF Enumerations
      <4>2. Front(Append(stack[i].dir, m)) = stack[i].dir /\ Last(Append(stack[i].dir, m)) = m
        BY <4>1, AppendedName
      <4>3. CASE i = t
        BY <1>3, <1>5, <1>6, <4>2, <4>3
      <4>4. CASE i # t
        BY <1>2, <1>3, <3>1, <4>2, <4>4, Zenon
      <4> QED
        BY <4>3, <4>4
    <3> QED
      BY <1>1, <3>1, <3>2, <3>3
  <2>2. \A m \in reported' : Front(m) \in reported' \cup {<<>>}
    <3>1. Top.dir \in reported \cup {<<>>}
      BY <1>0, <1>2, Zenon DEF Fresh
    <3>2. Front(l) \in reported \cup {<<>>}
      BY <1>2, <1>3, <3>1, Zenon
    <3> QED
      BY <1>0, <1>1, <3>2 DEF Fresh
  <2>3. l \notin refused' /\ \A m \in reported' : Front(m) # l
    <3>1. l \notin refused
      BY <1>0, <1>3, <1>4 DEF Fresh
    <3>2. d # l
      <4>1. t - 1 # t
        <5>1. \A x \in Nat : x - 1 # x
          OBVIOUS
        <5> QED
          BY <1>2, <5>1, Zenon
      <4> QED
        BY <1>2, <1>3, <4>1, Zenon
    <3> QED
      BY <1>1, <1>3, <1>11, <3>1, <3>2
  <2>4. \A i \in DOMAIN stack' :
          stack'[i].dir \notin refused' /\ stack'[i].dir \in reported' \cup {<<>>}
    BY <1>0, <1>1, <1>2, <1>5, <1>6, Zenon DEF Fresh
  <2> QED
    BY <1>0, <1>1, <2>1, <2>2, <2>3, <2>4 DEF Fresh, edited
<1>13. Covered'
  <2>1. Stable' = Stable
    BY <1>1 DEF Stable, edited
  <2>2. HiddenStays
    BY <1>1 DEF HiddenStays, Hidden, failed
  <2>3. ASSUME NEW m \in Stable, Awaited(m) PROVE m \in reported' \/ Awaited(m)'
    <3>1. m \in Seq(Names) /\ m # <<>> /\ Len(m) \in Nat
      BY <1>0, LocationTyped DEF Stable, Typed
    <3>2. PICK k \in 1..Len(m) : Due(UpTo(m, k - 1), m[k])
      BY <1>1, <2>3 DEF Awaited
    <3>3. PICK i \in DOMAIN stack : stack[i].dir = UpTo(m, k - 1) /\ m[k] \in stack[i].due
      BY <3>2 DEF Due
    <3>4. CASE i # t \/ m[k] # n
      <4>1. stack'[i].dir = UpTo(m, k - 1) /\ m[k] \in stack'[i].due
        BY <1>2, <1>5, <1>6, <3>3, <3>4, Zenon
      <4>2. Due(UpTo(m, k - 1), m[k])'
        BY <1>6, <3>3, <4>1 DEF Due
      <4> QED
        BY <4>2 DEF Awaited
    <3>5. CASE i = t /\ m[k] = n
      <4>1. UpTo(m, k) = l
        <5>1. UpTo(m, k) = Append(UpTo(m, k - 1), m[k])
          BY <3>1, UpToNext
        <5> QED
          BY <1>2, <3>3, <3>5, <5>1, Zenon
      <4>2. CASE k = Len(m)
        <5>1. m = l
          BY <3>1, <4>1, <4>2, UpToEnds
        <5> QED
          BY <1>1, <5>1
      <4>3. CASE k # Len(m)
        <5>1. k < Len(m) /\ UpTo(m, k) \in asked'
          BY <1>1, <3>1, <4>1, <4>3
        <5> QED
          BY <5>1 DEF Awaited
      <4> QED
        BY <4>2, <4>3
    <3> QED
      BY <3>4, <3>5
  <2> QED
    BY <1>0, <1>1, <2>1, <2>2, <2>3 DEF Covered, HiddenStays
<1> QED
  BY <1>7, <1>8, <1>10, <1>12, <1>13 DEF IInv

\* The walk goes on in the k-th enumeration, and the ones in it are over.
BackTo(k) ==
  /\ stack' = UpTo(stack, k)
  /\ result' = IF k = 0 THEN "true" ELSE "none"

\* What ReturnTrue, and FindNextFileA's failure, do.
LEMMA ReturnTrueIs ==
  ASSUME Typed, Walking, result = "none"
  PROVE  /\ ReturnTrue => BackTo(Len(stack) - 1)
         /\ Len(stack) - 1 \in 0..(Len(stack) - 1)
         /\ Len(stack) - 1 + 1 = Len(stack) /\ Len(stack) - 1 + 2 >= Len(stack)
         /\ WindowsBroken /\ Len(stack) # 1 => BackTo(Len(stack) - 2)
<1> DEFINE t == Len(stack)
<1>1. stack \in Seq(Enumerations) /\ t \in Nat \ {0}
  BY TopIs DEF Typed
<1>2. stack # <<>> /\ (t - 1 = 0 <=> t = 1) /\ (t - 2 = 0 <=> t = 2) /\ t - 1 \in 0..t
  BY <1>1
<1>3. Front(stack) = UpTo(stack, t - 1) /\ Front(stack) \in Seq(Enumerations)
      /\ Len(Front(stack)) = t - 1
  BY <1>1, <1>2, UpToEnds
<1>4. ReturnTrue => BackTo(t - 1)
  BY <1>2, <1>3 DEF ReturnTrue, BackTo
<1>5. ASSUME t # 1 PROVE Front(Front(stack)) = UpTo(stack, t - 2)
  <2>1. t - 1 # 0 /\ t - 1 - 1 = t - 2 /\ t - 2 \in 0..(t - 1)
    BY <1>1, <1>5
  <2>2. Front(stack) # <<>>
    BY <1>3, <2>1
  <2>3. Front(Front(stack)) = UpTo(Front(stack), t - 2)
    BY <1>3, <2>1, <2>2, UpToEnds
  <2>4. UpTo(UpTo(stack, t - 1), t - 2) = UpTo(stack, t - 2)
    BY <1>1, <1>2, <2>1, UpToUpTo
  <2> QED
    BY <1>3, <2>3, <2>4
<1>6. WindowsBroken /\ t # 1 => BackTo(t - 2)
  BY <1>2, <1>5 DEF WindowsBroken, BackTo
<1>7. t - 1 \in 0..(t - 1) /\ t - 1 + 1 = t /\ t - 1 + 2 >= t
  <2> HIDE DEF t
  <2> QED
    BY <1>1
<1> QED
  BY <1>4, <1>6, <1>7

\* The enumerations that are not over.
LEMMA PoppedStack ==
  ASSUME Typed, Walking, result = "none", NEW k \in 0..(Len(stack) - 1), BackTo(k)
  PROVE  /\ stack' \in Seq(Enumerations) /\ DOMAIN stack' = 1..k
         /\ Len(stack') = k
         /\ DOMAIN stack' \subseteq DOMAIN stack
         /\ \A i \in DOMAIN stack' : stack'[i] = stack[i] /\ i # Len(stack)
         /\ result' = "none" <=> stack' # <<>>
         /\ result' \in {"none", "true"}
<1> DEFINE t == Len(stack)
<1>1. stack \in Seq(Enumerations) /\ t \in Nat \ {0} /\ DOMAIN stack = 1..t
  BY TopIs DEF Typed
<1>2. k \in 0..t /\ k < t
  BY <1>1
<1>3. stack' = UpTo(stack, k)
  BY DEF BackTo
<1>4. /\ stack' \in Seq(Enumerations) /\ Len(stack') = k
      /\ \A i \in 1..k : stack'[i] = stack[i]
  BY <1>1, <1>2, <1>3, UpToIs
<1>5. DOMAIN stack' = 1..k /\ 1..k \subseteq 1..t /\ \A i \in 1..k : i # t
  <2>1. 1..k \subseteq 1..t /\ \A i \in 1..k : i # t
    <3> HIDE DEF t
    <3> QED
      BY <1>1, <1>2
  <2>2. DOMAIN stack' = 1..k
    BY <1>4
  <2> QED
    BY <2>1, <2>2
<1>6. result' = IF k = 0 THEN "true" ELSE "none"
  BY DEF BackTo
<1>7. stack' = <<>> <=> k = 0
  BY <1>2, <1>4, EmptySeq
<1> QED
  BY <1>1, <1>4, <1>5, <1>6, <1>7, Zenon

\* A walk that goes on outside the innermost enumeration, or has returned true.
LEMMA PopKeeps ==
  ASSUME Typed, Walking, Fresh, result = "none", NEW k \in 0..(Len(stack) - 1), BackTo(k),
         asked' = {}, UNCHANGED <<backend, recursive, edited, reported>>
  PROVE  Typed' /\ Walking'
         /\ \A i \in DOMAIN stack' :
              /\ \A n \in stack'[i].may :
                   Append(stack'[i].dir, n) \in DOMAIN isDirectory' \ reported'
              /\ stack'[i].dir \notin refused /\ stack'[i].dir \in reported' \cup {<<>>}
              /\ stack'[i].dir # Top.dir
<1>1. /\ stack' \in Seq(Enumerations) /\ DOMAIN stack' \subseteq DOMAIN stack
      /\ \A i \in DOMAIN stack' : stack'[i] = stack[i] /\ i # Len(stack)
      /\ result' = "none" <=> stack' # <<>>
      /\ result' \in {"none", "true"}
  BY PoppedStack
<1>2. Typed'
  BY <1>1 DEF Typed, edited
<1>3. Walking'
  <2>1. /\ \A i \in DOMAIN stack' : Len(stack'[i].dir) = i - 1
        /\ \A i \in DOMAIN stack' :
             i - 1 \in DOMAIN stack' => stack'[i - 1].dir = Front(stack'[i].dir)
    BY <1>1 DEF Walking
  <2> QED
    BY <1>1, <2>1 DEF Walking
<1>4. \A i \in DOMAIN stack : i # Len(stack) => stack[i].dir # Top.dir
  BY TopIs, Zenon
<1>5. \A i \in DOMAIN stack' :
        /\ \A n \in stack'[i].may :
             Append(stack'[i].dir, n) \in DOMAIN isDirectory' \ reported'
        /\ stack'[i].dir \notin refused /\ stack'[i].dir \in reported' \cup {<<>>}
        /\ stack'[i].dir # Top.dir
  BY <1>1, <1>4 DEF Fresh, edited
<1> QED
  BY <1>2, <1>3, <1>5

\* What is below the directory that is enumerated in the k-th enumeration.
HidesBelow(k) == \A l \in Seq(Names) : IsPrefix(stack[k].dir, l) => Hidden(l)'

\* When the last one or two enumerations are cut short, and that hides the rest of
\* their directories, what is neither reported nor hidden is still awaited.
LEMMA CutShortKeepsCovered ==
  ASSUME IInv, result = "none", NEW k \in 0..(Len(stack) - 1), k + 2 >= Len(stack), BackTo(k),
         UNCHANGED <<backend, recursive, edited, reported, refused>>,
         HiddenStays, HidesBelow(k + 1)
  PROVE  Covered'
<1> DEFINE t == Len(stack)
<1>0. Typed /\ Walking /\ Covered
  BY DEF IInv
<1>1. /\ t \in Nat \ {0} /\ DOMAIN stack = 1..t /\ t \in DOMAIN stack /\ Top = stack[t]
      /\ stack \in Seq(Enumerations)
  BY <1>0, TopIs DEF Typed
<1>2. DOMAIN stack' = 1..k /\ \A i \in 1..k : stack'[i] = stack[i]
  <2>1. DOMAIN stack' = 1..k /\ \A i \in DOMAIN stack' : stack'[i] = stack[i]
    BY <1>0, PoppedStack
  <2> QED
    BY <2>1
<1>3. ASSUME NEW m \in Seq(Names), NEW i \in DOMAIN stack, i \notin 1..k,
             IsPrefix(stack[i].dir, m)
      PROVE  Hidden(m)'
  <2>1. i = k + 1 \/ (i = k + 2 /\ i - 1 = k + 1)
    BY <1>1, <1>3
  <2>2. CASE i = k + 1
    BY <1>3, <2>2 DEF HidesBelow
  <2>3. CASE i = k + 2 /\ i - 1 = k + 1
    <3>1. i - 1 \in DOMAIN stack /\ i - 1 # 0
      BY <1>1, <1>3, <2>3
    <3>2. stack[i - 1].dir = Front(stack[i].dir) /\ Len(stack[i].dir) = i - 1
      BY <1>0, <1>3, <3>1 DEF Walking
    <3>3. stack[i].dir \in Seq(Names)
      <4>1. stack[i] \in Enumerations
        BY <1>1, <1>3
      <4> QED
        BY <4>1 DEF Enumerations
    <3>4. stack[i].dir # <<>>
      BY <3>1, <3>2, <3>3
    <3>5. IsPrefix(Front(stack[i].dir), m)
      BY <1>3, <3>3, <3>4, FrontIsPrefix
    <3> QED
      BY <2>3, <3>2, <3>5 DEF HidesBelow
  <2> QED
    BY <2>1, <2>2, <2>3
<1>4. ASSUME NEW m \in Stable, Awaited(m) PROVE Awaited(m)' \/ Hidden(m)'
  <2>1. m \in Seq(Names) /\ Len(m) \in Nat
    BY <1>0, LocationTyped DEF Stable, Typed
  <2>2. PICK j \in 1..Len(m) :
          Due(UpTo(m, j - 1), m[j]) \/ (j < Len(m) /\ UpTo(m, j) \in asked)
    BY <1>4 DEF Awaited
  <2>3. j - 1 \in 0..Len(m) /\ IsPrefix(UpTo(m, j - 1), m)
    <3>1. j - 1 \in 0..Len(m)
      BY <2>1
    <3> QED
      BY <2>1, <3>1, UpToIsPrefix
  <2>4. CASE Due(UpTo(m, j - 1), m[j])
    <3>1. PICK i \in DOMAIN stack : stack[i].dir = UpTo(m, j - 1) /\ m[j] \in stack[i].due
      BY <2>4 DEF Due
    <3>2. CASE i \in 1..k
      <4>1. Due(UpTo(m, j - 1), m[j])'
        BY <1>2, <3>1, <3>2 DEF Due
      <4> QED
        BY <4>1 DEF Awaited
    <3>3. CASE i \notin 1..k
      BY <1>3, <2>1, <2>3, <3>1, <3>3
    <3> QED
      BY <3>2, <3>3
  <2>5. CASE UpTo(m, j) \in asked
    <3>1. asked = {Append(Top.dir, Top.last)} /\ Top.last \in Names
      BY <1>0, <2>5 DEF Walking
    <3>2. Front(UpTo(m, j)) = Top.dir
      <4>1. UpTo(m, j) = Append(Top.dir, Top.last) /\ Top.dir \in Seq(Names)
        BY <1>0, <2>5, <3>1, TopIs, Zenon
      <4> QED
        BY <3>1, <4>1, AppendedName
    <3>3. Front(UpTo(m, j)) = UpTo(m, j - 1)
      BY <2>1, UpToNext
    <3>4. t \notin 1..k
      BY <1>1
    <3> QED
      BY <1>1, <1>3, <2>1, <2>3, <3>2, <3>3, <3>4
  <2> QED
    BY <2>2, <2>4, <2>5
<1>5. Stable' = Stable
  BY DEF Stable, edited
<1> QED
  BY <1>0, <1>4, <1>5 DEF Covered, HiddenStays

\* A directory that was enumerated to its end.
LEMMA EndKeeps ==
  ASSUME IInv, EndOfDirectory
  PROVE  IInv'
<1>0. Typed /\ Rooted /\ Walking /\ Fresh /\ Covered
  BY DEF IInv
<1> DEFINE t == Len(stack)
<1>1. /\ result = "none" /\ asked = {} /\ Top.due = {} /\ ReturnTrue
      /\ UNCHANGED <<backend, recursive, edited, asked, reported, refused, failed>>
      /\ BackTo(t - 1) /\ t - 1 \in 0..(t - 1)
  <2>1. result = "none" /\ ReturnTrue
    BY DEF EndOfDirectory
  <2>2. BackTo(t - 1) /\ t - 1 \in 0..(t - 1)
    BY <1>0, <2>1, ReturnTrueIs
  <2> QED
    BY <2>2 DEF EndOfDirectory
<1>2. /\ Typed' /\ Walking'
      /\ \A i \in DOMAIN stack' :
           /\ \A n \in stack'[i].may :
                Append(stack'[i].dir, n) \in DOMAIN isDirectory' \ reported'
           /\ stack'[i].dir \notin refused /\ stack'[i].dir \in reported' \cup {<<>>}
  BY <1>0, <1>1, PopKeeps
<1>3. Rooted'
  BY <1>0, <1>1 DEF Rooted, edited
<1>4. Fresh'
  BY <1>0, <1>1, <1>2 DEF Fresh, edited
<1>5. Covered'
  <2>1. Stable' = Stable /\ HiddenStays
    BY <1>1 DEF Stable, HiddenStays, Hidden, edited, failed
  <2>2. ASSUME NEW m, Awaited(m) PROVE Awaited(m)'
    <3>1. PICK k \in 1..Len(m) : Due(UpTo(m, k - 1), m[k])
      BY <1>1, <2>2 DEF Awaited
    <3>2. PICK i \in DOMAIN stack : stack[i].dir = UpTo(m, k - 1) /\ m[k] \in stack[i].due
      BY <3>1 DEF Due
    <3>3. i # Len(stack) /\ DOMAIN stack = 1..Len(stack) /\ Len(stack) \in Nat
      BY <1>0, <1>1, <3>2, TopIs, Zenon
    <3>4. i \in DOMAIN stack' /\ stack'[i] = stack[i]
      <4>1. DOMAIN stack' = 1..(Len(stack) - 1) /\ \A j \in DOMAIN stack' : stack'[j] = stack[j]
        BY <1>0, <1>1, PoppedStack
      <4> QED
        BY <3>3, <4>1
    <3>5. Due(UpTo(m, k - 1), m[k])'
      BY <3>2, <3>4 DEF Due
    <3> QED
      BY <3>5 DEF Awaited
  <2> QED
    BY <1>0, <1>1, <2>1, <2>2 DEF Covered, HiddenStays
<1> QED
  BY <1>2, <1>3, <1>4, <1>5 DEF IInv

\* The callback returns false.
LEMMA RefuseKeeps ==
  ASSUME IInv, NEW l, Refuse(l)
  PROVE  IInv'
<1>0. Typed /\ Rooted /\ Walking /\ Fresh /\ Covered
  BY DEF IInv
<1>1. /\ asked = {l} /\ result = "none" /\ asked' = {}
      /\ refused' = refused \cup {Front(l)}
      /\ UNCHANGED <<backend, recursive, edited, reported, failed>>
      /\ IF backend = "memory" THEN ReturnFalse ELSE ReturnTrue
  BY DEF Refuse, MemoryRefused, PosixRefused, WindowsRefused, ArduinoRefused
<1>2. Front(l) = Top.dir /\ Front(l) \in reported \cup {<<>>}
  <2>1. Front(l) = Top.dir
    BY <1>1, AskedIs
  <2>2. Len(stack) \in DOMAIN stack /\ Top = stack[Len(stack)]
    BY <1>0, <1>1, TopIs, Zenon
  <2> QED
    BY <1>0, <2>1, <2>2 DEF Fresh
<1>3. Rooted' /\ Covered'
  BY <1>0, <1>1 DEF Rooted, Covered, edited
<1>4. CASE ReturnTrue /\ backend # "memory"
  <2>0. BackTo(Len(stack) - 1) /\ Len(stack) - 1 \in 0..(Len(stack) - 1)
    BY <1>0, <1>1, <1>4, ReturnTrueIs
  <2>1. /\ Typed' /\ Walking'
        /\ \A i \in DOMAIN stack' :
             /\ \A n \in stack'[i].may :
                  Append(stack'[i].dir, n) \in DOMAIN isDirectory' \ reported'
             /\ stack'[i].dir \notin refused /\ stack'[i].dir \in reported' \cup {<<>>}
             /\ stack'[i].dir # Top.dir
    BY <1>0, <1>1, <2>0, PopKeeps
  <2>2. Fresh'
    BY <1>0, <1>1, <1>2, <1>4, <2>1 DEF Fresh, edited
  <2> QED
    BY <1>3, <2>1, <2>2 DEF IInv
<1>5. CASE ReturnFalse
  <2>1. stack' = <<>> /\ result' = "false" /\ DOMAIN stack' = {} /\ stack' \in Seq(Enumerations)
    BY <1>5 DEF ReturnFalse
  <2>2. Typed'
    BY <1>0, <1>1, <2>1 DEF Typed, edited
  <2>3. Walking'
    BY <1>1, <2>1 DEF Walking
  <2>4. Fresh'
    BY <1>0, <1>1, <1>2, <2>1 DEF Fresh, edited
  <2> QED
    BY <1>3, <2>2, <2>3, <2>4 DEF IInv
<1> QED
  BY <1>1, <1>4, <1>5

\* What there is of a tree below an entry that is a directory of it.
LEMMA BelowIsThere ==
  ASSUME IInv, NEW m \in Stable, NEW k \in 1..Len(m), k < Len(m)
  PROVE  /\ isDirectory[UpTo(m, k)] /\ UpTo(m, k) \notin removed
         /\ m[k + 1] \in Children(UpTo(m, k))
         /\ k + 1 \in 1..Len(m) /\ k + 1 - 1 = k
<1>0. Typed /\ Rooted
  BY DEF IInv
<1>1. m \in Seq(Names) /\ m # <<>> /\ Len(m) \in Nat /\ m \in DOMAIN isDirectory /\ m \notin removed
  BY <1>0, LocationTyped DEF Stable, Typed
<1>2. k \in 1..(Len(m) - 1) /\ k + 1 \in 1..Len(m) /\ k + 1 - 1 = k
  BY <1>1
<1>3. isDirectory[UpTo(m, k)] /\ UpTo(m, k) \notin removed
  BY <1>0, <1>1, <1>2 DEF Rooted
<1>4. UpTo(m, k + 1) = Append(UpTo(m, k), m[k + 1]) /\ m[k + 1] \in Names
  <2>1. UpTo(m, k + 1) = Append(UpTo(m, k + 1 - 1), m[k + 1]) /\ m[k + 1] \in Names
    BY <1>1, <1>2, UpToNext
  <2> QED
    BY <1>2, <2>1
<1>5. UpTo(m, k + 1) \in Present
  <2>1. CASE k + 1 = Len(m)
    <3>1. UpTo(m, Len(m)) = m
      BY <1>1, UpToEnds, Zenon
    <3> QED
      BY <1>1, <2>1, <3>1 DEF Present
  <2>2. CASE k + 1 # Len(m)
    <3>1. k + 1 \in 1..(Len(m) - 1)
      BY <1>1, <1>2, <2>2
    <3> QED
      BY <1>0, <1>1, <3>1 DEF Rooted, Present
  <2> QED
    BY <2>1, <2>2
<1> QED
  BY <1>2, <1>3, <1>4, <1>5 DEF Children

\* The callback returned true: the walk goes on where it is, past a file or past a
\* directory that a failure hides.
LEMMA GoOnKeeps ==
  ASSUME IInv, NEW l, asked = {l}, result = "none", asked' = {}, GoOn,
         UNCHANGED <<backend, recursive, edited, reported, refused>>,
         HiddenStays, ~Enters(l) \/ HidesBelow(Len(stack))
  PROVE  IInv'
<1>0. Typed /\ Rooted /\ Walking /\ Fresh /\ Covered
  BY DEF IInv
<1>1. UNCHANGED <<stack, result>>
  BY DEF GoOn
<1>2. Typed' /\ Rooted'
  BY <1>0, <1>1 DEF Typed, Rooted, edited
<1>3. Walking'
  BY <1>0, <1>1 DEF Walking
<1>4. Fresh'
  BY <1>0, <1>1 DEF Fresh, edited
<1>5. Covered'
  <2>1. Stable' = Stable
    BY DEF Stable, edited
  <2>2. ASSUME NEW m \in Stable, recursive \/ Len(m) = 1, Awaited(m)
        PROVE  Awaited(m)' \/ Hidden(m)'
    <3>1. PICK k \in 1..Len(m) :
            Due(UpTo(m, k - 1), m[k]) \/ (k < Len(m) /\ UpTo(m, k) \in asked)
      BY <2>2 DEF Awaited
    <3>2. CASE Due(UpTo(m, k - 1), m[k])
      <4>1. Due(UpTo(m, k - 1), m[k])'
        BY <1>1, <3>2 DEF Due
      <4> QED
        BY <4>1 DEF Awaited
    <3>3. CASE k < Len(m) /\ UpTo(m, k) \in asked
      <4>1. isDirectory[l]
        BY <3>3, BelowIsThere
      <4>2. Len(m) # 1
        <5>1. m \in Seq(Names)
          BY <1>0, LocationTyped DEF Stable, Typed
        <5>2. Len(m) \in Nat
          BY <5>1
        <5>3. \A x \in Nat : \A y \in 1..x : y < x => x # 1
          OBVIOUS
        <5> QED
          BY <3>1, <3>3, <5>2, <5>3, Zenon
      <4>3. HidesBelow(Len(stack))
        BY <2>2, <4>1, <4>2 DEF Enters
      <4>4. Front(l) = Top.dir /\ Top = stack[Len(stack)]
        BY <1>0, AskedIs, TopIs, Zenon
      <4>5. m \in Seq(Names) /\ k - 1 \in 0..Len(m)
        <5>1. m \in Seq(Names)
          BY <1>0, LocationTyped DEF Stable, Typed
        <5>2. Len(m) \in Nat
          BY <5>1
        <5> QED
          BY <5>1, <5>2
      <4>6. UpTo(m, k) = l /\ Front(UpTo(m, k)) = UpTo(m, k - 1)
        BY <3>3, <4>5, UpToNext
      <4>7. IsPrefix(UpTo(m, k - 1), m)
        BY <4>5, UpToIsPrefix
      <4> QED
        BY <4>3, <4>4, <4>5, <4>6, <4>7 DEF HidesBelow
    <3> QED
      BY <3>1, <3>2, <3>3
  <2> QED
    BY <1>0, <1>1, <2>1, <2>2 DEF Covered, HiddenStays
<1> QED
  BY <1>2, <1>3, <1>4, <1>5 DEF IInv

\* The walk goes into a directory.
LEMMA EnterKeeps ==
  ASSUME IInv, NEW l, asked = {l}, result = "none", asked' = {}, Enter(l),
         UNCHANGED <<backend, recursive, edited, reported, refused>>, HiddenStays
  PROVE  IInv'
<1> DEFINE E == Enumeration(l)
           t == Len(stack)
<1>0. Typed /\ Rooted /\ Walking /\ Fresh /\ Covered
  BY DEF IInv
<1>1. stack' = Append(stack, E) /\ result' = result
  BY DEF Enter
<1>2. /\ l \in Seq(Names) /\ l # <<>> /\ Len(l) = t /\ l \in reported /\ l \in DOMAIN isDirectory
      /\ t \in Nat \ {0} /\ DOMAIN stack = 1..t /\ stack[t].dir = Front(l)
  BY <1>0, AskedIs, TopIs, Zenon
<1>3. /\ E \in Enumerations /\ E.dir = l /\ E.due = Children(l) /\ E.may = Children(l)
  BY <1>2 DEF Enumeration, Enumerations, Children
<1> HIDE DEF E
<1>4. /\ stack' \in Seq(Enumerations) /\ stack' # <<>> /\ Len(stack') = t + 1
      /\ \A i \in 1..t : stack'[i] = stack[i]
      /\ stack'[t + 1] = E
  <2>1. stack \in Seq(Enumerations)
    BY <1>0 DEF Typed
  <2> QED
    BY <1>1, <1>3, <2>1, AppendProperties
<1>5. DOMAIN stack' = 1..(t + 1) /\ \A i \in 1..(t + 1) : i = t + 1 \/ i \in 1..t
  BY <1>2, <1>4
<1>6. Typed' /\ Rooted'
  BY <1>0, <1>1, <1>4 DEF Typed, Rooted, edited
<1>7. Walking'
  <2>1. \A i \in DOMAIN stack' : Len(stack'[i].dir) = i - 1
    <3>1. t + 1 - 1 = t
      BY <1>2
    <3> QED
      BY <1>0, <1>2, <1>3, <1>4, <1>5, <3>1 DEF Walking
  <2>2. ASSUME NEW i \in DOMAIN stack', i - 1 \in DOMAIN stack'
        PROVE  stack'[i - 1].dir = Front(stack'[i].dir)
    <3>1. i - 1 \in 1..t
      BY <1>2, <1>5, <2>2
    <3>2. CASE i = t + 1
      <4>1. i - 1 = t
        BY <1>2, <3>2
      <4> QED
        BY <1>2, <1>3, <1>4, <3>1, <3>2, <4>1
    <3>3. CASE i \in 1..t
      <4>1. stack[i - 1].dir = Front(stack[i].dir)
        BY <1>0, <1>2, <3>1, <3>3 DEF Walking
      <4> QED
        BY <1>4, <3>1, <3>3, <4>1
    <3> QED
      BY <1>5, <2>2, <3>2, <3>3
  <2> QED
    BY <1>1, <1>4, <2>1, <2>2 DEF Walking
<1>8. l \notin refused /\ \A m \in reported : Front(m) # l
  BY <1>0 DEF Fresh
<1>9. Fresh'
  <2>1. ASSUME NEW n \in Children(l) PROVE Append(l, n) \in DOMAIN isDirectory \ reported
    <3>1. Append(l, n) \in DOMAIN isDirectory /\ n \in Names
      BY <2>1 DEF Children, Present
    <3>2. Front(Append(l, n)) = l
      BY <1>2, <3>1, AppendedName
    <3> QED
      BY <1>8, <3>1, <3>2
  <2>2. ASSUME NEW i \in DOMAIN stack'
        PROVE  /\ \A n \in stack'[i].may : Append(stack'[i].dir, n) \in DOMAIN isDirectory \ reported
               /\ stack'[i].dir \notin refused /\ stack'[i].dir \in reported \cup {<<>>}
    <3>1. CASE i = t + 1
      BY <1>2, <1>3, <1>4, <1>8, <2>1, <3>1
    <3>2. CASE i \in 1..t
      BY <1>0, <1>2, <1>4, <3>2 DEF Fresh
    <3> QED
      BY <1>5, <3>1, <3>2
  <2> QED
    BY <1>0, <1>1, <2>2 DEF Fresh, edited
<1>10. Covered'
  <2>1. Stable' = Stable
    BY DEF Stable, edited
  <2>2. ASSUME NEW m \in Stable, Awaited(m) PROVE Awaited(m)'
    <3>1. PICK k \in 1..Len(m) :
            Due(UpTo(m, k - 1), m[k]) \/ (k < Len(m) /\ UpTo(m, k) \in asked)
      BY <2>2 DEF Awaited
    <3>2. CASE Due(UpTo(m, k - 1), m[k])
      <4>1. PICK i \in 1..t : stack[i].dir = UpTo(m, k - 1) /\ m[k] \in stack[i].due
        BY <1>2, <3>2 DEF Due
      <4>2. i \in DOMAIN stack' /\ stack'[i] = stack[i]
        BY <1>2, <1>4, <1>5
      <4>3. Due(UpTo(m, k - 1), m[k])'
        BY <4>1, <4>2 DEF Due
      <4> QED
        BY <4>3 DEF Awaited
    <3>3. CASE k < Len(m) /\ UpTo(m, k) \in asked
      <4>1. /\ UpTo(m, k) = l /\ m[k + 1] \in Children(l)
            /\ k + 1 \in 1..Len(m) /\ k + 1 - 1 = k
        BY <3>3, BelowIsThere
      <4>2. t + 1 \in DOMAIN stack'
        BY <1>2, <1>5
      <4>3. Due(UpTo(m, k + 1 - 1), m[k + 1])'
        BY <1>3, <1>4, <4>1, <4>2 DEF Due
      <4> QED
        BY <4>1, <4>3 DEF Awaited
    <3> QED
      BY <3>1, <3>2, <3>3
  <2> QED
    BY <1>0, <1>1, <2>1, <2>2 DEF Covered, HiddenStays
<1> QED
  BY <1>6, <1>7, <1>9, <1>10 DEF IInv

\* The callback returned true.
LEMMA AcceptKeeps ==
  ASSUME IInv, NEW l, Accept(l)
  PROVE  IInv'
<1>0. Typed /\ Rooted /\ Walking /\ Fresh /\ Covered
  BY DEF IInv
<1>1. /\ asked = {l} /\ result = "none" /\ asked' = {}
      /\ UNCHANGED <<backend, recursive, edited, reported, refused, broken>>
      /\ unopened \subseteq unopened'
  BY DEF Accept, MemoryAccepted, PosixAccepted, WindowsAccepted, ArduinoAccepted, HostGoesOn,
         NotEntered
<1>2. \/ GoOn /\ ~Enters(l)
      \/ Enter(l)
      \/ stack' = <<>> /\ result' \in {"false", "undefined"}
      \/ (ReturnTrue \/ GoOn) /\ l \in unopened' /\ backend \in {"posix", "windows"}
  BY DEF Accept, MemoryAccepted, PosixAccepted, WindowsAccepted, ArduinoAccepted, HostGoesOn,
         NotEntered, ReturnFalse
<1>7. HiddenStays
  BY <1>1 DEF HiddenStays, Hidden
<1>8. ASSUME l \in unopened', backend \in {"posix", "windows"}
      PROVE  HidesBelow(Len(stack))
  <2>1. Front(l) = Top.dir /\ Top = stack[Len(stack)]
    BY <1>0, <1>1, AskedIs, TopIs, Zenon
  <2> QED
    BY <1>1, <1>8, <2>1 DEF HidesBelow, Hidden
<1>3. CASE GoOn /\ (~Enters(l) \/ HidesBelow(Len(stack)))
  BY <1>1, <1>3, <1>7, GoOnKeeps
<1>4. CASE Enter(l)
  BY <1>1, <1>4, <1>7, EnterKeeps
<1>5. CASE stack' = <<>> /\ result' \in {"false", "undefined"}
  <2>1. DOMAIN stack' = {} /\ stack' \in Seq(Enumerations) /\ result' # "none"
    BY <1>5
  <2>2. Typed' /\ Rooted'
    BY <1>0, <1>1, <1>5, <2>1 DEF Typed, Rooted, edited
  <2>3. Walking'
    BY <1>1, <1>5, <2>1 DEF Walking
  <2>4. Fresh'
    BY <1>0, <1>1, <2>1 DEF Fresh, edited
  <2>5. Covered'
    BY <1>5 DEF Covered
  <2> QED
    BY <2>2, <2>3, <2>4, <2>5 DEF IInv
<1>6. CASE ReturnTrue /\ HidesBelow(Len(stack))
  <2>0. /\ BackTo(Len(stack) - 1) /\ Len(stack) - 1 \in 0..(Len(stack) - 1)
        /\ Len(stack) - 1 + 1 = Len(stack) /\ Len(stack) - 1 + 2 >= Len(stack)
    BY <1>0, <1>1, <1>6, ReturnTrueIs
  <2>1. /\ Typed' /\ Walking'
        /\ \A i \in DOMAIN stack' :
             /\ \A n \in stack'[i].may :
                  Append(stack'[i].dir, n) \in DOMAIN isDirectory' \ reported'
             /\ stack'[i].dir \notin refused /\ stack'[i].dir \in reported' \cup {<<>>}
    BY <1>0, <1>1, <2>0, PopKeeps
  <2>2. Rooted'
    BY <1>0, <1>1 DEF Rooted, edited
  <2>3. Fresh'
    BY <1>0, <1>1, <1>6, <2>1 DEF Fresh, edited
  <2>4. Covered'
    <3> DEFINE k == Len(stack) - 1
    <3>1. k \in 0..(Len(stack) - 1) /\ BackTo(k) /\ k + 2 >= Len(stack) /\ HidesBelow(k + 1)
      BY <1>6, <2>0
    <3> HIDE DEF k
    <3> QED
      BY <1>1, <1>7, <3>1, CutShortKeepsCovered
  <2> QED
    BY <2>1, <2>2, <2>3, <2>4 DEF IInv
<1> QED
  BY <1>2, <1>3, <1>4, <1>5, <1>6, <1>8

\* The host fails before the end of a directory.
LEMMA BreakKeeps ==
  ASSUME IInv, Break
  PROVE  IInv'
<1> DEFINE t == Len(stack)
<1>0. Typed /\ Rooted /\ Walking /\ Fresh /\ Covered
  BY DEF IInv
<1>1. /\ result = "none" /\ asked = {} /\ asked' = {} /\ broken' = broken \cup {Top.dir}
      /\ UNCHANGED <<backend, recursive, edited, reported, refused, unopened>>
      /\ IF backend = "windows" THEN WindowsBroken ELSE ReturnTrue
  BY DEF Break, PosixBroken, ArduinoBroken
<1>2. t \in Nat \ {0} /\ Top = stack[t] /\ DOMAIN stack = 1..t /\ Top.dir \in Seq(Names)
      /\ Len(Top.dir) = t - 1
  BY <1>0, <1>1, TopIs, Zenon
<1>3. HiddenStays
  BY <1>1 DEF HiddenStays, Hidden
<1>4. Rooted'
  BY <1>0, <1>1 DEF Rooted, edited
<1>5. CASE stack' = <<>> /\ result' = "false"
  <2>1. DOMAIN stack' = {} /\ stack' \in Seq(Enumerations)
    BY <1>5
  <2>2. Typed'
    BY <1>0, <1>1, <1>5, <2>1 DEF Typed, edited
  <2>3. Walking'
    BY <1>1, <1>5, <2>1 DEF Walking
  <2>4. Fresh'
    BY <1>0, <1>1, <1>5, <2>1 DEF Fresh, edited
  <2>5. Covered'
    BY <1>5 DEF Covered
  <2> QED
    BY <1>4, <2>2, <2>3, <2>4, <2>5 DEF IInv
<1>6. ASSUME NEW k \in 0..(t - 1), BackTo(k), k + 2 >= t, HidesBelow(k + 1)
      PROVE  IInv'
  <2>1. /\ Typed' /\ Walking'
        /\ \A i \in DOMAIN stack' :
             /\ \A n \in stack'[i].may :
                  Append(stack'[i].dir, n) \in DOMAIN isDirectory' \ reported'
             /\ stack'[i].dir \notin refused /\ stack'[i].dir \in reported' \cup {<<>>}
    BY <1>0, <1>1, <1>6, PopKeeps
  <2>2. refused = {} \/ backend # "memory"
    BY DEF Break
  <2>3. Fresh'
    BY <1>0, <1>1, <2>1, <2>2 DEF Fresh, edited, Break
  <2>4. Covered'
    BY <1>1, <1>3, <1>6, CutShortKeepsCovered
  <2> QED
    BY <1>4, <2>1, <2>3, <2>4 DEF IInv
<1>7. CASE backend # "windows"
  <2>1. BackTo(t - 1) /\ t - 1 \in 0..(t - 1) /\ t - 1 + 1 = t /\ t - 1 + 2 >= t
    BY <1>0, <1>1, <1>7, ReturnTrueIs
  <2>2. HidesBelow(t)
    BY <1>1, <1>2, <1>7, Zenon DEF HidesBelow, Hidden
  <2> DEFINE k == t - 1
  <2>3. k \in 0..(t - 1) /\ BackTo(k) /\ k + 2 >= t /\ HidesBelow(k + 1)
    BY <2>1, <2>2
  <2> HIDE DEF k
  <2> QED
    BY <1>6, <2>3
<1>8. CASE backend = "windows" /\ t = 1
  BY <1>1, <1>5, <1>8 DEF WindowsBroken, ReturnFalse
<1>9. CASE backend = "windows" /\ t # 1
  <2>1. BackTo(t - 2)
    BY <1>0, <1>1, <1>9, ReturnTrueIs
  <2>2. t - 2 \in 0..(t - 1) /\ t - 2 + 1 = t - 1 /\ t - 2 + 2 >= t /\ t - 1 \in DOMAIN stack
    <3>1. t \in Nat \ {0, 1} /\ DOMAIN stack = 1..t
      BY <1>2, <1>9, Zenon
    <3> HIDE DEF t
    <3> QED
      BY <3>1
  <2>3. stack[t - 1].dir = Front(Top.dir)
    <3>1. t \in DOMAIN stack
      BY <1>0, <1>1, TopIs, Zenon
    <3> QED
      BY <1>0, <1>2, <2>2, <3>1, Zenon DEF Walking
  <2>4. HidesBelow(t - 1)
    BY <1>1, <1>9, <2>3 DEF HidesBelow, Hidden
  <2> DEFINE k == t - 2
  <2>5. k \in 0..(t - 1) /\ BackTo(k) /\ k + 2 >= t /\ HidesBelow(k + 1)
    BY <2>1, <2>2, <2>4
  <2> HIDE DEF k
  <2> QED
    BY <1>6, <2>5
<1> QED
  BY <1>7, <1>8, <1>9

-----------------------------------------------------------------------------
(* The theorems.                                                           *)

\* Every step keeps the invariant.
LEMMA StepIInv == IInv /\ [Next]_vars => IInv'
<1> SUFFICES ASSUME IInv, [Next]_vars PROVE IInv'
  OBVIOUS
<1>1. ASSUME NEW l \in Locations, NEW directory \in BOOLEAN, CreateEntry(l, directory) PROVE IInv'
  BY <1>1, CreateKeeps
<1>2. ASSUME NEW l \in Present, RemoveEntry(l) PROVE IInv'
  BY <1>2, RemoveKeeps
<1>3. ASSUME NEW n \in Names, Report(n) PROVE IInv'
  BY <1>3, ReportKeeps
<1>4. CASE EndOfDirectory
  BY <1>4, EndKeeps
<1>5. ASSUME NEW l \in asked, Refuse(l) PROVE IInv'
  BY <1>5, RefuseKeeps
<1>6. ASSUME NEW l \in asked, Accept(l) PROVE IInv'
  BY <1>6, AcceptKeeps
<1>7. CASE Break
  BY <1>7, BreakKeeps
<1>8. CASE Returned \/ UNCHANGED vars
  <2>1. UNCHANGED vars
    BY <1>8 DEF Returned
  <2>2. Typed' /\ Rooted' /\ Fresh'
    BY <2>1 DEF IInv, Typed, Rooted, Fresh, vars, edited
  <2>3. Top' = Top
    BY <2>1 DEF Top, vars
  <2>4. Walking'
    BY <2>1, <2>3 DEF IInv, Walking, vars
  <2>5. Stable' = Stable /\ HiddenStays /\ \A m : Awaited(m) => Awaited(m)'
    BY <2>1 DEF Stable, HiddenStays, Hidden, Awaited, Due, vars, edited, failed
  <2>6. Covered'
    BY <2>1, <2>5 DEF IInv, Covered, HiddenStays, vars
  <2> QED
    BY <2>2, <2>4, <2>6 DEF IInv
<1> QED
  BY <1>1, <1>2, <1>3, <1>4, <1>5, <1>6, <1>7, <1>8 DEF Next

\* So it always holds.
LEMMA Invariant == Spec => []IInv
<1> QED
  BY InitIInv, StepIInv, PTL DEF Spec

\* A listing that returned true, and whose callback never refused, called it for
\* every entry that was there all along, but for those that a failure of the host, or
\* a directory removed on POSIX and Windows, hides in its own directory: for any tree
\* of any depth, however many edits and failures came between.
THEOREM ListingComplete == Spec => []CompleteIfTrue
<1>1. ASSUME IInv, result = "true", refused = {}, NEW l \in Stable
      PROVE  l \in reported \/ (~recursive /\ Len(l) > 1) \/ Hidden(l)
  <2>1. Typed /\ Walking /\ Covered
    BY <1>1 DEF IInv
  <2>2. l \in Seq(Names) /\ l # <<>>
    BY <2>1, LocationTyped DEF Stable, Typed
  <2>3. Len(l) \in Nat \ {0}
    BY <2>2, UpToEnds
  <2>4. stack = <<>> /\ asked = {}
    BY <1>1, <2>1 DEF Walking
  <2>5. ~Awaited(l)
    BY <2>4 DEF Awaited, Due
  <2>6. (recursive \/ Len(l) = 1) => l \in reported \/ Hidden(l)
    BY <1>1, <2>1, <2>5 DEF Covered
  <2>7. Len(l) # 1 => Len(l) > 1
    BY <2>3
  <2> QED
    BY <2>6, <2>7, Zenon
<1>2. IInv => CompleteIfTrue
  BY <1>1 DEF CompleteIfTrue
<1> QED
  BY <1>2, Invariant, PTL

\* Once the callback has refused in a directory it is called for no other entry of
\* it, and in memory for no other entry at all.
THEOREM RefusalKept == Spec => RefusalIsKept
<1>1. ASSUME IInv, [Next]_vars, NEW l \in reported' \ reported
      PROVE  Front(l) \notin refused /\ (backend = "memory" => refused = {})
  <2>1. PICK n \in Names : Report(n)
    BY <1>1, Zenon
      DEF Next, CreateEntry, RemoveEntry, EndOfDirectory, Break, Refuse, Accept, Returned, vars
  <2>2. l = Append(Top.dir, n) /\ result = "none"
    BY <1>1, <2>1 DEF Report
  <2>3. /\ Typed /\ Walking /\ Fresh
    BY <1>1 DEF IInv
  <2>4. /\ Top.dir \in Seq(Names) /\ Len(stack) \in DOMAIN stack /\ Top = stack[Len(stack)]
    BY <2>2, <2>3, TopIs, Zenon
  <2>5. Front(l) = Top.dir
    BY <2>2, <2>4, AppendedName
  <2> QED
    BY <2>2, <2>3, <2>4, <2>5 DEF Fresh
<1>2. IInv /\ [Next]_vars =>
        [\A l \in reported' \ reported :
           /\ Front(l) \notin refused
           /\ (backend = "memory" => refused = {})]_vars
  BY <1>1
<1> QED
  BY <1>2, Invariant, PTL DEF Spec, RefusalIsKept
=============================================================================
