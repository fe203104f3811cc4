-------------------------- MODULE ScopedFileSystem --------------------------
(***************************************************************************)
(* ScopedFileSystem (filesystem/ScopedFileSystem.h) over the in-memory     *)
(* file system: a scope is a root path and nothing else, so what the root  *)
(* leads to may be moved, removed or replaced under it, through the scope  *)
(* or behind its back.  With it IFileSystem::ensureDirectory, which works  *)
(* on a scope through exists and mkdir.                                    *)
(*                                                                         *)
(* Unlike a path in FilePath, a scope's path strings are split at every    *)
(* '/', the leading one included: "/a" is <<Empty, a>>, "a" is <<a>> and   *)
(* "/" is <<Empty, Empty>>.                                                *)
(***************************************************************************)
EXTENDS MemoryFileSystem

CONSTANTS
  Scopes,    \* the variables of callers that hold a scope
  Roots,     \* the root paths callers give
  Arguments, \* the paths callers pass to a scope
  Dot,       \* the segment "."
  Drives     \* the segments that start with a drive's root: "C:", or "C:\x" whole

ASSUME ArgumentsAssumption == Roots \cup Arguments \subseteq Seq(Names) \ {<<>>, <<Empty>>}
ASSUME RootsAssumption == Drives \subseteq Names \ {Empty, Dot} /\ Dot # Empty

VARIABLES
  scopes,  \* rootPath_ of every scope
  said     \* history: turned over whenever ensureDirectory has said true, so that
           \* its saying so is a step, even with nothing made

scopedVars == <<vars, scopes, said>>

NoScope == <<>>
Slash == <<Empty, Empty>>

-----------------------------------------------------------------------------
(* Paths in and out.                                                       *)

\* The file system below strips one leading '/'.
Segments(p) == IF p[1] = Empty THEN Tail(p) ELSE p

\* makeRelative(p, "/"), until it strips no more.
Relative(p) ==
  LET leading == {i \in DOMAIN p : \A j \in 1..i : p[j] = Empty}
  IN SubSeq(p, Cardinality(leading) + 1, Len(p))

WithoutFinalSlash(p) == IF Last(p) = Empty THEN Front(p) ELSE p

\* Mutant of ScopePath: a path that is relative is left as it is.
ScopePathIfAbsolute(root, p) ==
  IF p[1] # Empty THEN p
  ELSE IF Relative(p) = <<>> THEN root ELSE WithoutFinalSlash(root) \o Relative(p)

ScopePath(root, p) ==
  IF Relative(p) = <<>> THEN root ELSE WithoutFinalSlash(root) \o Relative(p)

\* Mutant of ExposePath: what is shown starts with the last segment of the
\* root.
ExposePathWithRoot(root, p) ==
  LET base == WithoutFinalSlash(root) IN
  IF root = Slash THEN p
  ELSE IF p = root THEN Slash
  ELSE IF IsPrefix(base, p) THEN SubSeq(p, Len(base), Len(p))
  ELSE p

\* The root is shown as "/" and what is below it without it; a path that does
\* not start with the root is shown as it is.
ExposePath(root, p) ==
  LET base == WithoutFinalSlash(root) IN
  IF root = Slash THEN p
  ELSE IF p = root THEN Slash
  ELSE IF IsPrefix(base, p) /\ p # base THEN <<Empty>> \o SubSeq(p, Len(base) + 1, Len(p))
  ELSE p

\* PathUtility::isRoot: "/", ".", and every path that starts with a drive's
\* root, whatever follows.
IsRoot(p) == p = Slash \/ p = <<Dot>> \/ p[1] \in Drives

-----------------------------------------------------------------------------
(* Making scopes.                                                          *)

ScopedInit == Init /\ scopes = [s \in Scopes |-> NoScope] /\ said = FALSE

\* The constructor asks nothing of its root.
Construct(s, root) ==
  /\ running
  /\ scopes' = [scopes EXCEPT ![s] = root]
  /\ UNCHANGED <<vars, said>>

\* getScoped of the in-memory file system: the root is a directory.
GetScoped(s, root) ==
  /\ running
  /\ \E node \in DOMAIN heap :
       node = FindNode(heap, Segments(root)) /\ heap[node].isDirectory
  /\ scopes' = [scopes EXCEPT ![s] = root]
  /\ UNCHANGED <<vars, said>>

\* getScoped of a scope: the root exists, and the new scope is one of the file
\* system below, not of this scope.
GetScopedOfScope(s, t, p) ==
  /\ running /\ scopes[t] # NoScope
  /\ FindNode(heap, Segments(ScopePath(scopes[t], p))) # Null
  /\ scopes' = [scopes EXCEPT ![s] = ScopePath(scopes[t], p)]
  /\ UNCHANGED <<vars, said>>

-----------------------------------------------------------------------------
(* A scope's operations hand their arguments on.                           *)

Inner(s, p) == Segments(ScopePath(scopes[s], p))

ScopedMkdir(s, p) ==
  scopes[s] # NoScope /\ Mkdir(Inner(s, p)) /\ UNCHANGED <<scopes, said>>

ScopedRemove(s, p) ==
  scopes[s] # NoScope /\ RemovePath(Inner(s, p)) /\ UNCHANGED <<scopes, said>>

ScopedRename(s, p, q) ==
  scopes[s] # NoScope /\ Rename(Inner(s, p), Inner(s, q)) /\ UNCHANGED <<scopes, said>>

ScopedOpen(s, f, p, mode) ==
  scopes[s] # NoScope /\ Open(f, Inner(s, p), mode) /\ UNCHANGED <<scopes, said>>

ScopedExists(h, s, p) == FindNode(h, Inner(s, p)) # Null

\* Whether ensureDirectory comes to a path to start from on its way up: one
\* that exists, or that it takes for a root and so to be there, as "/" above an
\* absolute path and "." above "./a". Otherwise it comes to an empty path and
\* fails, with nothing made.
Climbs(s, p) ==
  \/ p[1] = Empty
  \/ \E i \in 1..(Len(p) - 1) :
       IsRoot(SubSeq(p, 1, i)) \/ ScopedExists(heap, s, SubSeq(p, 1, i))

Ensures(s, p) == ScopedExists(heap, s, p) \/ IsRoot(p) \/ Climbs(s, p)

\* Mutant of EnsureDirectory: the directories above the path are made, not its own.
EnsureDirectoryOfParent(s, p) ==
  /\ running /\ scopes[s] # NoScope
  /\ said' = ~said /\ UNCHANGED scopes
  /\ Ensures(s, p)
  /\ IF ScopedExists(heap, s, p) \/ IsRoot(p) THEN UNCHANGED vars
     ELSE Mkdir(DirName(Inner(s, p)))

\* ensureDirectory returning true. Every missing directory from where it starts
\* on down is made, which mkdir does by itself here. A file that exists at the
\* path is taken for the directory, and for a root nothing is made.
EnsureDirectory(s, p) ==
  /\ running /\ scopes[s] # NoScope
  /\ said' = ~said /\ UNCHANGED scopes
  /\ Ensures(s, p)
  /\ IF ScopedExists(heap, s, p) \/ IsRoot(p) THEN UNCHANGED vars
     ELSE Mkdir(Inner(s, p))

ScopedCall(s) ==
  \/ \E p \in Arguments : ScopedMkdir(s, p)
  \/ \E p \in Arguments : ScopedRemove(s, p)
  \/ \E p, q \in Arguments : ScopedRename(s, p, q)
  \/ \E f \in Handles, p \in Arguments, mode \in Modes : ScopedOpen(s, f, p, mode)
  \/ \E p \in Arguments : EnsureDirectory(s, p)

\* Others use the file system below, and the handles a scope opened: a
\* ScopedFile hands every call on to the file it wraps.
Others == Next /\ UNCHANGED <<scopes, said>>

ScopedNext ==
  \/ \E s \in Scopes, root \in Roots : Construct(s, root)
  \/ \E s \in Scopes, root \in Roots : GetScoped(s, root)
  \/ \E s, t \in Scopes, p \in Arguments : GetScopedOfScope(s, t, p)
  \/ \E s \in Scopes : ScopedCall(s)
  \/ Others

ScopedSpec == ScopedInit /\ [][ScopedNext]_scopedVars

-----------------------------------------------------------------------------
(* Correctness.                                                            *)

RootLocation(s) == Components(Segments(scopes[s]))

\* The root's location up to the first doubled slash: behind one, a lookup takes
\* the empty segment for a name, where remove and rename pass over it when it is
\* the last of the directory's.
Boundary(s) ==
  LET root  == RootLocation(s)
      plain == {i \in DOMAIN root : \A j \in 1..i : root[j] # Empty}
  IN SubSeq(root, 1, Cardinality(plain))

\* The entry at each location.
Entries(h) ==
  LET linked == Linked(h, MaxNodes - 1) IN
  [l \in {e.at : e \in linked} |->
     LET e == CHOOSE e \in linked : e.at = l
     IN [node |-> e.node, isDirectory |-> h[e.node].isDirectory]]

\* Whatever is done through a scope, and whatever its root has become, changes
\* no entry outside its root, but for those above it: a missing one is made again,
\* and a file that took the place of one is turned into a directory. A root with a
\* doubled slash keeps to what is before that: of "/a//", remove of "b" removes
\* "/a/b".
Confined ==
  [][\A s \in Scopes :
       LET before == Entries(heap)
           after  == Entries(heap')
       IN scopes[s] # NoScope /\ heap' # heap /\ ScopedCall(s) =>
            \A l \in DOMAIN before \cup DOMAIN after :
              \/ IsPrefix(Boundary(s), l)
              \/ l \in DOMAIN before /\ l \in DOMAIN after /\ before[l] = after[l]
              \/ /\ IsPrefix(l, Boundary(s))
                 /\ l \in DOMAIN after /\ after[l].isDirectory
                 /\ l \in DOMAIN before => before[l].node = after[l].node]_scopedVars

\* The path that list on a scope shows for an entry. An open file goes on showing
\* the path it was opened with.
Shown(s, node) == ExposePath(scopes[s], <<Empty>> \o heap[node].path)

\* What a scope's listing shows leads back: an entry below its root, or a file
\* that is its root, which list shows alone, is found through the scope under the
\* path the listing shows it with, after any renames of it or of the directories
\* above. The in-memory file system reports absolute paths, so that this fails for
\* a root that was given without a leading '/', and for the root itself if it was
\* given with a final one.
LeadsBack ==
  \A s \in Scopes :
    scopes[s] # NoScope /\ scopes[s][1] = Empty =>
      \A l \in BoundedSeq(Names \ {Empty}, MaxNodes) :
        LET n == Walk(heap, l)[Len(l)] IN
        n # Null /\ IsPrefix(RootLocation(s), l)
          /\ (l = RootLocation(s) => Last(scopes[s]) # Empty \/ scopes[s] = Slash)
        => FindNode(heap, Inner(s, Shown(s, n))) = n

\* When ensureDirectory has returned true, there is a directory at the path, or
\* the file that was there before; only of what isRoot takes for a root does it
\* say so without looking.
EnsuredIsThere ==
  [][\A s \in Scopes : \A p \in Arguments :
       EnsureDirectory(s, p) /\ ~IsRoot(p) =>
         \E node \in DOMAIN heap' :
           /\ node = FindNode(heap', Inner(s, p))
           /\ heap'[node].isDirectory \/ ScopedExists(heap, s, p)]_scopedVars
=============================================================================
