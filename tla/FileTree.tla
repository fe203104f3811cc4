------------------------------ MODULE FileTree ------------------------------
(***************************************************************************)
(* What a file system promises its callers, with no nodes and no pointers: *)
(* a map from locations to entries.  The domain is closed under prefixes,  *)
(* an operation touches only the locations below its arguments, a rename   *)
(* carries the contents along, and contents change by writes alone.        *)
(***************************************************************************)
EXTENDS FilePath

CONSTANTS
  Paths,    \* the path arguments of the operations
  Contents  \* what a file may hold

VARIABLE tree  \* from locations (sequences of names; <<>> is the root) to entries

Entry == [isDirectory : BOOLEAN, data : Contents]

Init == tree = [l \in {<<>>} |-> [isDirectory |-> TRUE, data |-> <<>>]]

\* t with every prefix of the path in it, the missing ones as directories; the
\* path itself is made what asDirectory says unless it ends in '/'.
Made(t, p, asDirectory) ==
  LET s == Components(p)
      named(l) == l = s /\ s = p
      prefixes == {SubSeq(s, 1, i) : i \in 0..Len(s)}
  IN [l \in DOMAIN t \cup prefixes |->
        IF l \notin DOMAIN t
        THEN [isDirectory |-> ~named(l) \/ asDirectory, data |-> <<>>]
        ELSE [t[l] EXCEPT !.isDirectory = @ \/ (named(l) /\ asDirectory)]]

Without(t, l) == [m \in {n \in DOMAIN t : ~IsPrefix(l, n)} |-> t[m]]

Make == \E p \in Paths, asDirectory \in BOOLEAN : tree' = Made(tree, p, asDirectory)

RemoveEntry ==
  \E p \in Paths :
    /\ p # <<Empty>>
    /\ Location(p) \in DOMAIN tree
    /\ tree' = Without(tree, Location(p))

\* The entry moves with everything below it and replaces what was at its
\* destination; it cannot move below itself.
Move ==
  \E p, q \in Paths :
    LET from  == Location(p)
        to    == Location(q)
        t     == Made(tree, DirName(q), TRUE)
        Old(l) == from \o SubSeq(l, Len(to) + 1, Len(l))
        moved == {to \o SubSeq(l, Len(from) + 1, Len(l)) :
                    l \in {m \in DOMAIN t : IsPrefix(from, m)}}
        kept  == DOMAIN Without(Without(t, from), to)
    IN /\ from \in DOMAIN tree
       /\ ~IsPrefix(from, Front(to))
       /\ tree' = [l \in kept \cup moved |-> IF l \in moved THEN t[Old(l)] ELSE t[l]]

\* A write changes one entry and never shortens it.
Write ==
  \E l \in DOMAIN tree, d \in Contents :
    /\ Len(tree[l].data) <= Len(d)
    /\ tree' = [tree EXCEPT ![l].data = d]

Next == Make \/ RemoveEntry \/ Move \/ Write

Spec == Init /\ [][Next]_tree
=============================================================================
