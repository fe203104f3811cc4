------------------------------ MODULE FilePath ------------------------------
(***************************************************************************)
(* Paths as the file systems take them apart.  A path string is the        *)
(* sequence of segments left when one leading '/' is stripped and the rest *)
(* is split at every '/': "/a/b" and "a/b" are <<a, b>>, "a/" is           *)
(* <<a, Empty>>, "//a" is <<Empty, a>>, and "" and "/" are <<Empty>>.      *)
(***************************************************************************)
EXTENDS Naturals, Sequences, SequencesExt

CONSTANT Empty  \* the segment between two adjacent '/' or after a final one

\* PathUtility::getFileName and getDirName cut at the last '/'. Of a path of
\* one segment the directory is "", which every caller takes for "/".
FileName(p) == Last(p)
DirName(p) == Front(p)

\* The segments a lookup walks: a final '/' ends the loop before an empty
\* segment is taken.
Components(p) == IF p # <<>> /\ Last(p) = Empty THEN Front(p) ELSE p

\* PathUtility::join(parent, name): no second '/' after one that is there, so
\* an empty last segment of the parent gives way to the name.
JoinPath(parent, nm) ==
  IF Last(parent) = Empty THEN Append(Front(parent), nm) ELSE Append(parent, nm)

\* Where remove and rename look for the entry a path names: under getFileName
\* in the children of the node at getDirName.
Location(p) == Append(Components(DirName(p)), FileName(p))
=============================================================================
