-------------------------- MODULE DirectoryListing --------------------------
(***************************************************************************)
(* list, of the in-memory file system and of the three adapters over a     *)
(* host: a walk that calls its caller back for every entry, while the      *)
(* callback, and on a host anybody, edits the directories it walks, and    *)
(* while the host may fail to open or to read any of them.                 *)
(*                                                                         *)
(* One listing of a directory that was opened and stays (otherwise list    *)
(* returns false at once, or in memory what the callback says of a file);  *)
(* a name that was removed is not used again.                              *)
(***************************************************************************)
EXTENDS Naturals, Sequences, SequencesExt, FiniteSetsExt

CONSTANTS
  Backends,    \* a subset of {"memory", "posix", "windows", "arduino"}
  Names,       \* numbers, in the order std::map has the names in
  MaxDepth,    \* bound: directories in directories
  MaxEdits,    \* bound: entries created and removed during the listing
  MaxFailures  \* bound: failures of the host

ASSUME BackendsAssumption == Backends \subseteq {"memory", "posix", "windows", "arduino"}
ASSUME NamesAssumption == Names \subseteq Nat \ {0}
ASSUME BoundsAssumption == {MaxDepth, MaxEdits, MaxFailures} \subseteq Nat

VARIABLES
  backend, recursive,
  isDirectory,  \* of every entry there ever was, by location
  removed,      \* those of them that are gone
  added,        \* those that came during the listing
  stack,        \* the enumerations in progress, the innermost last
  asked,        \* the entry the callback is running for, as a set
  reported,     \* the entries the callback was called for
  refused,      \* the directories in which it returned false
  unopened,     \* history: directories that were gone, or that the host did not open
  broken,       \* history: directories that the host failed to read to their end
  result        \* what list returns: "none", "true", "false", or "undefined"

edited == <<isDirectory, removed, added>>
failed == <<unopened, broken>>
vars == <<backend, recursive, edited, stack, asked, reported, refused, failed, result>>

Locations == BoundedSeq(Names, MaxDepth) \ {<<>>}

Present == DOMAIN isDirectory \ removed
Children(d) == {n \in Names : Append(d, n) \in Present}

\* An enumeration: the names it has yet to return, those it may return though
\* they are gone or new, and the last one it returned.
Enumeration(d) == [dir |-> d, due |-> Children(d), may |-> Children(d), last |-> 0]

\* Any tree: files have nothing below them.
Trees ==
  {f \in UNION {[S -> BOOLEAN] : S \in SUBSET Locations} :
     \A l \in DOMAIN f : Len(l) > 1 => Front(l) \in DOMAIN f /\ f[Front(l)]}

Init ==
  /\ backend \in Backends /\ recursive \in BOOLEAN
  /\ isDirectory \in Trees
  /\ removed = {} /\ added = {}
  /\ stack = <<Enumeration(<<>>)>>
  /\ asked = {} /\ reported = {} /\ refused = {} /\ unopened = {} /\ broken = {}
  /\ result = "none"

-----------------------------------------------------------------------------
(* Edits. In memory only the callback makes them; a host has other users.  *)

Editable ==
  /\ result = "none" /\ Cardinality(removed) + Cardinality(added) < MaxEdits
  /\ backend = "memory" => asked # {}

\* A memory walk goes on from its map's iterator and returns all names behind
\* it that are there; readdir owes nothing about those that come or go.
CreateEntry(l, directory) ==
  /\ Editable
  /\ l \notin DOMAIN isDirectory
  /\ Len(l) > 1 => (Front(l) \in Present /\ isDirectory[Front(l)])
  /\ isDirectory' = [m \in DOMAIN isDirectory \cup {l} |->
                       IF m = l THEN directory ELSE isDirectory[m]]
  /\ added' = added \cup {l}
  /\ stack' = [i \in DOMAIN stack |->
       IF stack[i].dir # Front(l) THEN stack[i]
       ELSE IF backend # "memory" THEN [stack[i] EXCEPT !.may = @ \cup {Last(l)}]
       ELSE IF Last(l) < stack[i].last THEN stack[i]
       ELSE [stack[i] EXCEPT !.due = @ \cup {Last(l)}, !.may = @ \cup {Last(l)}]]
  /\ UNCHANGED <<backend, recursive, removed, asked, reported, refused, failed, result>>

\* In memory an entry goes with everything below it; a host removes what is
\* empty.
RemoveEntry(l) ==
  LET below == {m \in Present : IsPrefix(l, m)} IN
  /\ Editable
  /\ l \in Present
  /\ backend # "memory" => below = {l}
  /\ removed' = removed \cup below
  /\ stack' = [i \in DOMAIN stack |->
       IF stack[i].dir # Front(l) THEN stack[i]
       ELSE [stack[i] EXCEPT !.due = @ \ {Last(l)},
                             !.may = IF backend = "memory" THEN @ \ {Last(l)} ELSE @]]
  /\ UNCHANGED <<backend, recursive, isDirectory, added, asked, reported, refused, failed, result>>

-----------------------------------------------------------------------------
(* The walk.                                                               *)

Top == Last(stack)

\* The next entry, in the map's order or in any.
Report(n) ==
  /\ result = "none" /\ asked = {}
  /\ n \in Top.may
  /\ backend = "memory" => n = Min(Top.may)
  /\ stack' = [stack EXCEPT ![Len(stack)] = [Top EXCEPT !.due = @ \ {n}, !.may = @ \ {n}, !.last = n]]
  /\ asked' = {Append(Top.dir, n)}
  /\ reported' = reported \cup asked'
  /\ UNCHANGED <<backend, recursive, edited, refused, failed, result>>

\* The innermost enumeration returns true: to the lambda of the one around it,
\* which goes on, or from list.
ReturnTrue ==
  /\ stack' = Front(stack)
  /\ result' = IF Len(stack) = 1 THEN "true" ELSE "none"

\* All of them return false.
ReturnFalse == stack' = <<>> /\ result' = "false"

EndOfDirectory ==
  /\ result = "none" /\ asked = {} /\ Top.due = {}
  /\ ReturnTrue
  /\ UNCHANGED <<backend, recursive, edited, asked, reported, refused, failed>>

Fails == Cardinality(unopened \ removed) + Cardinality(broken) < MaxFailures

\* readdir and openNextFile say the same at an error and at the end.
PosixBroken == ReturnTrue
ArduinoBroken == ReturnTrue

\* FindNextFileA tells them apart, and the enumeration returns false: from list,
\* or to the lambda of the one around it, which thereby ends and returns true.
WindowsBroken ==
  IF Len(stack) = 1 THEN ReturnFalse
  ELSE /\ stack' = Front(Front(stack))
       /\ result' = IF Len(stack) = 2 THEN "true" ELSE "none"

\* The host fails before the end of a directory.
Break ==
  /\ result = "none" /\ asked = {} /\ backend # "memory" /\ Fails
  /\ CASE backend = "posix"   -> PosixBroken
       [] backend = "windows" -> WindowsBroken
       [] OTHER               -> ArduinoBroken
  /\ broken' = broken \cup {Top.dir}
  /\ UNCHANGED <<backend, recursive, edited, asked, reported, refused, unopened>>

\* Mutant of MemoryRefused: only the directory ends.
MemoryRefusedBelow == ReturnTrue

\* The callback returns false.
MemoryRefused == ReturnFalse
PosixRefused == ReturnTrue
WindowsRefused == ReturnTrue
ArduinoRefused == ReturnTrue

Refuse(l) ==
  /\ asked = {l} /\ result = "none"
  /\ CASE backend = "memory"  -> MemoryRefused
       [] backend = "posix"   -> PosixRefused
       [] backend = "windows" -> WindowsRefused
       [] OTHER               -> ArduinoRefused
  /\ asked' = {}
  /\ refused' = refused \cup {Front(l)}
  /\ UNCHANGED <<backend, recursive, edited, reported, failed>>

\* The callback returned true and the walk goes on: into a directory, if the
\* listing is recursive.
Enters(l) == recursive /\ isDirectory[l]

GoOn == UNCHANGED <<stack, result>>
Enter(l) == stack' = Append(stack, Enumeration(l)) /\ UNCHANGED result

\* The memory walk holds a reference into the map it iterates over: once the
\* callback has removed the entry, or a directory it is in, there is nothing
\* defined to go on from.
MemoryAccepted(l) ==
  /\ UNCHANGED unopened
  /\ IF \E m \in removed : IsPrefix(m, l)
     THEN result' = "undefined" /\ stack' = <<>>
     ELSE IF Enters(l) THEN Enter(l) ELSE GoOn

\* On a host: a directory that is there is entered, unless the host refuses.
HostGoesOn(l) ==
  /\ UNCHANGED unopened
  /\ IF Enters(l) THEN l \notin removed /\ Enter(l) ELSE GoOn

NotEntered(l) ==
  /\ Enters(l) /\ (l \in removed \/ Fails)
  /\ unopened' = unopened \cup {l}

\* A directory that is gone or that opendir fails on cannot be listed, and the
\* lambda returns false as if the callback had: the enumeration around it ends,
\* and returns true. One that neither readdir nor stat tells the kind of is taken
\* for a file.
PosixAccepted(l) == HostGoesOn(l) \/ (NotEntered(l) /\ (ReturnTrue \/ GoOn))

\* FindFirstFileA likewise, and one it finds no file in is taken for empty.
WindowsAccepted(l) == HostGoesOn(l) \/ (NotEntered(l) /\ (ReturnTrue \/ GoOn))

\* Mutant of ArduinoAccepted: a failure below is taken for a refusal.
ArduinoAcceptedStopping(l) == HostGoesOn(l) \/ (NotEntered(l) /\ ReturnTrue)

\* Here a directory that cannot be opened is told from a refusal, and ends it all.
ArduinoAccepted(l) == HostGoesOn(l) \/ (NotEntered(l) /\ ReturnFalse)

Accept(l) ==
  /\ asked = {l} /\ result = "none"
  /\ CASE backend = "memory"  -> MemoryAccepted(l)
       [] backend = "posix"   -> PosixAccepted(l)
       [] backend = "windows" -> WindowsAccepted(l)
       [] OTHER               -> ArduinoAccepted(l)
  /\ asked' = {}
  /\ UNCHANGED <<backend, recursive, edited, reported, refused, broken>>

Returned == result # "none" /\ UNCHANGED vars

Next ==
  \/ \E l \in Locations, directory \in BOOLEAN : CreateEntry(l, directory)
  \/ \E l \in Present : RemoveEntry(l)
  \/ \E n \in Names : Report(n)
  \/ EndOfDirectory
  \/ Break
  \/ \E l \in asked : Refuse(l) \/ Accept(l)
  \/ Returned

Spec == Init /\ [][Next]_vars

-----------------------------------------------------------------------------
(* Correctness.                                                            *)

Stable == DOMAIN isDirectory \ (removed \cup added)

\* What the failures hide that list does not tell of: the rest of a directory that
\* could not be read to its end, on Windows of the one around it; and on POSIX and
\* Windows the rest of a directory with one in it that could not be entered.
Hidden(l) ==
  \/ \E d \in broken : IsPrefix(IF backend = "windows" THEN Front(d) ELSE d, l)
  \/ backend \in {"posix", "windows"} /\ \E d \in unopened : IsPrefix(Front(d), l)

\* A listing that returned true, and whose callback never refused, called it
\* for every entry that was there all along, whatever came and went meanwhile,
\* but for what the failures of the host hide. A directory that was removed after
\* the callback was told of it counts among them on POSIX and Windows: one
\* removal, of an entry the listing has already passed, silently hides its
\* siblings. What is nowhere below such a directory is never missing, and Arduino
\* returns true though it missed something only when reading a directory failed.
CompleteIfTrue ==
  result = "true" /\ refused = {} =>
    \A l \in Stable : l \in reported \/ (~recursive /\ Len(l) > 1) \/ Hidden(l)

\* Once the callback has returned false in a directory it is not called for
\* another entry of that directory, and in memory for no other entry at all; on
\* a host it still is called for the directories around it.
RefusalIsKept ==
  [][\A l \in reported' \ reported :
       /\ Front(l) \notin refused
       /\ (backend = "memory" => refused = {})]_vars
=============================================================================
