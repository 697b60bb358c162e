------------------------------- MODULE Crawl -------------------------------
(***************************************************************************)
(* How the files of a Zig project are found (crates/zag/src/project.rs).   *)
(* From one root file, or from the files the artifacts of a build script   *)
(* are rooted at, the crawl follows what every file imports; then each     *)
(* file becomes a module with a name of its own, and each import becomes   *)
(* the name of a module or is recorded as unresolved.                      *)
(***************************************************************************)
EXTENDS Integers, FiniteSets, TLC, SequencesExt

CONSTANTS
  Disks,            \* what may be on the disk: the imports of every file
  Requests,         \* what the program may be asked to read
  MaximumModules,   \* how many files the crawl follows
  Precedes(_, _)    \* the order of paths

ASSUME MaximumAssumption == MaximumModules \in Nat \ {0}

\* A path is the components below the directory the disk is seen from, and a
\* component is the words in it, what is between its `_`; "store.zig" is
\* <<"store">> and "db_store.zig" <<"db", "store">>.  Nothing is called just ".zig",
\* which leaves no word (project.rs:57).
Up == <<"..">>
Here == <<".">>
Component == Seq(STRING) \ {<< >>, <<"">>}
Path == Seq(Component)

\* The compiler's modules, a package, and a file at a path, which is relative.
Import == [kind : {"Compiler", "Package", "File"}, text : Path]

ASSUME DisksAssumption ==
  \A d \in Disks : IsFiniteSet(DOMAIN d) /\ DOMAIN d \subseteq Path
                   /\ \A path \in DOMAIN d : path # << >> /\ d[path] \in Seq(Import)

\* Of two paths one is before the other.
ASSUME PrecedesAssumption ==
  \A d \in Disks : \A left, right \in DOMAIN d :
    /\ ~ Precedes(left, left)
    /\ left # right => Precedes(left, right) \/ Precedes(right, left)
    /\ \A other \in DOMAIN d :
         Precedes(left, right) /\ Precedes(right, other) => Precedes(left, other)

\* A root file, or the directory of a build script, whether the script is
\* there, and what its artifacts say they are rooted at, if they say so.
NoRoot == << >>
Request ==
  [kind : {"File"}, path : Path]
    \cup [kind : {"Script"}, directory : Path, present : BOOLEAN, declared : Seq(Path)]

ASSUME RequestsAssumption ==
  Requests \subseteq Request /\ \A r \in Requests : r.kind = "File" => r.path # << >>

VARIABLES
  disk, request,    \* read only
  pc,               \* "start", "crawl", "assemble" or "done"
  pending,          \* the files to read, the last one next
  visited,
  found,            \* the files read, in the order they were
  project           \* what is returned

vars == <<disk, request, pc, pending, visited, found, project>>

Normalised(path) ==
  FoldLeft(LAMBDA to, part : CASE part = Up   -> IF to = << >> THEN to ELSE Front(to)
                               [] part = Here -> to
                               [] OTHER       -> Append(to, part),
           << >>, path)

IsFile(path) == path \in DOMAIN disk
Joined(directory, text) == Normalised(directory \o text)

\* The files that are imported, a set of at most one for each import.
Resolved(from, import) ==
  { path \in {Joined(Front(from), import.text)} : import.kind = "File" /\ IsFile(path) }

Nothing == [kind |-> "Nothing"]
Error(reason) == [kind |-> "Error", reason |-> reason]
Project(modules, artifacts) ==
  [kind |-> "Project", modules |-> modules, artifacts |-> artifacts]

Init ==
  /\ disk \in Disks
  /\ request \in Requests
  /\ pc = "start"
  /\ pending = << >>
  /\ visited = {}
  /\ found = << >>
  /\ project = Nothing

Fail(reason) ==
  /\ pc' = "done"
  /\ project' = Error(reason)
  /\ UNCHANGED <<disk, request, pending, found>>

-----------------------------------------------------------------------------
(* Where to start.                                                         *)

StartAtFile ==
  /\ pc = "start"
  /\ request.kind = "File"
  /\ pc' = "crawl"
  /\ pending' = <<request.path>>
  /\ UNCHANGED <<disk, request, visited, found, project>>

\* The root of each artifact, where it names a file that is there.
ArtifactRoots ==
  [ i \in DOMAIN request.declared |->
      LET root == Joined(request.directory, request.declared[i])
      IN  IF request.declared[i] # NoRoot /\ IsFile(root) THEN root ELSE NoRoot ]

\* Each path after all those that are before it.
Sorted(paths, Before(_, _)) ==
  [ i \in 1 .. Cardinality(paths) |->
      CHOOSE path \in paths :
        Cardinality({ other \in paths : Before(other, path) }) = i - 1 ]

\* In order and each once, however many artifacts are rooted at it.
Roots == Sorted(ToSet(ArtifactRoots) \ {NoRoot}, Precedes)

StartAtScript ==
  /\ pc = "start"
  /\ request.kind = "Script"
  /\ request.present
  /\ Roots # << >>
  /\ pc' = "crawl"
  /\ pending' = Roots
  /\ UNCHANGED <<disk, request, visited, found, project>>

\* No script, a script the parser says nothing of, or nothing to start from.
ScriptFails ==
  /\ pc = "start"
  /\ request.kind = "Script"
  /\ \/ ~ request.present /\ Fail("NoScript")
     \/ request.present /\ Fail("Parser")
     \/ request.present /\ request.declared = << >> /\ Fail("NoArtifact")
     \/ /\ request.present /\ request.declared # << >> /\ Roots = << >>
        /\ Fail("NoRoot")
  /\ UNCHANGED visited

-----------------------------------------------------------------------------
(* The crawl.                                                              *)

Crawling == pc = "crawl" /\ pending # << >>
Top == Last(pending)

LimitReached == Len(found) >= MaximumModules

TooMany ==
  /\ Crawling
  /\ LimitReached
  /\ Fail("TooMany")
  /\ UNCHANGED visited

\* Mutant of Again: a file that was read ends the crawl.
AgainEnds ==
  /\ Crawling
  /\ ~ LimitReached
  /\ Top \in visited
  /\ pending' = << >>
  /\ UNCHANGED <<disk, request, pc, visited, found, project>>

Again ==
  /\ Crawling
  /\ ~ LimitReached
  /\ Top \in visited
  /\ pending' = Front(pending)
  /\ UNCHANGED <<disk, request, pc, visited, found, project>>

\* The files a file imports that had not been read when it was.
Followed(path) ==
  FlattenSeq([ i \in DOMAIN disk[path] |->
                 SetToSeq(Resolved(path, disk[path][i]) \ (visited \cup {path})) ])

Read ==
  /\ Crawling
  /\ ~ LimitReached
  /\ Top \notin visited
  /\ IsFile(Top)
  /\ visited' = visited \cup {Top}
  /\ pending' = Front(pending) \o Followed(Top)
  /\ found' = Append(found, Top)
  /\ UNCHANGED <<disk, request, pc, project>>

\* The compiler cannot be run, or has nothing to say of the file.
AskFails ==
  /\ Crawling
  /\ ~ LimitReached
  /\ Top \notin visited
  /\ visited' = visited \cup {Top}
  /\ Fail("Ask")

Crawled ==
  /\ pc = "crawl"
  /\ pending = << >>
  /\ pc' = "assemble"
  /\ UNCHANGED <<disk, request, pending, visited, found, project>>

-----------------------------------------------------------------------------
(* The modules.                                                            *)

\* The directory that holds all files read: what their paths all start with.
CommonDirectory ==
  LET Start(path, n) == SubSeq(path, 1, n)
      shared == { n \in 0 .. Len(Head(found)) :
                    \A path \in ToSet(found) :
                      n < Len(path) /\ Start(path, n) = Start(Head(found), n) }
  IN  Start(Head(found), Max(shared))

Below(base, path) == SubSeq(path, Len(base) + 1, Len(path))

\* The words of a path below the base; separators and `_` come out the same.
ModuleName(base, path) == FlattenSeq(Below(base, path))

IsRoot(path) == request.kind = "File" /\ path = request.path

RootFirst(left, right) ==
  \/ IsRoot(left) /\ ~ IsRoot(right)
  \/ (IsRoot(left) <=> IsRoot(right)) /\ Precedes(left, right)

Ordered == Sorted(ToSet(found), RootFirst)

NameOf(base, path) == IF IsRoot(path) THEN << >> ELSE ModuleName(base, path)

\* Mutant of Reached: the directory an import is written from is not asked.
ReachedByName(from, import) ==
  { path \in ToSet(found) : import.kind = "File" /\ Last(path) = Last(import.text) }

\* The modules an import reaches, a set of at most one.
Reached(from, import) == Resolved(from, import) \cap ToSet(found)

\* The imports of a file of which something is so, in their order.
Imports(path, Test(_)) ==
  FlattenSeq([ i \in DOMAIN disk[path] |->
                 IF Test(disk[path][i]) THEN <<disk[path][i]>> ELSE << >> ])

ModuleOf(base, path) ==
  LET Found(import) == import.kind # "Compiler" /\ Reached(path, import) # {}
      Missing(import) == import.kind # "Compiler" /\ Reached(path, import) = {}
      Target(import) == NameOf(base, CHOOSE to \in Reached(path, import) : TRUE)
      resolved == Imports(path, Found)
  IN  [ name       |-> NameOf(base, path),
        path       |-> Below(base, path),
        imports    |-> [ i \in DOMAIN resolved |->
                           [import |-> resolved[i], module |-> Target(resolved[i])] ],
        unresolved |-> Imports(path, Missing) ]

\* The top level, where nothing of a project with a script is.
EmptyModule == [name |-> << >>, path |-> << >>, imports |-> << >>, unresolved |-> << >>]

Assemble ==
  /\ pc = "assemble"
  /\ pc' = "done"
  /\ LET base    == CommonDirectory
         modules == [ i \in DOMAIN Ordered |-> ModuleOf(base, Ordered[i]) ]
     IN  project' =
           IF request.kind = "File" THEN Project(modules, << >>)
           ELSE Project(<<EmptyModule>> \o modules,
                        [ i \in DOMAIN ArtifactRoots |->
                            IF ArtifactRoots[i] \in ToSet(found)
                            THEN {NameOf(base, ArtifactRoots[i])} ELSE {} ])
  /\ UNCHANGED <<disk, request, pending, visited, found>>

Returned == pc = "done" /\ UNCHANGED vars

Next ==
  \/ StartAtFile \/ StartAtScript \/ ScriptFails
  \/ TooMany \/ Again \/ Read \/ AskFails \/ Crawled \/ Assemble \/ Returned

Spec == Init /\ [][Next]_vars

-----------------------------------------------------------------------------
(* Properties.                                                             *)

\* The files that are there and can be reached from where the project starts.
Starts ==
  IF request.kind = "File" THEN {request.path} ELSE ToSet(ArtifactRoots) \ {NoRoot}

Imported(path) == UNION { Resolved(path, import) : import \in ToSet(disk[path]) }

Reachable ==
  { path \in DOMAIN disk :
      \A inside \in SUBSET DOMAIN disk :
        Starts \cap DOMAIN disk \subseteq inside
          /\ (\A from \in inside : Imported(from) \subseteq inside)
        => path \in inside }

IsRead == project.kind = "Project"
ModulesOf == { project.modules[i] : i \in DOMAIN project.modules }

(***************************************************************************)
(* The files of a project are the ones its roots reach; the first is the   *)
(* top level and no other is, which is what the tables take ROOT_MODULE to *)
(* be (zag-frontend/src/lib.rs:509); every artifact that is rooted at a    *)
(* file is rooted at the module it became; and an import is unresolved     *)
(* only where there is no file it could be of, so that a program is not    *)
(* read with a hole in it that is not there (project.rs:16-18).  However   *)
(* many files import it, in cycles too, and however it is spelled, a file  *)
(* is read once, and only a program of as many files as the crawl follows  *)
(* is refused, never one whose imports go around.                          *)
(***************************************************************************)
WholeProject ==
  /\ IsInjective(found)
  /\ Len(found) =< MaximumModules
  /\ project = Error("TooMany") => Cardinality(Reachable) >= MaximumModules
  /\ IsRead =>
      /\ ToSet(found) = Reachable
      /\ \A i \in DOMAIN project.modules :
           project.modules[i].name = << >> <=> i = 1
      /\ \A i \in DOMAIN project.artifacts :
           ArtifactRoots[i] # NoRoot =>
             \E module \in ModulesOf :
               /\ project.artifacts[i] = {module.name}
               /\ module.path = Below(CommonDirectory, ArtifactRoots[i])
      /\ \A i \in DOMAIN Ordered :
           LET module == project.modules[Len(project.modules) - Len(Ordered) + i]
           IN  ToSet(module.unresolved) =
                 { import \in ToSet(disk[Ordered[i]]) :
                     import.kind # "Compiler" /\ Resolved(Ordered[i], import) = {} }

=============================================================================
