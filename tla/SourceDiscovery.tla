-------------------------- MODULE SourceDiscovery --------------------------
(***************************************************************************)
(* Which files of a checkout the code review looks at.  Six walks of the     *)
(* checkout look for project roots, then each root (or the whole checkout    *)
(* when there is none) is walked for source files.  The walks run on a       *)
(* blocking thread, and the job can be cancelled between any two entries.    *)
(* A tree is a function from absolute paths to entries; an entry is a        *)
(* directory, a file, or a symbolic link to a path.  Every entry can be read *)
(* and none changes: the code passes over what it cannot read.               *)
(***************************************************************************)
EXTENDS Naturals, Sequences, SequencesExt

CONSTANTS
  Trees,          \* the file trees to discover
  Workdir,        \* the checkout's path
  ExcludedDirs,   \* names of the dir: patterns
  TestNames,      \* names the file: patterns match
  SourceNames,    \* names with an extension of the include list
  Outputs,        \* names of the dotnet-output: patterns
  MarkerDepth     \* how deep package.json and build files are looked for (5 in the code)

VARIABLES
  tree,        \* the file tree
  stage,       \* the step of walk_source_files_cancellable
  roots,       \* directories to walk
  files,       \* single files to look at
  out,         \* files found so far, then the answer
  cancelled    \* the job's token

vars == <<tree, stage, roots, files, out, cancelled>>

Init ==
  /\ tree \in Trees
  /\ stage = "cargo"
  /\ roots = {} /\ files = {} /\ out = {}
  /\ cancelled = FALSE

(***************************************************************************)
(* The file system                                                          *)
(***************************************************************************)
Parent(p) == SubSeq(p, 1, Len(p) - 1)
Is(p, kind) == p \in DOMAIN tree /\ tree[p].kind = kind
\* Links lead to directories and files, not to links.
Resolve(p) == IF Is(p, "link") THEN tree[p].to ELSE p
IsDir(p) == Is(Resolve(p), "dir")
IsFile(p) == Is(Resolve(p), "file")

\* Where a path leads that has a link on its way: a walk goes through the one it starts from.
Place(p) ==
  LET links == {i \in DOMAIN p : Is(SubSeq(p, 1, i), "link")}
  IN  IF links = {} THEN p
      ELSE LET i == CHOOSE i \in links : TRUE
           IN  Resolve(SubSeq(p, 1, i)) \o SubSeq(p, i + 1, Len(p))

\* canonicalize and starts_with: where a path leads decides, not how it is written.
IsWithinWorkdir(p) == Resolve(p) \in DOMAIN tree /\ IsPrefix(Workdir, Resolve(p))

(***************************************************************************)
(* Exclusion                                                                *)
(***************************************************************************)
HasComponent(p, names) == \E i \in DOMAIN p : p[i] \in names

\* The listing of a directory, or of the one a link leads to.  Links count as neither
\* files nor directories in it.
HoldsMark(dir, mark) ==
  \E p \in DOMAIN tree : Parent(p) = Place(dir) /\ Is(p, "file") /\ tree[p].mark = mark

\* bin and obj are build output beside a .NET project only.
IsDotnetOutputPath(p) ==
  \E i \in DOMAIN p : p[i] \in Outputs /\ HoldsMark(SubSeq(p, 1, i - 1), "dotnet")

MatchesExclude(p) ==
  HasComponent(p, ExcludedDirs) \/ IsDotnetOutputPath(p) \/ Last(p) \in TestNames

IsExcludedDir(p) == HasComponent(p, {".git"}) \/ MatchesExclude(p)

(***************************************************************************)
(* Walks: WalkDir follows a link it is given as root and no other, and does *)
(* not descend into what filter_entry refuses.  A walk yields pairs of the  *)
(* path as written and the place it stands for.                             *)
(***************************************************************************)
Walk(root, depth, refused(_)) ==
  LET at == Resolve(root)
  IN  {<<root \o SubSeq(p, Len(at) + 1, Len(p)), p>> :
         p \in {q \in DOMAIN tree :
                  /\ IsPrefix(at, q) /\ Len(q) <= Len(at) + depth
                  /\ \A n \in Len(at)..Len(q) :
                       ~ refused(root \o SubSeq(q, Len(at) + 1, n))}}

Deep == 100

\* The directories of the files with a mark that a walk of the checkout comes to.
MarkerDirs(mark, depth) ==
  {Parent(e[2]) : e \in {w \in Walk(Workdir, depth, IsExcludedDir) :
                           Is(w[2], "file") /\ tree[w[2]].mark = mark}}

ExistingDirs(bases, names) == {d \in {Append(b, n) : b \in bases, n \in names} : IsDir(d)}

\* The workspace's own exclude list, when the root manifest parses.
WorkspaceExcludes ==
  {p \in DOMAIN tree : Is(p, "dir") /\ tree[p].mark = "workspace-excluded"}

IsWorkspaceExcluded(p) == IsExcludedDir(p) \/ \E x \in WorkspaceExcludes : IsPrefix(x, p)

PackageDirs ==
  {Parent(e[2]) : e \in {w \in Walk(Workdir, Deep, IsWorkspaceExcluded) :
                           Is(w[2], "file") /\ tree[w[2]].mark = "cargo"}}

NodeDirs == {"src", "lib"}
BuildDirs == {"src", "include"}

(***************************************************************************)
(* The stages.  A walk cut short by the token yields part of its answer.    *)
(***************************************************************************)
Stages == <<"cargo", "node", "make", "dotnet", "gradle", "apple", "collect">>
NextStage(s) == Stages[1 + CHOOSE i \in DOMAIN Stages : Stages[i] = s]

Found(s) ==
  CASE s = "cargo" -> ExistingDirs(PackageDirs, {"src"})
    [] s = "node" -> ExistingDirs(MarkerDirs("node", MarkerDepth), NodeDirs)
    [] s = "make" -> MarkerDirs("make", MarkerDepth)
                       \cup ExistingDirs(MarkerDirs("make", MarkerDepth), BuildDirs)
    [] s = "dotnet" -> MarkerDirs("dotnet", Deep) \cup MarkerDirs("solution", Deep)
    [] s = "gradle" -> MarkerDirs("gradle", Deep)
    [] s = "apple" -> MarkerDirs("swift", Deep) \cup {Parent(d) : d \in MarkerDirs("xcode", Deep)}

BuildFiles(s) ==
  {f \in {Append(d, "build.rs") : d \in IF s = "cargo" THEN PackageDirs ELSE {}} : IsFile(f)}

Cut(set, got) == got \subseteq set /\ (~ cancelled => got = set)

AddRoots(s, got, gotFiles) ==
  /\ stage = s
  /\ Cut(Found(s), got)
  /\ Cut(BuildFiles(s), gotFiles)
  /\ roots' = roots \cup got
  /\ files' = files \cup gotFiles
  /\ stage' = NextStage(s)
  /\ UNCHANGED <<tree, out, cancelled>>

\* DiscoveredSourcePathDecoder: the names are those of the path as written, the size that
\* of the file it leads to.
Admitted(p, at) == Last(p) \in SourceNames /\ ~ MatchesExclude(p) /\ tree[at].small

\* Of links only the direct build.rs files are looked through.
CollectFrom(root) ==
  {w[1] : w \in {e \in Walk(root, Deep, IsExcludedDir) : Is(e[2], "file") /\ Admitted(e[1], e[2])}}

\* What the second half collects when nothing interrupts it.
Collected ==
  IF roots = {} /\ files = {}
  THEN CollectFrom(Workdir)
  ELSE {f \in files : IsWithinWorkdir(f) /\ Admitted(f, Resolve(f))}
         \cup UNION {CollectFrom(r) : r \in {d \in roots : IsWithinWorkdir(d)}}

\* Fault: a walk that was cut short keeps what it found.
CollectPart(got) ==
  /\ stage = "collect"
  /\ Cut(Collected, got)
  /\ out' = got
  /\ stage' = "checked"
  /\ UNCHANGED <<tree, roots, files, cancelled>>

\* The walks of the roots, each checked before it and cut short in it, and the last check.
Collect(got) ==
  /\ stage = "collect"
  /\ Cut(Collected, got)
  /\ out' = IF cancelled THEN {} ELSE got
  /\ stage' = "checked"
  /\ UNCHANGED <<tree, roots, files, cancelled>>

Answer ==
  /\ stage = "checked"
  /\ stage' = "answered"
  /\ UNCHANGED <<tree, roots, files, out, cancelled>>

Cancel ==
  /\ ~ cancelled /\ stage # "answered"
  /\ cancelled' = TRUE
  /\ UNCHANGED <<tree, stage, roots, files, out>>

Answered == stage = "answered" /\ UNCHANGED vars

Step ==
  \/ \E s \in Range(Stages) \ {"collect"} :
       /\ stage = s
       /\ \E got \in SUBSET Found(s), gotFiles \in SUBSET BuildFiles(s) : AddRoots(s, got, gotFiles)
  \/ /\ stage = "collect"
     /\ \E got \in SUBSET Collected : Collect(got)
  \/ Answer

Next == Step \/ Cancel \/ Answered

Spec == Init /\ [][Next]_vars

(***************************************************************************)
(* Properties                                                               *)
(***************************************************************************)
\* Roots and answers are paths of the tree, or of a linked root.
TypeOK ==
  /\ tree \in Trees
  /\ stage \in Range(Stages) \cup {"checked", "answered"}
  /\ \A r \in roots : IsDir(r)
  /\ \A f \in files : IsFile(f)
  /\ cancelled \in BOOLEAN

\* Said of single files instead of walks: no excluded name on the way to f, whatever a
\* walk would have pruned, and a project that is itself visible and has f in its part.
Visible(p) == ~ HasComponent(p, ExcludedDirs \cup {".git"}) /\ ~ IsDotnetOutputPath(p)

\* No name from the checkout's own on, as the walk to p meets them, is a test's.
NoTest(p) == \A n \in Len(Workdir)..Len(p) : p[n] \notin TestNames

Project(dir, mark, depth) ==
  /\ Is(dir, "dir") /\ IsPrefix(Workdir, dir) /\ Visible(dir) /\ NoTest(dir)
  /\ Len(dir) - Len(Workdir) < depth
  /\ \E p \in DOMAIN tree :
       Parent(p) = dir /\ tree[p].kind = "file" /\ tree[p].mark = mark /\ Last(p) \notin TestNames

Crate(dir) == Project(dir, "cargo", Deep) /\ ~ \E x \in WorkspaceExcludes : IsPrefix(x, dir)

InProject(root) ==
  \/ Crate(Parent(root)) /\ Last(root) = "src"
  \/ Project(Parent(root), "node", MarkerDepth) /\ Last(root) \in NodeDirs
  \/ Project(Parent(root), "make", MarkerDepth) /\ Last(root) \in BuildDirs
  \/ Project(root, "make", MarkerDepth)
  \/ \E mark \in {"dotnet", "solution", "gradle", "swift"} : Project(root, mark, Deep)
  \/ \E n \in {"App.xcodeproj"} : Project(Append(root, n), "xcode", Deep)

AnyRoot == \E p \in DOMAIN tree : Len(p) > 0 /\ ((IsDir(p) /\ InProject(p))
                                    \/ (IsFile(p) /\ Last(p) = "build.rs" /\ Crate(Parent(p))))

Eligible == {at \in DOMAIN tree : tree[at].kind = "file" /\ tree[at].small}

\* The files below root, as they are written below it.
Below(root) ==
  LET at == Resolve(root)
  IN  {root \o SubSeq(p, Len(at) + 1, Len(p)) : p \in {q \in Eligible : IsPrefix(at, q)}}

BuildScripts ==
  {f \in DOMAIN tree : Last(f) = "build.rs" /\ Crate(Parent(f))
                         /\ Resolve(f) \in Eligible /\ IsPrefix(Workdir, Resolve(f))}

Reviewed ==
  LET projects == {r \in DOMAIN tree : IsDir(r) /\ InProject(r) /\ IsPrefix(Workdir, Resolve(r))}
      all == IF AnyRoot THEN BuildScripts \cup UNION {Below(r) : r \in projects} ELSE Below(Workdir)
  IN  {f \in all : Last(f) \in SourceNames /\ Visible(f) /\ NoTest(f)}

\* What the walks find, with all their pruning, is every production file of every visible
\* project of the checkout, and of the whole checkout only where there is no project.
FindsTheProjects == stage \in {"checked", "answered"} /\ ~ cancelled => out = Reviewed

\* No file outside the checkout is handed to a session, whichever links the repository
\* holds and however their targets are marked.
StaysInside ==
  \A f \in out : \E at \in DOMAIN tree : IsPrefix(Workdir, at) /\ tree[at].kind = "file"
    /\ (at = Resolve(f) \/ \E r \in roots \cup {Workdir} :
          IsPrefix(r, f) /\ at = Resolve(r) \o SubSeq(f, Len(r) + 1, Len(f)))

\* A cancelled discovery answers with nothing or with everything, never with a part that
\* would pass for the whole.
AllOrNothing == stage \in {"checked", "answered"} => out \in {{}, Reviewed}

\* A walk that is not cancelled hands out the production files of the projects and no
\* file outside of the checkout (source_discovery.rs).
DiscoverySound == TypeOK /\ StaysInside /\ FindsTheProjects /\ AllOrNothing

=============================================================================
