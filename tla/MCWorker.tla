------------------------------ MODULE MCWorker ------------------------------
(***************************************************************************)
(* The worker's components for TLC.  They keep no state in common: WorkerJob *)
(* runs the lease, the others are what it calls on the way.  A behaviour     *)
(* therefore runs one of them, `part`, while the others stay as they begin,  *)
(* and the states of a run are the sum of the components' states.            *)
(***************************************************************************)
EXTENDS WorkerJob, Sequences, TLC

CONSTANTS
  Parts,              \* the components a configuration runs
  None,
  Conns, RequestCeiling, OutputCeiling, TokenCeiling, MaxChunk, MaxTokens,
  Callers, CacheKeys, MaxCached,
  AgentFindings, AgentPatches, GoodPatches,
  ScannedFiles, NativeFiles, FilesAtOnce, PatchedAtOnce, MaxPermits,
  GitUrls, HttpsUrls, MalformedUrls, OwnUrl, GitHelpers, ConnectionLimit

VARIABLES
  part,
  broker_pc, tainted, seen, chunk, requests, output, tokens, broker_quarantined, broker_cancelled,
  elsewhere, broker_shutdown, aborting, fin, sent, leaked, forwarded, late,
  disk, order, lock, pins, cache_pc, key, force, gone, cand, need,
  mode, child, stream, record, broker, call, buffer, hit, main, shutdown, result, stored, acked,
  net_mode, allow, net_pc, bwrap, slirp, filter, pending, net_result,
  tree, stage, roots, files, out, walk_cancelled,
  scan_pc, patch, limit, scan_files, session, joined, scan_cancelled,
  url, token, op, rewritten, effective, git_child, contacts, stop, thread, conn, served, backlog,
  helper

brokerVars == <<broker_pc, tainted, seen, chunk, requests, output, tokens, broker_quarantined,
                broker_cancelled, elsewhere, broker_shutdown, aborting, fin, sent, leaked,
                forwarded, late>>
cacheVars == <<disk, order, lock, pins, cache_pc, key, force, gone, cand, need>>
sessionVars == <<mode, child, stream, record, broker, call, buffer, hit, main, shutdown, result,
                 stored, acked>>
networkVars == <<net_mode, allow, net_pc, bwrap, slirp, filter, pending, net_result>>
discoveryVars == <<tree, stage, roots, files, out, walk_cancelled>>
fanoutVars == <<scan_pc, patch, limit, scan_files, session, joined, scan_cancelled>>
gitVars == <<url, token, op, rewritten, effective, git_child, contacts, stop, thread, conn, served,
             backlog, helper>>

-----------------------------------------------------------------------------
(***************************************************************************)
(* The instances.  In the runs two connections share one session's counters; *)
(* two leases share a cache that is too small for its repositories; a        *)
(* session reports one finding and patches that apply or not; a scan runs    *)
(* two sessions at once where nobody says otherwise.                         *)
(***************************************************************************)
Broker == INSTANCE ModelBroker WITH
  pc <- broker_pc, quarantined <- broker_quarantined,
  cancelled <- broker_cancelled, shutdown <- broker_shutdown

Cache == INSTANCE RepoCache WITH Keys <- CacheKeys, pc <- cache_pc

Session == INSTANCE AgentSession WITH
  Findings <- AgentFindings, Patches <- AgentPatches, server <- stored

Network == INSTANCE NetworkSupervisor WITH
  mode <- net_mode, pc <- net_pc, result <- net_result

Fanout == INSTANCE ScanFanout WITH
  Files <- ScannedFiles, Native <- NativeFiles, Baseline <- FilesAtOnce, Patches <- PatchedAtOnce,
  pc <- scan_pc, files <- scan_files, cancelled <- scan_cancelled

Git == INSTANCE GitCredentials WITH
  Urls <- GitUrls, Https <- HttpsUrls, Malformed <- MalformedUrls, Helpers <- GitHelpers,
  child <- git_child

-----------------------------------------------------------------------------
(***************************************************************************)
(* The trees SourceDiscovery walks: a checkout W, a directory outside of it, *)
(* two of these features, and a package at the top or none.                 *)
(***************************************************************************)
W == <<"w">>
Outside == <<"o">>

Dir == [kind |-> "dir", mark |-> "none", small |-> TRUE, to |-> <<>>]
File == [Dir EXCEPT !.kind = "file"]
Large == [File EXCEPT !.small = FALSE]
Marker(m) == [Dir EXCEPT !.kind = "file", !.mark = m]
Link(p) == [Dir EXCEPT !.kind = "link", !.to = p]

Features == {
  <<"w", "Cargo.toml">> :> Marker("cargo"),
  <<"w", "src">> :> Dir @@ <<"w", "src", "a.rs">> :> File @@ <<"w", "src", "a_test.rs">> :> File
    @@ <<"w", "src", "big.rs">> :> Large,
  <<"w", "src">> :> Link(Outside),
  <<"w", "build.rs">> :> Link(Outside \o <<"c.rs">>),
  <<"w", "build.rs">> :> File,
  <<"w", "build.rs">> :> Link(<<"w", "notes">>) @@ <<"w", "notes">> :> File,
  <<"w", "q">> :> Dir @@ <<"w", "q", "lib.fsproj">> :> Marker("dotnet") @@ <<"w", "q", "bin">> :> Dir
    @@ <<"w", "q", "bin", "o.cs">> :> File @@ <<"w", "q", "d.cs">> :> File,
  <<"w", "p">> :> Dir @@ <<"w", "p", "package.json">> :> Marker("node") @@ <<"w", "p", "lib">> :> Link(<<"w", "q">>),
  <<"w", "q">> :> Dir @@ <<"w", "q", "b.js">> :> File @@ <<"w", "q", "Makefile">> :> Marker("make")
    @@ <<"w", "q", "src">> :> File,
  <<"w", "vendor">> :> Dir @@ <<"w", "vendor", "Cargo.toml">> :> Marker("cargo")
    @@ <<"w", "vendor", "src">> :> Dir @@ <<"w", "vendor", "src", "v.rs">> :> File,
  <<"w", "n">> :> [Dir EXCEPT !.mark = "workspace-excluded"] @@ <<"w", "n", "Cargo.toml">> :> Marker("cargo")
    @@ <<"w", "n", "src">> :> Dir @@ <<"w", "n", "src", "n.rs">> :> File,
  <<"w", "bin">> :> Dir @@ <<"w", "bin", "m.cs">> :> File,
  <<"w", "app.csproj">> :> Marker("dotnet"),
  <<"w", "all.sln">> :> Marker("solution"),
  <<"w", "g">> :> Dir @@ <<"w", "g", "build.gradle">> :> Marker("gradle") @@ <<"w", "g", "k.kt">> :> File
    @@ <<"w", "g", "README">> :> File,
  <<"w", "App.xcodeproj">> :> Dir @@ <<"w", "App.xcodeproj", "project.pbxproj">> :> Marker("xcode"),
  <<"w", "s">> :> Dir @@ <<"w", "s", "Package.swift">> :> Marker("swift") @@ <<"w", "s", "x.swift">> :> File,
  <<"w", "q">> :> Dir @@ <<"w", "q", "r">> :> Dir @@ <<"w", "q", "r", "Makefile">> :> Marker("make")
    @@ <<"w", "q", "r", "y.c">> :> File }

Base == W :> Dir @@ <<"w", ".git">> :> Dir @@ <<"w", ".git", "package.json">> :> Marker("node")
          @@ <<"w", "z.py">> :> File @@ Outside :> Dir @@ (Outside \o <<"c.rs">>) :> File

\* Of two features that disagree on a path, one wins whole.
Merge(a, b) == IF DOMAIN a \cap DOMAIN b = {} THEN a @@ b ELSE a

AllTrees ==
  {Merge(Merge(Merge(Base, f), g), h) :
     f, g \in Features, h \in {<<"w", "Cargo.toml">> :> Marker("cargo"), Base}}

Discovery == INSTANCE SourceDiscovery WITH
  Trees <- {Base} \cup (IF "discovery" \in Parts THEN AllTrees ELSE {}), Workdir <- W,
  ExcludedDirs <- {"vendor"}, TestNames <- {"a_test.rs"},
  SourceNames <- {"a.rs", "a_test.rs", "b.js", "big.rs", "build.rs", "c.rs", "d.cs", "k.kt", "m.cs",
                  "n.rs", "o.cs", "v.rs", "x.swift", "y.c", "z.py", "Package.swift"}, Outputs <- {"bin"}, MarkerDepth <- 2,
  cancelled <- walk_cancelled

ASSUME /\ Broker!ConstantsOK /\ Session!ConstantsOK /\ Cache!ConstantsOK
       /\ Fanout!ConstantsOK /\ Git!ConstantsOK

-----------------------------------------------------------------------------
\* Where a component may begin in several ways, the ones that do not run begin in one.
RunInit ==
  /\ part \in Parts
  /\ Init /\ Broker!Init /\ Cache!Init /\ Session!Init /\ Network!Init
  /\ Discovery!Init /\ Fanout!Init /\ Git!Init
  /\ part # "session" => mode = "scan"
  /\ part # "network" => (net_mode = "public" /\ ~allow)
  /\ part # "discovery" => tree = Base
  /\ part # "fanout" => patch = {}
  /\ part # "git" => (url = OwnUrl /\ token = "none" /\ rewritten = OwnUrl)

\* All components but p stay as they are.
Others(p) ==
  /\ UNCHANGED part
  /\ p # "job" => UNCHANGED vars
  /\ p # "broker" => UNCHANGED brokerVars
  /\ p # "cache" => UNCHANGED cacheVars
  /\ p # "session" => UNCHANGED sessionVars
  /\ p # "network" => UNCHANGED networkVars
  /\ p # "discovery" => UNCHANGED discoveryVars
  /\ p # "fanout" => UNCHANGED fanoutVars
  /\ p # "git" => UNCHANGED gitVars

RunNext ==
  \/ part = "job" /\ Next /\ Others("job")
  \/ part = "broker" /\ Broker!Next /\ Others("broker")
  \/ part = "cache" /\ Cache!Next /\ Others("cache")
  \/ part = "session" /\ Session!Next /\ Others("session")
  \/ part = "network" /\ Network!Next /\ Others("network")
  \/ part = "discovery" /\ Discovery!Next /\ Others("discovery")
  \/ part = "fanout" /\ Fanout!Next /\ Others("fanout")
  \/ part = "git" /\ Git!Next /\ Others("git")

runVars == <<part, vars, brokerVars, cacheVars, sessionVars, networkVars, discoveryVars,
             fanoutVars, gitVars>>
\* A broker whose owner is gone and a cache nobody uses rest.
Rest == part \in {"broker", "cache"} /\ UNCHANGED runVars

RunSpec == RunInit /\ [][RunNext \/ Rest]_runVars

\* The fairness of each component, for as long as it is the one that runs.
Fairness ==
  /\ WF_vars(part = "job" /\ Tick) /\ WF_vars(part = "job" /\ Reap)
  /\ \A w \in Workers : WF_vars(part = "job" /\ Progress(w))
  /\ WF_brokerVars(part = "broker" /\ Broker!AbortAll)
  /\ \A c \in Conns :
       /\ WF_brokerVars(part = "broker" /\ Broker!InPoll(c))
       /\ WF_brokerVars(part = "broker" /\ aborting /\ Broker!EndConnection(c))
       /\ WF_brokerVars(part = "broker" /\ Broker!Reap(c))
  /\ \A c \in Callers :
       /\ WF_cacheVars(part = "cache" /\ Cache!Work(c))
       /\ SF_cacheVars(part = "cache" /\ Cache!Acquire(c))
  /\ WF_sessionVars(part = "session" /\ Session!Worker)
  /\ WF_networkVars(part = "network" /\ Network!Supervisor)
  /\ WF_networkVars(part = "network" /\ Network!OrphansDie)
  /\ WF_fanoutVars(part = "fanout" /\ Fanout!Own)
  /\ \A f \in ScannedFiles : WF_fanoutVars(part = "fanout" /\ Fanout!Task(f))
  /\ WF_gitVars(part = "git" /\ (\/ \E ready \in BOOLEAN : Git!New(ready)
                                 \/ Git!Project \/ Git!ProjectEnds \/ Git!RunGit \/ Git!Drop))
  /\ WF_gitVars(part = "git" /\ Git!Accept)
  /\ WF_gitVars(part = "git" /\ (Git!Reply \/ Git!ReplyQuit))
  /\ WF_gitVars(part = "git" /\ (stop \/ served = ConnectionLimit) /\ Git!ThreadEnds)
  /\ \A h \in GitHelpers : WF_gitVars(part = "git" /\ Git!Help(h))

RunFairSpec == RunSpec /\ Fairness

-----------------------------------------------------------------------------
(***************************************************************************)
(* What the runs check, beside the properties of WorkerJob.  Each is stated, *)
(* with the code it is about, in the component's module.                    *)
(***************************************************************************)
\* ModelBroker: concurrent connections keep the session's ceilings and its secret.
CeilingsHold == part = "broker" => Broker!CeilingsHold

\* RepoCache: one refresh at a time, and as many pins as guards.
CacheSound == part = "cache" => Cache!CacheSound

\* AgentSession: what the agent was told is accepted is what the server gets.
VerdictsDelivered == part = "session" => Session!VerdictsDelivered

\* NetworkSupervisor: the command runs behind the whole filter, and no helper is left.
NetworkSound == part = "network" => Network!NetworkSound

\* SourceDiscovery: the files of the projects, all of them or none, and no others.
DiscoverySound == part = "discovery" => Discovery!DiscoverySound

\* ScanFanout: the sessions keep to their bound and decide the scan's answer.
FanoutSound == part = "fanout" => Fanout!FanoutSound

\* GitCredentials: the token is told for its own repository and ends with the operation.
CredentialSafe == part = "git" => Git!CredentialSafe

\* AgentSession: nothing reaches the server in the name of a run that has returned.
NothingAfterReturn == [][Session!NothingAfterReturnStep]_sessionVars

\* GitCredentials: a helper that was asked for a credential answers or tells Git to quit.
AnsweredOrQuit == [][Git!AnsweredOrQuitStep]_gitVars

\* A child process is never left to itself: no agent acts after its run has returned, and
\* no helper ends without an answer while Git waits for one.
ChildrenAccounted == NothingAfterReturn /\ AnsweredOrQuit

\* RepoCache: "Eviction skips any key with a non-zero refcount" (repo_cache.rs).
EvictionSkipsPinned == [][Cache!EvictionSkipsPinnedStep]_cacheVars

\* Every piece of the worker comes to an end by its own means: the lease's run, a revoked
\* broker session, the clone's lock, an agent's run, the start of a sandbox, a scan and a
\* git operation, whatever their peers do or fail to do.
WorkerEnds ==
  /\ LeaseEnds
  /\ Broker!SessionStops
  /\ Cache!LockReleased
  /\ part = "session" => Session!RunReturns
  /\ part = "network" => Network!StartEnds
  /\ part = "fanout" => Fanout!ScanReturns
  /\ Git!OperationEnds

\* Workers, connections, callers and helpers are interchangeable.
Symmetry == Permutations(Conns)
=============================================================================
