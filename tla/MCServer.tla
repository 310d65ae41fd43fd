------------------------------ MODULE MCServer ------------------------------
(***************************************************************************)
(* The server's delivery of reports and what it stands on, for TLC: the      *)
(* repositories' credentials, the workers' request budgets, the data         *)
(* directory and the upgrade of the database.  The modules have no state in  *)
(* common: a behaviour runs one of them, `part`, while the others stay as    *)
(* they begin, and the states of a run are the sum of the components'        *)
(* states.                                                                  *)
(***************************************************************************)
EXTENDS ReportDispatch, TLC

CONSTANTS
  Parts,            \* the components a configuration runs
  Urls, Trackers, Allowed, Apps, AppRequests, MaxRepo, MaxSecret, MaxTime,
  w1, w2, w3, d1, d2,     \* workers and their requests
  BudgetTime,
  Inits, Servers,
  Procs, Builds, StoredJobs, Verifies

VARIABLES
  part,
  repos, secrets, app, verifying, now,
  clock, entries, slot, window,
  files, dir_db, init, server,
  db, lock, proc

registryVars == <<repos, secrets, app, verifying, now>>
budgetVars == <<clock, entries, slot, window>>
dirVars == <<files, dir_db, init, server>>
upgradeVars == <<db, lock, proc>>

-----------------------------------------------------------------------------
\* Several trackers, of which some are allowed in app mode: repositories may meet at one.
Registering == INSTANCE Registry WITH Requests <- AppRequests

\* Two workers compete for a table with room for one ...
BucketSizes == [requests |-> 1, bytes |-> 4]
RefillRates == [requests |-> 1, bytes |-> 1]

Table == INSTANCE RequestBudget WITH
  Workers <- {w1, w2}, Slots <- {d1, d2}, Resources <- {"requests", "bytes"},
  Capacity <- BucketSizes, Rate <- RefillRates,
  MaxWorkers <- 1, IdleSeconds <- 1, ChunkSizes <- {4}, MaxDelay <- 1, MaxTime <- BudgetTime

\* ... and three, whose requests have no body, share one that holds two of them, so that a
\* worker whose entry was reclaimed comes back with a charge from before.
Budget == INSTANCE RequestBudget WITH
  Workers <- {w1, w2, w3}, Slots <- {d1, d2}, Resources <- {"requests"},
  Capacity <- BucketSizes, Rate <- RefillRates,
  MaxWorkers <- 2, IdleSeconds <- 1, ChunkSizes <- {}, MaxDelay <- 1, MaxTime <- BudgetTime

\* Runs of init, one after the other or at once, and of serve.
Dir == INSTANCE DataDir WITH db <- dir_db

\* Processes of several builds, and jobs of which some verify one finding.
Upgrading == INSTANCE Upgrade WITH Jobs <- StoredJobs

ASSUME /\ Registering!ConstantsOK /\ Table!ConstantsOK /\ Budget!ConstantsOK
       /\ Dir!ConstantsOK /\ Upgrading!ConstantsOK

-----------------------------------------------------------------------------
\* Where a component may begin in several ways, the ones that do not run begin in one.
RunInit ==
  /\ part \in Parts
  /\ Init /\ Registering!Init /\ (IF part = "table" THEN Table!Init ELSE Budget!Init)
  /\ Dir!Init /\ Upgrading!Init
  /\ part # "reports" => settings = CHOOSE s \in [to : Destinations, approve : ApprovalModes] : TRUE
  /\ part \notin {"table", "budget"} => window.worker = w1 /\ window.start = 0
  /\ part # "dir" => files["admin_key"] = Dir!Absent
  /\ part # "upgrade" => db = Upgrading!EmptyDb

\* All components but p stay as they are.
Others(p) ==
  /\ UNCHANGED part
  /\ p # "reports" => UNCHANGED vars
  /\ p # "registry" => UNCHANGED registryVars
  /\ p # "budget" => UNCHANGED budgetVars
  /\ p # "dir" => UNCHANGED dirVars
  /\ p # "upgrade" => UNCHANGED upgradeVars

RunNext ==
  \/ part = "reports" /\ Next /\ Others("reports")
  \/ part = "registry" /\ Registering!Next /\ Others("registry")
  \/ part = "table" /\ Table!Next /\ Others("budget")
  \/ part = "budget" /\ Budget!Next /\ Others("budget")
  \/ part = "dir" /\ Dir!Next /\ Others("dir")
  \/ part = "upgrade" /\ Upgrading!Next /\ Others("upgrade")

runVars == <<part, vars, registryVars, budgetVars, dirVars, upgradeVars>>

\* The clock's bound ends a budget's run, and both inits and the server may have ended.
Rest == part \in {"table", "budget", "dir"} /\ UNCHANGED runVars

RunSpec == RunInit /\ [][RunNext \/ Rest]_runVars

-----------------------------------------------------------------------------
(***************************************************************************)
(* What the runs check, beside the properties of ReportDispatch.  Each is    *)
(* stated, with the code it is about, in the component's module.            *)
(***************************************************************************)
\* Registry: every repository has the credential it reports with, for itself.
CredentialsSound == part = "registry" => Registering!CredentialsSound

\* RequestBudget: what a worker is admitted in a window is bounded by its buckets.
WindowBounded ==
  /\ part = "table" => Table!TypeOK /\ Table!WindowBounded
  /\ part = "budget" => Budget!TypeOK /\ Budget!WindowBounded

\* DataDir: success means a usable directory, and a server runs on one init's files.
BundleSound == part = "dir" => Dir!BundleSound

\* Upgrade: each migration is applied once, and the database is served as it asks.
UpgradeSound == part = "upgrade" => Upgrading!UpgradeSound

\* DataDir: no file of the bundle is written over.
WrittenOnce == [][Dir!WrittenOnceStep]_dirVars

\* Upgrade: only a build of the database's version writes to it.
WritersCurrent == [][Upgrading!WritersCurrentStep]_upgradeVars

\* Upgrade: a migration loses no job and no recorded verdict.
UpgradeKeepsJobs == [][Upgrading!UpgradeKeepsJobsStep]_upgradeVars

\* What an init or an upgrade finds on disk it does not destroy: no file is written over,
\* no job or verdict lost, and nothing written by a build that does not know the schema.
StoredIsKept == WrittenOnce /\ WritersCurrent /\ UpgradeKeepsJobs

\* Findings, identities and handlers are interchangeable.
Symmetry == Permutations(Findings) \cup Permutations(Identities) \cup Permutations(Dispatchers)
=============================================================================
