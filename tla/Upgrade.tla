------------------------------ MODULE Upgrade ------------------------------
(***************************************************************************)
(* Opening the database: the pending migrations, the startup checks and     *)
(* both version markers are one immediate transaction, taken with foreign    *)
(* keys off (migrations::framework).  Builds of several ages start and stop  *)
(* on one file, can be killed at any point, and write to it while they       *)
(* serve.  A deployment is not mixed: a build starts while no process of     *)
(* another build is running.                                                 *)
(***************************************************************************)
EXTENDS Naturals, Sequences

CONSTANTS
  Procs,      \* server processes
  Builds,     \* the latest schema version each build knows
  Jobs,       \* rows of the jobs table
  Verifies    \* those that verify; they have one finding in common

ConstantsOK == Builds \subseteq 1..7 /\ Verifies \subseteq Jobs /\ "none" \notin Procs

VARIABLES
  db,         \* the committed database
  lock,       \* who holds the write lock
  proc        \* each process: its step, its build, its transaction, its connection's setting

vars == <<db, lock, proc>>

Null == "none"

NoRow == [state |-> "none", verdict |-> FALSE, cap |-> FALSE]
Row == [state : {"none", "queued", "leased", "succeeded"}, verdict : BOOLEAN, cap : BOOLEAN]

\* steps lists the migrations the tables have gone through, version and mirror are
\* schema_meta's row and PRAGMA user_version, unknown is a job of a kind nobody knows.
EmptyDb ==
  [version |-> 0, mirror |-> 0, steps |-> <<>>, unknown |-> FALSE,
   jobs |-> [j \in Jobs |-> NoRow]]

Idle == [pc |-> "idle", build |-> 0, tx |-> EmptyDb, keys |-> FALSE]

\* A new file, or one that an earlier build left, with a marker that may be behind
\* and a row that was written without foreign keys.
Init ==
  /\ \E v \in Builds \cup {0}, stale, unknown \in BOOLEAN :
       /\ unknown => v > 0
       /\ db = [EmptyDb EXCEPT !.version = v, !.steps = [k \in 1..v |-> k],
                               !.mirror = IF stale THEN 0 ELSE v, !.unknown = unknown]
  /\ lock = Null
  /\ proc = [p \in Procs |-> Idle]

(***************************************************************************)
(* The migrations                                                           *)
(***************************************************************************)
Leased(d) == {j \in Jobs : d.jobs[j].state = "leased"}
ActiveVerifies(d) == {j \in Verifies : d.jobs[j].state \in {"queued", "leased"}}

\* V2_JOB_CAPABILITIES: no capability exists for an old lease, so it is requeued, unless its
\* verdict is recorded.
JobCapabilities(row) ==
  IF row.state # "leased" THEN row
  ELSE [row EXCEPT !.state = IF row.verdict THEN "succeeded" ELSE "queued", !.cap = FALSE]

\* v3 rebuilds the jobs: it refuses a leased one, one of an unknown kind, and, by its index,
\* two active verify jobs of one finding.
RebuildsJobs(d) ==
  /\ Leased(d) = {}
  /\ ~ d.unknown
  /\ \A i, j \in ActiveVerifies(d) : i = j

\* v7 rebuilds the inventory and the retained evidence, and refuses a leased job.
RebuildsInventory(d) == Leased(d) = {}

Admits(v, d) ==
  /\ v = 3 => RebuildsJobs(d)
  /\ v = 7 => RebuildsInventory(d)

\* Db::finalize, on every start of a build that knows job kinds.
StartsWith(b, d) == b >= 3 => ~ d.unknown

\* The other versions add columns and tables, and change no row that is modelled.
Migrated(v, d) ==
  [d EXCEPT !.steps = Append(d.steps, v),
            !.jobs = IF v = 2 THEN [j \in Jobs |-> JobCapabilities(d.jobs[j])] ELSE d.jobs]

(***************************************************************************)
(* Opening                                                                  *)
(***************************************************************************)
Running == {p \in Procs : proc[p].pc # "idle"}

\* Db::open keys the connection and turns foreign keys on.
Open(p, b) ==
  /\ proc[p].pc = "idle"
  /\ \A q \in Running : proc[q].build = b
  /\ proc' = [proc EXCEPT ![p] = [Idle EXCEPT !.pc = "opened", !.build = b, !.keys = TRUE]]
  /\ UNCHANGED <<db, lock>>

DisableKeys(p) ==
  /\ proc[p].pc = "opened"
  /\ proc' = [proc EXCEPT ![p].pc = "begin", ![p].keys = FALSE]
  /\ UNCHANGED <<db, lock>>

\* The write lock first, then the version: a later build's schema is refused (the process
\* ends, below).
Begin(p) ==
  /\ proc[p].pc = "begin"
  /\ lock = Null
  /\ db.version <= proc[p].build
  /\ lock' = p
  /\ proc' = [proc EXCEPT ![p].pc = "migrate", ![p].tx = db]
  /\ UNCHANGED db

\* Fault: each migration commits on its own, the markers come last.
MigrateEach(p) ==
  LET tx == proc[p].tx
      v == Len(tx.steps) + 1
  IN  /\ proc[p].pc = "migrate"
      /\ v <= proc[p].build
      /\ Admits(v, tx)
      /\ proc' = [proc EXCEPT ![p].tx = Migrated(v, tx)]
      /\ db' = Migrated(v, tx)
      /\ UNCHANGED lock

Migrate(p) ==
  LET tx == proc[p].tx
      v == Len(tx.steps) + 1
  IN  /\ proc[p].pc = "migrate"
      /\ v <= proc[p].build
      /\ Admits(v, tx)
      /\ proc' = [proc EXCEPT ![p].tx = Migrated(v, tx)]
      /\ UNCHANGED <<db, lock>>

\* Both markers are written, then the startup checks run on the outcome.
Mark(p) ==
  /\ proc[p].pc = "migrate"
  /\ Len(proc[p].tx.steps) >= proc[p].build
  /\ StartsWith(proc[p].build, proc[p].tx)
  /\ proc' = [proc EXCEPT
       ![p].pc = "checked",
       ![p].tx.version = IF @ < proc[p].build THEN proc[p].build ELSE @,
       ![p].tx.mirror = proc[p].build]
  /\ UNCHANGED <<db, lock>>

RestoreKeys(p) ==
  /\ proc[p].pc = "checked"
  /\ proc' = [proc EXCEPT ![p].pc = "commit", ![p].keys = TRUE]
  /\ UNCHANGED <<db, lock>>

\* Nothing after the commit can fail.
Commit(p) ==
  /\ proc[p].pc = "commit"
  /\ db' = proc[p].tx
  /\ lock' = Null
  /\ proc' = [proc EXCEPT ![p].pc = "serving", ![p].tx = EmptyDb]

\* An error, a refusal, a busy lock, a stop or a crash: the transaction is dropped with its
\* connection.
Exit(p) ==
  /\ proc[p].pc # "idle"
  /\ proc' = [proc EXCEPT ![p] = Idle]
  /\ lock' = IF lock = p THEN Null ELSE lock
  /\ UNCHANGED db

(***************************************************************************)
(* A serving build's writes to the jobs, as far as the migrations read them *)
(***************************************************************************)
Writes(p, j, from, row) ==
  /\ proc[p].pc = "serving"
  /\ lock = Null
  /\ db.jobs[j].state = from
  /\ db' = [db EXCEPT !.jobs[j] = row]
  /\ UNCHANGED <<lock, proc>>

Enqueue(p, j) ==
  /\ proc[p].build >= 3 /\ j \in Verifies => ActiveVerifies(db) = {}
  /\ Writes(p, j, "none", [NoRow EXCEPT !.state = "queued"])

Lease(p, j) ==
  Writes(p, j, "queued", [db.jobs[j] EXCEPT !.state = "leased", !.cap = proc[p].build >= 2])

\* The verdict is durable before its job is completed.
RecordVerdict(p, j) ==
  /\ j \in Verifies
  /\ ~ db.jobs[j].verdict
  /\ Writes(p, j, "leased", [db.jobs[j] EXCEPT !.verdict = TRUE])

Complete(p, j) ==
  /\ j \in Verifies => db.jobs[j].verdict
  /\ Writes(p, j, "leased", [db.jobs[j] EXCEPT !.state = "succeeded", !.cap = FALSE])

Reap(p, j) ==
  /\ ~ db.jobs[j].verdict
  /\ Writes(p, j, "leased", [db.jobs[j] EXCEPT !.state = "queued", !.cap = FALSE])

Serve(p) ==
  \E j \in Jobs :
    Enqueue(p, j) \/ Lease(p, j) \/ RecordVerdict(p, j) \/ Complete(p, j) \/ Reap(p, j)

Next ==
  \E p \in Procs :
    \/ \E b \in Builds : Open(p, b)
    \/ DisableKeys(p) \/ Begin(p) \/ Migrate(p) \/ Mark(p) \/ RestoreKeys(p) \/ Commit(p)
    \/ Serve(p)
    \/ Exit(p)

Spec == Init /\ [][Next]_vars

(***************************************************************************)
(* Properties                                                               *)
(***************************************************************************)
\* The database, the transactions and the processes keep their types.
TypeOK ==
  /\ db.version \in 0..7 /\ db.mirror \in 0..7
  /\ db.jobs \in [Jobs -> Row]
  /\ lock \in Procs \cup {Null}
  /\ \A p \in Procs :
       /\ proc[p].pc \in {"idle", "opened", "begin", "migrate", "checked", "commit", "serving"}
       /\ proc[p].build \in Builds \cup {0}
       /\ proc[p].keys \in BOOLEAN
       /\ lock = p <=> proc[p].pc \in {"migrate", "checked", "commit"}

\* Whatever processes start, fail or are killed, the tables have gone through each
\* migration of the version they are marked with once, in order, and no other.
AppliedOnce == db.steps = [k \in 1..db.version |-> k]

\* What one step keeps of WritersCurrent.
WritersCurrentStep ==
  db' # db => \E p \in Procs :
    /\ proc[p].pc \in {"commit", "serving"}
    /\ proc[p].build = db'.version
    /\ db'.mirror = db'.version

\* Only a build of the schema's own version writes to the database: one that is behind
\* leaves a later schema as it is, both markers included.
WritersCurrent == [][WritersCurrentStep]_vars

\* What one step keeps of UpgradeKeepsJobs.
UpgradeKeepsJobsStep ==
  db'.version # db.version =>
    \A j \in Jobs :
      LET old == db.jobs[j]
          new == db'.jobs[j]
      IN  /\ new.verdict = old.verdict
          /\ new.state = IF old.state = "leased" /\ db.version < 2
                         THEN IF old.verdict THEN "succeeded" ELSE "queued"
                         ELSE old.state
          /\ new.state = "leased" => \A v \in {3, 7} : db'.version < v \/ v <= db.version

\* An upgrade, over however many versions, keeps every job: what was queued or decided stays
\* so; a lease from before capabilities ends, as succeeded if its verdict is recorded and as
\* queued if not, and a later one outlives only an upgrade that rebuilds nothing it uses.
UpgradeKeepsJobs == [][UpgradeKeepsJobsStep]_vars

\* Every lease of a database that knows capabilities has one.
LeasesHaveCapabilities == db.version >= 2 => \A j \in Leased(db) : db.jobs[j].cap

\* A process never serves on a connection that does not enforce foreign keys.
KeysEnforced == \A p \in Procs : proc[p].pc = "serving" => proc[p].keys

\* Processes of several builds that open one database, or die while they do, leave it
\* with each migration applied once and serve it as its version asks (migrations.rs).
UpgradeSound == TypeOK /\ AppliedOnce /\ LeasesHaveCapabilities /\ KeysEnforced

=============================================================================
