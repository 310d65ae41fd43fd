----------------------------- MODULE ScanFanout -----------------------------
(***************************************************************************)
(* The code review scanner: it settles its configuration, discovers the      *)
(* files, runs one agent session per file with a bound on how many at a      *)
(* time, and waits for all of them.  The sessions are tasks of their own;    *)
(* the findings go out from inside them, so all that the scan itself         *)
(* returns is whether it worked.  The job may be cancelled at any time.      *)
(***************************************************************************)
EXTENDS Naturals, FiniteSets

CONSTANTS
  Files,        \* the files discovery finds
  Native,       \* those whose path cannot be named to an agent
  Baseline,     \* the worker's own bound on concurrent sessions
  Patches,      \* bounds a lease's scanner_config may carry
  MaxPermits    \* the runtime's largest semaphore

ConstantsOK ==
  /\ IsFiniteSet(Files) /\ Native \subseteq Files
  /\ {Baseline, MaxPermits} \cup Patches \subseteq Nat

VARIABLES
  pc,         \* the scan: configure, discover, fan, join, ok or failed
  patch,      \* the bound the lease carries, if any, as a set
  limit,      \* max_concurrent_files
  files,      \* what discovery answered
  session,    \* each file's task, or "none"
  joined,     \* tasks whose handle was awaited
  cancelled

vars == <<pc, patch, limit, files, session, joined, cancelled>>

Init ==
  /\ pc = "configure"
  /\ patch \in {{}} \cup {{n} : n \in Patches}
  /\ limit = Baseline
  /\ files = {} /\ joined = {}
  /\ session = [f \in Files |-> "none"]
  /\ cancelled = FALSE

(***************************************************************************)
(* Configuration and discovery                                              *)
(***************************************************************************)
Patched == IF patch = {} THEN limit ELSE CHOOSE n \in patch : TRUE

\* A semaphore without permits would wait for ever, one too large panics.  The lease's other
\* limits, the bytes of a file and the seconds of a session, may not be zero either.
Valid(n, otherZero) == n # 0 /\ n <= MaxPermits /\ ~ otherZero

Configure(otherZero) ==
  /\ pc = "configure"
  /\ limit' = Patched
  /\ pc' = IF Valid(limit', otherZero) THEN "discover" ELSE "failed"
  /\ UNCHANGED <<patch, files, session, joined, cancelled>>

\* All or nothing (SourceDiscovery): nothing when the scan is cancelled, and when the
\* checkout's directory does not resolve.  An empty answer ends the scan, well.
Discover(found) ==
  /\ pc = "discover"
  /\ files' = found
  /\ pc' = IF found = {} THEN "ok" ELSE "fan"
  /\ UNCHANGED <<patch, limit, session, joined, cancelled>>

\* The blocking task panics.
DiscoverFails ==
  /\ pc = "discover"
  /\ pc' = "failed"
  /\ UNCHANGED <<patch, limit, files, session, joined, cancelled>>

(***************************************************************************)
(* Fan-out                                                                  *)
(***************************************************************************)
Spawned == {f \in files : session[f] # "none"}
\* A task holds its permit from before its start to its end.
Running == {f \in files : session[f] \in {"spawned", "running"}}

\* The loop takes a permit first, and looks at the token first of all.
Spawn(f) ==
  /\ pc = "fan" /\ f \in files \ Spawned
  /\ ~ cancelled
  /\ Cardinality(Running) < limit
  /\ session' = [session EXCEPT ![f] = "spawned"]
  /\ UNCHANGED <<pc, patch, limit, files, joined, cancelled>>

EndFan ==
  /\ pc = "fan"
  /\ cancelled \/ Spawned = files
  /\ pc' = "join"
  /\ UNCHANGED <<patch, limit, files, session, joined, cancelled>>

\* run_one: a file without a name is skipped, a prompt may fail to render, and a session
\* ends well or not, after a cancellation too.
Start(f, next) ==
  /\ session[f] = "spawned"
  /\ next \in IF f \in Native THEN {"skipped"} ELSE {"running", "failed"}
  /\ session' = [session EXCEPT ![f] = next]
  /\ UNCHANGED <<pc, patch, limit, files, joined, cancelled>>

SessionEnds(f, how) ==
  /\ session[f] = "running"
  /\ session' = [session EXCEPT ![f] = how]
  /\ UNCHANGED <<pc, patch, limit, files, joined, cancelled>>

Ended(f) == session[f] \in {"complete", "failed", "skipped"}

Join(f) ==
  /\ pc = "join" /\ f \in Spawned \ joined
  /\ Ended(f)
  /\ joined' = joined \cup {f}
  /\ UNCHANGED <<pc, patch, limit, files, session, cancelled>>

Errors == {f \in joined : session[f] = "failed"}
Skipped == {f \in joined : session[f] = "skipped"}

\* Fault: the handles are dropped once the last session has started.
FinishEarly ==
  /\ pc = "join"
  /\ pc' = "ok"
  /\ UNCHANGED <<patch, limit, files, session, joined, cancelled>>

\* Every one of the sessions there should have been errored.
Finish ==
  /\ pc = "join" /\ joined = Spawned
  /\ pc' = IF /\ Errors # {}
              /\ Cardinality(Errors) = Cardinality(files) - Cardinality(Skipped)
           THEN "failed" ELSE "ok"
  /\ UNCHANGED <<patch, limit, files, session, joined, cancelled>>

\* The lease is lost, the worker stops, or its security quarantines the job.
Cancel ==
  /\ ~ cancelled
  /\ cancelled' = TRUE
  /\ UNCHANGED <<pc, patch, limit, files, session, joined>>

Returned == pc \in {"ok", "failed"} /\ UNCHANGED vars

Own ==
  \/ \E otherZero \in BOOLEAN : Configure(otherZero)
  \/ \E found \in {{}, Files} : Discover(found)
  \/ EndFan \/ Finish
  \/ \E f \in Files : Spawn(f) \/ Join(f)

Task(f) ==
  \/ \E next \in {"running", "failed", "skipped"} : Start(f, next)
  \/ \E how \in {"complete", "failed"} : SessionEnds(f, how)

Next == Own \/ DiscoverFails \/ Cancel \/ Returned \/ \E f \in Files : Task(f)

Spec == Init /\ [][Next]_vars

\* The scan's own steps, and sessions that return (each has a timeout: AgentSession).
FairSpec == Spec /\ WF_vars(Own) /\ \A f \in Files : WF_vars(Task(f))

(***************************************************************************)
(* Properties                                                               *)
(***************************************************************************)
\* Types; a task belongs to a file that was discovered.
TypeOK ==
  /\ pc \in {"configure", "discover", "fan", "join", "ok", "failed"}
  /\ limit \in Nat
  /\ files \in {{}, Files}
  /\ session \in [Files -> {"none", "spawned", "running", "complete", "failed", "skipped"}]
  /\ \A f \in Files : session[f] # "none" => f \in files
  /\ joined \subseteq Spawned
  /\ cancelled \in BOOLEAN

\* The sessions that run at a time are no more than the worker's bound, or the lease's.
SessionsBounded == \A n \in IF patch = {} THEN {Baseline} ELSE patch : Cardinality(Running) <= n

\* The scan returns with no session of it still at work: what they submit, they submit
\* while the job is held.
NoneLeftRunning == pc \in {"ok", "failed"} => Running = {}

\* "A clean repository" is never said of one no session looked at: an uncancelled scan that
\* succeeds had a session that worked, unless discovery answered no file, or none that could
\* be named to one.
BrokenScanFails ==
  pc = "ok" /\ ~ cancelled /\ files \notin {{}, Native} => \E f \in files : session[f] = "complete"

\* Nor does a healthy session go to waste: a scan fails over its sessions only when none worked.
HealthySessionCounts ==
  pc = "failed" => \A f \in Files : session[f] # "complete"

\* A scan that was not cancelled looked at every file it discovered.
EveryFileReviewed ==
  pc = "ok" /\ ~ cancelled => \A f \in files : Ended(f)

\* The scan's sessions keep to their bound, end before it does and decide its answer
\* (source_discovery.rs fan-out).
FanoutSound ==
  /\ TypeOK /\ SessionsBounded /\ NoneLeftRunning /\ EveryFileReviewed /\ BrokenScanFails
  /\ HealthySessionCounts

\* The scan ends, whichever bound the lease asks for.
ScanReturns == <>(pc \in {"ok", "failed"})
=============================================================================
