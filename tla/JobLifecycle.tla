---------------------------- MODULE JobLifecycle ----------------------------
(***************************************************************************)
(* The job queue, the findings and their verdicts, as loupe-storage keeps   *)
(* them for one repository: scan and verify jobs, worker leases, the lease  *)
(* reaper, the validating-deadline reaper and the operator's recoveries.    *)
(*                                                                         *)
(* Every action is one IMMEDIATE transaction of the code.  Between two of   *)
(* them any worker, operator request or background tick may run.           *)
(*                                                                         *)
(* Time is relative: a job row keeps the seconds left of its lease          *)
(* (lease_expires_at - now) and a finding row the seconds left before its   *)
(* validating_deadline, so that the clock itself need not be bounded.  A    *)
(* request stamps `now` when it arrives and may run its transaction up to   *)
(* RequestDelay seconds later; `delay` below is that difference.            *)
(***************************************************************************)
EXTENDS Integers, FiniteSets, StateMachine

CONSTANTS
  Jobs,               \* rows of the jobs table, used and unused
  Findings,           \* fingerprints, the identity of a finding in its repository
  Workers,            \* registered workers
  VerifyWorkers,      \* those that advertise a verify:* capability
  Attempts,           \* running worker attempts; each holds one job capability
  None,               \* SQL NULL
  MAX_ATTEMPTS,       \* leases of one enqueue before the job fails
  LEASE_SECONDS,      \* DEFAULT_LEASE_SECONDS
  VALIDATING_BUDGET,  \* DEFAULT_VALIDATING_BUDGET_SECS
  RequestDelay,       \* bound: seconds between a request's stamp and its transaction
  RepoSettings        \* settings the operator gives the repository

ASSUME ConstantsAssumption ==
  /\ VerifyWorkers \subseteq Workers
  /\ None \notin Jobs \cup Findings \cup Workers \cup Attempts
  /\ MAX_ATTEMPTS \in Nat \ {0}
  /\ LEASE_SECONDS \in Nat \ {0}
  /\ VALIDATING_BUDGET \in Nat
  /\ RequestDelay \in Nat
  /\ RequestDelay <= LEASE_SECONDS
  /\ RequestDelay <= VALIDATING_BUDGET
  /\ RepoSettings \subseteq [verify : BOOLEAN, approve : BOOLEAN]

VARIABLES
  jobs,      \* the jobs table
  findings,  \* the findings table
  verdicts,  \* finding_verifications, by finding
  attempt,   \* what each running worker attempt was assigned
  repo,      \* the repository's verification and approval settings
  cause      \* auxiliary: what dismissed a finding last

vars == <<jobs, findings, verdicts, attempt, repo, cause>>

(***************************************************************************)
(* Rows                                                                     *)
(***************************************************************************)
LeaseFloor == - (RequestDelay + 1)

JobRow ==
  [state    : JobStates \cup {"absent"},
   kind     : {"scan", "verify"},
   target   : Findings \cup {None},
   worker   : Workers \cup {None},
   cap      : Attempts \cup {None},
   lease    : LeaseFloor .. LEASE_SECONDS,
   attempts : 0 .. MAX_ATTEMPTS,
   held     : BOOLEAN]  \* error is the quarantine's diagnostic

FindingRow ==
  [state    : FindingStates \cup {"absent"},
   job      : Jobs \cup {None},
   verify   : BOOLEAN,
   deadline : (-1) .. VALIDATING_BUDGET]

\* A verdict row written by the deadline reaper has no job.
VerdictRow == [job : Jobs \cup {None}, verdict : {"confirmed", "dismissed", "inconclusive"}]

Idle == [worker |-> None, job |-> None]

AttemptRow == [worker : Workers, job : Jobs] \cup {Idle}

NoJob ==
  [state |-> "absent", kind |-> "scan", target |-> None, worker |-> None, cap |-> None,
   lease |-> LeaseFloor, attempts |-> 0, held |-> FALSE]

NoFinding == [state |-> "absent", job |-> None, verify |-> FALSE, deadline |-> -1]

\* validating_deadline is read of validating findings only.
Settled(row, state) ==
  [row EXCEPT !.state = state, !.deadline = IF state = "validating" THEN @ ELSE -1]

\* enqueue_raw and enqueue_verify_jobs_for_scan insert the same initial row.
NewJob(kind, target) ==
  [NoJob EXCEPT !.state = JobTo.enqueue, !.kind = kind, !.target = target]

\* Fault: a lease column is forgotten.
ReleasedWithCapability(row) == [row EXCEPT !.worker = None, !.lease = LeaseFloor]

\* Every way out of a lease but completion clears the three lease columns.
Released(row) == [row EXCEPT !.worker = None, !.cap = None, !.lease = LeaseFloor]

Active(j) == jobs[j].state \in ActiveJobStates

\* Fault: a verify job that is queued is overlooked.
LeasedVerify(f) == {j \in Jobs : jobs[j].state = "leased" /\ jobs[j].kind = "verify"
                                 /\ jobs[j].target = f}

ActiveVerify(f) == {j \in Jobs : Active(j) /\ jobs[j].kind = "verify" /\ jobs[j].target = f}

PendingOf(j) == {f \in Findings : findings[f].state = "pending" /\ findings[f].job = j}

DeletePendingOf(j) ==
  [f \in Findings |-> IF f \in PendingOf(j) THEN NoFinding ELSE findings[f]]

Decisive(f) == \E v \in verdicts[f] : v.verdict \in {"confirmed", "dismissed"}

DeadlineMarked(f) == [job |-> None, verdict |-> "inconclusive"] \in verdicts[f]

Init ==
  /\ jobs = [j \in Jobs |-> NoJob]
  /\ findings = [f \in Findings |-> NoFinding]
  /\ verdicts = [f \in Findings |-> {}]
  /\ attempt = [a \in Attempts |-> Idle]
  /\ repo \in RepoSettings
  /\ cause = [f \in Findings |-> "none"]

(***************************************************************************)
(* Enqueueing.  The operator's enqueue does not look at other scans; the    *)
(* scheduler skips a due repository that has an active one.  Whether the    *)
(* repository is due is left open.                                          *)
(***************************************************************************)
EnqueueScan(j) ==
  /\ jobs[j].state \in JobFrom.enqueue
  /\ jobs' = [jobs EXCEPT ![j] = NewJob("scan", None)]
  /\ UNCHANGED <<findings, verdicts, attempt, repo, cause>>

ScheduleDue(j) ==
  /\ ~ \E k \in Jobs : Active(k) /\ jobs[k].kind = "scan"
  /\ EnqueueScan(j)

(***************************************************************************)
(* Claiming.  A verify job ranks before every scan for a worker that        *)
(* accepts both; which job of the best kind comes first (enqueued_at, id)   *)
(* is left open.  The capability is fresh: no other attempt or row has it.  *)
(***************************************************************************)
Candidate(w, j) ==
  /\ jobs[j].state \in JobFrom.lease
  /\ \/ /\ jobs[j].kind = "verify"
        /\ w \in VerifyWorkers
     \/ /\ jobs[j].kind = "scan"
        /\ w \in VerifyWorkers =>
             ~ \E k \in Jobs : jobs[k].state = "queued" /\ jobs[k].kind = "verify"

Leased(row, w, a) ==
  [row EXCEPT !.state = JobTo.lease, !.worker = w, !.cap = a, !.lease = LEASE_SECONDS,
              !.attempts = row.attempts + 1]

Claim(w, a, j) ==
  /\ Candidate(w, j)
  /\ attempt[a] = Idle
  /\ \A k \in Jobs : jobs[k].cap # a
  /\ jobs' = [jobs EXCEPT ![j] = Leased(@, w, a)]
  /\ attempt' = [attempt EXCEPT ![a] = [worker |-> w, job |-> j]]
  /\ UNCHANGED <<findings, verdicts, repo, cause>>

\* A claim whose stored rows cannot be decoded or delivered is rolled back and
\* the queued job is failed in its place (admission_quarantine::hold).
Quarantine(w, j) ==
  /\ Candidate(w, j)
  /\ jobs' = [jobs EXCEPT ![j] =
       [Released(@) EXCEPT !.state = "failed", !.held = TRUE]]
  /\ UNCHANGED <<findings, verdicts, attempt, repo, cause>>

(***************************************************************************)
(* Worker requests.  Each names its capability and runs in one transaction  *)
(* with the check that the capability still is the row's live lease at the  *)
(* time the request was stamped.                                            *)
(***************************************************************************)
LeaseHeld(a, delay) ==
  LET row == jobs[attempt[a].job]
  IN  /\ attempt[a] # Idle
      /\ row.state = "leased"
      /\ row.worker = attempt[a].worker
      /\ row.cap = a
      /\ row.lease + delay >= 0

\* Fault: the lease is renewed past its length.
HeartbeatAhead(a, delay) ==
  /\ LeaseHeld(a, delay)
  /\ jobs' = [jobs EXCEPT ![attempt[a].job] =
       [@ EXCEPT !.state = JobTo.heartbeat, !.lease = LEASE_SECONDS + delay]]
  /\ UNCHANGED <<findings, verdicts, attempt, repo, cause>>

Heartbeat(a, delay) ==
  /\ LeaseHeld(a, delay)
  /\ jobs' = [jobs EXCEPT ![attempt[a].job] =
       [@ EXCEPT !.state = JobTo.heartbeat, !.lease = LEASE_SECONDS - delay]]
  /\ UNCHANGED <<findings, verdicts, attempt, repo, cause>>

\* INSERT ... ON CONFLICT DO NOTHING: a fingerprint already stored is skipped,
\* whichever scan stored it.
SubmitFinding(a, f, delay) ==
  /\ LeaseHeld(a, delay)
  /\ jobs[attempt[a].job].kind = "scan"
  /\ findings[f].state \in FindingFrom.scan_accepted
  /\ findings' = [findings EXCEPT ![f] =
       [state |-> FindingTo.scan_accepted, job |-> attempt[a].job,
        verify |-> repo.verify, deadline |-> -1]]
  /\ UNCHANGED <<jobs, verdicts, attempt, repo, cause>>

\* The verdict row and the rolled-up state are written together.  `terminal`
\* rides on an inconclusive verdict and is not stored.
SubmitVerdict(a, verdict, terminal, delay) ==
  LET j == attempt[a].job
      f == jobs[j].target
      rows == verdicts[f] \cup {[job |-> j, verdict |-> verdict]}
      next == RollUpVerdicts(findings[f].state,
                             \E v \in rows : v.verdict = "confirmed",
                             \E v \in rows : v.verdict = "dismissed",
                             terminal, repo.approve)
  IN  /\ LeaseHeld(a, delay)
      /\ jobs[j].kind = "verify"
      /\ f \in Findings
      /\ findings[f].state # "absent"
      /\ terminal => verdict = "inconclusive"
      /\ verdicts' = [verdicts EXCEPT ![f] = rows]
      /\ findings' = [findings EXCEPT ![f] = Settled(@, next)]
      /\ cause' = IF next = "dismissed" /\ findings[f].state = "validating"
                  THEN [cause EXCEPT ![f] = "verdict"] ELSE cause
      /\ UNCHANGED <<jobs, attempt, repo>>

\* jobs::complete keeps worker_id, unlike the other ways out of a lease.
Completed(row, target) ==
  [row EXCEPT !.state = target, !.cap = None, !.lease = LeaseFloor]

\* Fault: the setting of the moment decides, not the one stored with the finding.
AcceptedByRepo(f, delay) ==
  IF repo.verify
  THEN [findings[f] EXCEPT !.state = FindingTo.scan_require_verification,
                           !.deadline = VALIDATING_BUDGET - delay]
  ELSE [findings[f] EXCEPT !.state = IF repo.approve THEN FindingTo.scan_await_approval
                                     ELSE FindingTo.scan_auto_confirm]

\* transition_scan_findings_after_success
Accepted(f, delay) ==
  IF findings[f].verify
  THEN [findings[f] EXCEPT !.state = FindingTo.scan_require_verification,
                           !.deadline = VALIDATING_BUDGET - delay]
  ELSE [findings[f] EXCEPT !.state = IF repo.approve THEN FindingTo.scan_await_approval
                                     ELSE FindingTo.scan_auto_confirm]

\* One verify job per validating finding of the scan; the partial unique index
\* on active verify jobs aborts the whole completion if one already exists.
CompleteScan(a, delay, newJob) ==
  LET j == attempt[a].job
      accepted == [f \in Findings |-> IF f \in PendingOf(j) THEN Accepted(f, delay)
                                      ELSE findings[f]]
      toVerify == {f \in Findings : accepted[f].state = "validating" /\ accepted[f].job = j}
  IN  /\ LeaseHeld(a, delay)
      /\ jobs[j].kind = "scan"
      /\ \A f \in toVerify : ActiveVerify(f) = {}
      /\ \A f \in toVerify : jobs[newJob[f]].state \in JobFrom.enqueue
      /\ \A f, g \in toVerify : newJob[f] = newJob[g] => f = g
      /\ findings' = accepted
      /\ jobs' = [k \in Jobs |->
           IF k = j THEN Completed(jobs[j], JobTo.complete_succeeded)
           ELSE IF \E f \in toVerify : newJob[f] = k
                THEN NewJob("verify", CHOOSE f \in toVerify : newJob[f] = k)
                ELSE jobs[k]]
      /\ UNCHANGED <<verdicts, attempt, repo, cause>>

\* A verify job succeeds only once some attempt of it has posted a verdict.
CompleteVerify(a, delay) ==
  LET j == attempt[a].job
  IN  /\ LeaseHeld(a, delay)
      /\ jobs[j].kind = "verify"
      /\ jobs[j].target \in Findings
      /\ \E v \in verdicts[jobs[j].target] : v.job = j
      /\ jobs' = [jobs EXCEPT ![j] = Completed(@, JobTo.complete_succeeded)]
      /\ UNCHANGED <<findings, verdicts, attempt, repo, cause>>

CompleteFailed(a, delay) ==
  LET j == attempt[a].job
  IN  /\ LeaseHeld(a, delay)
      /\ findings' = IF jobs[j].kind = "scan" THEN DeletePendingOf(j) ELSE findings
      /\ jobs' = [jobs EXCEPT ![j] = Completed(@, JobTo.complete_failed)]
      /\ UNCHANGED <<verdicts, attempt, repo, cause>>

\* The attempt is over: it finished, crashed or gave up.  The server learns of
\* it only from the lease.
AttemptEnds(a) ==
  /\ attempt[a] # Idle
  /\ attempt' = [attempt EXCEPT ![a] = Idle]
  /\ UNCHANGED <<jobs, findings, verdicts, repo, cause>>

(***************************************************************************)
(* Operator requests                                                        *)
(***************************************************************************)
\* Fault: the pending findings of a cancelled scan stay.
CancelJobOnly(j) ==
  /\ jobs[j].state \in JobFrom.cancel
  /\ jobs' = [jobs EXCEPT ![j] =
       [Released(@) EXCEPT !.state = JobTo.cancel]]
  /\ UNCHANGED <<findings, verdicts, attempt, repo, cause>>

Cancel(j) ==
  /\ jobs[j].state \in JobFrom.cancel
  /\ jobs' = [jobs EXCEPT ![j] =
       [Released(@) EXCEPT !.state = JobTo.cancel]]
  /\ findings' = IF jobs[j].kind = "scan" THEN DeletePendingOf(j) ELSE findings
  /\ UNCHANGED <<verdicts, attempt, repo, cause>>

Requeued(row) ==
  [Released(row) EXCEPT !.state = JobTo.retry, !.attempts = 0, !.held = FALSE]

Revalidated(f) ==
  [findings[f] EXCEPT !.state = FindingTo.retry_verification, !.deadline = VALIDATING_BUDGET]

RetryScan(j) ==
  /\ jobs[j].state \in JobFrom.retry
  /\ jobs[j].kind = "scan"
  /\ jobs' = [jobs EXCEPT ![j] = Requeued(@)]
  /\ UNCHANGED <<findings, verdicts, attempt, repo, cause>>

\* retry_failed on a verify job, by its target's state.
RetriableTarget(f) ==
  \/ findings[f].state = "validating"
  \/ /\ findings[f].state = "dismissed"
     /\ DeadlineMarked(f)
     /\ ~ Decisive(f)

RetryVerifyJob(j) ==
  LET f == jobs[j].target
  IN  /\ jobs[j].state \in JobFrom.retry
      /\ jobs[j].kind = "verify"
      /\ f \in Findings
      /\ RetriableTarget(f)
      /\ ActiveVerify(f) = {}
      /\ jobs' = [jobs EXCEPT ![j] = Requeued(@)]
      /\ findings' = [findings EXCEPT ![f] = Revalidated(f)]
      /\ UNCHANGED <<verdicts, attempt, repo, cause>>

\* The candidates of retry_verification_candidates.
RecoveryCandidate(f, includeInconclusive) ==
  /\ findings[f].verify
  /\ \/ findings[f].state = "dismissed" /\ DeadlineMarked(f)
     \/ /\ findings[f].state = "pending"
        /\ jobs[findings[f].job].state \in TerminalJobStates
     \/ findings[f].state = "validating"
  /\ ~ Decisive(f)
  /\ includeInconclusive \/ \A v \in verdicts[f] : v.job = None

FailedVerify(f) ==
  {j \in Jobs : jobs[j].state = "failed" /\ jobs[j].kind = "verify" /\ jobs[j].target = f}

\* One candidate of a retry-verify request.  The candidates of one request
\* are distinct findings with distinct jobs, so the request is this step once
\* per candidate.  A failed verify job of the finding is requeued if there is
\* one, otherwise j is a new row.
RetryVerification(f, includeInconclusive, j) ==
  /\ RecoveryCandidate(f, includeInconclusive)
  /\ ActiveVerify(f) = {}
  /\ \/ /\ j \in FailedVerify(f)
        /\ jobs' = [jobs EXCEPT ![j] = Requeued(@)]
     \/ /\ FailedVerify(f) = {}
        /\ jobs[j].state \in JobFrom.enqueue
        /\ jobs' = [jobs EXCEPT ![j] = NewJob("verify", f)]
  /\ findings' = [findings EXCEPT ![f] = Revalidated(f)]
  /\ UNCHANGED <<verdicts, attempt, repo, cause>>

Approve(f) ==
  /\ findings[f].state \in FindingFrom.approve
  /\ findings' = [findings EXCEPT ![f].state = FindingTo.approve]
  /\ UNCHANGED <<jobs, verdicts, attempt, repo, cause>>

Reject(f) ==
  /\ findings[f].state \in FindingFrom.reject
  /\ findings' = [findings EXCEPT ![f].state = FindingTo.reject]
  /\ cause' = [cause EXCEPT ![f] = "operator"]
  /\ UNCHANGED <<jobs, verdicts, attempt, repo>>

UpdateRepo ==
  /\ repo' \in RepoSettings
  /\ UNCHANGED <<jobs, findings, verdicts, attempt, cause>>

(***************************************************************************)
(* Report completion, reaper ticks and the clock                            *)
(***************************************************************************)
\* ReportReceipt::complete for one member of a delivered batch.
MarkReported(f) ==
  /\ findings[f].state \in FindingFrom.mark_reported
  /\ findings' = [findings EXCEPT ![f].state = FindingTo.mark_reported]
  /\ UNCHANGED <<jobs, verdicts, attempt, repo, cause>>

\* Fault: the last second of a lease is taken from its holder.
ExpiredEarly(j) == jobs[j].state = "leased" /\ jobs[j].lease <= 0

\* Fault: only jobs that can be requeued are reaped.
ExpiredInBudget(j) ==
  jobs[j].state = "leased" /\ jobs[j].lease < 0 /\ jobs[j].attempts < MAX_ATTEMPTS

Expired(j) == jobs[j].state = "leased" /\ jobs[j].lease < 0

Reaped(row) ==
  IF row.attempts < MAX_ATTEMPTS
  THEN [Released(row) EXCEPT !.state = JobTo.reap_to_queued]
  ELSE [Released(row) EXCEPT !.state = JobTo.reap_to_failed]

\* A scan that is out of attempts takes its pending findings with it; one that
\* is requeued keeps them.
ReapDeletes(f) ==
  /\ findings[f].state = "pending"
  /\ \E j \in Jobs : /\ j = findings[f].job
                     /\ Expired(j)
                     /\ jobs[j].attempts >= MAX_ATTEMPTS

ReapLeases ==
  /\ \E j \in Jobs : Expired(j)
  /\ jobs' = [j \in Jobs |-> IF Expired(j) THEN Reaped(jobs[j]) ELSE jobs[j]]
  /\ findings' = [f \in Findings |-> IF ReapDeletes(f) THEN NoFinding ELSE findings[f]]
  /\ UNCHANGED <<verdicts, attempt, repo, cause>>

Overdue(f) == findings[f].state = "validating" /\ findings[f].deadline < 0

ReapValidating ==
  /\ \E f \in Findings : Overdue(f)
  /\ findings' = [f \in Findings |->
       IF Overdue(f) THEN Settled(findings[f], FindingTo.deadline_expire)
       ELSE findings[f]]
  /\ verdicts' = [f \in Findings |->
       IF Overdue(f) THEN verdicts[f] \cup {[job |-> None, verdict |-> "inconclusive"]}
       ELSE verdicts[f]]
  /\ cause' = [f \in Findings |-> IF Overdue(f) THEN "deadline" ELSE cause[f]]
  /\ UNCHANGED <<jobs, attempt, repo>>

\* One second passes; only what a lease or a deadline comparison can see of it
\* is kept.
Tick ==
  /\ jobs' = [j \in Jobs |->
       IF jobs[j].lease > LeaseFloor THEN [jobs[j] EXCEPT !.lease = @ - 1] ELSE jobs[j]]
  /\ findings' = [f \in Findings |->
       IF findings[f].deadline > -1 THEN [findings[f] EXCEPT !.deadline = @ - 1]
       ELSE findings[f]]
  /\ UNCHANGED <<verdicts, attempt, repo, cause>>

Delays == 0 .. RequestDelay

WorkerStep(a) ==
  \/ \E w \in Workers, j \in Jobs : Claim(w, a, j)
  \/ \E d \in Delays : \/ Heartbeat(a, d)
                       \/ \E f \in Findings : SubmitFinding(a, f, d)
                       \/ \E v \in {"confirmed", "dismissed", "inconclusive"},
                             t \in BOOLEAN : SubmitVerdict(a, v, t, d)
                       \/ \E newJob \in [Findings -> Jobs] : CompleteScan(a, d, newJob)
                       \/ CompleteVerify(a, d)
                       \/ CompleteFailed(a, d)
  \/ AttemptEnds(a)

OperatorStep ==
  \/ \E j \in Jobs : EnqueueScan(j) \/ Cancel(j) \/ RetryScan(j) \/ RetryVerifyJob(j)
  \/ \E f \in Findings : Approve(f) \/ Reject(f)
  \/ \E f \in Findings, i \in BOOLEAN, j \in Jobs : RetryVerification(f, i, j)
  \/ UpdateRepo

ServerStep ==
  \/ \E j \in Jobs : ScheduleDue(j)
  \/ \E w \in Workers, j \in Jobs : Quarantine(w, j)
  \/ \E f \in Findings : MarkReported(f)
  \/ ReapLeases
  \/ ReapValidating
  \/ Tick

Next ==
  \/ \E a \in Attempts : WorkerStep(a)
  \/ OperatorStep
  \/ ServerStep

Spec == Init /\ [][Next]_vars

(***************************************************************************)
(* Properties                                                               *)
(***************************************************************************)

\* Every column of every row has its type: leases never exceed their length and
\* attempts never exceed MAX_ATTEMPTS, whatever mix of claims, reaps and retries.
TypeOK ==
  /\ jobs \in [Jobs -> JobRow]
  /\ findings \in [Findings -> FindingRow]
  /\ verdicts \in [Findings -> SUBSET VerdictRow]
  /\ attempt \in [Attempts -> AttemptRow]
  /\ repo \in [verify : BOOLEAN, approve : BOOLEAN]
  /\ cause \in [Findings -> {"none", "deadline", "verdict", "operator"}]

\* A queued job can be leased again: the reaper and the operator's retry never put
\* back a job whose attempts are used up (jobs.rs reap_legacy, requeue_failed).
AttemptBudget ==
  \A j \in Jobs : /\ jobs[j].state = "queued" => jobs[j].attempts < MAX_ATTEMPTS
                  /\ jobs[j].state = "leased" => jobs[j].attempts > 0

\* A capability opens at most one job, only while that job is leased, and only to
\* the attempt it was issued to: an attempt whose job went on without it (reaped,
\* cancelled, completed, claimed again) holds nothing.
CapabilityFence ==
  /\ \A j \in Jobs : jobs[j].cap # None <=> jobs[j].state = "leased"
  /\ \A j, k \in Jobs : jobs[j].cap = jobs[k].cap /\ jobs[j].cap # None => j = k
  /\ \A j \in Jobs : \A a \in Attempts :
       jobs[j].cap = a /\ attempt[a] # Idle => attempt[a] = [worker |-> jobs[j].worker, job |-> j]

\* A job's leases stay within its attempts, and the capability of each opens that job
\* to the attempt it was issued to and to nobody else (jobs.rs get_active_by_capability_hash).
LeaseFence == AttemptBudget /\ CapabilityFence

\* A pending finding is owned by a scan that may still settle it.  The one
\* exception is a scan the claim quarantined: it is failed without touching the
\* findings an earlier attempt of it submitted (admission_quarantine.rs hold).
PendingOwned ==
  \A f \in Findings : findings[f].state = "pending" =>
    \E j \in Jobs : /\ j = findings[f].job
                    /\ jobs[j].kind = "scan"
                    /\ \/ Active(j)
                       \/ jobs[j].state = "failed" /\ jobs[j].held

\* No finding is verified twice at once, however the scan's completion, the
\* reaper's requeues and the two operator recoveries interleave.
OneActiveVerify ==
  \A j, k \in Jobs :
    /\ Active(j) /\ jobs[j].kind = "verify"
    /\ Active(k) /\ jobs[k].kind = "verify"
    /\ jobs[j].target = jobs[k].target
    => j = k

\* A verify job never outlives its finding: what it targets is stored, was
\* submitted with verification required and is past pending.
VerifyTargetExists ==
  \A j \in Jobs : jobs[j].state # "absent" /\ jobs[j].kind = "verify" =>
    \E f \in Findings : /\ f = jobs[j].target
                        /\ findings[f].state \notin {"absent", "pending"}
                        /\ findings[f].verify

\* A finding still being validated has no decisive verdict: a verdict that came
\* after the deadline reaper is never brought back to life by a recovery.
ValidatingUndecided ==
  \A f \in Findings : findings[f].state = "validating" => ~ Decisive(f)

\* However a scan's completion, the reapers, late verdicts and the two recoveries
\* interleave, a finding is verified by one job at a time, every verify job has a finding
\* to verify, and what is being validated is undecided.
VerificationSound == OneActiveVerify /\ VerifyTargetExists /\ ValidatingUndecided

\* What is reportable or awaits the operator was either exempt from verification
\* when it was submitted, or a verifier confirmed it.  Changing the repository's
\* settings in between makes no difference.
VerifiedBeforeReport ==
  \A f \in Findings :
    findings[f].state \in {"awaiting_approval", "confirmed", "reported"} /\ findings[f].verify
    => \E v \in verdicts[f] : v.verdict = "confirmed"

\* A dismissed finding is refused for good once the operator rejected it or a
\* verifier decided; a dismissal by the deadline or by an inconclusive verdict alone
\* leaves it open to recovery.
Stage(f) ==
  CASE findings[f].state = "absent" -> "none"
    [] findings[f].state = "confirmed" -> "accepted"
    [] findings[f].state = "reported" -> "published"
    [] findings[f].state = "dismissed" /\ (cause[f] = "operator" \/ Decisive(f)) -> "refused"
    [] OTHER -> "open"

Promise == INSTANCE FindingPromise WITH stage <- [f \in Findings |-> Stage(f)]

\* Whatever claims, late verdicts, reaps and recoveries interleave, a finding keeps
\* the promise of FindingPromise: no recovery revives a refused finding, nothing takes
\* back a confirmation, and a reported finding never changes again.
PromiseKept == Promise!Spec

\* Between two scans that find the same fingerprint nothing else is written over:
\* a stored finding keeps the scan that owns it and its verification requirement.
OwnerIsKept ==
  [][\A f \in Findings :
       findings[f].state # "absent" /\ findings'[f].state # "absent"
       => findings'[f].job = findings[f].job /\ findings'[f].verify = findings[f].verify]_vars

\* Whatever the mix of handlers, every job and every finding moves along the tables
\* of state_machine.rs, and what the tables call terminal is left by an operator's
\* retry only.  The claim's quarantine is the one writer that bypasses the tables: it
\* fails a queued job (admission_quarantine.rs hold).
JobStepsInTable ==
  [][\A j \in Jobs :
       \/ jobs'[j].state = jobs[j].state
       \/ \E t \in DOMAIN JobFrom : jobs[j].state \in JobFrom[t] /\ jobs'[j].state = JobTo[t]
       \/ jobs[j].state = "queued" /\ jobs'[j].state = "failed" /\ jobs'[j].held]_vars

\* A lease is lost only to its end, to the operator or to the clock: while an attempt
\* keeps its lease unexpired, no other claim, recovery or reap takes the job from it.
LiveLeaseKept ==
  [][\A a \in Attempts, j \in Jobs :
       jobs[j].cap = a /\ jobs[j].lease >= 0 /\ jobs'[j].cap # a
       => \/ jobs'[j].state \in {"succeeded", "failed"} /\ attempt[a].job = j
          \/ jobs'[j].state = "cancelled"]_vars

(***************************************************************************)
(* Liveness.  The clock runs and the reaper task keeps ticking (background  *)
(* .rs spawn_reaper loops until shutdown); nothing is assumed of workers,   *)
(* operators or the scheduler.                                              *)
(***************************************************************************)
FairSpec == Spec /\ WF_vars(Tick) /\ WF_vars(ReapLeases) /\ WF_vars(ReapValidating)

\* The job of a worker that died is taken from it: the lease it abandoned ends
\* without anyone asking for it.
AbandonedLeaseEnds ==
  \A a \in Attempts, j \in Jobs :
    (jobs[j].cap = a /\ attempt[a] = Idle) ~> jobs[j].cap # a

\* A finding does not stay in validating for ever, even if no verifier ever works,
\* unless the operator keeps renewing its deadline.
ValidatingEnds ==
  \A f \in Findings :
    <>[][findings[f].state = "validating" => findings'[f].deadline <= findings[f].deadline]_vars
    => (findings[f].state = "validating" ~> findings[f].state # "validating")

(***************************************************************************)
(* What the documentation says and the code does not do.                    *)
(***************************************************************************)

\* routes/jobs.rs retry: "Failed verify jobs also require the target finding to still
\* be `validating`".  A deadline-dismissed target is revived as well.
RetryRequiresValidating ==
  [][\A j \in Jobs : RetryVerifyJob(j) => findings[jobs[j].target].state = "validating"]_vars

\* ARCH.md: without a dismissal or a confirmation, findings "stay validating until
\* reaper deadline".  An inconclusive verdict marked terminal dismisses at once.
InconclusiveStays ==
  [][\A a \in Attempts, t \in BOOLEAN, d \in Delays :
       SubmitVerdict(a, "inconclusive", t, d)
       => LET f == jobs[attempt[a].job].target
          IN  findings[f].state = "validating" /\ ~ Decisive(f)
              => findings'[f].state = "validating"]_vars

=============================================================================
