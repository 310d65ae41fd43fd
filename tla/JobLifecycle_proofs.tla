------------------------ MODULE JobLifecycle_proofs ------------------------
(***************************************************************************)
(* Proofs about JobLifecycle, for any number of jobs, findings, workers and *)
(* attempts, any lease length, budget and request delay.                    *)
(***************************************************************************)
EXTENDS JobLifecycle, TLAPS

(***************************************************************************)
(* The rows the operations write                                            *)
(***************************************************************************)

\* The state each transition of state_machine.rs enters.
LEMMA Targets ==
  /\ JobTo.enqueue = "queued" /\ JobTo.lease = "leased" /\ JobTo.heartbeat = "leased"
  /\ JobTo.complete_succeeded = "succeeded" /\ JobTo.complete_failed = "failed"
  /\ JobTo.cancel = "cancelled" /\ JobTo.retry = "queued"
  /\ JobTo.reap_to_queued = "queued" /\ JobTo.reap_to_failed = "failed"
  /\ FindingTo.scan_accepted = "pending" /\ FindingTo.scan_auto_confirm = "confirmed"
  /\ FindingTo.scan_await_approval = "awaiting_approval"
  /\ FindingTo.scan_require_verification = "validating"
  /\ FindingTo.verdict_confirm = "confirmed"
  /\ FindingTo.verdict_await_approval = "awaiting_approval"
  /\ FindingTo.verdict_dismiss = "dismissed" /\ FindingTo.deadline_expire = "dismissed"
  /\ FindingTo.approve = "confirmed" /\ FindingTo.reject = "dismissed"
  /\ FindingTo.retry_verification = "validating" /\ FindingTo.mark_reported = "reported"
  BY DEF JobTo, FindingTo

\* The empty rows and a freshly enqueued job are rows.
LEMMA FreshRows ==
  /\ NoJob \in JobRow
  /\ NoFinding \in FindingRow
  /\ Idle \in AttemptRow
  /\ \A kind \in {"scan", "verify"}, target \in Findings \cup {None} :
       NewJob(kind, target) \in JobRow
  <1>1. LeaseFloor \in LeaseFloor .. LEASE_SECONDS /\ 0 \in 0 .. MAX_ATTEMPTS
        /\ -1 \in (-1) .. VALIDATING_BUDGET
    BY ConstantsAssumption DEF LeaseFloor
  <1>2. NoJob \in JobRow
    BY <1>1 DEF NoJob, JobRow
  <1>3. \A kind \in {"scan", "verify"}, target \in Findings \cup {None} :
          NewJob(kind, target) \in JobRow
    BY <1>2, Targets DEF NewJob, JobRow, JobStates
  <1>4. NoFinding \in FindingRow
    BY <1>1 DEF NoFinding, FindingRow
  <1> QED
    BY <1>2, <1>3, <1>4 DEF Idle, AttemptRow

\* Leaving a lease, being retried and being reaped turn a row into a row.
LEMMA ReleasedRows ==
  ASSUME NEW row \in JobRow
  PROVE  /\ \A s \in JobStates : [Released(row) EXCEPT !.state = s] \in JobRow
         /\ \A s \in JobStates : Completed(row, s) \in JobRow
         /\ [Released(row) EXCEPT !.state = "failed", !.held = TRUE] \in JobRow
         /\ Requeued(row) \in JobRow
         /\ Reaped(row) \in JobRow
  <1>1. LeaseFloor \in LeaseFloor .. LEASE_SECONDS /\ 0 \in 0 .. MAX_ATTEMPTS
    BY ConstantsAssumption DEF LeaseFloor
  <1>2. Released(row) \in JobRow
    BY <1>1 DEF Released, JobRow
  <1>3. \A s \in JobStates : [Released(row) EXCEPT !.state = s] \in JobRow
    BY <1>2 DEF JobRow
  <1>4. \A s \in JobStates : Completed(row, s) \in JobRow
    BY <1>1 DEF Completed, JobRow
  <1>5. [Released(row) EXCEPT !.state = "failed", !.held = TRUE] \in JobRow
    BY <1>2 DEF JobRow, JobStates
  <1>6. Requeued(row) \in JobRow
    BY <1>1, <1>2, Targets DEF Requeued, JobRow, JobStates
  <1>7. Reaped(row) \in JobRow
    BY <1>3, Targets DEF Reaped, JobStates
  <1> QED
    BY <1>3, <1>4, <1>5, <1>6, <1>7

(***************************************************************************)
(* Type correctness.  A claim adds one to the attempts of a queued job, so  *)
(* that the type of that column rests on AttemptBudget.                     *)
(***************************************************************************)

\* An attempt that holds a lease is assigned a job.
LEMMA HolderHasJob ==
  ASSUME TypeOK, NEW a \in Attempts, NEW d \in Delays, LeaseHeld(a, d)
  PROVE  attempt[a].job \in Jobs /\ jobs[attempt[a].job] \in JobRow
  <1>1. attempt[a] # Idle
    BY DEF LeaseHeld
  <1>2. attempt[a] \in [worker : Workers, job : Jobs]
    BY <1>1 DEF TypeOK, AttemptRow
  <1> QED
    BY <1>2 DEF TypeOK

\* Removing a scan's pending findings leaves finding rows.
LEMMA DeleteType ==
  ASSUME TypeOK, NEW j
  PROVE  DeletePendingOf(j) \in [Findings -> FindingRow]
  BY FreshRows DEF TypeOK, DeletePendingOf

\* Setting one row of the jobs table.
LEMMA SetJob ==
  ASSUME jobs \in [Jobs -> JobRow], NEW j \in Jobs, NEW row \in JobRow
  PROVE  [jobs EXCEPT ![j] = row] \in [Jobs -> JobRow]
  OBVIOUS

\* Setting one row of the findings table.
LEMMA SetFinding ==
  ASSUME findings \in [Findings -> FindingRow], NEW f \in Findings, NEW row \in FindingRow
  PROVE  [findings EXCEPT ![f] = row] \in [Findings -> FindingRow]
  OBVIOUS

\* A finding row with another state, or back in validating, is a finding row.
LEMMA FindingRows ==
  ASSUME NEW row \in FindingRow
  PROVE  /\ \A s \in FindingStates \cup {"absent"} : Settled(row, s) \in FindingRow
         /\ \A s \in FindingStates : [row EXCEPT !.state = s] \in FindingRow
         /\ \A s \in FindingStates, n \in (-1) .. VALIDATING_BUDGET :
              [row EXCEPT !.state = s, !.deadline = n] \in FindingRow
  <1>1. -1 \in (-1) .. VALIDATING_BUDGET
    BY ConstantsAssumption
  <1>2. \A s \in FindingStates \cup {"absent"} : Settled(row, s) \in FindingRow
    BY <1>1 DEF Settled, FindingRow
  <1>3. \A s \in FindingStates : [row EXCEPT !.state = s] \in FindingRow
    BY DEF FindingRow
  <1>4. \A s \in FindingStates, n \in (-1) .. VALIDATING_BUDGET :
          [row EXCEPT !.state = s, !.deadline = n] \in FindingRow
    BY DEF FindingRow
  <1> QED
    BY <1>2, <1>3, <1>4

\* Every worker request keeps the types.
LEMMA WorkerStepType ==
  ASSUME TypeOK, AttemptBudget, NEW a \in Attempts, WorkerStep(a)
  PROVE  TypeOK'
  <1> USE Targets DEF JobStates, FindingStates
  <1>0. /\ jobs \in [Jobs -> JobRow] /\ findings \in [Findings -> FindingRow]
        /\ attempt \in [Attempts -> AttemptRow]
    BY DEF TypeOK
  <1>d. \A d \in Delays : /\ d \in Nat
                          /\ LEASE_SECONDS - d \in LeaseFloor .. LEASE_SECONDS
                          /\ VALIDATING_BUDGET - d \in (-1) .. VALIDATING_BUDGET
    BY ConstantsAssumption DEF Delays, LeaseFloor
  <1>1. CASE \E w \in Workers, j \in Jobs : Claim(w, a, j)
    <2>1. PICK w \in Workers, j \in Jobs : Claim(w, a, j)
      BY <1>1
    <2>2. jobs' \in [Jobs -> JobRow]
      <3>1. jobs[j].attempts < MAX_ATTEMPTS
        BY <2>1 DEF Claim, Candidate, JobFrom, AttemptBudget
      <3>2. LEASE_SECONDS \in LeaseFloor .. LEASE_SECONDS
        BY ConstantsAssumption DEF LeaseFloor
      <3>3. jobs[j].attempts + 1 \in 0 .. MAX_ATTEMPTS
        BY <3>1, <1>0, ConstantsAssumption DEF JobRow
      <3>4. Leased(jobs[j], w, a) \in JobRow
        <4>1. jobs[j] \in JobRow /\ "leased" \in JobStates
          BY <1>0
        <4> QED
          BY <4>1, <3>2, <3>3 DEF Leased, JobRow
      <3> QED
        BY <2>1, <3>4, <1>0, SetJob DEF Claim
    <2>3. attempt' \in [Attempts -> AttemptRow]
      BY <2>1, <1>0 DEF Claim, AttemptRow
    <2> QED
      BY <2>1, <2>2, <2>3 DEF Claim, TypeOK
  <1>2. CASE \E d \in Delays : Heartbeat(a, d)
    <2>1. PICK d \in Delays : Heartbeat(a, d)
      BY <1>2
    <2>2. attempt[a].job \in Jobs /\ jobs[attempt[a].job] \in JobRow
      BY <2>1, HolderHasJob DEF Heartbeat
    <2>3. jobs' \in [Jobs -> JobRow]
      BY <2>1, <2>2, <1>0, <1>d DEF Heartbeat, JobRow
    <2> QED
      BY <2>1, <2>3 DEF Heartbeat, TypeOK
  <1>3. CASE \E d \in Delays, f \in Findings : SubmitFinding(a, f, d)
    <2>1. PICK d \in Delays, f \in Findings : SubmitFinding(a, f, d)
      BY <1>3
    <2>2. attempt[a].job \in Jobs
      BY <2>1, HolderHasJob DEF SubmitFinding
    <2>3. repo.verify \in BOOLEAN /\ -1 \in (-1) .. VALIDATING_BUDGET
      BY ConstantsAssumption DEF TypeOK
    <2>4. findings' \in [Findings -> FindingRow]
      BY <2>1, <2>2, <2>3, <1>0 DEF SubmitFinding, FindingRow
    <2> QED
      BY <2>1, <2>4 DEF SubmitFinding, TypeOK
  <1>4. CASE \E d \in Delays, v \in {"confirmed", "dismissed", "inconclusive"}, t \in BOOLEAN :
               SubmitVerdict(a, v, t, d)
    <2>1. PICK d \in Delays, v \in {"confirmed", "dismissed", "inconclusive"}, t \in BOOLEAN :
            SubmitVerdict(a, v, t, d)
      BY <1>4
    <2> DEFINE j == attempt[a].job
               f == jobs[j].target
               rows == verdicts[f] \cup {[job |-> j, verdict |-> v]}
               next == RollUpVerdicts(findings[f].state,
                                      \E r \in rows : r.verdict = "confirmed",
                                      \E r \in rows : r.verdict = "dismissed",
                                      t, repo.approve)
    <2>2. /\ LeaseHeld(a, d) /\ f \in Findings /\ findings[f].state # "absent"
          /\ verdicts' = [verdicts EXCEPT ![f] = rows]
          /\ findings' = [findings EXCEPT ![f] = Settled(@, next)]
          /\ cause' = IF next = "dismissed" /\ findings[f].state = "validating"
                      THEN [cause EXCEPT ![f] = "verdict"] ELSE cause
          /\ UNCHANGED <<jobs, attempt, repo>>
      BY <2>1 DEF SubmitVerdict
    <2>3. j \in Jobs
      BY <2>2, HolderHasJob
    <2>4. findings[f] \in FindingRow /\ findings[f].state \in FindingStates
      BY <2>2, <1>0 DEF FindingRow
    <2>6. next \in FindingStates
      BY <2>4 DEF RollUpVerdicts
    <2>7. findings' \in [Findings -> FindingRow]
      <3>1. Settled(findings[f], next) \in FindingRow
        BY <2>4, <2>6, FindingRows
      <3> HIDE DEF f, next
      <3> QED
        BY <2>2, <3>1, <1>0, SetFinding
    <2>8. verdicts' \in [Findings -> SUBSET VerdictRow]
      BY <2>2, <2>3 DEF TypeOK, VerdictRow
    <2>9. cause' \in [Findings -> {"none", "deadline", "verdict", "operator"}]
      <3> HIDE DEF f, next
      <3> QED
        BY <2>2 DEF TypeOK
    <2> QED
      BY <2>2, <2>7, <2>8, <2>9 DEF TypeOK
  <1>5. CASE \E d \in Delays, newJob \in [Findings -> Jobs] : CompleteScan(a, d, newJob)
    <2>1. PICK d \in Delays, newJob \in [Findings -> Jobs] : CompleteScan(a, d, newJob)
      BY <1>5
    <2> DEFINE j == attempt[a].job
               accepted == [f \in Findings |-> IF f \in PendingOf(j) THEN Accepted(f, d)
                                               ELSE findings[f]]
               toVerify == {f \in Findings : accepted[f].state = "validating"
                                             /\ accepted[f].job = j}
    <2>2. /\ LeaseHeld(a, d)
          /\ findings' = accepted
          /\ jobs' = [k \in Jobs |->
               IF k = j THEN Completed(jobs[j], JobTo.complete_succeeded)
               ELSE IF \E f \in toVerify : newJob[f] = k
                    THEN NewJob("verify", CHOOSE f \in toVerify : newJob[f] = k)
                    ELSE jobs[k]]
          /\ UNCHANGED <<verdicts, attempt, repo, cause>>
      BY <2>1 DEF CompleteScan
    <2>3. j \in Jobs /\ jobs[j] \in JobRow
      BY <2>2, HolderHasJob
    <2>4. \A f \in Findings : Accepted(f, d) \in FindingRow
      BY <1>0, <1>d, FindingRows DEF Accepted
    <2>5. findings' \in [Findings -> FindingRow]
      BY <2>2, <2>4, <1>0
    <2>6. \A k \in Jobs : (\E f \in toVerify : newJob[f] = k)
            => NewJob("verify", CHOOSE f \in toVerify : newJob[f] = k) \in JobRow
      <3> SUFFICES ASSUME NEW k \in Jobs, \E f \in toVerify : newJob[f] = k
                   PROVE  NewJob("verify", CHOOSE f \in toVerify : newJob[f] = k) \in JobRow
        OBVIOUS
      <3>1. (CHOOSE f \in toVerify : newJob[f] = k) \in Findings
        OBVIOUS
      <3> QED
        BY <3>1, FreshRows
    <2>7. Completed(jobs[j], JobTo.complete_succeeded) \in JobRow
      BY <2>3, ReleasedRows
    <2>8. jobs' \in [Jobs -> JobRow]
      <3> HIDE DEF j, toVerify, accepted
      <3> QED
        BY <2>2, <2>6, <2>7, <1>0
    <2> QED
      BY <2>2, <2>5, <2>8 DEF TypeOK
  <1>6. CASE \E d \in Delays : CompleteVerify(a, d)
    <2>1. PICK d \in Delays : CompleteVerify(a, d)
      BY <1>6
    <2>2. attempt[a].job \in Jobs /\ jobs[attempt[a].job] \in JobRow
      BY <2>1, HolderHasJob DEF CompleteVerify
    <2>3. jobs' \in [Jobs -> JobRow]
      BY <2>1, <2>2, <1>0, ReleasedRows, SetJob DEF CompleteVerify
    <2> QED
      BY <2>1, <2>3 DEF CompleteVerify, TypeOK
  <1>7. CASE \E d \in Delays : CompleteFailed(a, d)
    <2>1. PICK d \in Delays : CompleteFailed(a, d)
      BY <1>7
    <2>2. attempt[a].job \in Jobs /\ jobs[attempt[a].job] \in JobRow
      BY <2>1, HolderHasJob DEF CompleteFailed
    <2>3. jobs' \in [Jobs -> JobRow]
      BY <2>1, <2>2, <1>0, ReleasedRows, SetJob DEF CompleteFailed
    <2>4. findings' \in [Findings -> FindingRow]
      BY <2>1, <1>0, DeleteType DEF CompleteFailed
    <2> QED
      BY <2>1, <2>3, <2>4 DEF CompleteFailed, TypeOK
  <1>8. CASE AttemptEnds(a)
    BY <1>8, <1>0 DEF AttemptEnds, AttemptRow, TypeOK
  <1> QED
    BY <1>1, <1>2, <1>3, <1>4, <1>5, <1>6, <1>7, <1>8 DEF WorkerStep

\* Every operator request keeps the types.
LEMMA OperatorStepType ==
  ASSUME TypeOK, OperatorStep
  PROVE  TypeOK'
  <1> USE Targets DEF JobStates, FindingStates
  <1>0. /\ jobs \in [Jobs -> JobRow] /\ findings \in [Findings -> FindingRow]
        /\ VALIDATING_BUDGET \in (-1) .. VALIDATING_BUDGET
    BY ConstantsAssumption DEF TypeOK
  <1>r. \A f \in Findings : Revalidated(f) \in FindingRow
    BY <1>0, FindingRows DEF Revalidated
  <1>1. CASE \E j \in Jobs : EnqueueScan(j)
    BY <1>1, <1>0, FreshRows, SetJob DEF EnqueueScan, TypeOK
  <1>2. CASE \E j \in Jobs : Cancel(j)
    <2>1. PICK j \in Jobs : Cancel(j)
      BY <1>2
    <2>2. jobs' \in [Jobs -> JobRow]
      BY <2>1, <1>0, ReleasedRows, SetJob DEF Cancel
    <2>3. findings' \in [Findings -> FindingRow]
      BY <2>1, <1>0, DeleteType DEF Cancel
    <2> QED
      BY <2>1, <2>2, <2>3 DEF Cancel, TypeOK
  <1>3. CASE \E j \in Jobs : RetryScan(j)
    <2>1. PICK j \in Jobs : RetryScan(j)
      BY <1>3
    <2>2. Requeued(jobs[j]) \in JobRow
      BY <1>0, ReleasedRows
    <2>3. jobs' \in [Jobs -> JobRow]
      BY <2>1, <2>2, <1>0, SetJob DEF RetryScan
    <2> QED
      BY <2>1, <2>3 DEF RetryScan, TypeOK
  <1>4. CASE \E j \in Jobs : RetryVerifyJob(j)
    <2>1. PICK j \in Jobs : RetryVerifyJob(j)
      BY <1>4
    <2>2. jobs' \in [Jobs -> JobRow]
      BY <2>1, <1>0, ReleasedRows, SetJob DEF RetryVerifyJob
    <2>3. findings' \in [Findings -> FindingRow]
      BY <2>1, <1>0, <1>r, SetFinding DEF RetryVerifyJob
    <2> QED
      BY <2>1, <2>2, <2>3 DEF RetryVerifyJob, TypeOK
  <1>5. CASE \E f \in Findings : Approve(f)
    <2>1. PICK f \in Findings : Approve(f)
      BY <1>5
    <2>2. findings' \in [Findings -> FindingRow]
      BY <2>1, <1>0, FindingRows, SetFinding DEF Approve
    <2> QED
      BY <2>1, <2>2 DEF Approve, TypeOK
  <1>6. CASE \E f \in Findings : Reject(f)
    <2>1. PICK f \in Findings : Reject(f)
      BY <1>6
    <2>2. findings' \in [Findings -> FindingRow]
      BY <2>1, <1>0, FindingRows, SetFinding DEF Reject
    <2> QED
      BY <2>1, <2>2 DEF Reject, TypeOK
  <1>7. CASE \E f \in Findings, i \in BOOLEAN, j \in Jobs : RetryVerification(f, i, j)
    <2>1. PICK f \in Findings, i \in BOOLEAN, j \in Jobs : RetryVerification(f, i, j)
      BY <1>7
    <2>2. jobs' \in [Jobs -> JobRow]
      <3>1. Requeued(jobs[j]) \in JobRow /\ NewJob("verify", f) \in JobRow
        BY <1>0, ReleasedRows, FreshRows
      <3>2. \/ jobs' = [jobs EXCEPT ![j] = Requeued(jobs[j])]
            \/ jobs' = [jobs EXCEPT ![j] = NewJob("verify", f)]
        BY <2>1 DEF RetryVerification
      <3> QED
        BY <3>1, <3>2, <1>0, SetJob
    <2>3. findings' \in [Findings -> FindingRow]
      BY <2>1, <1>0, <1>r, SetFinding DEF RetryVerification
    <2> QED
      BY <2>1, <2>2, <2>3 DEF RetryVerification, TypeOK
  <1>8. CASE UpdateRepo
    BY <1>8, ConstantsAssumption DEF UpdateRepo, TypeOK
  <1> QED
    BY <1>1, <1>2, <1>3, <1>4, <1>5, <1>6, <1>7, <1>8 DEF OperatorStep

\* Every background step keeps the types.
LEMMA ServerStepType ==
  ASSUME TypeOK, ServerStep
  PROVE  TypeOK'
  <1> USE Targets DEF JobStates, FindingStates
  <1>0. jobs \in [Jobs -> JobRow] /\ findings \in [Findings -> FindingRow]
    BY DEF TypeOK
  <1>1. CASE \E j \in Jobs : ScheduleDue(j)
    BY <1>1, <1>0, FreshRows, SetJob DEF ScheduleDue, EnqueueScan, TypeOK
  <1>2. CASE \E w \in Workers, j \in Jobs : Quarantine(w, j)
    <2>1. PICK w \in Workers, j \in Jobs : Quarantine(w, j)
      BY <1>2
    <2>2. [Released(jobs[j]) EXCEPT !.state = "failed", !.held = TRUE] \in JobRow
      BY <1>0, ReleasedRows
    <2>3. jobs' \in [Jobs -> JobRow]
      BY <2>1, <2>2, <1>0, SetJob DEF Quarantine
    <2> QED
      BY <2>1, <2>3 DEF Quarantine, TypeOK
  <1>3. CASE \E f \in Findings : MarkReported(f)
    <2>1. PICK f \in Findings : MarkReported(f)
      BY <1>3
    <2>2. findings' \in [Findings -> FindingRow]
      BY <2>1, <1>0, FindingRows, SetFinding DEF MarkReported
    <2> QED
      BY <2>1, <2>2 DEF MarkReported, TypeOK
  <1>4. CASE ReapLeases
    <2>1. jobs' \in [Jobs -> JobRow]
      BY <1>4, <1>0, ReleasedRows DEF ReapLeases
    <2>2. findings' \in [Findings -> FindingRow]
      BY <1>4, <1>0, FreshRows DEF ReapLeases
    <2> QED
      BY <1>4, <2>1, <2>2 DEF ReapLeases, TypeOK
  <1>5. CASE ReapValidating
    <2>1. findings' \in [Findings -> FindingRow]
      BY <1>5, <1>0, FindingRows DEF ReapValidating
    <2>2. verdicts' \in [Findings -> SUBSET VerdictRow]
      BY <1>5 DEF ReapValidating, TypeOK, VerdictRow
    <2>3. cause' \in [Findings -> {"none", "deadline", "verdict", "operator"}]
      BY <1>5 DEF ReapValidating, TypeOK
    <2> QED
      BY <1>5, <2>1, <2>2, <2>3 DEF ReapValidating, TypeOK
  <1>6. CASE Tick
    <2>1. jobs' \in [Jobs -> JobRow]
      BY <1>6, <1>0, ConstantsAssumption DEF Tick, JobRow, LeaseFloor
    <2>2. findings' \in [Findings -> FindingRow]
      BY <1>6, <1>0, ConstantsAssumption DEF Tick, FindingRow
    <2> QED
      BY <1>6, <2>1, <2>2 DEF Tick, TypeOK
  <1> QED
    BY <1>1, <1>2, <1>3, <1>4, <1>5, <1>6 DEF ServerStep

(***************************************************************************)
(* What a step does to the lease columns of one job                         *)
(***************************************************************************)

\* The columns that name the lease stay as they are.
LeaseKept(j) ==
  /\ jobs'[j].state = jobs[j].state
  /\ jobs'[j].worker = jobs[j].worker
  /\ jobs'[j].cap = jobs[j].cap
  /\ jobs'[j].attempts = jobs[j].attempts

\* The job has no holder after the step, and may be claimed again only if it has
\* attempts left.
LeaseFreed(j) ==
  /\ jobs'[j].cap = None
  /\ jobs'[j].state # "leased"
  /\ jobs'[j].state = "queued" => jobs'[j].attempts < MAX_ATTEMPTS

\* A new row, a released row and a completed row have no holder.
LEMMA RowsFreed ==
  ASSUME NEW row \in JobRow
  PROVE  /\ \A kind, target : NewJob(kind, target).cap = None
              /\ NewJob(kind, target).state = "queued" /\ NewJob(kind, target).attempts = 0
         /\ Requeued(row).cap = None /\ Requeued(row).state = "queued"
         /\ Requeued(row).attempts = 0
         /\ Reaped(row).cap = None /\ Reaped(row).state \in {"queued", "failed"}
         /\ Reaped(row).state = "queued" => Reaped(row).attempts < MAX_ATTEMPTS
         /\ \A s : Completed(row, s).cap = None /\ Completed(row, s).state = s
         /\ \A s : [Released(row) EXCEPT !.state = s].cap = None
              /\ [Released(row) EXCEPT !.state = s].state = s
         /\ [Released(row) EXCEPT !.state = "failed", !.held = TRUE].cap = None
         /\ [Released(row) EXCEPT !.state = "failed", !.held = TRUE].state = "failed"
  <1>1. \A kind, target : NewJob(kind, target).cap = None
          /\ NewJob(kind, target).state = "queued" /\ NewJob(kind, target).attempts = 0
    BY Targets DEF NewJob, NoJob
  <1>2. Requeued(row).cap = None /\ Requeued(row).state = "queued" /\ Requeued(row).attempts = 0
    BY Targets DEF Requeued, Released, JobRow
  <1>3. /\ Reaped(row).cap = None /\ Reaped(row).state \in {"queued", "failed"}
        /\ Reaped(row).state = "queued" => Reaped(row).attempts < MAX_ATTEMPTS
    BY Targets DEF Reaped, Released, JobRow
  <1>4. \A s : Completed(row, s).cap = None /\ Completed(row, s).state = s
    BY DEF Completed, JobRow
  <1>5. /\ \A s : [Released(row) EXCEPT !.state = s].cap = None
              /\ [Released(row) EXCEPT !.state = s].state = s
        /\ [Released(row) EXCEPT !.state = "failed", !.held = TRUE].cap = None
        /\ [Released(row) EXCEPT !.state = "failed", !.held = TRUE].state = "failed"
    BY DEF Released, JobRow
  <1> QED
    BY <1>1, <1>2, <1>3, <1>4, <1>5

\* A step that sets one row frees that job and keeps every other lease.
LEMMA OneJobSet ==
  ASSUME TypeOK, NEW k \in Jobs, NEW row \in JobRow, NEW j \in Jobs,
         jobs' = [jobs EXCEPT ![k] = row],
         row.cap = None, row.state # "leased",
         row.state = "queued" => row.attempts < MAX_ATTEMPTS
  PROVE  LeaseKept(j) \/ LeaseFreed(j)
  BY DEF TypeOK, LeaseKept, LeaseFreed

\* A worker's step claims the job, or keeps or frees its lease.
LEMMA WorkerStepLease ==
  ASSUME TypeOK, NEW a \in Attempts, WorkerStep(a), NEW j \in Jobs
  PROVE  LeaseKept(j) \/ LeaseFreed(j) \/ \E w \in Workers : Claim(w, a, j)
  <1> USE Targets DEF JobStates
  <1>0. jobs \in [Jobs -> JobRow]
    BY DEF TypeOK
  <1>1. CASE \E w \in Workers, k \in Jobs : Claim(w, a, k)
    <2>1. PICK w \in Workers, k \in Jobs : Claim(w, a, k)
      BY <1>1
    <2>2. CASE k = j
      BY <2>1, <2>2
    <2>3. CASE k # j
      BY <2>1, <2>3, <1>0 DEF Claim, LeaseKept
    <2> QED
      BY <2>2, <2>3
  <1>2. CASE \E d \in Delays : Heartbeat(a, d)
    <2>1. PICK d \in Delays : Heartbeat(a, d)
      BY <1>2
    <2>2. attempt[a].job \in Jobs
      BY <2>1, HolderHasJob DEF Heartbeat
    <2>3. jobs[attempt[a].job].state = "leased"
      BY <2>1 DEF Heartbeat, LeaseHeld
    <2> QED
      BY <2>1, <2>2, <2>3, <1>0 DEF Heartbeat, LeaseKept, JobRow
  <1>3. CASE \E d \in Delays, f \in Findings : SubmitFinding(a, f, d)
    BY <1>3 DEF SubmitFinding, LeaseKept
  <1>4. CASE \E d \in Delays, v \in {"confirmed", "dismissed", "inconclusive"}, t \in BOOLEAN :
               SubmitVerdict(a, v, t, d)
    BY <1>4 DEF SubmitVerdict, LeaseKept
  <1>5. CASE \E d \in Delays, newJob \in [Findings -> Jobs] : CompleteScan(a, d, newJob)
    <2>1. PICK d \in Delays, newJob \in [Findings -> Jobs] : CompleteScan(a, d, newJob)
      BY <1>5
    <2>2. LeaseHeld(a, d)
      BY <2>1 DEF CompleteScan
    <2>3. attempt[a].job \in Jobs /\ jobs[attempt[a].job] \in JobRow
      BY <2>2, HolderHasJob
    <2>4. \/ jobs'[j] = jobs[j]
          \/ jobs'[j] = Completed(jobs[attempt[a].job], JobTo.complete_succeeded)
          \/ \E f : jobs'[j] = NewJob("verify", f)
      BY <2>1 DEF CompleteScan
    <2>5. 0 < MAX_ATTEMPTS
      BY ConstantsAssumption
    <2> QED
      BY <2>3, <2>4, <2>5, RowsFreed DEF LeaseKept, LeaseFreed
  <1>6. CASE \E d \in Delays : CompleteVerify(a, d)
    <2>1. PICK d \in Delays : CompleteVerify(a, d)
      BY <1>6
    <2>2. attempt[a].job \in Jobs /\ jobs[attempt[a].job] \in JobRow
      BY <2>1, HolderHasJob DEF CompleteVerify
    <2> DEFINE row == Completed(jobs[attempt[a].job], "succeeded")
    <2>3. row \in JobRow /\ row.cap = None /\ row.state = "succeeded"
      <3>1. row \in JobRow
        BY <2>2, ReleasedRows
      <3> QED
        BY <2>2, <3>1 DEF Completed, JobRow
    <2>4. jobs' = [jobs EXCEPT ![attempt[a].job] = row]
      BY <2>1 DEF CompleteVerify
    <2> HIDE DEF row
    <2> QED
      BY <2>2, <2>3, <2>4, OneJobSet
  <1>7. CASE \E d \in Delays : CompleteFailed(a, d)
    <2>1. PICK d \in Delays : CompleteFailed(a, d)
      BY <1>7
    <2>2. attempt[a].job \in Jobs /\ jobs[attempt[a].job] \in JobRow
      BY <2>1, HolderHasJob DEF CompleteFailed
    <2> DEFINE row == Completed(jobs[attempt[a].job], "failed")
    <2>3. row \in JobRow /\ row.cap = None /\ row.state = "failed"
      <3>1. row \in JobRow
        BY <2>2, ReleasedRows
      <3> QED
        BY <2>2, <3>1 DEF Completed, JobRow
    <2>4. jobs' = [jobs EXCEPT ![attempt[a].job] = row]
      BY <2>1 DEF CompleteFailed
    <2> HIDE DEF row
    <2> QED
      BY <2>2, <2>3, <2>4, OneJobSet
  <1>8. CASE AttemptEnds(a)
    BY <1>8 DEF AttemptEnds, LeaseKept
  <1> QED
    BY <1>1, <1>2, <1>3, <1>4, <1>5, <1>6, <1>7, <1>8 DEF WorkerStep

\* An operator's step keeps or frees a lease; a job it queues has all its attempts.
LEMMA OperatorStepLease ==
  ASSUME TypeOK, OperatorStep, NEW j \in Jobs
  PROVE  LeaseKept(j) \/ LeaseFreed(j)
  <1> USE Targets DEF JobStates
  <1>0. jobs \in [Jobs -> JobRow] /\ 0 < MAX_ATTEMPTS
    BY ConstantsAssumption DEF TypeOK
  <1>n. \A k \in Jobs, kind \in {"scan", "verify"}, t \in Findings \cup {None} :
          jobs' = [jobs EXCEPT ![k] = NewJob(kind, t)] => LeaseKept(j) \/ LeaseFreed(j)
    <2> TAKE k \in Jobs, kind \in {"scan", "verify"}, t \in Findings \cup {None}
    <2> HAVE jobs' = [jobs EXCEPT ![k] = NewJob(kind, t)]
    <2>1. NewJob(kind, t) \in JobRow
      BY FreshRows
    <2>2. NewJob(kind, t).cap = None /\ NewJob(kind, t).state = "queued"
          /\ NewJob(kind, t).attempts = 0
      BY <2>1, RowsFreed
    <2> QED
      BY <1>0, <2>1, <2>2, OneJobSet
  <1>r. \A k \in Jobs : jobs' = [jobs EXCEPT ![k] = Requeued(jobs[k])]
          => LeaseKept(j) \/ LeaseFreed(j)
    <2> TAKE k \in Jobs
    <2> HAVE jobs' = [jobs EXCEPT ![k] = Requeued(jobs[k])]
    <2>1. Requeued(jobs[k]) \in JobRow
      BY <1>0, ReleasedRows
    <2>2. Requeued(jobs[k]).cap = None /\ Requeued(jobs[k]).state = "queued"
          /\ Requeued(jobs[k]).attempts = 0
      BY <1>0, RowsFreed
    <2> QED
      BY <1>0, <2>1, <2>2, OneJobSet
  <1>1. CASE \E k \in Jobs : EnqueueScan(k)
    BY <1>1, <1>n DEF EnqueueScan
  <1>2. CASE \E k \in Jobs : Cancel(k)
    <2>1. PICK k \in Jobs : Cancel(k)
      BY <1>2
    <2> DEFINE row == [Released(jobs[k]) EXCEPT !.state = "cancelled"]
    <2>2. row \in JobRow /\ row.cap = None /\ row.state = "cancelled"
      <3>1. jobs[k] \in JobRow /\ row \in JobRow
        BY <1>0, ReleasedRows
      <3> QED
        BY <3>1 DEF Released, JobRow
    <2>3. jobs' = [jobs EXCEPT ![k] = row]
      BY <2>1 DEF Cancel
    <2> HIDE DEF row
    <2> QED
      BY <2>2, <2>3, OneJobSet
  <1>3. CASE \E k \in Jobs : RetryScan(k)
    BY <1>3, <1>r DEF RetryScan
  <1>4. CASE \E k \in Jobs : RetryVerifyJob(k)
    BY <1>4, <1>r DEF RetryVerifyJob
  <1>5. CASE \E f \in Findings : Approve(f) \/ Reject(f)
    BY <1>5 DEF Approve, Reject, LeaseKept
  <1>6. CASE \E f \in Findings, i \in BOOLEAN, k \in Jobs : RetryVerification(f, i, k)
    BY <1>6, <1>r, <1>n DEF RetryVerification
  <1>7. CASE UpdateRepo
    BY <1>7 DEF UpdateRepo, LeaseKept
  <1> QED
    BY <1>1, <1>2, <1>3, <1>4, <1>5, <1>6, <1>7 DEF OperatorStep

\* So does a background step: the reaper requeues only a job with attempts left.
LEMMA ServerStepLease ==
  ASSUME TypeOK, ServerStep, NEW j \in Jobs
  PROVE  LeaseKept(j) \/ LeaseFreed(j)
  <1> USE Targets DEF JobStates
  <1>0. jobs \in [Jobs -> JobRow] /\ 0 < MAX_ATTEMPTS
    BY ConstantsAssumption DEF TypeOK
  <1>1. CASE \E k \in Jobs : ScheduleDue(k)
    <2>1. PICK k \in Jobs : EnqueueScan(k)
      BY <1>1 DEF ScheduleDue
    <2>2. jobs' = [jobs EXCEPT ![k] = NewJob("scan", None)]
      BY <2>1 DEF EnqueueScan
    <2> QED
      BY <1>0, <2>2, FreshRows, RowsFreed, OneJobSet
  <1>2. CASE \E w \in Workers, k \in Jobs : Quarantine(w, k)
    <2>1. PICK w \in Workers, k \in Jobs : Quarantine(w, k)
      BY <1>2
    <2> DEFINE row == [Released(jobs[k]) EXCEPT !.state = "failed", !.held = TRUE]
    <2>2. row \in JobRow /\ row.cap = None /\ row.state = "failed"
      BY <1>0, ReleasedRows, RowsFreed
    <2>3. jobs' = [jobs EXCEPT ![k] = row]
      BY <2>1 DEF Quarantine
    <2> HIDE DEF row
    <2> QED
      BY <2>2, <2>3, OneJobSet
  <1>3. CASE \E f \in Findings : MarkReported(f)
    BY <1>3 DEF MarkReported, LeaseKept
  <1>4. CASE ReapLeases
    <2>1. jobs'[j] = Reaped(jobs[j]) \/ jobs'[j] = jobs[j]
      BY <1>4 DEF ReapLeases
    <2> QED
      BY <2>1, <1>0, RowsFreed DEF LeaseKept, LeaseFreed
  <1>5. CASE ReapValidating
    BY <1>5 DEF ReapValidating, LeaseKept
  <1>6. CASE Tick
    BY <1>6, <1>0 DEF Tick, LeaseKept, JobRow
  <1> QED
    BY <1>1, <1>2, <1>3, <1>4, <1>5, <1>6 DEF ServerStep

(***************************************************************************)
(* The theorems                                                             *)
(***************************************************************************)

\* TypeOK and AttemptBudget hold at the start and every step keeps them.  They need
\* each other: the bound of the attempts column holds because a claim finds a job
\* that AttemptBudget says has attempts left.
LEMMA BudgetInductive ==
  /\ Init => TypeOK /\ AttemptBudget
  /\ TypeOK /\ AttemptBudget /\ [Next]_vars => (TypeOK /\ AttemptBudget)'
  <1>1. Init => TypeOK /\ AttemptBudget
    <2> SUFFICES ASSUME Init PROVE TypeOK /\ AttemptBudget
      OBVIOUS
    <2>1. TypeOK
      BY FreshRows, ConstantsAssumption DEF Init, TypeOK
    <2>2. AttemptBudget
      BY DEF Init, AttemptBudget, NoJob
    <2> QED
      BY <2>1, <2>2
  <1>2. ASSUME TypeOK, AttemptBudget, [Next]_vars
        PROVE  TypeOK' /\ AttemptBudget'
    <2>1. CASE UNCHANGED vars
      BY <1>2, <2>1 DEF vars, TypeOK, AttemptBudget
    <2>2. CASE Next
      <3>1. TypeOK'
        BY <1>2, <2>2, WorkerStepType, OperatorStepType, ServerStepType DEF Next
      <3>2. ASSUME NEW j \in Jobs
            PROVE  LeaseKept(j) \/ LeaseFreed(j)
                   \/ \E w \in Workers, a \in Attempts : Claim(w, a, j)
        BY <1>2, <2>2, WorkerStepLease, OperatorStepLease, ServerStepLease DEF Next
      <3>3. ASSUME NEW j \in Jobs
            PROVE  /\ jobs'[j].state = "queued" => jobs'[j].attempts < MAX_ATTEMPTS
                   /\ jobs'[j].state = "leased" => jobs'[j].attempts > 0
        <4>1. CASE LeaseKept(j)
          BY <1>2, <4>1 DEF LeaseKept, AttemptBudget
        <4>2. CASE LeaseFreed(j)
          BY <4>2 DEF LeaseFreed
        <4>3. CASE \E w \in Workers, a \in Attempts : Claim(w, a, j)
          <5>1. jobs[j] \in JobRow /\ jobs[j].attempts \in Nat
            BY <1>2 DEF TypeOK, JobRow
          <5>2. jobs'[j].state = "leased" /\ jobs'[j].attempts = jobs[j].attempts + 1
            BY <1>2, <4>3, <5>1, Targets DEF Claim, Leased, TypeOK, JobRow
          <5> QED
            BY <5>1, <5>2
        <4> QED
          BY <3>2, <4>1, <4>2, <4>3
      <3> QED
        BY <3>1, <3>3 DEF AttemptBudget
    <2> QED
      BY <1>2, <2>1, <2>2
  <1> QED
    BY <1>1, <1>2

\* Every column keeps its type.
THEOREM TypeCorrect == Spec => []TypeOK
  <1>1. Spec => [](TypeOK /\ AttemptBudget)
    BY BudgetInductive, PTL DEF Spec
  <1> QED
    BY <1>1, PTL

\* No job is queued without attempts left, whatever claims, reaps, cancellations and
\* retries interleave.
THEOREM BudgetKept == Spec => []AttemptBudget
  <1>1. Spec => [](TypeOK /\ AttemptBudget)
    BY BudgetInductive, PTL DEF Spec
  <1> QED
    BY <1>1, PTL

\* A step assigns a job to an attempt by claiming it, ends an attempt, or leaves the
\* attempts alone.
LEMMA AttemptSteps ==
  ASSUME Next
  PROVE  \/ \E w \in Workers, a \in Attempts, j \in Jobs : Claim(w, a, j)
         \/ attempt' = attempt
         \/ jobs' = jobs /\ \E a \in Attempts : attempt' = [attempt EXCEPT ![a] = Idle]
  <1>1. CASE \E a \in Attempts : WorkerStep(a)
    <2>1. PICK a \in Attempts : WorkerStep(a)
      BY <1>1
    <2>2. ASSUME NEW d \in Delays, NEW f \in Findings, SubmitFinding(a, f, d)
          PROVE  attempt' = attempt
      BY <2>2 DEF SubmitFinding
    <2>3. ASSUME NEW d, NEW v, NEW t, SubmitVerdict(a, v, t, d)
          PROVE  attempt' = attempt
      BY <2>3 DEF SubmitVerdict
    <2>4. ASSUME NEW d, NEW newJob, CompleteScan(a, d, newJob)
          PROVE  attempt' = attempt
      BY <2>4 DEF CompleteScan
    <2>5. ASSUME NEW d, Heartbeat(a, d) \/ CompleteVerify(a, d) \/ CompleteFailed(a, d)
          PROVE  attempt' = attempt
      BY <2>5 DEF Heartbeat, CompleteVerify, CompleteFailed
    <2>6. CASE AttemptEnds(a)
      BY <2>6 DEF AttemptEnds
    <2> QED
      BY <2>1, <2>2, <2>3, <2>4, <2>5, <2>6 DEF WorkerStep
  <1>2. CASE OperatorStep
    BY <1>2 DEF OperatorStep, EnqueueScan, Cancel, RetryScan, RetryVerifyJob, Approve, Reject,
                RetryVerification, UpdateRepo
  <1>3. CASE ServerStep
    BY <1>3 DEF ServerStep, ScheduleDue, EnqueueScan, Quarantine, MarkReported, ReapLeases,
                ReapValidating, Tick
  <1> QED
    BY <1>1, <1>2, <1>3 DEF Next

\* A claim installs its fresh capability in one row and leaves the others.
LEMMA ClaimFence ==
  ASSUME TypeOK, CapabilityFence, NEW w \in Workers, NEW a \in Attempts, NEW j \in Jobs,
         Claim(w, a, j)
  PROVE  CapabilityFence'
  <1>1. /\ jobs \in [Jobs -> JobRow] /\ attempt \in [Attempts -> AttemptRow]
        /\ None \notin Attempts
    BY ConstantsAssumption DEF TypeOK
  <1>2. /\ jobs'[j].cap = a /\ jobs'[j].state = "leased" /\ jobs'[j].worker = w
        /\ \A k \in Jobs \ {j} : jobs'[k] = jobs[k]
    BY <1>1, Targets DEF Claim, Leased, JobRow
  <1>3. /\ attempt'[a] = [worker |-> w, job |-> j]
        /\ \A b \in Attempts \ {a} : attempt'[b] = attempt[b]
    BY <1>1 DEF Claim
  <1>4. \A k \in Jobs : jobs[k].cap # a
    BY DEF Claim
  <1>5. \A k \in Jobs : jobs'[k].cap # None <=> jobs'[k].state = "leased"
    BY <1>1, <1>2 DEF CapabilityFence
  <1>6. \A k, l \in Jobs : jobs'[k].cap = jobs'[l].cap /\ jobs'[k].cap # None => k = l
    BY <1>1, <1>2, <1>4 DEF CapabilityFence
  <1>7. ASSUME NEW k \in Jobs, NEW b \in Attempts, jobs'[k].cap = b, attempt'[b] # Idle
        PROVE  attempt'[b] = [worker |-> jobs'[k].worker, job |-> k]
    <2>1. CASE b = a
      BY <1>2, <1>3, <1>4, <1>7, <2>1
    <2>2. CASE b # a
      BY <1>2, <1>3, <1>7, <2>2 DEF CapabilityFence
    <2> QED
      BY <2>1, <2>2
  <1> QED
    BY <1>5, <1>6, <1>7 DEF CapabilityFence

\* A step that claims nothing can only take capabilities out of the table.
LEMMA NoClaimFence ==
  ASSUME CapabilityFence,
         \A j \in Jobs : LeaseKept(j) \/ LeaseFreed(j),
         attempt' = attempt \/ \E a \in Attempts : attempt' = [attempt EXCEPT ![a] = Idle],
         attempt \in [Attempts -> AttemptRow], None \notin Attempts
  PROVE  CapabilityFence'
  <1>1. \A j \in Jobs : jobs'[j].cap # None <=> jobs'[j].state = "leased"
    BY DEF CapabilityFence, LeaseKept, LeaseFreed
  <1>2. \A j \in Jobs : jobs'[j].cap # None
          => jobs'[j].cap = jobs[j].cap /\ jobs'[j].worker = jobs[j].worker
    BY DEF LeaseKept, LeaseFreed
  <1>3. \A j, k \in Jobs : jobs'[j].cap = jobs'[k].cap /\ jobs'[j].cap # None => j = k
    BY <1>2 DEF CapabilityFence
  <1>4. \A a \in Attempts : attempt'[a] # Idle => attempt'[a] = attempt[a]
    OBVIOUS
  <1>5. ASSUME NEW j \in Jobs, NEW a \in Attempts, jobs'[j].cap = a, attempt'[a] # Idle
        PROVE  attempt'[a] = [worker |-> jobs'[j].worker, job |-> j]
    BY <1>2, <1>4, <1>5 DEF CapabilityFence
  <1> QED
    BY <1>1, <1>3, <1>5 DEF CapabilityFence

\* A capability opens at most one job, only while that job is leased, and only to the
\* attempt it was issued to: the fence every worker request is checked against
\* (jobs.rs get_active_by_capability_hash).
THEOREM FenceKept == Spec => []CapabilityFence
  <1>1. Init => CapabilityFence
    BY DEF Init, CapabilityFence, NoJob
  <1>2. ASSUME TypeOK, CapabilityFence, [Next]_vars
        PROVE  CapabilityFence'
    <2>1. CASE UNCHANGED vars
      BY <1>2, <2>1 DEF vars, CapabilityFence
    <2>2. CASE \E w \in Workers, a \in Attempts, j \in Jobs : Claim(w, a, j)
      BY <1>2, <2>2, ClaimFence
    <2>3. CASE Next /\ ~ \E w \in Workers, a \in Attempts, j \in Jobs : Claim(w, a, j)
      <3>1. \A j \in Jobs : LeaseKept(j) \/ LeaseFreed(j)
        BY <1>2, <2>3, WorkerStepLease, OperatorStepLease, ServerStepLease DEF Next
      <3>2. attempt' = attempt \/ \E a \in Attempts : attempt' = [attempt EXCEPT ![a] = Idle]
        BY <2>3, AttemptSteps
      <3> QED
        BY <1>2, <3>1, <3>2, NoClaimFence, ConstantsAssumption DEF TypeOK
    <2> QED
      BY <1>2, <2>1, <2>2, <2>3
  <1>3. Spec => []TypeOK
    BY TypeCorrect
  <1> QED
    BY <1>1, <1>2, <1>3, PTL DEF Spec

\* A job's leases stay within its attempts and its capability opens it to the attempt it
\* was issued to and to nobody else, for any number of workers, attempts and jobs.
THEOREM LeaseFenceKept == Spec => []LeaseFence
  <1>1. AttemptBudget /\ CapabilityFence => LeaseFence
    BY DEF LeaseFence
  <1> QED
    BY <1>1, BudgetKept, FenceKept, PTL

-----------------------------------------------------------------------------
\* What the writers of a job row leave of it, and what they put in its state.
LEMMA RowsWritten ==
  ASSUME NEW row \in JobRow
  PROVE  /\ \A s : LET done == Completed(row, s)
                   IN  done.kind = row.kind /\ done.target = row.target /\ done.state = s
         /\ \A s : LET out == [Released(row) EXCEPT !.state = s]
                   IN  out.kind = row.kind /\ out.target = row.target /\ out.state = s
         /\ LET out == [Released(row) EXCEPT !.state = "failed", !.held = TRUE]
            IN  out.kind = row.kind /\ out.target = row.target /\ out.state = "failed" /\ out.held
         /\ LET back == Requeued(row)
            IN  back.kind = row.kind /\ back.target = row.target /\ back.state = "queued"
         /\ LET reaped == Reaped(row)
            IN  /\ reaped.kind = row.kind /\ reaped.target = row.target
                /\ reaped.state = IF row.attempts < MAX_ATTEMPTS THEN "queued" ELSE "failed"
         /\ \A w, a : LET leased == Leased(row, w, a)
                      IN  /\ leased.kind = row.kind /\ leased.target = row.target
                          /\ leased.state = "leased"
         /\ \A kind, target : LET new == NewJob(kind, target)
                              IN  new.kind = kind /\ new.target = target /\ new.state = "queued"
<1>1. \A s : /\ Completed(row, s).kind = row.kind /\ Completed(row, s).target = row.target
             /\ Completed(row, s).state = s
  BY DEF Completed, JobRow
<1>2. \A s : /\ [Released(row) EXCEPT !.state = s].kind = row.kind
             /\ [Released(row) EXCEPT !.state = s].target = row.target
             /\ [Released(row) EXCEPT !.state = s].state = s
  BY DEF Released, JobRow
<1>3. /\ [Released(row) EXCEPT !.state = "failed", !.held = TRUE].kind = row.kind
      /\ [Released(row) EXCEPT !.state = "failed", !.held = TRUE].target = row.target
      /\ [Released(row) EXCEPT !.state = "failed", !.held = TRUE].state = "failed"
      /\ [Released(row) EXCEPT !.state = "failed", !.held = TRUE].held
  BY DEF Released, JobRow
<1>4. Requeued(row).kind = row.kind /\ Requeued(row).target = row.target /\ Requeued(row).state = "queued"
  BY Targets DEF Requeued, Released, JobRow
<1>5. /\ Reaped(row).kind = row.kind /\ Reaped(row).target = row.target
      /\ Reaped(row).state = IF row.attempts < MAX_ATTEMPTS THEN "queued" ELSE "failed"
  BY Targets DEF Reaped, Released, JobRow
<1>6. \A w, a : /\ Leased(row, w, a).kind = row.kind /\ Leased(row, w, a).target = row.target
                /\ Leased(row, w, a).state = "leased"
  BY Targets DEF Leased, JobRow
<1>7. \A kind, target : /\ NewJob(kind, target).kind = kind /\ NewJob(kind, target).target = target
                        /\ NewJob(kind, target).state = "queued"
  BY Targets DEF NewJob, NoJob
<1> QED
  BY <1>1, <1>2, <1>3, <1>4, <1>5, <1>6, <1>7

\* The ways a step may move a job: the transitions of state_machine.rs, the reaper's only
\* for a lease that has run out and completion only by the attempt that holds the lease,
\* and the claim's quarantine.
JobStep(j) ==
  \/ jobs'[j].state = jobs[j].state /\ jobs'[j].cap = jobs[j].cap
  \/ jobs[j].state = "absent" /\ jobs'[j].state = "queued"
  \/ jobs[j].state = "queued" /\ jobs'[j].state = "leased"
  \/ /\ jobs[j].state = "leased" /\ jobs'[j].state \in {"succeeded", "failed"}
     /\ \A a \in Attempts : a = jobs[j].cap => attempt[a].job = j
  \/ jobs[j].state \in {"queued", "leased"} /\ jobs'[j].state = "cancelled"
  \/ jobs[j].state = "failed" /\ jobs'[j].state = "queued"
  \/ jobs[j].state = "leased" /\ jobs[j].lease < 0 /\ jobs'[j].state \in {"queued", "failed"}
  \/ jobs[j].state = "queued" /\ jobs'[j].state = "failed" /\ jobs'[j].held

\* Completing, by the attempt that holds the lease.
LEMMA CompletedStep ==
  ASSUME TypeOK, NEW a \in Attempts, NEW d \in Delays, LeaseHeld(a, d),
         NEW s \in {"succeeded", "failed"},
         jobs'[attempt[a].job] = Completed(jobs[attempt[a].job], s)
  PROVE  JobStep(attempt[a].job)
  <1>1. PICK k \in Jobs : k = attempt[a].job /\ jobs[k] \in JobRow
    BY HolderHasJob
  <1>2. jobs[k].state = "leased" /\ jobs[k].cap = a
    BY <1>1 DEF LeaseHeld
  <1>3. jobs'[k].state = s
    BY <1>1, RowsWritten
  <1> QED
    BY <1>1, <1>2, <1>3 DEF JobStep

\* The steps of a worker move jobs along the tables.
LEMMA WorkerJobSteps ==
  ASSUME TypeOK, NEW a \in Attempts, WorkerStep(a), NEW j \in Jobs
  PROVE  JobStep(j)
  <1> USE Targets
  <1>0. jobs \in [Jobs -> JobRow]
    BY DEF TypeOK
  <1>s. jobs'[j] = jobs[j] => JobStep(j)
    BY DEF JobStep
  <1>1. ASSUME NEW w \in Workers, NEW k \in Jobs, Claim(w, a, k)
        PROVE  JobStep(j)
    <2> DEFINE row == Leased(jobs[k], w, a)
    <2>1. row.state = "leased" /\ jobs[k].state = "queued"
      BY <1>0, <1>1, RowsWritten DEF Claim, Candidate, JobFrom
    <2>2. jobs' = [jobs EXCEPT ![k] = row]
      BY <1>1 DEF Claim
    <2> HIDE DEF row
    <2> QED
      BY <1>0, <1>s, <2>1, <2>2 DEF JobStep
  <1>2. ASSUME NEW d \in Delays, Heartbeat(a, d)
        PROVE  JobStep(j)
    <2>1. PICK k \in Jobs : k = attempt[a].job /\ jobs[k] \in JobRow
      BY <1>2, HolderHasJob DEF Heartbeat
    <2> DEFINE row == [jobs[k] EXCEPT !.state = "leased", !.lease = LEASE_SECONDS - d]
    <2>2. row.state = "leased" /\ row.cap = jobs[k].cap /\ jobs[k].state = "leased"
      BY <1>2, <2>1 DEF JobRow, Heartbeat, LeaseHeld
    <2>3. jobs' = [jobs EXCEPT ![k] = row]
      BY <1>2, <2>1 DEF Heartbeat
    <2> HIDE DEF row
    <2> QED
      BY <1>0, <1>s, <2>2, <2>3 DEF JobStep
  <1>3. ASSUME NEW d \in Delays, NEW newJob \in [Findings -> Jobs], CompleteScan(a, d, newJob)
        PROVE  JobStep(j)
    <2>1. LeaseHeld(a, d) /\ attempt[a].job \in Jobs
      BY <1>3, HolderHasJob DEF CompleteScan
    <2>2. CASE j = attempt[a].job
      <3>1. jobs'[j] = Completed(jobs[j], "succeeded")
        BY <1>3, <2>2 DEF CompleteScan
      <3> QED
        BY <2>1, <2>2, <3>1, CompletedStep
    <2>3. CASE j # attempt[a].job /\ jobs'[j] # jobs[j]
      <3>1. jobs[j].state = "absent" /\ \E f : jobs'[j] = NewJob("verify", f)
        BY <1>3, <2>3 DEF CompleteScan, JobFrom
      <3>2. jobs'[j].state = "queued"
        BY <3>1 DEF NewJob, NoJob
      <3> QED
        BY <3>1, <3>2 DEF JobStep
    <2> QED
      BY <1>s, <2>2, <2>3
  <1>4. ASSUME NEW d \in Delays, NEW s \in {"succeeded", "failed"}, LeaseHeld(a, d),
               jobs' = [jobs EXCEPT ![attempt[a].job] = Completed(@, s)]
        PROVE  JobStep(j)
    <2>1. PICK k \in Jobs : k = attempt[a].job
      BY <1>4, HolderHasJob
    <2>2. CASE j = k
      <3>1. jobs'[attempt[a].job] = Completed(jobs[attempt[a].job], s)
        BY <1>0, <1>4, <2>1
      <3> QED
        BY <1>4, <2>1, <2>2, <3>1, CompletedStep
    <2>3. CASE j # k
      BY <1>0, <1>4, <1>s, <2>1, <2>3
    <2> QED
      BY <2>2, <2>3
  <1>5. ASSUME NEW d \in Delays, CompleteVerify(a, d) \/ CompleteFailed(a, d)
        PROVE  JobStep(j)
    BY <1>4, <1>5 DEF CompleteVerify, CompleteFailed
  <1>6. CASE jobs' = jobs
    BY <1>6 DEF JobStep
  <1> QED
    BY <1>1, <1>2, <1>3, <1>5, <1>6 DEF WorkerStep, SubmitFinding, SubmitVerdict, AttemptEnds

\* The steps of the operator do.
LEMMA OperatorJobSteps ==
  ASSUME TypeOK, OperatorStep, NEW j \in Jobs
  PROVE  JobStep(j)
  <1> USE Targets
  <1>0. jobs \in [Jobs -> JobRow]
    BY DEF TypeOK
  <1>1. ASSUME NEW k \in Jobs, NEW row, jobs' = [jobs EXCEPT ![k] = row],
               \/ jobs[k].state \in {"absent", "failed"} /\ row.state = "queued"
               \/ jobs[k].state \in {"queued", "leased"} /\ row.state = "cancelled"
        PROVE  JobStep(j)
    BY <1>0, <1>1 DEF JobStep
  <1>2. ASSUME NEW k \in Jobs, NEW kind, NEW target, jobs[k].state = "absent",
               jobs' = [jobs EXCEPT ![k] = NewJob(kind, target)]
        PROVE  JobStep(j)
    <2> DEFINE row == NewJob(kind, target)
    <2>1. row.state = "queued" /\ jobs' = [jobs EXCEPT ![k] = row]
      BY <1>2 DEF NewJob, NoJob
    <2> HIDE DEF row
    <2> QED
      BY <1>1, <1>2, <2>1
  <1>3. ASSUME NEW k \in Jobs, jobs[k].state = "failed", jobs' = [jobs EXCEPT ![k] = Requeued(@)]
        PROVE  JobStep(j)
    <2> DEFINE row == Requeued(jobs[k])
    <2>1. row.state = "queued" /\ jobs' = [jobs EXCEPT ![k] = row]
      BY <1>0, <1>3, RowsWritten
    <2> HIDE DEF row
    <2> QED
      BY <1>1, <1>3, <2>1
  <1>4. ASSUME NEW k \in Jobs, Cancel(k)
        PROVE  JobStep(j)
    <2> DEFINE row == [Released(jobs[k]) EXCEPT !.state = "cancelled"]
    <2>1. /\ row.state = "cancelled" /\ jobs' = [jobs EXCEPT ![k] = row]
          /\ jobs[k].state \in {"queued", "leased"}
      BY <1>0, <1>4, RowsWritten DEF Cancel, JobFrom
    <2> HIDE DEF row
    <2> QED
      BY <1>1, <2>1
  <1>5. ASSUME NEW k \in Jobs, EnqueueScan(k) \/ RetryScan(k) \/ RetryVerifyJob(k)
        PROVE  JobStep(j)
    BY <1>2, <1>3, <1>5 DEF EnqueueScan, RetryScan, RetryVerifyJob, JobFrom
  <1>6. ASSUME NEW f \in Findings, NEW i \in BOOLEAN, NEW k \in Jobs, RetryVerification(f, i, k)
        PROVE  JobStep(j)
    BY <1>2, <1>3, <1>6 DEF RetryVerification, FailedVerify, JobFrom
  <1>7. CASE jobs' = jobs
    BY <1>7 DEF JobStep
  <1> QED
    BY <1>4, <1>5, <1>6, <1>7 DEF OperatorStep, Approve, Reject, UpdateRepo

\* The steps of the server do.
LEMMA ServerJobSteps ==
  ASSUME TypeOK, ServerStep, NEW j \in Jobs
  PROVE  JobStep(j)
  <1> USE Targets
  <1>0. jobs \in [Jobs -> JobRow]
    BY DEF TypeOK
  <1>1. ASSUME NEW k \in Jobs, ScheduleDue(k)
        PROVE  JobStep(j)
    <2>1. EnqueueScan(k)
      BY <1>1 DEF ScheduleDue
    <2> QED
      BY <2>1, OperatorJobSteps DEF OperatorStep
  <1>2. ASSUME NEW w \in Workers, NEW k \in Jobs, Quarantine(w, k)
        PROVE  JobStep(j)
    <2> DEFINE row == [Released(jobs[k]) EXCEPT !.state = "failed", !.held = TRUE]
    <2>1. /\ row.state = "failed" /\ row.held /\ jobs' = [jobs EXCEPT ![k] = row]
          /\ jobs[k].state = "queued"
      BY <1>0, <1>2, RowsWritten DEF Quarantine, Candidate, JobFrom
    <2> HIDE DEF row
    <2>2. CASE j = k
      <3>1. jobs'[j] = row
        BY <1>0, <2>1, <2>2
      <3> QED
        BY <2>1, <2>2, <3>1, Zenon DEF JobStep
    <2>3. CASE j # k
      BY <1>0, <2>1, <2>3 DEF JobStep
    <2> QED
      BY <2>2, <2>3
  <1>3. CASE ReapLeases
    <2>1. CASE Expired(j)
      <3>1. jobs'[j] = Reaped(jobs[j]) /\ jobs[j] \in JobRow
        BY <1>0, <1>3, <2>1 DEF ReapLeases
      <3>2. jobs'[j].state \in {"queued", "failed"}
        BY <3>1, RowsWritten
      <3> QED
        BY <2>1, <3>2 DEF JobStep, Expired
    <2>2. CASE ~ Expired(j)
      BY <1>3, <2>2 DEF ReapLeases, JobStep
    <2> QED
      BY <2>1, <2>2
  <1>4. CASE Tick
    BY <1>0, <1>4 DEF Tick, JobStep, JobRow
  <1>5. CASE jobs' = jobs
    BY <1>5 DEF JobStep
  <1> QED
    BY <1>1, <1>2, <1>3, <1>4, <1>5 DEF ServerStep, MarkReported, ReapValidating

\* Whoever acts, jobs move along the tables of state_machine.rs, but for the quarantine.
THEOREM JobsMoveByTable == Spec => JobStepsInTable
  <1> DEFINE InTable ==
        \A j \in Jobs :
          \/ jobs'[j].state = jobs[j].state
          \/ \E t \in DOMAIN JobFrom : jobs[j].state \in JobFrom[t] /\ jobs'[j].state = JobTo[t]
          \/ jobs[j].state = "queued" /\ jobs'[j].state = "failed" /\ jobs'[j].held
  <1>1. TypeOK /\ [Next]_vars => [InTable]_vars
    <2> SUFFICES ASSUME TypeOK, Next, NEW j \in Jobs
                 PROVE  \/ jobs'[j].state = jobs[j].state
                        \/ \E t \in DOMAIN JobFrom : jobs[j].state \in JobFrom[t] /\ jobs'[j].state = JobTo[t]
                        \/ jobs[j].state = "queued" /\ jobs'[j].state = "failed" /\ jobs'[j].held
      OBVIOUS
    <2>1. JobStep(j)
      BY WorkerJobSteps, OperatorJobSteps, ServerJobSteps DEF Next
    <2>2. /\ {"enqueue", "lease", "complete_succeeded", "complete_failed", "cancel", "retry",
               "reap_to_queued", "reap_to_failed"} \subseteq DOMAIN JobFrom
          /\ JobFrom["enqueue"] = {"absent"} /\ JobTo["enqueue"] = "queued"
          /\ JobFrom["lease"] = {"queued"} /\ JobTo["lease"] = "leased"
          /\ JobFrom["complete_succeeded"] = {"leased"} /\ JobTo["complete_succeeded"] = "succeeded"
          /\ JobFrom["complete_failed"] = {"leased"} /\ JobTo["complete_failed"] = "failed"
          /\ JobFrom["cancel"] = {"queued", "leased"} /\ JobTo["cancel"] = "cancelled"
          /\ JobFrom["retry"] = {"failed"} /\ JobTo["retry"] = "queued"
          /\ JobFrom["reap_to_queued"] = {"leased"} /\ JobTo["reap_to_queued"] = "queued"
          /\ JobFrom["reap_to_failed"] = {"leased"} /\ JobTo["reap_to_failed"] = "failed"
      BY DEF JobFrom, JobTo
    <2>3. \A t \in DOMAIN JobFrom : jobs[j].state \in JobFrom[t] /\ jobs'[j].state = JobTo[t]
            => \E u \in DOMAIN JobFrom : jobs[j].state \in JobFrom[u] /\ jobs'[j].state = JobTo[u]
      OBVIOUS
    <2> QED
      BY <2>1, <2>2, <2>3 DEF JobStep
  <1>2. Spec => [][InTable]_vars
    BY <1>1, TypeCorrect, PTL DEF Spec
  <1> QED
    BY <1>2 DEF JobStepsInTable

\* While a lease has not run out, only its holder's completion and the operator's
\* cancellation end it, for any number of workers, attempts and jobs.
THEOREM LiveLeaseStays == Spec => LiveLeaseKept
  <1> DEFINE Kept ==
        \A a \in Attempts, j \in Jobs :
          jobs[j].cap = a /\ jobs[j].lease >= 0 /\ jobs'[j].cap # a
          => \/ jobs'[j].state \in {"succeeded", "failed"} /\ attempt[a].job = j
             \/ jobs'[j].state = "cancelled"
  <1>1. TypeOK /\ CapabilityFence /\ [Next]_vars => [Kept]_vars
    <2> SUFFICES ASSUME TypeOK, CapabilityFence, Next, NEW a \in Attempts, NEW j \in Jobs,
                        jobs[j].cap = a, jobs[j].lease >= 0, jobs'[j].cap # a
                 PROVE  \/ jobs'[j].state \in {"succeeded", "failed"} /\ attempt[a].job = j
                        \/ jobs'[j].state = "cancelled"
      OBVIOUS
    <2>1. JobStep(j)
      BY WorkerJobSteps, OperatorJobSteps, ServerJobSteps DEF Next
    <2>2. jobs[j].state = "leased"
      BY ConstantsAssumption DEF CapabilityFence
    <2>3. jobs[j].lease \in Int
      BY ConstantsAssumption DEF TypeOK, JobRow, LeaseFloor
    <2> QED
      BY <2>1, <2>2, <2>3 DEF JobStep
  <1>2. Spec => [][Kept]_vars
    BY <1>1, TypeCorrect, FenceKept, PTL DEF Spec
  <1> QED
    BY <1>2 DEF LiveLeaseKept

(***************************************************************************)
(* The life of a finding: it is verified by one job at a time, a pending    *)
(* one has a scan that may still settle it, what can be reported was        *)
(* verified, and it keeps the promise of FindingPromise.                    *)
(***************************************************************************)
\* Verdicts are on findings past pending that have to be verified, and on no others.
Unjudged ==
  \A f \in Findings :
    findings[f].state \in {"absent", "pending"} \/ ~ findings[f].verify => verdicts[f] = {}

\* What is being validated has to be verified.
ValidatingRequired ==
  \A f \in Findings : findings[f].state = "validating" => findings[f].verify

\* The operator rejects a finding that has to be verified only after a verifier decided.
OperatorDecided ==
  \A f \in Findings :
    findings[f].state = "dismissed" /\ cause[f] = "operator" /\ findings[f].verify => Decisive(f)

FindingInv ==
  /\ TypeOK
  /\ OneActiveVerify /\ VerifyTargetExists /\ ValidatingUndecided
  /\ PendingOwned /\ VerifiedBeforeReport
  /\ Unjudged /\ ValidatingRequired /\ OperatorDecided

(***************************************************************************)
(* What one step may do to a finding.                                       *)
(***************************************************************************)
Moved(f, s) ==
  /\ findings'[f].state = s
  /\ findings'[f].job = findings[f].job
  /\ findings'[f].verify = findings[f].verify

Same(f) == verdicts'[f] = verdicts[f] /\ cause'[f] = cause[f]

Stays(f) == Moved(f, findings[f].state) /\ Same(f)

Submitted(f) ==
  /\ findings[f].state = "absent" /\ findings'[f].state = "pending"
  /\ \E j \in Jobs : j = findings'[f].job /\ jobs[j].kind = "scan" /\ jobs[j].state = "leased"
  /\ jobs' = jobs
  /\ Same(f)

Withdrawn(f) == findings[f].state = "pending" /\ findings'[f] = NoFinding /\ Same(f)

Taken(f) ==
  /\ findings[f].state = "pending"
  /\ \/ findings[f].verify /\ Moved(f, "validating")
     \/ ~ findings[f].verify /\ (Moved(f, "awaiting_approval") \/ Moved(f, "confirmed"))
  /\ Same(f)

Revived(f) ==
  /\ findings[f].state \in {"pending", "validating", "dismissed"}
  /\ findings[f].verify /\ ~ Decisive(f)
  /\ Moved(f, "validating")
  /\ Same(f)

\* A verdict is added; only a validating finding moves, to what the verdicts say.
Judged(f) ==
  /\ findings[f].state \notin {"absent", "pending"} /\ findings[f].verify
  /\ verdicts[f] \subseteq verdicts'[f]
  /\ \/ /\ Moved(f, findings[f].state) /\ cause'[f] = cause[f]
        /\ findings[f].state = "validating" => ~ Decisive(f)'
     \/ /\ findings[f].state = "validating"
        /\ \/ Moved(f, "dismissed") /\ cause'[f] = "verdict"
           \/ /\ Moved(f, "awaiting_approval") \/ Moved(f, "confirmed")
              /\ \E v \in verdicts'[f] : v.verdict = "confirmed"

TimedOut(f) ==
  /\ findings[f].state = "validating" /\ Moved(f, "dismissed")
  /\ verdicts[f] \subseteq verdicts'[f] /\ cause'[f] = "deadline"

\* The operator's decision, and the receipt of the report.
Decided(f) ==
  \/ findings[f].state = "awaiting_approval" /\ Moved(f, "confirmed") /\ Same(f)
  \/ /\ findings[f].state = "awaiting_approval" /\ Moved(f, "dismissed")
     /\ verdicts'[f] = verdicts[f] /\ cause'[f] = "operator"
  \/ findings[f].state = "confirmed" /\ Moved(f, "reported") /\ Same(f)

FindingMove(f) ==
  \/ Stays(f) \/ Submitted(f) \/ Withdrawn(f) \/ Taken(f) \/ Revived(f)
  \/ Judged(f) \/ TimedOut(f) \/ Decided(f)

(***************************************************************************)
(* What one step may do to a job, as far as the findings are concerned.     *)
(***************************************************************************)
\* The job is the one it was, and no verify job becomes active.
JobStays(j) ==
  /\ jobs'[j].kind = jobs[j].kind /\ jobs'[j].target = jobs[j].target
  /\ jobs'[j].state = "absent" <=> jobs[j].state = "absent"
  /\ jobs[j].kind = "verify" /\ Active(j)' => Active(j)

ScanStarts(j) == jobs[j].state = "absent" /\ jobs'[j].kind = "scan"

\* The finding of a verify job that becomes active is validating now and has no other.
VerifyStarts(j) ==
  /\ jobs'[j].kind = "verify"
  /\ \E f \in Findings :
       /\ f = jobs'[j].target
       /\ findings'[f].state = "validating" /\ findings'[f].verify
       /\ \A k \in Jobs : jobs'[k].kind = "verify" /\ jobs'[k].target = f /\ Active(k)' => k = j

JobMove(j) == JobStays(j) \/ ScanStarts(j) \/ VerifyStarts(j)

\* A scan that owns a pending finding is still active, or held by the quarantine, after a
\* step that leaves the finding pending.
OwnerStays(f) ==
  findings[f].state = "pending" /\ findings'[f].state = "pending" =>
    \E j \in Jobs : /\ j = findings[f].job
                    /\ jobs'[j].kind = "scan"
                    /\ Active(j)' \/ (jobs'[j].state = "failed" /\ jobs'[j].held)
-----------------------------------------------------------------------------
\* Steps made of such moves keep the invariant.
LEMMA MovesKeep ==
  ASSUME FindingInv, TypeOK',
         \A f \in Findings : FindingMove(f) /\ OwnerStays(f),
         \A j \in Jobs : JobMove(j)
  PROVE  FindingInv'
<1> USE DEF Moved, Same
<1>inv. /\ OneActiveVerify /\ VerifyTargetExists /\ ValidatingUndecided
        /\ PendingOwned /\ VerifiedBeforeReport
        /\ Unjudged /\ ValidatingRequired /\ OperatorDecided
  BY DEF FindingInv
<1> DEFINE Cases(f) == \/ Stays(f) \/ Submitted(f) \/ Withdrawn(f) \/ Taken(f) \/ Revived(f)
                       \/ Judged(f) \/ TimedOut(f) \/ Decided(f)
<1>m. \A f \in Findings : Cases(f)
  BY DEF FindingMove
<1>n. NoFinding.state = "absent" /\ NoFinding.verify = FALSE
  BY DEF NoFinding
<1>1. OneActiveVerify'
  <2> SUFFICES ASSUME NEW j \in Jobs, NEW k \in Jobs,
                      Active(j)', jobs'[j].kind = "verify", Active(k)', jobs'[k].kind = "verify",
                      jobs'[j].target = jobs'[k].target
               PROVE  j = k
    BY DEF OneActiveVerify
  <2>1. CASE VerifyStarts(j) \/ VerifyStarts(k)
    BY <2>1 DEF VerifyStarts
  <2>2. CASE JobStays(j) /\ JobStays(k)
    BY <2>2, <1>inv DEF JobStays, OneActiveVerify
  <2>3. ~ ScanStarts(j) /\ ~ ScanStarts(k)
    BY DEF ScanStarts
  <2> QED
    BY <2>1, <2>2, <2>3 DEF JobMove
<1>2. VerifyTargetExists'
  <2> SUFFICES ASSUME NEW j \in Jobs, jobs'[j].state # "absent", jobs'[j].kind = "verify"
               PROVE  \E f \in Findings : /\ f = jobs'[j].target
                                          /\ findings'[f].state \notin {"absent", "pending"}
                                          /\ findings'[f].verify
    BY DEF VerifyTargetExists
  <2>1. CASE VerifyStarts(j)
    BY <2>1 DEF VerifyStarts
  <2>2. CASE JobStays(j)
    <3>1. PICK f \in Findings : /\ f = jobs[j].target
                                /\ findings[f].state \notin {"absent", "pending"}
                                /\ findings[f].verify
      BY <2>2, <1>inv DEF JobStays, VerifyTargetExists
    <3>2. f = jobs'[j].target
      BY <2>2, <3>1 DEF JobStays
    <3>3. findings'[f].state \notin {"absent", "pending"} /\ findings'[f].verify
      BY <1>m, <3>1 DEF Stays, Submitted, Withdrawn, Taken, Revived, Judged, TimedOut, Decided
    <3> QED
      BY <3>2, <3>3
  <2> QED
    BY <2>1, <2>2 DEF JobMove, ScanStarts
<1>3. ValidatingUndecided'
  <2> SUFFICES ASSUME NEW f \in Findings, findings'[f].state = "validating"
               PROVE  ~ Decisive(f)'
    BY DEF ValidatingUndecided
  <2>1. CASE Stays(f) \/ Taken(f) \/ Revived(f)
    BY <2>1, <1>inv DEF Stays, Taken, Revived, Decisive, ValidatingUndecided, Unjudged
  <2>2. CASE Judged(f)
    BY <2>2 DEF Judged
  <2>3. ~ (Submitted(f) \/ Withdrawn(f) \/ TimedOut(f) \/ Decided(f))
    BY <1>n DEF Submitted, Withdrawn, TimedOut, Decided
  <2> QED
    BY <1>m, <2>1, <2>2, <2>3
<1>4. PendingOwned'
  <2> SUFFICES ASSUME NEW f \in Findings, findings'[f].state = "pending"
               PROVE  \E j \in Jobs :
                        /\ j = findings'[f].job
                        /\ jobs'[j].kind = "scan"
                        /\ Active(j)' \/ (jobs'[j].state = "failed" /\ jobs'[j].held)
    BY DEF PendingOwned
  <2>1. CASE Submitted(f)
    BY <2>1 DEF Submitted, Active, ActiveJobStates
  <2>2. CASE Stays(f)
    BY <2>2 DEF Stays, OwnerStays
  <2>3. ~ (Withdrawn(f) \/ Taken(f) \/ Revived(f) \/ Judged(f) \/ TimedOut(f) \/ Decided(f))
    BY <1>n DEF Withdrawn, Taken, Revived, Judged, TimedOut, Decided
  <2> QED
    BY <1>m, <2>1, <2>2, <2>3
<1>5. VerifiedBeforeReport'
  <2> SUFFICES ASSUME NEW f \in Findings, findings'[f].verify,
                      findings'[f].state \in {"awaiting_approval", "confirmed", "reported"}
               PROVE  \E v \in verdicts'[f] : v.verdict = "confirmed"
    BY DEF VerifiedBeforeReport
  <2>1. CASE Stays(f) \/ Decided(f) \/ Judged(f)
    BY <2>1, <1>inv DEF Stays, Decided, Judged, VerifiedBeforeReport
  <2>2. ~ (Submitted(f) \/ Withdrawn(f) \/ Taken(f) \/ Revived(f) \/ TimedOut(f))
    BY <1>n DEF Submitted, Withdrawn, Taken, Revived, TimedOut
  <2> QED
    BY <1>m, <2>1, <2>2
<1>6. Unjudged'
  <2> SUFFICES ASSUME NEW f \in Findings,
                      findings'[f].state \in {"absent", "pending"} \/ ~ findings'[f].verify
               PROVE  verdicts'[f] = {}
    BY DEF Unjudged
  <2>1. CASE Stays(f) \/ Submitted(f) \/ Withdrawn(f) \/ Decided(f) \/ Taken(f) \/ Revived(f)
    BY <2>1, <1>inv DEF Stays, Submitted, Withdrawn, Decided, Taken, Revived, Unjudged
  <2>2. ~ (Judged(f) \/ TimedOut(f))
    BY <1>inv DEF Judged, TimedOut, ValidatingRequired
  <2> QED
    BY <1>m, <2>1, <2>2
<1>7. ValidatingRequired'
  <2> SUFFICES ASSUME NEW f \in Findings, findings'[f].state = "validating"
               PROVE  findings'[f].verify
    BY DEF ValidatingRequired
  <2> QED
    BY <1>m, <1>n, <1>inv DEF Stays, Submitted, Withdrawn, Taken, Revived, Judged, TimedOut,
                              Decided, ValidatingRequired
<1>8. OperatorDecided'
  <2> SUFFICES ASSUME NEW f \in Findings, findings'[f].state = "dismissed",
                      cause'[f] = "operator", findings'[f].verify
               PROVE  Decisive(f)'
    BY DEF OperatorDecided
  <2>1. CASE Stays(f) \/ Judged(f)
    BY <2>1, <1>inv DEF Stays, Judged, OperatorDecided, Decisive
  <2>2. CASE Decided(f)
    BY <2>2, <1>inv DEF Decided, VerifiedBeforeReport, Decisive
  <2>3. ~ (Submitted(f) \/ Withdrawn(f) \/ Taken(f) \/ Revived(f) \/ TimedOut(f))
    BY <1>n DEF Submitted, Withdrawn, Taken, Revived, TimedOut
  <2> QED
    BY <1>m, <2>1, <2>2, <2>3
<1> QED
  BY <1>1, <1>2, <1>3, <1>4, <1>5, <1>6, <1>7, <1>8 DEF FindingInv

-----------------------------------------------------------------------------
\* A step that writes no finding and no verdict.
LEMMA FindingsUntouched ==
  ASSUME findings' = findings, verdicts' = verdicts, cause' = cause
  PROVE  \A f \in Findings : FindingMove(f)
  BY DEF FindingMove, Stays, Moved, Same

\* A step that writes no job.
LEMMA JobsUntouched ==
  ASSUME FindingInv, jobs' = jobs
  PROVE  /\ \A j \in Jobs : JobMove(j)
         /\ \A f \in Findings : OwnerStays(f)
<1>1. \A j \in Jobs : JobMove(j)
  BY DEF JobMove, JobStays, Active
<1>2. ASSUME NEW f \in Findings
      PROVE  OwnerStays(f)
  BY DEF FindingInv, PendingOwned, OwnerStays, Active
<1> QED
  BY <1>1, <1>2

\* Settling a finding changes its state and its deadline, and nothing else of the row.
LEMMA SettledFields ==
  ASSUME NEW row \in FindingRow, NEW s
  PROVE  /\ Settled(row, s).state = s
         /\ Settled(row, s).job = row.job
         /\ Settled(row, s).verify = row.verify
BY DEF Settled, FindingRow

\* A step that writes one stored job without making a verify job active.  It takes the
\* pending findings with it if the job is a scan that ends.
LEMMA OneJobWritten ==
  ASSUME FindingInv, NEW k \in Jobs, NEW row, jobs' = [jobs EXCEPT ![k] = row],
         row.kind = jobs[k].kind, row.target = jobs[k].target,
         jobs[k].state # "absent", row.state # "absent",
         row.state \in ActiveJobStates => Active(k) \/ jobs[k].kind = "scan",
         \/ row.state \in ActiveJobStates
         \/ row.state = "failed" /\ row.held
         \/ jobs[k].kind = "verify"
         \/ \A f \in PendingOf(k) : findings'[f].state # "pending"
  PROVE  /\ \A j \in Jobs : JobMove(j)
         /\ \A f \in Findings : OwnerStays(f)
<1>t. jobs'[k] = row /\ \A j \in Jobs : j # k => jobs'[j] = jobs[j]
  BY DEF FindingInv, TypeOK
<1>1. ASSUME NEW j \in Jobs
      PROVE  JobStays(j)
  <2>1. CASE j = k
    BY <1>t, <2>1 DEF JobStays, Active
  <2>2. CASE j # k
    BY <1>t, <2>2 DEF JobStays, Active
  <2> QED
    BY <2>1, <2>2
<1>2. ASSUME NEW f \in Findings, findings[f].state = "pending", findings'[f].state = "pending"
      PROVE  \E j \in Jobs : /\ j = findings[f].job
                             /\ jobs'[j].kind = "scan"
                             /\ Active(j)' \/ (jobs'[j].state = "failed" /\ jobs'[j].held)
  <2>1. PICK j \in Jobs : /\ j = findings[f].job
                          /\ jobs[j].kind = "scan"
                          /\ Active(j) \/ (jobs[j].state = "failed" /\ jobs[j].held)
    BY <1>2 DEF FindingInv, PendingOwned
  <2>2. CASE j # k
    BY <1>t, <2>1, <2>2 DEF Active
  <2>3. CASE j = k
    <3>1. f \in PendingOf(k)
      BY <1>2, <2>1, <2>3 DEF PendingOf
    <3>2. row.state \in ActiveJobStates \/ (row.state = "failed" /\ row.held)
      BY <1>2, <2>1, <2>3, <3>1
    <3>3. jobs'[j] = row /\ row.kind = "scan"
      BY <1>t, <2>1, <2>3
    <3> QED
      BY <2>1, <3>2, <3>3, Zenon DEF Active
  <2> QED
    BY <2>2, <2>3
<1> QED
  BY <1>1, <1>2 DEF JobMove, OwnerStays

\* A step that starts or requeues one verify job, for a finding that has none active.
LEMMA OneVerifyStarted ==
  ASSUME FindingInv, NEW k \in Jobs, NEW row, jobs' = [jobs EXCEPT ![k] = row],
         NEW f \in Findings, row.kind = "verify", row.target = f, ActiveVerify(f) = {},
         findings'[f].state = "validating", findings'[f].verify,
         jobs[k].state = "absent" \/ jobs[k].kind = "verify"
  PROVE  /\ \A j \in Jobs : JobMove(j)
         /\ \A g \in Findings : OwnerStays(g)
<1>t. jobs'[k] = row /\ \A j \in Jobs : j # k => jobs'[j] = jobs[j]
  BY DEF FindingInv, TypeOK
<1>1. VerifyStarts(k)
  <2>1. ASSUME NEW j \in Jobs, jobs'[j].kind = "verify", jobs'[j].target = f, Active(j)'
        PROVE  j = k
    BY <1>t, <2>1 DEF Active, ActiveVerify
  <2> QED
    BY <1>t, <2>1 DEF VerifyStarts
<1>2. ASSUME NEW j \in Jobs, j # k
      PROVE  JobStays(j)
  BY <1>t, <1>2 DEF JobStays, Active
<1>3. ASSUME NEW g \in Findings, findings[g].state = "pending"
      PROVE  \E j \in Jobs : /\ j = findings[g].job
                             /\ jobs'[j].kind = "scan"
                             /\ Active(j)' \/ (jobs'[j].state = "failed" /\ jobs'[j].held)
  <2>1. PICK j \in Jobs : /\ j = findings[g].job
                          /\ jobs[j].kind = "scan"
                          /\ Active(j) \/ (jobs[j].state = "failed" /\ jobs[j].held)
    BY <1>3 DEF FindingInv, PendingOwned
  <2>2. j # k
    BY <2>1 DEF Active, ActiveJobStates
  <2> QED
    BY <1>t, <2>1, <2>2 DEF Active
<1> QED
  BY <1>1, <1>2, <1>3 DEF JobMove, OwnerStays

\* Deleting the pending findings of a scan withdraws them and touches no other.
LEMMA PendingDeleted ==
  ASSUME FindingInv, NEW k, findings' = DeletePendingOf(k), verdicts' = verdicts, cause' = cause
  PROVE  /\ \A f \in Findings : FindingMove(f)
         /\ \A f \in PendingOf(k) : findings'[f].state # "pending"
<1>1. \A f \in Findings : findings'[f] = IF f \in PendingOf(k) THEN NoFinding ELSE findings[f]
  BY DEF DeletePendingOf
<1>2. ASSUME NEW f \in Findings
      PROVE  FindingMove(f)
  <2>1. CASE f \in PendingOf(k)
    BY <1>1, <2>1 DEF FindingMove, Withdrawn, Same, PendingOf
  <2>2. CASE f \notin PendingOf(k)
    BY <1>1, <2>2 DEF FindingMove, Stays, Moved, Same
  <2> QED
    BY <2>1, <2>2
<1>3. \A f \in PendingOf(k) : findings'[f].state # "pending"
  BY <1>1 DEF PendingOf, NoFinding
<1> QED
  BY <1>2, <1>3

-----------------------------------------------------------------------------
StepMoves ==
  /\ \A f \in Findings : FindingMove(f) /\ OwnerStays(f)
  /\ \A j \in Jobs : JobMove(j)

\* A job that an attempt holds is leased.
LEMMA HeldIsLeased ==
  ASSUME FindingInv, NEW a \in Attempts, NEW d \in Delays, LeaseHeld(a, d)
  PROVE  /\ attempt[a].job \in Jobs /\ jobs[attempt[a].job] \in JobRow
         /\ jobs[attempt[a].job].state = "leased"
  BY HolderHasJob DEF FindingInv, LeaseHeld

\* A verdict on a stored finding.
LEMMA VerdictMoves ==
  ASSUME FindingInv, NEW a \in Attempts, NEW d \in Delays, NEW t \in BOOLEAN,
         NEW v \in {"confirmed", "dismissed", "inconclusive"}, SubmitVerdict(a, v, t, d)
  PROVE  StepMoves
<1> USE Targets
<1>0. PICK f \in Findings : f = jobs[attempt[a].job].target
  BY DEF SubmitVerdict
<1> DEFINE j == attempt[a].job
           rows == verdicts[f] \cup {[job |-> j, verdict |-> v]}
           c == \E r \in rows : r.verdict = "confirmed"
           x == \E r \in rows : r.verdict = "dismissed"
           next == RollUpVerdicts(findings[f].state, c, x, t, repo.approve)
<1>t. /\ jobs \in [Jobs -> JobRow] /\ findings \in [Findings -> FindingRow]
      /\ verdicts \in [Findings -> SUBSET VerdictRow] /\ DOMAIN cause = Findings
      /\ VerifyTargetExists
  BY DEF FindingInv, TypeOK
<1>1. /\ LeaseHeld(a, d) /\ jobs[j].kind = "verify" /\ f \in Findings
      /\ verdicts' = [verdicts EXCEPT ![f] = rows]
      /\ findings' = [findings EXCEPT ![f] = Settled(findings[f], next)]
      /\ cause' = IF next = "dismissed" /\ findings[f].state = "validating"
                  THEN [cause EXCEPT ![f] = "verdict"] ELSE cause
      /\ jobs' = jobs
  BY <1>0 DEF SubmitVerdict
<1>2. findings[f].state \notin {"absent", "pending"} /\ findings[f].verify
  <2>1. j \in Jobs /\ jobs[j].state = "leased"
    BY <1>1, HeldIsLeased
  <2> QED
    BY <1>0, <1>1, <1>t, <2>1 DEF VerifyTargetExists
<1>3. /\ findings'[f].state = next /\ findings'[f].job = findings[f].job
      /\ findings'[f].verify = findings[f].verify
      /\ verdicts'[f] = rows
  <2>1. findings[f] \in FindingRow
    BY <1>1, <1>t
  <2> QED
    BY <1>1, <1>t, <2>1 DEF Settled, FindingRow
<1>4. \/ next = findings[f].state
         /\ (findings[f].state = "validating" => ~ c /\ ~ x)
      \/ findings[f].state = "validating" /\ next = "dismissed"
      \/ findings[f].state = "validating" /\ next \in {"awaiting_approval", "confirmed"} /\ c
  BY DEF RollUpVerdicts
<1>5. Judged(f)
  <2>1. verdicts[f] \subseteq verdicts'[f]
    BY <1>3
  <2>2. ~ c /\ ~ x => ~ Decisive(f)'
    BY <1>3 DEF Decisive
  <2> HIDE DEF c, x, next, rows
  <2>3. CASE next = findings[f].state /\ (findings[f].state = "validating" => ~ c /\ ~ x)
    BY <1>1, <1>2, <1>3, <2>1, <2>2, <2>3 DEF Judged, Moved
  <2>4. CASE findings[f].state = "validating" /\ next = "dismissed"
    BY <1>1, <1>2, <1>3, <1>t, <2>1, <2>4 DEF Judged, Moved
  <2>5. CASE findings[f].state = "validating" /\ next \in {"awaiting_approval", "confirmed"} /\ c
    <3>1. \E r \in verdicts'[f] : r.verdict = "confirmed"
      BY <1>3, <2>5 DEF c
    <3> QED
      BY <1>1, <1>2, <1>3, <2>1, <2>5, <3>1 DEF Judged, Moved
  <2> QED
    BY <1>4, <2>3, <2>4, <2>5
<1> HIDE DEF c, x, next, rows
<1>6. ASSUME NEW g \in Findings, g # f
      PROVE  Stays(g)
  BY <1>1, <1>6, <1>t DEF Stays, Moved, Same
<1> QED
  BY <1>1, <1>5, <1>6, JobsUntouched DEF StepMoves, FindingMove

\* A scan that completes settles all its pending findings, and every one it leaves in
\* validating has one active verify job, its own new one.
LEMMA ScanDoneMoves ==
  ASSUME FindingInv, NEW a \in Attempts, NEW d \in Delays, NEW newJob \in [Findings -> Jobs],
         CompleteScan(a, d, newJob)
  PROVE  StepMoves
<1> USE Targets
<1>0. PICK j \in Jobs : j = attempt[a].job /\ jobs[j] \in JobRow /\ jobs[j].state = "leased"
  BY HeldIsLeased DEF CompleteScan
<1> DEFINE accepted == [f \in Findings |-> IF f \in PendingOf(j) THEN Accepted(f, d) ELSE findings[f]]
           toVerify == {f \in Findings : accepted[f].state = "validating" /\ accepted[f].job = j}
<1>t. /\ jobs \in [Jobs -> JobRow] /\ findings \in [Findings -> FindingRow]
      /\ ValidatingRequired /\ PendingOwned
  BY DEF FindingInv, TypeOK
<1>1. /\ jobs[j].kind = "scan"
      /\ \A f \in toVerify : ActiveVerify(f) = {}
      /\ \A f \in toVerify : jobs[newJob[f]].state = "absent"
      /\ \A f, g \in toVerify : newJob[f] = newJob[g] => f = g
      /\ findings' = accepted
      /\ jobs' = [k \in Jobs |->
           IF k = j THEN Completed(jobs[j], "succeeded")
           ELSE IF \E f \in toVerify : newJob[f] = k
                THEN NewJob("verify", CHOOSE f \in toVerify : newJob[f] = k)
                ELSE jobs[k]]
      /\ verdicts' = verdicts /\ cause' = cause
  BY <1>0 DEF CompleteScan, JobFrom
<1>2. ASSUME NEW f \in Findings
      PROVE  /\ FindingMove(f)
             /\ f \in PendingOf(j) => findings'[f].state # "pending"
             /\ findings'[f].state = "validating" => findings'[f].verify
  <2>1. findings[f] \in FindingRow
    BY <1>t
  <2>2. CASE f \in PendingOf(j)
    <3>1. findings'[f] = Accepted(f, d)
      BY <1>1, <2>2
    <3>2. CASE findings[f].verify
      <4>1. Moved(f, "validating")
        BY <2>1, <3>1, <3>2 DEF Accepted, Moved, FindingRow
      <4> QED
        BY <1>1, <2>2, <3>2, <4>1 DEF FindingMove, Taken, Moved, Same, PendingOf
    <3>3. CASE ~ findings[f].verify
      <4>1. Moved(f, "awaiting_approval") \/ Moved(f, "confirmed")
        BY <2>1, <3>1, <3>3 DEF Accepted, Moved, FindingRow
      <4> QED
        BY <1>1, <2>2, <3>3, <4>1 DEF FindingMove, Taken, Moved, Same, PendingOf
    <3> QED
      BY <3>2, <3>3
  <2>3. CASE f \notin PendingOf(j)
    <3>1. findings'[f] = findings[f]
      BY <1>1, <2>3
    <3> QED
      BY <1>1, <1>t, <2>3, <3>1 DEF FindingMove, Stays, Moved, Same, ValidatingRequired
  <2> QED
    BY <2>2, <2>3
<1>3. \A f \in toVerify : f \in Findings /\ findings'[f].state = "validating"
  BY <1>1
<1> HIDE DEF accepted, toVerify
<1>4. ASSUME NEW k \in Jobs
      PROVE  \/ k = j /\ jobs'[k] = Completed(jobs[j], "succeeded")
             \/ /\ jobs[k].state = "absent"
                /\ \E f \in toVerify : newJob[f] = k /\ jobs'[k] = NewJob("verify", f)
             \/ jobs'[k] = jobs[k]
  <2>1. CASE k # j /\ \E f \in toVerify : newJob[f] = k
    <3> DEFINE g == CHOOSE f \in toVerify : newJob[f] = k
    <3>1. g \in toVerify /\ newJob[g] = k
      BY <2>1
    <3>2. jobs'[k] = NewJob("verify", g)
      BY <1>1, <2>1
    <3> HIDE DEF g
    <3> QED
      BY <1>1, <3>1, <3>2
  <2>2. CASE k = j
    BY <1>1, <2>2
  <2>3. CASE k # j /\ ~ \E f \in toVerify : newJob[f] = k
    BY <1>1, <2>3
  <2> QED
    BY <2>1, <2>2, <2>3
<1>r. /\ LET done == Completed(jobs[j], "succeeded")
         IN  done.kind = jobs[j].kind /\ done.target = jobs[j].target /\ done.state = "succeeded"
      /\ \A f : LET new == NewJob("verify", f)
                IN  new.kind = "verify" /\ new.target = f /\ new.state = "queued"
  BY <1>0, RowsWritten
<1>5. ASSUME NEW k \in Jobs
      PROVE  JobMove(k)
  <2>1. CASE k = j /\ jobs'[k] = Completed(jobs[j], "succeeded")
    BY <1>0, <1>1, <1>r, <2>1 DEF JobMove, JobStays
  <2>2. CASE jobs'[k] = jobs[k]
    BY <2>2 DEF JobMove, JobStays, Active
  <2>3. CASE \E f \in toVerify : newJob[f] = k /\ jobs'[k] = NewJob("verify", f)
    <3>1. PICK f \in toVerify : newJob[f] = k /\ jobs'[k] = NewJob("verify", f)
      BY <2>3
    <3>2. /\ f \in Findings /\ findings'[f].state = "validating" /\ findings'[f].verify
          /\ jobs'[k].kind = "verify" /\ jobs'[k].target = f
      BY <1>2, <1>3, <1>r, <3>1
    <3>3. ASSUME NEW i \in Jobs, jobs'[i].kind = "verify", jobs'[i].target = f, Active(i)'
          PROVE  i = k
      <4>1. CASE jobs'[i] = jobs[i]
        <5>1. i \in ActiveVerify(f)
          BY <3>3, <4>1 DEF ActiveVerify, Active
        <5> QED
          BY <1>1, <3>1, <5>1
      <4>2. CASE \E g \in toVerify : newJob[g] = i /\ jobs'[i] = NewJob("verify", g)
        BY <1>r, <3>1, <3>3, <4>2
      <4>3. CASE jobs'[i] = Completed(jobs[j], "succeeded")
        BY <1>r, <3>3, <4>3 DEF Active, ActiveJobStates
      <4> QED
        BY <1>4, <4>1, <4>2, <4>3
    <3> QED
      BY <3>2, <3>3 DEF JobMove, VerifyStarts
  <2> QED
    BY <1>4, <2>1, <2>2, <2>3
<1>6. ASSUME NEW f \in Findings, findings[f].state = "pending", findings'[f].state = "pending"
      PROVE  \E k \in Jobs : /\ k = findings[f].job
                             /\ jobs'[k].kind = "scan"
                             /\ Active(k)' \/ (jobs'[k].state = "failed" /\ jobs'[k].held)
  <2>1. PICK k \in Jobs : /\ k = findings[f].job
                          /\ jobs[k].kind = "scan"
                          /\ Active(k) \/ (jobs[k].state = "failed" /\ jobs[k].held)
    BY <1>6, <1>t DEF PendingOwned
  <2>2. k # j
    BY <1>2, <1>6, <2>1 DEF PendingOf
  <2>3. jobs[k].state # "absent"
    BY <2>1 DEF Active, ActiveJobStates
  <2>4. jobs'[k] = jobs[k]
    BY <1>4, <2>2, <2>3
  <2> QED
    BY <2>1, <2>4 DEF Active
<1> QED
  BY <1>2, <1>5, <1>6 DEF StepMoves, OwnerStays

\* The steps of a worker.
LEMMA WorkerMoves ==
  ASSUME FindingInv, NEW a \in Attempts, WorkerStep(a)
  PROVE  StepMoves
<1> USE Targets
<1>t. jobs \in [Jobs -> JobRow] /\ findings \in [Findings -> FindingRow]
  BY DEF FindingInv, TypeOK
<1>1. ASSUME NEW w \in Workers, NEW j \in Jobs, Claim(w, a, j)
      PROVE  StepMoves
  <2> DEFINE row == Leased(jobs[j], w, a)
  <2>1. row.kind = jobs[j].kind /\ row.target = jobs[j].target /\ row.state = "leased"
    BY <1>t, RowsWritten
  <2>2. jobs[j].state = "queued"
    BY <1>1 DEF Claim, Candidate, JobFrom
  <2>3. /\ jobs' = [jobs EXCEPT ![j] = row]
        /\ findings' = findings /\ verdicts' = verdicts /\ cause' = cause
    BY <1>1 DEF Claim
  <2> HIDE DEF row
  <2> QED
    BY <2>1, <2>2, <2>3, OneJobWritten, FindingsUntouched DEF StepMoves, ActiveJobStates, Active
<1>2. ASSUME NEW d \in Delays, Heartbeat(a, d)
      PROVE  StepMoves
  <2>0. PICK j \in Jobs : j = attempt[a].job /\ jobs[j] \in JobRow /\ jobs[j].state = "leased"
    BY <1>2, HeldIsLeased DEF Heartbeat
  <2> DEFINE row == [jobs[j] EXCEPT !.state = "leased", !.lease = LEASE_SECONDS - d]
  <2>1. row.kind = jobs[j].kind /\ row.target = jobs[j].target /\ row.state = "leased"
    BY <2>0 DEF JobRow
  <2>3. /\ jobs' = [jobs EXCEPT ![j] = row]
        /\ findings' = findings /\ verdicts' = verdicts /\ cause' = cause
    BY <1>2, <2>0 DEF Heartbeat
  <2> HIDE DEF row
  <2> QED
    BY <2>0, <2>1, <2>3, OneJobWritten, FindingsUntouched DEF StepMoves, ActiveJobStates, Active
<1>3. ASSUME NEW d \in Delays, NEW f \in Findings, SubmitFinding(a, f, d)
      PROVE  StepMoves
  <2>0. PICK j \in Jobs : j = attempt[a].job /\ jobs[j] \in JobRow /\ jobs[j].state = "leased"
    BY <1>3, HeldIsLeased DEF SubmitFinding
  <2>1. /\ jobs' = jobs /\ verdicts' = verdicts /\ cause' = cause
        /\ jobs[j].kind = "scan" /\ findings[f].state = "absent"
        /\ findings'[f].state = "pending" /\ findings'[f].job = j
        /\ \A g \in Findings : g # f => findings'[g] = findings[g]
    BY <1>3, <1>t, <2>0 DEF SubmitFinding, FindingFrom
  <2>2. Submitted(f) /\ \A g \in Findings : g # f => Stays(g)
    BY <2>0, <2>1 DEF Submitted, Stays, Moved, Same
  <2> QED
    BY <2>1, <2>2, JobsUntouched DEF StepMoves, FindingMove
<1>4. ASSUME NEW d \in Delays, CompleteVerify(a, d)
      PROVE  StepMoves
  <2>0. PICK j \in Jobs : j = attempt[a].job /\ jobs[j] \in JobRow /\ jobs[j].state = "leased"
    BY <1>4, HeldIsLeased DEF CompleteVerify
  <2> DEFINE row == Completed(jobs[j], "succeeded")
  <2>1. row.kind = jobs[j].kind /\ row.target = jobs[j].target /\ row.state = "succeeded"
    BY <2>0, RowsWritten
  <2>3. /\ jobs' = [jobs EXCEPT ![j] = row] /\ jobs[j].kind = "verify"
        /\ findings' = findings /\ verdicts' = verdicts /\ cause' = cause
    BY <1>4, <2>0 DEF CompleteVerify
  <2> HIDE DEF row
  <2> QED
    BY <2>0, <2>1, <2>3, OneJobWritten, FindingsUntouched DEF StepMoves, ActiveJobStates, Active
<1>5. ASSUME NEW d \in Delays, CompleteFailed(a, d)
      PROVE  StepMoves
  <2>0. PICK j \in Jobs : j = attempt[a].job /\ jobs[j] \in JobRow /\ jobs[j].state = "leased"
    BY <1>5, HeldIsLeased DEF CompleteFailed
  <2> DEFINE row == Completed(jobs[j], "failed")
  <2>1. row.kind = jobs[j].kind /\ row.target = jobs[j].target /\ row.state = "failed"
    BY <2>0, RowsWritten
  <2>3. /\ jobs' = [jobs EXCEPT ![j] = row]
        /\ findings' = IF jobs[j].kind = "scan" THEN DeletePendingOf(j) ELSE findings
        /\ verdicts' = verdicts /\ cause' = cause
    BY <1>5, <2>0 DEF CompleteFailed
  <2>k. jobs[j].kind \in {"scan", "verify"}
    BY <2>0 DEF JobRow
  <2> HIDE DEF row
  <2>4. CASE jobs[j].kind = "scan"
    <3>1. /\ \A f \in Findings : FindingMove(f)
          /\ \A f \in PendingOf(j) : findings'[f].state # "pending"
      BY <2>3, <2>4, PendingDeleted
    <3>2. row.state \notin ActiveJobStates
      BY <2>1 DEF ActiveJobStates
    <3> QED
      BY <2>0, <2>1, <2>3, <3>1, <3>2, OneJobWritten DEF StepMoves
  <2>5. CASE jobs[j].kind = "verify"
    BY <2>0, <2>1, <2>3, <2>5, FindingsUntouched, OneJobWritten DEF StepMoves, ActiveJobStates
  <2> QED
    BY <2>k, <2>4, <2>5
<1>6. CASE AttemptEnds(a)
  BY <1>6, JobsUntouched, FindingsUntouched DEF AttemptEnds, StepMoves
<1> QED
  BY <1>1, <1>2, <1>3, <1>4, <1>5, <1>6, VerdictMoves, ScanDoneMoves DEF WorkerStep

\* A scan is enqueued in an unused row.
LEMMA ScanEnqueued ==
  ASSUME FindingInv, NEW k \in Jobs, EnqueueScan(k)
  PROVE  StepMoves
<1>1. /\ jobs[k].state = "absent" /\ jobs'[k].kind = "scan"
      /\ \A j \in Jobs : j # k => jobs'[j] = jobs[j]
      /\ findings' = findings /\ verdicts' = verdicts /\ cause' = cause
  BY DEF EnqueueScan, JobFrom, FindingInv, TypeOK, NewJob, NoJob
<1>2. \A j \in Jobs : JobMove(j)
  BY <1>1 DEF JobMove, ScanStarts, JobStays, Active
<1>3. ASSUME NEW f \in Findings
      PROVE  OwnerStays(f)
  BY <1>1 DEF OwnerStays, FindingInv, PendingOwned, Active, ActiveJobStates
<1> QED
  BY <1>1, <1>2, <1>3, FindingsUntouched DEF StepMoves

\* The steps of the operator.
LEMMA OperatorMoves ==
  ASSUME FindingInv, OperatorStep
  PROVE  StepMoves
<1> USE Targets
<1>t. jobs \in [Jobs -> JobRow] /\ findings \in [Findings -> FindingRow] /\ DOMAIN cause = Findings
  BY DEF FindingInv, TypeOK
<1>1. ASSUME NEW j \in Jobs, EnqueueScan(j)
      PROVE  StepMoves
  BY <1>1, ScanEnqueued
<1>2. ASSUME NEW j \in Jobs, Cancel(j)
      PROVE  StepMoves
  <2> DEFINE row == [Released(jobs[j]) EXCEPT !.state = "cancelled"]
  <2>0. jobs[j] \in JobRow /\ jobs[j].kind \in {"scan", "verify"}
    BY <1>t DEF JobRow
  <2>1. row.kind = jobs[j].kind /\ row.target = jobs[j].target /\ row.state = "cancelled"
    BY <2>0, RowsWritten
  <2>2. /\ jobs' = [jobs EXCEPT ![j] = row] /\ jobs[j].state \in {"queued", "leased"}
        /\ findings' = IF jobs[j].kind = "scan" THEN DeletePendingOf(j) ELSE findings
        /\ verdicts' = verdicts /\ cause' = cause
    BY <1>2 DEF Cancel, JobFrom
  <2> HIDE DEF row
  <2>3. row.state \notin ActiveJobStates
    BY <2>1 DEF ActiveJobStates
  <2>4. CASE jobs[j].kind = "scan"
    <3>1. /\ \A f \in Findings : FindingMove(f)
          /\ \A f \in PendingOf(j) : findings'[f].state # "pending"
      BY <2>2, <2>4, PendingDeleted
    <3> QED
      BY <2>1, <2>2, <2>3, <3>1, OneJobWritten DEF StepMoves
  <2>5. CASE jobs[j].kind = "verify"
    BY <2>1, <2>2, <2>3, <2>5, FindingsUntouched, OneJobWritten DEF StepMoves
  <2> QED
    BY <2>0, <2>4, <2>5
<1>3. ASSUME NEW j \in Jobs, RetryScan(j)
      PROVE  StepMoves
  <2> DEFINE row == Requeued(jobs[j])
  <2>1. row.kind = jobs[j].kind /\ row.target = jobs[j].target /\ row.state = "queued"
    BY <1>t, RowsWritten
  <2>2. /\ jobs' = [jobs EXCEPT ![j] = row] /\ jobs[j].state = "failed" /\ jobs[j].kind = "scan"
        /\ findings' = findings /\ verdicts' = verdicts /\ cause' = cause
    BY <1>3 DEF RetryScan, JobFrom
  <2> HIDE DEF row
  <2> QED
    BY <2>1, <2>2, OneJobWritten, FindingsUntouched DEF StepMoves, ActiveJobStates
<1>4. ASSUME NEW f \in Findings, findings' = [findings EXCEPT ![f] = Revalidated(f)],
             findings[f].state \in {"pending", "validating", "dismissed"},
             findings[f].verify, ~ Decisive(f), verdicts' = verdicts, cause' = cause
      PROVE  /\ \A g \in Findings : FindingMove(g)
             /\ findings'[f].state = "validating" /\ findings'[f].verify
  <2>1. findings[f] \in FindingRow
    BY <1>t
  <2>2. Moved(f, "validating")
    BY <1>4, <1>t, <2>1 DEF Revalidated, Moved, FindingRow
  <2>3. Revived(f)
    BY <1>4, <2>2 DEF Revived, Same
  <2>4. ASSUME NEW g \in Findings, g # f
        PROVE  Stays(g)
    BY <1>4, <1>t, <2>4 DEF Stays, Moved, Same
  <2> QED
    BY <1>4, <2>2, <2>3, <2>4 DEF FindingMove, Moved
<1>5. ASSUME NEW j \in Jobs, RetryVerifyJob(j)
      PROVE  StepMoves
  <2>0. PICK f \in Findings : f = jobs[j].target
    BY <1>5 DEF RetryVerifyJob
  <2> DEFINE row == Requeued(jobs[j])
  <2>1. row.kind = jobs[j].kind /\ row.target = jobs[j].target
    BY <1>t, RowsWritten
  <2>2. /\ jobs' = [jobs EXCEPT ![j] = row] /\ jobs[j].state = "failed" /\ jobs[j].kind = "verify"
        /\ findings' = [findings EXCEPT ![f] = Revalidated(f)]
        /\ RetriableTarget(f) /\ ActiveVerify(f) = {}
        /\ verdicts' = verdicts /\ cause' = cause
    BY <1>5, <2>0 DEF RetryVerifyJob, JobFrom
  <2> HIDE DEF row
  <2>3. /\ findings[f].state \in {"pending", "validating", "dismissed"}
        /\ ~ Decisive(f)
    BY <2>2 DEF RetriableTarget, FindingInv, ValidatingUndecided
  <2>4. findings[f].verify
    BY <2>0, <2>2 DEF FindingInv, VerifyTargetExists
  <2>5. /\ \A g \in Findings : FindingMove(g)
        /\ findings'[f].state = "validating" /\ findings'[f].verify
    BY <1>4, <2>2, <2>3, <2>4
  <2> QED
    BY <2>0, <2>1, <2>2, <2>5, OneVerifyStarted DEF StepMoves
<1>6. ASSUME NEW f \in Findings, NEW i \in BOOLEAN, NEW j \in Jobs, RetryVerification(f, i, j)
      PROVE  StepMoves
  <2>1. /\ findings' = [findings EXCEPT ![f] = Revalidated(f)]
        /\ RecoveryCandidate(f, i) /\ ActiveVerify(f) = {}
        /\ verdicts' = verdicts /\ cause' = cause
    BY <1>6 DEF RetryVerification
  <2>2. /\ findings[f].state \in {"pending", "validating", "dismissed"}
        /\ findings[f].verify /\ ~ Decisive(f)
    BY <2>1 DEF RecoveryCandidate
  <2>3. /\ \A g \in Findings : FindingMove(g)
        /\ findings'[f].state = "validating" /\ findings'[f].verify
    BY <1>4, <2>1, <2>2
  <2>4. \/ j \in FailedVerify(f) /\ jobs' = [jobs EXCEPT ![j] = Requeued(jobs[j])]
        \/ jobs[j].state = "absent" /\ jobs' = [jobs EXCEPT ![j] = NewJob("verify", f)]
    BY <1>6 DEF RetryVerification, JobFrom
  <2>5. CASE j \in FailedVerify(f) /\ jobs' = [jobs EXCEPT ![j] = Requeued(jobs[j])]
    <3> DEFINE row == Requeued(jobs[j])
    <3>1. row.kind = "verify" /\ row.target = f /\ jobs[j].kind = "verify"
      BY <1>t, <2>5, RowsWritten DEF FailedVerify
    <3>2. jobs' = [jobs EXCEPT ![j] = row]
      BY <2>5
    <3> HIDE DEF row
    <3> QED
      BY <2>1, <2>3, <3>1, <3>2, OneVerifyStarted DEF StepMoves
  <2>6. CASE jobs[j].state = "absent" /\ jobs' = [jobs EXCEPT ![j] = NewJob("verify", f)]
    <3> DEFINE row == NewJob("verify", f)
    <3>1. row.kind = "verify" /\ row.target = f
      BY Targets DEF NewJob, NoJob
    <3>2. jobs' = [jobs EXCEPT ![j] = row] /\ jobs[j].state = "absent"
      BY <2>6
    <3> HIDE DEF row
    <3> QED
      BY <2>1, <2>3, <3>1, <3>2, OneVerifyStarted DEF StepMoves
  <2> QED
    BY <2>4, <2>5, <2>6
<1>7. ASSUME NEW f \in Findings, Approve(f) \/ Reject(f)
      PROVE  StepMoves
  <2>0. findings[f] \in FindingRow
    BY <1>t
  <2>1. /\ jobs' = jobs /\ verdicts' = verdicts
        /\ \A g \in Findings : g # f => findings'[g] = findings[g] /\ cause'[g] = cause[g]
        /\ Decided(f)
    BY <1>7, <1>t, <2>0 DEF Approve, Reject, FindingFrom, Decided, Moved, Same, FindingRow
  <2> QED
    BY <2>1, JobsUntouched DEF StepMoves, FindingMove, Stays, Moved, Same
<1>8. CASE UpdateRepo
  BY <1>8, JobsUntouched, FindingsUntouched DEF UpdateRepo, StepMoves
<1> QED
  BY <1>1, <1>2, <1>3, <1>5, <1>6, <1>7, <1>8 DEF OperatorStep

\* The reaper requeues what is left of its attempts and fails the rest with its findings.
LEMMA ReapMoves ==
  ASSUME FindingInv, ReapLeases
  PROVE  StepMoves
<1>t. jobs \in [Jobs -> JobRow] /\ PendingOwned /\ MAX_ATTEMPTS \in Nat
  BY ConstantsAssumption DEF FindingInv, TypeOK
<1>1. /\ \A j \in Jobs : jobs'[j] = IF Expired(j) THEN Reaped(jobs[j]) ELSE jobs[j]
      /\ \A f \in Findings : findings'[f] = IF ReapDeletes(f) THEN NoFinding ELSE findings[f]
      /\ verdicts' = verdicts /\ cause' = cause
  BY DEF ReapLeases
<1>2. ASSUME NEW f \in Findings
      PROVE  FindingMove(f)
  BY <1>1 DEF FindingMove, Withdrawn, Stays, Moved, Same, ReapDeletes
<1>3. ASSUME NEW j \in Jobs, Expired(j)
      PROVE  /\ jobs'[j].kind = jobs[j].kind /\ jobs'[j].target = jobs[j].target
             /\ jobs'[j].state = IF jobs[j].attempts < MAX_ATTEMPTS THEN "queued" ELSE "failed"
             /\ jobs[j].state = "leased"
  <2>1. jobs'[j] = Reaped(jobs[j]) /\ jobs[j] \in JobRow
    BY <1>1, <1>3, <1>t
  <2> QED
    BY <1>3, <2>1, RowsWritten DEF Expired
<1>4. ASSUME NEW j \in Jobs
      PROVE  JobMove(j)
  <2>1. CASE Expired(j)
    BY <1>3, <2>1 DEF JobMove, JobStays, Active, ActiveJobStates
  <2>2. CASE ~ Expired(j)
    BY <1>1, <2>2 DEF JobMove, JobStays, Active
  <2> QED
    BY <2>1, <2>2
<1>5. ASSUME NEW f \in Findings, findings[f].state = "pending", findings'[f].state = "pending"
      PROVE  \E k \in Jobs : /\ k = findings[f].job
                             /\ jobs'[k].kind = "scan"
                             /\ Active(k)' \/ (jobs'[k].state = "failed" /\ jobs'[k].held)
  <2>1. PICK k \in Jobs : /\ k = findings[f].job
                          /\ jobs[k].kind = "scan"
                          /\ Active(k) \/ (jobs[k].state = "failed" /\ jobs[k].held)
    BY <1>5, <1>t DEF PendingOwned
  <2>2. CASE Expired(k)
    <3>1. jobs[k].attempts < MAX_ATTEMPTS
      <4>1. ~ ReapDeletes(f)
        BY <1>1, <1>5 DEF NoFinding
      <4>2. ~ (jobs[k].attempts >= MAX_ATTEMPTS)
        BY <1>5, <2>1, <2>2, <4>1 DEF ReapDeletes
      <4>3. jobs[k].attempts \in 0 .. MAX_ATTEMPTS
        BY <1>t DEF JobRow
      <4> QED
        BY <1>t, <4>2, <4>3
    <3> QED
      BY <1>3, <2>1, <2>2, <3>1 DEF Active, ActiveJobStates
  <2>3. CASE ~ Expired(k)
    BY <1>1, <2>1, <2>3 DEF Active
  <2> QED
    BY <2>2, <2>3
<1> QED
  BY <1>2, <1>4, <1>5 DEF StepMoves, OwnerStays

\* The steps of the server.
LEMMA ServerMoves ==
  ASSUME FindingInv, ServerStep
  PROVE  StepMoves
<1> USE Targets
<1>t. jobs \in [Jobs -> JobRow] /\ findings \in [Findings -> FindingRow]
  BY DEF FindingInv, TypeOK
<1>1. ASSUME NEW j \in Jobs, ScheduleDue(j)
      PROVE  StepMoves
  BY <1>1, ScanEnqueued DEF ScheduleDue
<1>2. ASSUME NEW w \in Workers, NEW j \in Jobs, Quarantine(w, j)
      PROVE  StepMoves
  <2> DEFINE row == [Released(jobs[j]) EXCEPT !.state = "failed", !.held = TRUE]
  <2>1. row.kind = jobs[j].kind /\ row.target = jobs[j].target /\ row.state = "failed" /\ row.held
    BY <1>t, RowsWritten
  <2>2. /\ jobs' = [jobs EXCEPT ![j] = row] /\ jobs[j].state = "queued"
        /\ findings' = findings /\ verdicts' = verdicts /\ cause' = cause
    BY <1>2 DEF Quarantine, Candidate, JobFrom
  <2>3. row.state \notin ActiveJobStates
    BY <2>1 DEF ActiveJobStates
  <2> HIDE DEF row
  <2> QED
    BY <2>1, <2>2, <2>3, OneJobWritten, FindingsUntouched DEF StepMoves
<1>3. ASSUME NEW f \in Findings, MarkReported(f)
      PROVE  StepMoves
  <2>0. findings[f] \in FindingRow
    BY <1>t
  <2>1. /\ jobs' = jobs /\ verdicts' = verdicts /\ cause' = cause
        /\ \A g \in Findings : g # f => findings'[g] = findings[g]
        /\ Decided(f)
    BY <1>3, <1>t, <2>0 DEF MarkReported, FindingFrom, Decided, Moved, Same, FindingRow
  <2> QED
    BY <2>1, JobsUntouched DEF StepMoves, FindingMove, Stays, Moved, Same
<1>4. CASE ReapValidating
  <2>1. /\ jobs' = jobs
        /\ \A f \in Findings :
             /\ ~ Overdue(f) => findings'[f] = findings[f] /\ Same(f)
             /\ Overdue(f) => /\ findings'[f] = Settled(findings[f], "dismissed")
                              /\ verdicts[f] \subseteq verdicts'[f]
                              /\ cause'[f] = "deadline"
    BY <1>4 DEF ReapValidating, Same
  <2>2. ASSUME NEW f \in Findings
        PROVE  FindingMove(f)
    <3>1. CASE Overdue(f)
      <4>1. findings[f] \in FindingRow
        BY <1>t
      <4>2. findings'[f] = Settled(findings[f], "dismissed")
        BY <2>1, <3>1
      <4>3. Moved(f, "dismissed")
        BY <4>1, <4>2, SettledFields DEF Moved
      <4> QED
        BY <2>1, <3>1, <4>3 DEF FindingMove, TimedOut, Overdue
    <3>2. CASE ~ Overdue(f)
      BY <2>1, <3>2 DEF FindingMove, Stays, Moved
    <3> QED
      BY <3>1, <3>2
  <2> QED
    BY <2>1, <2>2, JobsUntouched DEF StepMoves
<1>5. CASE Tick
  <2>1. /\ \A j \in Jobs : /\ jobs'[j].state = jobs[j].state /\ jobs'[j].kind = jobs[j].kind
                            /\ jobs'[j].target = jobs[j].target /\ jobs'[j].held = jobs[j].held
        /\ \A f \in Findings : Moved(f, findings[f].state)
        /\ verdicts' = verdicts /\ cause' = cause
    BY <1>5, <1>t DEF Tick, JobRow, FindingRow, Moved
  <2>2. \A j \in Jobs : JobMove(j)
    BY <2>1 DEF JobMove, JobStays, Active
  <2>3. \A f \in Findings : FindingMove(f)
    BY <2>1 DEF FindingMove, Stays, Same
  <2>4. ASSUME NEW f \in Findings
        PROVE  OwnerStays(f)
    BY <2>1, <2>4 DEF OwnerStays, FindingInv, PendingOwned, Active
  <2> QED
    BY <2>2, <2>3, <2>4 DEF StepMoves
<1> QED
  BY <1>1, <1>2, <1>3, <1>4, <1>5, ReapMoves DEF ServerStep

-----------------------------------------------------------------------------
\* Every step is made of such moves.
LEMMA NextMoves ==
  ASSUME FindingInv, [Next]_vars
  PROVE  StepMoves
<1>1. CASE UNCHANGED vars
  BY <1>1, JobsUntouched, FindingsUntouched DEF vars, StepMoves
<1> QED
  BY <1>1, WorkerMoves, OperatorMoves, ServerMoves DEF Next

\* The invariant holds always.
LEMMA FindingInductive == Spec => []FindingInv
<1>1. Init => FindingInv
  <2> SUFFICES ASSUME Init PROVE FindingInv
    OBVIOUS
  <2>1. TypeOK
    BY BudgetInductive
  <2>2. /\ \A j \in Jobs : jobs[j].state = "absent"
        /\ \A f \in Findings : findings[f].state = "absent" /\ verdicts[f] = {}
    BY DEF Init, NoJob, NoFinding
  <2> QED
    BY <2>1, <2>2 DEF FindingInv, OneActiveVerify, VerifyTargetExists, ValidatingUndecided,
         PendingOwned, VerifiedBeforeReport, Unjudged, ValidatingRequired, OperatorDecided,
         Active, ActiveJobStates
<1>2. FindingInv /\ TypeOK' /\ [Next]_vars => FindingInv'
  BY NextMoves, MovesKeep DEF StepMoves
<1> QED
  BY <1>1, <1>2, TypeCorrect, PTL DEF Spec

\* For any number of jobs, findings, workers and attempts: a finding is verified by one
\* job at a time, every verify job has a stored finding to verify, and what is being
\* validated has no decisive verdict.
THEOREM VerificationIsSound == Spec => []VerificationSound
<1>1. FindingInv => VerificationSound
  BY DEF FindingInv, VerificationSound
<1> QED
  BY <1>1, FindingInductive, PTL

\* A pending finding always has a scan that may still settle it, or one the claim's
\* quarantine holds for the operator.
THEOREM PendingIsOwned == Spec => []PendingOwned
<1>1. FindingInv => PendingOwned
  BY DEF FindingInv
<1> QED
  BY <1>1, FindingInductive, PTL

\* Nothing that has to be verified is reportable without a verifier's confirmation,
\* whatever the operator changes in the repository's settings.
THEOREM ReportedIsVerified == Spec => []VerifiedBeforeReport
<1>1. FindingInv => VerifiedBeforeReport
  BY DEF FindingInv
<1> QED
  BY <1>1, FindingInductive, PTL

\* The moves of a finding are moves of its stage.
LEMMA StageMoves ==
  ASSUME FindingInv, NEW f \in Findings, FindingMove(f)
  PROVE  \/ Stage(f)' = Stage(f)
         \/ <<Stage(f), Stage(f)'>> \in
              {<<"none", "open">>, <<"open", "none">>, <<"open", "refused">>,
               <<"open", "accepted">>, <<"accepted", "published">>}
<1> DEFINE old == findings[f].state
           new == findings'[f].state
           final == cause[f] = "operator" \/ Decisive(f)
           final1 == cause'[f] = "operator" \/ Decisive(f)'
<1>1. Stage(f) = IF old = "absent" THEN "none" ELSE IF old = "confirmed" THEN "accepted"
                 ELSE IF old = "reported" THEN "published"
                 ELSE IF old = "dismissed" /\ final THEN "refused" ELSE "open"
  BY DEF Stage
<1>2. Stage(f)' = IF new = "absent" THEN "none" ELSE IF new = "confirmed" THEN "accepted"
                  ELSE IF new = "reported" THEN "published"
                  ELSE IF new = "dismissed" /\ final1 THEN "refused" ELSE "open"
  BY DEF Stage
<1>3. verdicts[f] \subseteq verdicts'[f] => (Decisive(f) => Decisive(f)')
  BY DEF Decisive
<1>4. NoFinding.state = "absent"
  BY DEF NoFinding
<1>5. old = "dismissed" /\ findings[f].verify /\ ~ Decisive(f) => cause[f] # "operator"
  BY DEF FindingInv, OperatorDecided
<1>6. Same(f) => (final <=> final1)
  BY DEF Same, Decisive
<1>7. CASE Stays(f) \/ Submitted(f) \/ Withdrawn(f) \/ Taken(f)
  <2> HIDE DEF final, final1
  <2> QED
    BY <1>1, <1>2, <1>4, <1>6, <1>7 DEF Stays, Submitted, Withdrawn, Taken, Moved
<1>8. CASE Revived(f)
  <2>1. old = "dismissed" => ~ final
    BY <1>5, <1>8 DEF Revived
  <2> HIDE DEF final, final1
  <2> QED
    BY <1>1, <1>2, <1>8, <2>1 DEF Revived, Moved
<1>9. CASE Judged(f) \/ TimedOut(f)
  <2>1. old = "dismissed" /\ final => final1
    BY <1>3, <1>9 DEF Judged, TimedOut, Moved
  <2> HIDE DEF final, final1
  <2> QED
    BY <1>1, <1>2, <1>9, <2>1 DEF Judged, TimedOut, Moved
<1>10. CASE Decided(f)
  <2> HIDE DEF final, final1
  <2> QED
    BY <1>1, <1>2, <1>10 DEF Decided, Moved
<1> QED
  BY <1>7, <1>8, <1>9, <1>10 DEF FindingMove

\* The queue keeps the promise of FindingPromise to every finding: no recovery revives a
\* refused one, nothing takes back a confirmation, and a reported one never changes.
THEOREM PromiseIsKept == Spec => PromiseKept
<1> DEFINE s == [f \in Findings |-> Stage(f)]
<1>1. Init => s = [f \in Findings |-> "none"]
  <2> SUFFICES ASSUME Init, NEW f \in Findings PROVE Stage(f) = "none"
    OBVIOUS
  <2> QED
    BY DEF Init, Stage, NoFinding
<1>2. FindingInv /\ [Next]_vars => [Promise!Next]_s
  <2> SUFFICES ASSUME FindingInv, [Next]_vars PROVE Promise!Next
    OBVIOUS
  <2>1. s' \in [Findings -> Promise!Stages]
    <3>1. \A f \in Findings : Stage(f)' \in {"none", "open", "refused", "accepted", "published"}
      BY DEF Stage
    <3> QED
      BY <3>1 DEF Promise!Stages
  <2>2. ASSUME NEW f \in Findings
        PROVE  s'[f] = s[f] \/ <<s[f], s'[f]>> \in Promise!Moves
    <3>1. FindingMove(f)
      BY NextMoves DEF StepMoves
    <3>2. s[f] = Stage(f) /\ s'[f] = Stage(f)'
      OBVIOUS
    <3> QED
      BY <3>1, <3>2, StageMoves DEF Promise!Moves
  <2> QED
    BY <2>1, <2>2 DEF Promise!Next
<1>3. Init => Promise!Init
  BY <1>1 DEF Promise!Init
<1>4. Spec => Promise!Spec
  BY <1>2, <1>3, FindingInductive, PTL DEF Spec, Promise!Spec
<1> QED
  BY <1>4 DEF PromiseKept

\* No second scan takes over a stored finding, and no step changes whether it has to be
\* verified, whatever the repository's settings become.
THEOREM OwnerStaysSame == Spec => OwnerIsKept
<1> DEFINE Kept ==
      \A f \in Findings :
        findings[f].state # "absent" /\ findings'[f].state # "absent"
        => findings'[f].job = findings[f].job /\ findings'[f].verify = findings[f].verify
<1>1. FindingInv /\ [Next]_vars => [Kept]_vars
  <2> SUFFICES ASSUME FindingInv, [Next]_vars, NEW f \in Findings,
                      findings[f].state # "absent", findings'[f].state # "absent"
               PROVE  findings'[f].job = findings[f].job /\ findings'[f].verify = findings[f].verify
    OBVIOUS
  <2>1. FindingMove(f)
    BY NextMoves DEF StepMoves
  <2>2. NoFinding.state = "absent"
    BY DEF NoFinding
  <2> QED
    BY <2>1, <2>2 DEF FindingMove, Stays, Submitted, Withdrawn, Taken, Revived, Judged, TimedOut,
                      Decided, Moved
<1>2. Spec => [][Kept]_vars
  BY <1>1, FindingInductive, PTL DEF Spec
<1> QED
  BY <1>2 DEF OwnerIsKept
=============================================================================
