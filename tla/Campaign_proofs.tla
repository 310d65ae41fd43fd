-------------------------- MODULE Campaign_proofs ---------------------------
(***************************************************************************)
(* A review campaign, for every number of jobs, leads, findings and units   *)
(* and every policy: what is paid for, who answers for admitted work, and   *)
(* what is left when the campaign ends (Campaign); and, over variables and  *)
(* constants of their own, the evidence about leads (LeadEvidence, here as  *)
(* Ev), the inventory of a generation (Inventory, as Mani), the order of    *)
(* the claims (ClaimRanking, as Rank) and their delivery (ClaimDelivery, as *)
(* Dlv).                                                                    *)
(***************************************************************************)
EXTENDS Campaign, SequenceTheorems, FiniteSetTheorems, WellFoundedInduction, TLAPS

(***************************************************************************)
(* The inductive invariant                                                  *)
(***************************************************************************)
CampaignRow ==
  [state : {"none", "active", "finished", "cancelled"}, recipe : {"bootstrap", "incremental"},
   reason : {"none", "completed", "blocked", "partial", "deadline", "cancelled", "unsupported"},
   complete : BOOLEAN, generation : {"none", "building", "ready", "active"}]

\* A job that was never created is charged to no pool and works on nothing.
Uncreated ==
  /\ \A j \in Jobs : jobs[j].state = "absent" => jobs[j].pool = None /\ jobs[j].item = None
  /\ campaign.state = "none" =>
       campaign.generation = "none" /\ \A j \in Jobs : jobs[j].state = "absent"

\* Before the first checkout there is no work.
Ungenerated == campaign.generation = "none" => \A i \in Items : items[i].state = "absent"

\* A survey works on units, other jobs on the subject they were created for.
SubjectJobs == \A j \in Jobs : jobs[j].item # None => jobs[j].kind # "survey"
UnitJobs == \A u \in Units : items[u].state = "admitted" => jobs[items[u].job].item = None

\* No two live jobs work on one subject.
OneWorker ==
  \A j, k \in Jobs :
    jobs[j].state \in Live /\ jobs[k].state \in Live /\ jobs[j].item = jobs[k].item
      => j = k \/ jobs[j].item = None

\* The subject of a queued job, and of a leased one while the campaign runs, is admitted to
\* it: so a failed attempt finds its work as it left it.
LiveOwns ==
  \A j \in Jobs :
    jobs[j].item # None /\ (jobs[j].state = "queued" \/ (jobs[j].state = "leased" /\ BeforeDeadline)) =>
      items[jobs[j].item].state = "admitted" /\ items[jobs[j].item].job = j

\* A campaign that was given a reason is closed.
ReasonCloses == campaign.reason = "completed" => campaign.state = "finished"

CampaignInv ==
  /\ TypeOK /\ SpendingExact /\ Uncreated /\ Ungenerated /\ SubjectJobs /\ UnitJobs
  /\ AdmittedIsLive /\ OneWorker /\ LiveOwns /\ ClosedIsQuiet /\ LeaseBounded
  /\ ReasonCloses /\ CompletedIsTrue

\* A queued job finds its subject as it left it, and no other job works on it: the one part of
\* WorkAccounted that the invariant has in another form.
LEMMA CampaignImplied == CampaignInv => WorkAccounted
<1> SUFFICES ASSUME CampaignInv
             PROVE  WorkAccounted
  OBVIOUS
<1>1. RetryKeepsItsWork
  <2> SUFFICES ASSUME NEW j \in Jobs, jobs[j].state = "queued", jobs[j].item # None
               PROVE  /\ items[jobs[j].item].state = "admitted" /\ items[jobs[j].item].job = j
                      /\ \A k \in Jobs \ {j} : jobs[k].state \in Live => jobs[k].item # jobs[j].item
    BY DEF RetryKeepsItsWork
  <2> QED
    BY DEF CampaignInv, LiveOwns, OneWorker, Live
<1> QED
  BY <1>1 DEF CampaignInv, WorkAccounted

(***************************************************************************)
(* Rows                                                                     *)
(***************************************************************************)
\* What the helpers write: the state, the lease and the attempt, never the work of the job or
\* the pool that pays for it.
LEMMA RowsWritten ==
  ASSUME TypeOK, NEW j \in Jobs,
         NEW s \in {"absent", "queued", "leased", "succeeded", "failed", "cancelled"}
  PROVE  /\ jobs[j] \in JobRow
         /\ Ended(j, s) \in JobRow /\ Ended(j, s).state = s /\ Ended(j, s).kind = jobs[j].kind
         /\ Ended(j, s).item = jobs[j].item /\ Ended(j, s).pool = jobs[j].pool
         /\ Requeued(j) \in JobRow /\ Requeued(j).state = "queued" /\ Requeued(j).kind = jobs[j].kind
         /\ Requeued(j).item = jobs[j].item /\ Requeued(j).pool = jobs[j].pool
<1>1. jobs[j] \in JobRow
  BY DEF TypeOK
<1>2. 0 \in Nat /\ now + BACKOFF \in Nat /\ FALSE \in BOOLEAN
  BY CampaignAssumption DEF TypeOK
<1>3. Ended(j, s) \in JobRow /\ Requeued(j) \in JobRow
  BY <1>1, <1>2 DEF JobRow, Ended, Requeued
<1> QED
  BY <1>1, <1>3 DEF JobRow, Ended, Requeued

\* A claim starts an attempt, within the campaign's deadline and the grace.
LEMMA LeasedRow ==
  ASSUME now \in Nat, NEW row \in JobRow, row.attempts < MAX_ATTEMPTS
  PROVE  /\ Leased(row) \in JobRow /\ Leased(row).state = "leased"
         /\ Leased(row).kind = row.kind /\ Leased(row).item = row.item /\ Leased(row).pool = row.pool
         /\ Leased(row).lease <= Leased(row).hard + GRACE /\ Leased(row).hard <= DEADLINE
<1> DEFINE hard == Min2(now + PHASE_DEADLINE, DEADLINE)
           lease == Min2(now + LEASE, hard + GRACE)
<1>1. /\ {PHASE_DEADLINE, DEADLINE, LEASE, GRACE, MAX_ATTEMPTS} \subseteq Nat
  BY CampaignAssumption
<1>2. hard \in Nat /\ hard <= DEADLINE
  BY <1>1 DEF Min2
<1>3. lease \in Nat /\ lease <= hard + GRACE
  <2> HIDE DEF hard
  <2> QED
    BY <1>1, <1>2 DEF Min2
<1>4. row.attempts + 1 \in 0 .. MAX_ATTEMPTS
  BY <1>1 DEF JobRow
<1>5. Leased(row) = [row EXCEPT !.state = "leased", !.attempts = row.attempts + 1, !.hard = hard,
                                !.lease = lease, !.prepared = FALSE]
  BY DEF Leased, JobRow
<1> HIDE DEF hard, lease
<1>6. Leased(row) \in JobRow
  BY <1>2, <1>3, <1>4, <1>5 DEF JobRow
<1> QED
  BY <1>2, <1>3, <1>5, <1>6 DEF JobRow

\* Blocking work leaves what is settled as it is, and settles what is not.
LEMMA BlockedRow ==
  ASSUME NEW row \in ItemRow
  PROVE  /\ Blocked(row) \in ItemRow /\ Blocked(row).job = row.job
         /\ Blocked(row).state \in {"blocked", "deferred"}
         /\ row.state = "blocked" => Blocked(row).state = "blocked"
BY DEF Blocked, ItemRow, ItemStates

(***************************************************************************)
(* A step that starts no job                                                *)
(***************************************************************************)
\* Jobs keep their work and their charge, and none comes to life.
Carried ==
  /\ spent' = spent
  /\ \A j \in Jobs :
       /\ jobs'[j].kind = jobs[j].kind /\ jobs'[j].item = jobs[j].item /\ jobs'[j].pool = jobs[j].pool
       /\ jobs'[j].state \in Live => jobs[j].state \in Live
       /\ (jobs'[j].state = "absent") <=> (jobs[j].state = "absent")

\* What is admitted was, to the same job, which lives on.
WorkCarried ==
  \A i \in Items :
    items'[i].state = "admitted" =>
      /\ items[i].state = "admitted" /\ items'[i].job = items[i].job
      /\ jobs'[items[i].job].state \in Live

\* A job that can still use its subject could before, and the subject is untouched.
OwnersCarried ==
  \A j \in Jobs :
    jobs[j].item # None /\ (jobs'[j].state = "queued" \/ (jobs'[j].state = "leased" /\ BeforeDeadline')) =>
      /\ jobs[j].state = "queued" \/ (jobs[j].state = "leased" /\ BeforeDeadline)
      /\ items'[jobs[j].item].state = items[jobs[j].item].state
      /\ items'[jobs[j].item].job = items[jobs[j].item].job

\* Finished and blocked work stays so.
SettledStay ==
  \A i \in Items : items[i].state \in {"complete", "blocked"} => items'[i].state = items[i].state

\* The campaign ran and runs on.
Running ==
  Active /\ campaign'.state = "active" /\ campaign'.reason = campaign.reason

\* The campaign does not run, and the step ends jobs or renews leases at most.
Shut ==
  /\ campaign' = campaign /\ ~ Active /\ items' = items
  /\ \A j \in Jobs : jobs'[j].state \in Live => jobs'[j].state = jobs[j].state

\* A step of a running campaign closes nothing, and one of a closed campaign keeps it quiet.
LEMMA NothingCloses ==
  ASSUME CampaignInv, Running \/ Shut
  PROVE  /\ ClosedIsQuiet' /\ ReasonCloses' /\ CompletedIsTrue'
         /\ campaign'.state = "none" => campaign' = campaign
<1>1. CASE Running
  BY <1>1 DEF CampaignInv, Running, Active, ClosedIsQuiet, ReasonCloses, CompletedIsTrue
<1>2. CASE Shut
  BY <1>2 DEF CampaignInv, Shut, ClosedIsQuiet, ReasonCloses, CompletedIsTrue, Busy, Live
<1> QED
  BY <1>1, <1>2

\* What is left to show of a step that starts no job: the rest of the invariant is carried.
LEMMA CarriedKeeps ==
  ASSUME CampaignInv, TypeOK', Carried, WorkCarried, OwnersCarried, LeaseBounded', Ungenerated',
         campaign'.state = "none" => campaign' = campaign,
         ClosedIsQuiet', ReasonCloses', CompletedIsTrue'
  PROVE  CampaignInv'
<1> USE DEF CampaignInv
<1>1. SpendingExact'
  <2>1. \A p \in Pools : Charged(p)' = Charged(p)
    BY DEF Carried, Charged
  <2> QED
    BY <2>1 DEF Carried, SpendingExact, Capacity
<1>2. Uncreated'
  BY DEF Uncreated, Carried
<1>3. SubjectJobs'
  BY DEF SubjectJobs, Carried
<1>4. OneWorker'
  BY DEF OneWorker, Carried
<1>5. AdmittedIsLive' /\ UnitJobs'
  <2>1. ASSUME NEW i \in Items, items'[i].state = "admitted"
        PROVE  /\ items'[i].job = items[i].job /\ items[i].state = "admitted"
               /\ items[i].job \in Jobs /\ items[i].job # None
               /\ jobs'[items[i].job].state \in Live
               /\ jobs'[items[i].job].item = jobs[items[i].job].item
    BY <2>1, CampaignAssumption DEF WorkCarried, AdmittedIsLive, LiveJob, Carried
  <2>2. AdmittedIsLive'
    BY <2>1 DEF AdmittedIsLive, LiveJob
  <2>3. UnitJobs'
    BY <2>1 DEF UnitJobs, Items
  <2> QED
    BY <2>2, <2>3
<1>6. LiveOwns'
  <2> SUFFICES ASSUME NEW j \in Jobs, jobs'[j].item # None,
                      jobs'[j].state = "queued" \/ (jobs'[j].state = "leased" /\ BeforeDeadline')
               PROVE  items'[jobs'[j].item].state = "admitted" /\ items'[jobs'[j].item].job = j
    BY DEF LiveOwns
  <2>1. jobs'[j].item = jobs[j].item
    BY DEF Carried
  <2> QED
    BY <2>1 DEF OwnersCarried, LiveOwns
<1> QED
  BY <1>1, <1>2, <1>3, <1>4, <1>5, <1>6

\* What is enough for OwnersCarried: a job is queued again only while the campaign runs, and
\* the admitted subject of a job that can use it stays admitted.
Requeues ==
  \A j \in Jobs : jobs'[j].state = "queued" =>
    jobs[j].state = "queued" \/ (jobs[j].state = "leased" /\ BeforeDeadline)

SubjectsStay ==
  \A i \in Subjects :
    /\ items[i].state = "admitted"
    /\ jobs'[items[i].job].state = "queued" \/ (jobs'[items[i].job].state = "leased" /\ BeforeDeadline')
    => items'[i].state = "admitted"

\* Why the owners of subjects are carried: jobs are requeued only while the campaign runs.
LEMMA OwnersStay ==
  ASSUME CampaignInv, Carried, WorkCarried, Requeues, SubjectsStay, BeforeDeadline' => BeforeDeadline
  PROVE  OwnersCarried
<1> SUFFICES ASSUME NEW j \in Jobs, jobs[j].item # None,
                    jobs'[j].state = "queued" \/ (jobs'[j].state = "leased" /\ BeforeDeadline')
             PROVE  /\ jobs[j].state = "queued" \/ (jobs[j].state = "leased" /\ BeforeDeadline)
                    /\ items'[jobs[j].item].state = items[jobs[j].item].state
                    /\ items'[jobs[j].item].job = items[jobs[j].item].job
  BY DEF OwnersCarried
<1>1. jobs[j].state = "queued" \/ (jobs[j].state = "leased" /\ BeforeDeadline)
  BY DEF Requeues, Carried, Live
<1>2. PICK i \in Subjects : i = jobs[j].item
  BY DEF CampaignInv, TypeOK, JobRow
<1>3. items[i].state = "admitted" /\ items[i].job = j
  BY <1>1, <1>2 DEF CampaignInv, LiveOwns
<1>4. items'[i].state = "admitted"
  BY <1>3 DEF SubjectsStay
<1> QED
  BY <1>1, <1>2, <1>3, <1>4 DEF WorkCarried, Items, Subjects

\* One job's row is written, and the job keeps its work.
LEMMA OneJobWritten ==
  ASSUME CampaignInv, spent' = spent, NEW j \in Jobs, NEW row \in JobRow,
         jobs' = [jobs EXCEPT ![j] = row],
         row.kind = jobs[j].kind, row.item = jobs[j].item, row.pool = jobs[j].pool,
         row.state # "absent", jobs[j].state # "absent",
         row.state \in Live => jobs[j].state \in Live,
         row.state = "leased" => row.lease <= row.hard + GRACE /\ row.hard <= DEADLINE
  PROVE  /\ jobs' \in [Jobs -> JobRow] /\ jobs'[j] = row
         /\ \A k \in Jobs : k # j => jobs'[k] = jobs[k]
         /\ Carried /\ LeaseBounded'
<1>1. /\ jobs' \in [Jobs -> JobRow] /\ jobs'[j] = row
      /\ \A k \in Jobs : k # j => jobs'[k] = jobs[k]
  BY DEF CampaignInv, TypeOK
<1>2. Carried
  BY <1>1 DEF Carried
<1>3. LeaseBounded'
  BY <1>1 DEF CampaignInv, LeaseBounded
<1> QED
  BY <1>1, <1>2, <1>3

\* No job is written.
LEMMA JobsUntouched ==
  ASSUME CampaignInv, spent' = spent, jobs' = jobs
  PROVE  Carried /\ LeaseBounded' /\ Requeues
BY DEF CampaignInv, Carried, LeaseBounded, Requeues

\* The conclusion every action has to reach.
StepKeeps == CampaignInv' /\ SettledStay

\* Admitted work is left to the job that has it.
AdmittedStays(j) ==
  /\ \A i \in Items : items'[i].state = "admitted" => items'[i] = items[i]
  /\ \A i \in Subjects : items[i].state = "admitted" => items'[i] = items[i] \/ items[i].job = j

\* A step that writes no job.
LEMMA ItemsMove ==
  ASSUME CampaignInv, Running \/ Shut, campaign' \in CampaignRow,
         jobs' = jobs, spent' = spent, now' \in Nat, now' >= now, items' \in [Items -> ItemRow],
         AdmittedStays(None), SettledStay, Ungenerated'
  PROVE  StepKeeps
<1>1. TypeOK'
  BY DEF CampaignInv, TypeOK, CampaignRow
<1>2. Carried /\ LeaseBounded' /\ Requeues
  BY JobsUntouched
<1>3. WorkCarried
  BY DEF WorkCarried, CampaignInv, AdmittedIsLive, LiveJob, AdmittedStays
<1>4. SubjectsStay
  BY CampaignAssumption DEF SubjectsStay, AdmittedStays, CampaignInv, AdmittedIsLive, LiveJob,
       Items, Subjects
<1>5. BeforeDeadline' => BeforeDeadline
  BY CampaignAssumption DEF BeforeDeadline, Running, Shut, Active, CampaignInv, TypeOK
<1>6. /\ ClosedIsQuiet' /\ ReasonCloses' /\ CompletedIsTrue'
      /\ campaign'.state = "none" => campaign' = campaign
  BY NothingCloses
<1>7. OwnersCarried
  BY <1>2, <1>3, <1>4, <1>5, OwnersStay
<1> QED
  BY <1>1, <1>2, <1>3, <1>6, <1>7, CarriedKeeps DEF StepKeeps

\* A job ends, its work settled or handed on.
LEMMA JobEnds ==
  ASSUME CampaignInv, Running \/ Shut, campaign' \in CampaignRow, spent' = spent, now' = now,
         NEW j \in Jobs, jobs[j].state \in Live,
         NEW row \in JobRow, jobs' = [jobs EXCEPT ![j] = row],
         row.state \notin Live, row.state # "absent",
         row.kind = jobs[j].kind, row.item = jobs[j].item, row.pool = jobs[j].pool,
         items' \in [Items -> ItemRow], AdmittedStays(j),
         \A i \in Items : items[i].job = j => items'[i].state # "admitted",
         SettledStay, Ungenerated'
  PROVE  StepKeeps
<1>1. /\ jobs' \in [Jobs -> JobRow] /\ jobs'[j] = row
      /\ \A k \in Jobs : k # j => jobs'[k] = jobs[k]
      /\ Carried /\ LeaseBounded'
  BY OneJobWritten DEF Live
<1>2. TypeOK'
  BY <1>1 DEF CampaignInv, TypeOK, CampaignRow
<1>3. WorkCarried
  BY <1>1 DEF WorkCarried, CampaignInv, AdmittedIsLive, LiveJob, AdmittedStays
<1>4. SubjectsStay
  <2> SUFFICES ASSUME NEW i \in Subjects, items[i].state = "admitted",
                      jobs'[items[i].job].state \in Live
               PROVE  items'[i].state = "admitted"
    BY DEF SubjectsStay, Live
  <2> QED
    BY <1>1 DEF AdmittedStays
<1>5. Requeues /\ (BeforeDeadline' => BeforeDeadline)
  BY <1>1 DEF Requeues, BeforeDeadline, Running, Shut, Active, Live
<1>6. /\ ClosedIsQuiet' /\ ReasonCloses' /\ CompletedIsTrue'
      /\ campaign'.state = "none" => campaign' = campaign
  BY NothingCloses
<1>7. OwnersCarried
  BY <1>1, <1>3, <1>4, <1>5, OwnersStay
<1> QED
  BY <1>1, <1>2, <1>3, <1>6, <1>7, CarriedKeeps DEF StepKeeps

\* A live job goes on living: claimed again, renewed, prepared or queued for another attempt.
LEMMA JobLives ==
  ASSUME CampaignInv, Running \/ Shut, campaign' \in CampaignRow, spent' = spent, now' = now,
         NEW j \in Jobs, jobs[j].state \in Live,
         NEW row \in JobRow, jobs' = [jobs EXCEPT ![j] = row],
         row.state \in Live,
         row.state = "queued" => jobs[j].state = "leased" /\ BeforeDeadline,
         row.state = "leased" => row.lease <= row.hard + GRACE /\ row.hard <= DEADLINE,
         row.kind = jobs[j].kind, row.item = jobs[j].item, row.pool = jobs[j].pool,
         items' \in [Items -> ItemRow], AdmittedStays(None), SettledStay, Ungenerated'
  PROVE  StepKeeps
<1>1. /\ jobs' \in [Jobs -> JobRow] /\ jobs'[j] = row
      /\ \A k \in Jobs : k # j => jobs'[k] = jobs[k]
      /\ Carried /\ LeaseBounded'
  BY OneJobWritten DEF Live
<1>2. TypeOK'
  BY <1>1 DEF CampaignInv, TypeOK, CampaignRow
<1>3. WorkCarried
  BY <1>1 DEF WorkCarried, CampaignInv, AdmittedIsLive, LiveJob, AdmittedStays
<1>4. SubjectsStay
  BY CampaignAssumption DEF SubjectsStay, AdmittedStays, CampaignInv, AdmittedIsLive, LiveJob,
       Items, Subjects
<1>5. Requeues /\ (BeforeDeadline' => BeforeDeadline)
  BY <1>1 DEF Requeues, BeforeDeadline, Running, Shut, Active, Live
<1>6. /\ ClosedIsQuiet' /\ ReasonCloses' /\ CompletedIsTrue'
      /\ campaign'.state = "none" => campaign' = campaign
  BY NothingCloses
<1>7. OwnersCarried
  BY <1>1, <1>3, <1>4, <1>5, OwnersStay
<1> QED
  BY <1>1, <1>2, <1>3, <1>6, <1>7, CarriedKeeps DEF StepKeeps

\* One item is written that no subject's job has.
LEMMA OneItemWritten ==
  ASSUME CampaignInv, NEW i \in Items, NEW row \in ItemRow, items' = [items EXCEPT ![i] = row],
         row.state # "admitted", items[i].state = "admitted" => i \in Units,
         items[i].state \in {"complete", "blocked"} => row.state = items[i].state
  PROVE  items' \in [Items -> ItemRow] /\ AdmittedStays(None) /\ SettledStay
<1>1. items \in [Items -> ItemRow]
  BY DEF CampaignInv, TypeOK
<1> QED
  BY <1>1, CampaignAssumption DEF AdmittedStays, SettledStay, Items, Subjects

(***************************************************************************)
(* The actions                                                              *)
(***************************************************************************)
\* An item is held, a unit or a lead is submitted, a unit is reported on.
LEMMA ItemSteps ==
  ASSUME CampaignInv,
         \/ \E i \in Items : HoldItem(i)
         \/ \E j \in Jobs, u \in Units :
              SubmitUnit(j, u) \/ \E st \in {"complete", "held"} : SubmitUnitResult(j, u, st)
         \/ \E j \in Jobs, l \in Leads : SubmitLead(j, l)
  PROVE  StepKeeps
<1>t. /\ items \in [Items -> ItemRow] /\ now \in Nat /\ now >= now /\ campaign \in CampaignRow
      /\ Items = Leads \cup Findings \cup Units
  BY DEF CampaignInv, TypeOK, CampaignRow, Items
<1>1. ASSUME Active, campaign' = campaign, jobs' = jobs, spent' = spent, now' = now,
             NEW i \in Items, NEW row \in ItemRow, items' = [items EXCEPT ![i] = row],
             row.state # "admitted", items[i].state = "admitted" => i \in Units,
             items[i].state \notin {"complete", "blocked"},
             campaign.generation # "none"
      PROVE  StepKeeps
  <2>1. items' \in [Items -> ItemRow] /\ AdmittedStays(None) /\ SettledStay
    BY <1>1, OneItemWritten
  <2>2. Ungenerated'
    BY <1>1 DEF Ungenerated
  <2>3. Running
    BY <1>1 DEF Running, Active
  <2> QED
    BY <1>1, <1>t, <2>1, <2>2, <2>3, ItemsMove
<1>2. ASSUME NEW i \in Items, HoldItem(i)
      PROVE  StepKeeps
  <2>1. Blocked(items[i]) \in ItemRow /\ Blocked(items[i]).state # "admitted"
    BY <1>t, BlockedRow
  <2>2. items[i].state \in {"pending", "new", "open"}
    BY <1>2 DEF HoldItem, NeedsWork
  <2>3. campaign.generation # "none"
    BY <2>2 DEF CampaignInv, Ungenerated
  <2> QED
    BY <1>1, <1>2, <2>1, <2>2, <2>3 DEF HoldItem, BeforeDeadline
<1>3. ASSUME NEW j \in Jobs, NEW u \in Units, SubmitUnit(j, u)
      PROVE  StepKeeps
  <2> DEFINE row == [items[u] EXCEPT !.state = "new", !.job = j]
  <2>1. row \in ItemRow /\ row.state = "new" /\ u \in Items
    BY <1>t DEF ItemRow, ItemStates
  <2>2. items' = [items EXCEPT ![u] = row] /\ items[u].state = "absent"
    BY <1>3, <1>t DEF SubmitUnit
  <2>3. campaign.generation # "none" /\ Active
    BY <1>3 DEF SubmitUnit, Domain, Ready, InContext, BeforeDeadline
  <2> HIDE DEF row
  <2> QED
    BY <1>1, <1>3, <2>1, <2>2, <2>3 DEF SubmitUnit
<1>4. ASSUME NEW j \in Jobs, NEW u \in Units, NEW st \in {"complete", "held"}, SubmitUnitResult(j, u, st)
      PROVE  StepKeeps
  <2> DEFINE row == [items[u] EXCEPT !.state = st]
  <2>1. row \in ItemRow /\ row.state = st /\ u \in Items
    BY <1>t DEF ItemRow, ItemStates
  <2>2. items' = [items EXCEPT ![u] = row] /\ items[u].state \in {"open", "admitted", "new"}
    BY <1>4, <1>t DEF SubmitUnitResult, Owns
  <2>3. campaign.generation # "none" /\ Active
    BY <1>4 DEF SubmitUnitResult, Domain, Ready, InContext, BeforeDeadline
  <2> HIDE DEF row
  <2> QED
    BY <1>1, <1>4, <2>1, <2>2, <2>3 DEF SubmitUnitResult
<1>5. ASSUME NEW j \in Jobs, NEW l \in Leads, SubmitLead(j, l)
      PROVE  StepKeeps
  <2>1. Handoff \in ItemRow /\ Handoff.state = "pending" /\ l \in Items
    BY <1>t DEF Handoff, NoItem, ItemRow, ItemStates
  <2>2. campaign.generation # "none" /\ Active
    BY <1>5 DEF SubmitLead, Domain, Ready, InContext, BeforeDeadline
  <2> QED
    BY <1>1, <1>5, <2>1, <2>2 DEF SubmitLead
<1> QED
  BY <1>2, <1>3, <1>4, <1>5

\* Sealing the manifest, and the clock.
LEMMA QuietSteps ==
  ASSUME CampaignInv, Tick \/ \E j \in Jobs : Seal(j)
  PROVE  StepKeeps
<1>t. now \in Nat /\ campaign \in CampaignRow /\ items \in [Items -> ItemRow]
  BY DEF CampaignInv, TypeOK, CampaignRow
<1>1. AdmittedStays(None) /\ SettledStay /\ jobs' = jobs /\ spent' = spent /\ items' = items
  BY DEF Tick, Seal, AdmittedStays, SettledStay
<1>2. CASE Tick
  <2>1. Running \/ Shut
    BY <1>1, <1>2 DEF Tick, Running, Shut, Active
  <2>2. Ungenerated'
    BY <1>2 DEF Tick, CampaignInv, Ungenerated
  <2>3. now' \in Nat /\ now' >= now /\ campaign' \in CampaignRow
    BY <1>2, <1>t DEF Tick
  <2> QED
    BY <1>1, <1>t, <2>1, <2>2, <2>3, ItemsMove
<1>3. ASSUME NEW j \in Jobs, Seal(j)
      PROVE  StepKeeps
  <2>1. Running /\ campaign' \in CampaignRow /\ campaign'.generation = "ready"
    BY <1>3, <1>t DEF Seal, Running, Active, CampaignRow, InContext, BeforeDeadline
  <2>2. Ungenerated'
    BY <2>1 DEF Ungenerated
  <2>3. now' \in Nat /\ now' >= now
    BY <1>3, <1>t DEF Seal
  <2> QED
    BY <1>1, <1>t, <2>1, <2>2, <2>3, ItemsMove
<1> QED
  BY <1>2, <1>3

\* The receipts: the job succeeds, and its subject or its units are finished or handed on.
LEMMA ReceiptSteps ==
  ASSUME CampaignInv, NEW j \in Jobs,
         \/ \E resolved \in BOOLEAN, next \in Continuations : FinalizeSurvey(j, resolved, next)
         \/ \E next \in Continuations \cup {Done} :
              \/ \E l \in Leads, f \in Findings \cup {None} : FinalizeDrilldown(j, l, next, f)
              \/ \E f \in Findings : FinalizeVerification(j, f, next)
  PROVE  StepKeeps
<1>t. /\ items \in [Items -> ItemRow] /\ now \in Nat /\ campaign \in CampaignRow
      /\ Items = Leads \cup Findings \cup Units /\ Subjects = Leads \cup Findings
  BY DEF CampaignInv, TypeOK, CampaignRow, Items, Subjects
<1>n. \A next \in Continuations \cup {Done} :
        next \in ItemRow /\ next.state \in {"pending", "blocked", "complete"}
  <2>1. 0 \in Nat /\ now + BACKOFF \in Nat
    BY <1>t, CampaignAssumption
  <2>2. /\ [state |-> "pending", job |-> None, due |-> now + BACKOFF] \in ItemRow
        /\ [state |-> "blocked", job |-> None, due |-> 0] \in ItemRow
        /\ [state |-> "complete", job |-> None, due |-> 0] \in ItemRow
    BY <2>1 DEF ItemRow, ItemStates
  <2>3. ASSUME NEW next \in Continuations \cup {Done}
        PROVE  \/ next = [state |-> "pending", job |-> None, due |-> now + BACKOFF]
               \/ next = [state |-> "blocked", job |-> None, due |-> 0]
               \/ next = [state |-> "complete", job |-> None, due |-> 0]
    BY DEF Continuations, Done, NoItem
  <2> QED
    BY <2>2, <2>3
<1>h. Handoff \in ItemRow /\ Handoff.state = "pending"
  BY DEF Handoff, NoItem, ItemRow, ItemStates
<1>0. /\ Domain(j) /\ jobs' = [jobs EXCEPT ![j] = Succeeded(j)] /\ now' = now /\ spent' = spent
      /\ campaign'.state = campaign.state /\ campaign'.reason = campaign.reason
      /\ campaign' \in CampaignRow /\ campaign'.generation # "none"
  BY <1>t DEF FinalizeSurvey, FinalizeDrilldown, FinalizeVerification, CampaignRow, Domain, Ready
<1>1. Running /\ Ungenerated' /\ jobs[j].state = "leased"
  BY <1>0 DEF Domain, InContext, Holds, BeforeDeadline, Active, Running, Ungenerated
<1>2. /\ Succeeded(j) \in JobRow /\ Succeeded(j).state = "succeeded"
      /\ Succeeded(j).kind = jobs[j].kind /\ Succeeded(j).item = jobs[j].item
      /\ Succeeded(j).pool = jobs[j].pool
  BY RowsWritten DEF CampaignInv, Succeeded
<1>3. ASSUME items' \in [Items -> ItemRow], AdmittedStays(j), SettledStay,
             \A i \in Items : items[i].job = j => items'[i].state # "admitted"
      PROVE  StepKeeps
  BY <1>0, <1>1, <1>2, <1>3, JobEnds DEF Live
<1>4. ASSUME NEW resolved \in BOOLEAN, NEW next \in Continuations, FinalizeSurvey(j, resolved, next)
      PROVE  StepKeeps
  <2>1. /\ items' \in [Items -> ItemRow]
        /\ \A i \in Items : items'[i] = items[i] \/
              (items'[i] = next /\ i \in Units /\ items[i].job = j /\ items[i].state \in {"held", "admitted"})
        /\ \A i \in Units : items[i].job = j /\ items[i].state = "admitted" => items'[i] = next
    BY <1>4, <1>n, <1>t DEF FinalizeSurvey
  <2>2. \A i \in Subjects : items[i].state = "admitted" => items[i].job # j
    <3>1. jobs[j].item = None
      BY <1>4 DEF FinalizeSurvey, CampaignInv, SubjectJobs
    <3>2. \A i \in Subjects : items[i].state = "admitted" => jobs[items[i].job].item = i
      BY <1>t DEF CampaignInv, AdmittedIsLive
    <3>3. None \notin Subjects
      BY <1>t, CampaignAssumption
    <3> QED
      BY <3>1, <3>2, <3>3
  <2>3. \A i \in Items : items[i].job = j => items'[i].state # "admitted"
    BY <1>n, <1>t, <2>1, <2>2
  <2>4. AdmittedStays(j) /\ SettledStay
    BY <1>n, <1>t, <2>1, CampaignAssumption DEF AdmittedStays, SettledStay
  <2> QED
    BY <1>3, <2>1, <2>3, <2>4
<1>5. ASSUME NEW next \in Continuations \cup {Done}, NEW x \in Subjects, NEW f \in Findings \cup {None},
             AdmittedTo(j, x), f # None => items[f].state = "absent",
             items' = [i \in Items |-> IF i = x THEN next ELSE IF i = f THEN Handoff ELSE items[i]]
      PROVE  StepKeeps
  <2>1. items' \in [Items -> ItemRow]
    BY <1>5, <1>n, <1>h, <1>t
  <2>2. \A i \in Items : items[i].state = "admitted" /\ items[i].job = j => i = x
    BY <1>5, <1>t, CampaignAssumption DEF AdmittedTo, CampaignInv, AdmittedIsLive, UnitJobs
  <2>3. \A i \in Items : items[i].job = j => items'[i].state # "admitted"
    BY <1>5, <1>n, <1>h, <1>t, <2>2
  <2>4. AdmittedStays(j)
    BY <1>5, <1>n, <1>h, <1>t, CampaignAssumption DEF AdmittedStays, AdmittedTo
  <2>5. SettledStay
    BY <1>5, <1>n, <1>h, <1>t, CampaignAssumption DEF SettledStay, AdmittedTo
  <2> QED
    BY <1>3, <2>1, <2>3, <2>4, <2>5
<1>6. ASSUME NEW next \in Continuations \cup {Done}, NEW l \in Leads, NEW f \in Findings \cup {None},
             FinalizeDrilldown(j, l, next, f)
      PROVE  StepKeeps
  BY <1>5, <1>6, <1>t DEF FinalizeDrilldown
<1>7. ASSUME NEW next \in Continuations \cup {Done}, NEW f \in Findings, FinalizeVerification(j, f, next)
      PROVE  StepKeeps
  <2>1. items' = [i \in Items |-> IF i = f THEN next ELSE IF i = None THEN Handoff ELSE items[i]]
    BY <1>7, <1>t, CampaignAssumption DEF FinalizeVerification
  <2>2. f \in Subjects /\ AdmittedTo(j, f) /\ None \in Findings \cup {None}
    BY <1>7, <1>t DEF FinalizeVerification
  <2> QED
    BY <1>5, <2>1, <2>2, Zenon
<1> QED
  BY <1>4, <1>6, <1>7

\* A job that fails, is cancelled or is held: the rest of its work is blocked.
LEMMA EndingSteps ==
  ASSUME CampaignInv, NEW j \in Jobs, Fail(j) \/ Reap(j) \/ CancelJob(j) \/ HoldJob(j)
  PROVE  StepKeeps
<1>t. /\ items \in [Items -> ItemRow] /\ now \in Nat /\ campaign \in CampaignRow
      /\ Subjects \subseteq Items /\ jobs[j] \in JobRow
  BY DEF CampaignInv, TypeOK, CampaignRow, Items, Subjects
<1>0. campaign' = campaign /\ now' = now /\ spent' = spent /\ jobs[j].state \in Live
  BY DEF Fail, Reap, CancelJob, HoldJob, Holds, Live
<1>1. ASSUME jobs' = [jobs EXCEPT ![j] = Requeued(j)], items' = items, BeforeDeadline,
             jobs[j].state = "leased"
      PROVE  StepKeeps
  <2>1. Running
    BY <1>0, <1>1 DEF Running, BeforeDeadline, Active
  <2>2. AdmittedStays(None) /\ SettledStay /\ Ungenerated'
    BY <1>0, <1>1 DEF AdmittedStays, SettledStay, CampaignInv, Ungenerated
  <2>3. /\ Requeued(j) \in JobRow /\ Requeued(j).state = "queued" /\ Requeued(j).kind = jobs[j].kind
        /\ Requeued(j).item = jobs[j].item /\ Requeued(j).pool = jobs[j].pool
    BY RowsWritten DEF CampaignInv
  <2> QED
    BY <1>0, <1>1, <1>t, <2>1, <2>2, <2>3, JobLives DEF Live
<1>2. ASSUME NEW row \in JobRow, jobs' = [jobs EXCEPT ![j] = row], row.state \in {"failed", "cancelled"},
             row.kind = jobs[j].kind, row.item = jobs[j].item, row.pool = jobs[j].pool,
             items' \in [Items -> ItemRow],
             \A i \in Items : items'[i] = items[i] \/
               (items'[i] = Blocked(items[i]) /\ items[i].job = j
                  /\ items[i].state \in {"admitted", "held", "open", "new"}),
             \A i \in Items : items[i].job = j /\ items[i].state = "admitted" => items'[i] = Blocked(items[i])
      PROVE  StepKeeps
  <2>1. \A i \in Items : Blocked(items[i]).state \in {"blocked", "deferred"}
    BY <1>t, BlockedRow
  <2>2. AdmittedStays(j) /\ SettledStay
    BY <1>2, <1>t, <2>1 DEF AdmittedStays, SettledStay
  <2>3. \A i \in Items : items[i].job = j => items'[i].state # "admitted"
    BY <1>2, <2>1
  <2>4. Ungenerated'
    BY <1>0, <1>2 DEF CampaignInv, Ungenerated
  <2>5. Running \/ Shut
    <3>1. CASE Active
      BY <1>0, <3>1 DEF Running, Active
    <3>2. CASE ~ Active
      <4>1. campaign.state \in {"finished", "cancelled"}
        BY <1>0, <1>t, <3>2 DEF Active, CampaignInv, Uncreated, CampaignRow, Live
      <4>2. \A i \in Items : items[i].state \in Settled
        BY <4>1 DEF CampaignInv, ClosedIsQuiet
      <4>3. items' = items
        BY <1>2, <1>t, <4>2 DEF Settled
      <4>4. \A k \in Jobs : jobs'[k].state \in Live => jobs'[k].state = jobs[k].state
        BY <1>2 DEF Live, CampaignInv, TypeOK
      <4> QED
        BY <1>0, <3>2, <4>3, <4>4 DEF Shut
    <3> QED
      BY <3>1, <3>2
  <2> QED
    BY <1>0, <1>2, <1>t, <2>2, <2>3, <2>4, <2>5, JobEnds DEF Live
<1>3. ASSUME NEW s \in {"failed", "cancelled"}, jobs' = [jobs EXCEPT ![j] = Ended(j, s)],
             items' = BlockJobWork({j})
      PROVE  StepKeeps
  <2>1. /\ Ended(j, s) \in JobRow /\ Ended(j, s).state = s /\ Ended(j, s).kind = jobs[j].kind
        /\ Ended(j, s).item = jobs[j].item /\ Ended(j, s).pool = jobs[j].pool
    BY RowsWritten DEF CampaignInv
  <2>2. items' \in [Items -> ItemRow]
    BY <1>3, <1>t, BlockedRow DEF BlockJobWork
  <2>3. /\ \A i \in Items : items'[i] = items[i] \/
              (items'[i] = Blocked(items[i]) /\ items[i].job = j
                 /\ items[i].state \in {"admitted", "held", "open", "new"})
        /\ \A i \in Items : items[i].job = j /\ items[i].state = "admitted" => items'[i] = Blocked(items[i])
    BY <1>3 DEF BlockJobWork
  <2> QED
    BY <1>2, <1>3, <2>1, <2>2, <2>3
<1>4. CASE Fail(j) \/ Reap(j)
  <2>1. jobs[j].state = "leased" /\ RetryOrFail(j)
    BY <1>4 DEF Fail, Reap, Holds
  <2> QED
    BY <1>1, <1>3, <2>1 DEF RetryOrFail
<1>5. CASE CancelJob(j)
  BY <1>3, <1>5 DEF CancelJob
<1>6. CASE HoldJob(j)
  <2>1. PICK s \in {"failed", "cancelled"} : jobs' = [jobs EXCEPT ![j].state = s]
    BY <1>6 DEF HoldJob
  <2> DEFINE row == [jobs[j] EXCEPT !.state = s]
  <2>2. /\ row \in JobRow /\ row.state = s /\ row.kind = jobs[j].kind /\ row.item = jobs[j].item
        /\ row.pool = jobs[j].pool
    BY <1>t DEF JobRow
  <2>3. jobs' = [jobs EXCEPT ![j] = row]
    BY <2>1, <1>t
  <2>4. items' \in [Items -> ItemRow]
    BY <1>6, <1>t, BlockedRow DEF HoldJob
  <2>5. /\ \A i \in Items : items'[i] = items[i] \/
              (items'[i] = Blocked(items[i]) /\ items[i].job = j
                 /\ items[i].state \in {"admitted", "held", "open", "new"})
        /\ \A i \in Items : items[i].job = j /\ items[i].state = "admitted" => items'[i] = Blocked(items[i])
    BY <1>6 DEF HoldJob
  <2> HIDE DEF row
  <2> QED
    BY <1>2, <2>2, <2>3, <2>4, <2>5
<1> QED
  BY <1>4, <1>5, <1>6

\* A queued job is leased again, a lease is renewed, a checkout is prepared.
LEMMA LivingSteps ==
  ASSUME CampaignInv, NEW j \in Jobs,
         \/ ClaimQueued(j) \/ Heartbeat(j)
         \/ \E open \in SUBSET Units : \E taken \in SUBSET open : Prepare(j, open, taken)
  PROVE  StepKeeps
<1>t. /\ items \in [Items -> ItemRow] /\ now \in Nat /\ campaign \in CampaignRow
      /\ Items = Leads \cup Findings \cup Units /\ jobs[j] \in JobRow /\ jobs \in [Jobs -> JobRow]
  BY DEF CampaignInv, TypeOK, CampaignRow, Items
<1>1. CASE ClaimQueued(j)
  <2>1. Running /\ campaign' = campaign /\ items' = items /\ now' = now /\ spent' = spent
    BY <1>1 DEF ClaimQueued, Running, BeforeDeadline, Active
  <2>2. AdmittedStays(None) /\ SettledStay /\ Ungenerated'
    BY <2>1 DEF AdmittedStays, SettledStay, CampaignInv, Ungenerated
  <2>3. jobs[j].state = "queued" /\ jobs' = [jobs EXCEPT ![j] = Leased(jobs[j])]
    BY <1>1 DEF ClaimQueued
  <2>4. /\ Leased(jobs[j]) \in JobRow /\ Leased(jobs[j]).state = "leased"
        /\ Leased(jobs[j]).kind = jobs[j].kind /\ Leased(jobs[j]).item = jobs[j].item
        /\ Leased(jobs[j]).pool = jobs[j].pool
        /\ Leased(jobs[j]).lease <= Leased(jobs[j]).hard + GRACE /\ Leased(jobs[j]).hard <= DEADLINE
    BY <1>1, <1>t, LeasedRow DEF ClaimQueued
  <2> QED
    BY <1>t, <2>1, <2>2, <2>3, <2>4, JobLives DEF Live
<1>2. CASE Heartbeat(j)
  <2> DEFINE until == Min2(now + LEASE, jobs[j].hard + GRACE)
             row == [jobs[j] EXCEPT !.lease = until]
  <2>1. jobs[j].state = "leased" /\ jobs[j].hard \in Nat /\ jobs[j].hard <= DEADLINE
    BY <1>2, <1>t DEF Heartbeat, Holds, JobRow, CampaignInv, LeaseBounded
  <2>2. until \in Nat /\ until <= jobs[j].hard + GRACE
    BY <1>t, <2>1, CampaignAssumption DEF Min2
  <2> HIDE DEF until
  <2>3. /\ row \in JobRow /\ row.state = "leased" /\ row.kind = jobs[j].kind /\ row.item = jobs[j].item
        /\ row.pool = jobs[j].pool /\ row.lease = until /\ row.hard = jobs[j].hard
    BY <1>t, <2>1, <2>2 DEF JobRow
  <2>4. jobs' = [jobs EXCEPT ![j] = row] /\ campaign' = campaign /\ items' = items /\ now' = now
          /\ spent' = spent
    BY <1>2 DEF Heartbeat, until
  <2> HIDE DEF row
  <2>5. Running \/ Shut
    BY <1>t, <2>1, <2>3, <2>4 DEF Running, Shut, Active
  <2>6. AdmittedStays(None) /\ SettledStay /\ Ungenerated'
    BY <2>4 DEF AdmittedStays, SettledStay, CampaignInv, Ungenerated
  <2> QED
    BY <1>t, <2>1, <2>2, <2>3, <2>4, <2>5, <2>6, JobLives DEF Live
<1>3. ASSUME NEW open \in SUBSET Units, NEW taken \in SUBSET open, Prepare(j, open, taken)
      PROVE  StepKeeps
  <2> DEFINE row == [jobs[j] EXCEPT !.prepared = TRUE]
  <2>1. jobs[j].state = "leased" /\ jobs[j].lease <= jobs[j].hard + GRACE /\ jobs[j].hard <= DEADLINE
    BY <1>3 DEF Prepare, InContext, Holds, CampaignInv, LeaseBounded
  <2>2. /\ row \in JobRow /\ row.state = jobs[j].state /\ row.kind = jobs[j].kind
        /\ row.item = jobs[j].item /\ row.pool = jobs[j].pool
        /\ row.lease = jobs[j].lease /\ row.hard = jobs[j].hard
    BY <1>t DEF JobRow
  <2>3. jobs' = [jobs EXCEPT ![j] = row] /\ now' = now /\ spent' = spent
    BY <1>3 DEF Prepare
  <2> HIDE DEF row
  <2>4. /\ campaign' \in CampaignRow /\ campaign'.generation # "none"
        /\ campaign'.state = campaign.state /\ campaign'.reason = campaign.reason
    BY <1>3, <1>t DEF Prepare, CampaignRow
  <2>5. Running /\ Ungenerated'
    BY <1>3, <2>4 DEF Prepare, InContext, BeforeDeadline, Active, Running, Ungenerated
  <2>6. items' \in [Items -> ItemRow]
    BY <1>3, <1>t DEF Prepare, NoItem, ItemRow, ItemStates
  <2>7. \A i \in Items : i \in open => items[i].state = "absent" /\ items'[i].state = "open"
    BY <1>3 DEF Prepare, CampaignInv, Ungenerated, NoItem
  <2>8. \A i \in Items : i \notin open => items'[i] = items[i]
    BY <1>3 DEF Prepare
  <2>9. AdmittedStays(None) /\ SettledStay
    BY <2>7, <2>8 DEF AdmittedStays, SettledStay, Items, Subjects
  <2> QED
    BY <2>1, <2>2, <2>3, <2>4, <2>5, <2>6, <2>9, JobLives DEF Live
<1> QED
  BY <1>1, <1>2, <1>3

\* The work of a campaign that is given up is settled, whatever it was.
LEMMA AllBlocked ==
  ASSUME CampaignInv, items' = BlockAll
  PROVE  /\ items' \in [Items -> ItemRow] /\ SettledStay
         /\ \A i \in Items : items'[i].state \in Settled
         /\ \A i \in Items : items[i].state \in {"absent", "complete"} => items'[i] = items[i]
<1>1. items \in [Items -> ItemRow]
  BY DEF CampaignInv, TypeOK
<1>2. ASSUME NEW i \in Items
      PROVE  /\ items'[i] \in ItemRow /\ items'[i].state \in Settled
             /\ items[i].state \in {"absent", "complete"} => items'[i] = items[i]
             /\ items[i].state \in {"complete", "blocked"} => items'[i].state = items[i].state
  <2>1. CASE items[i].state \in {"absent", "complete"}
    BY <1>1, <2>1 DEF BlockAll, Settled
  <2>2. CASE items[i].state \notin {"absent", "complete"}
    BY <1>1, <2>2, BlockedRow DEF BlockAll, Settled
  <2> QED
    BY <2>1, <2>2
<1>3. items' \in [Items -> ItemRow]
  BY <1>2 DEF BlockAll
<1> QED
  BY <1>2, <1>3 DEF SettledStay

\* The campaign is cancelled, or its deadline has passed: nothing is queued or waits any more.
LEMMA GivingUp ==
  ASSUME CampaignInv, CancelCampaign \/ AdvanceExpired
  PROVE  StepKeeps
<1>t. jobs \in [Jobs -> JobRow] /\ now \in Nat /\ campaign \in CampaignRow
  BY DEF CampaignInv, TypeOK, CampaignRow
<1>1. /\ jobs' = QueuedCancelled /\ items' = BlockAll /\ now' = now /\ spent' = spent
      /\ ~ BeforeDeadline' /\ Active
  <2>1. CASE CancelCampaign
    BY <1>t, <2>1 DEF CancelCampaign, BeforeDeadline, Active, CampaignRow
  <2>2. CASE AdvanceExpired
    BY <1>t, <2>2, CampaignAssumption DEF AdvanceExpired, BeforeDeadline, Active
  <2> QED
    BY <2>1, <2>2
<1>2. ASSUME NEW j \in Jobs
      PROVE  /\ jobs'[j] \in JobRow /\ jobs'[j].kind = jobs[j].kind /\ jobs'[j].item = jobs[j].item
             /\ jobs'[j].pool = jobs[j].pool /\ jobs'[j].state # "queued"
             /\ jobs'[j].state \in Live => jobs'[j] = jobs[j]
             /\ (jobs'[j].state = "absent") <=> (jobs[j].state = "absent")
  <2>1. CASE jobs[j].state = "queued"
    <3>1. jobs'[j] = Ended(j, "cancelled")
      BY <1>1, <2>1 DEF QueuedCancelled
    <3>2. TypeOK
      BY DEF CampaignInv
    <3> QED
      BY <2>1, <3>1, <3>2, RowsWritten DEF Live
  <2>2. CASE jobs[j].state # "queued"
    BY <1>1, <1>t, <2>2 DEF QueuedCancelled
  <2> QED
    BY <2>1, <2>2
<1>3. jobs' \in [Jobs -> JobRow]
  BY <1>1, <1>2 DEF QueuedCancelled
<1>4. Carried
  BY <1>1, <1>2 DEF Carried
<1>5. LeaseBounded'
  BY <1>2 DEF LeaseBounded, CampaignInv, Live
<1>6. /\ items' \in [Items -> ItemRow] /\ SettledStay
      /\ \A i \in Items : items'[i].state \in Settled
      /\ \A i \in Items : items[i].state \in {"absent", "complete"} => items'[i] = items[i]
  BY <1>1, AllBlocked
<1>7. WorkCarried /\ OwnersCarried
  BY <1>1, <1>2, <1>6 DEF WorkCarried, OwnersCarried, Settled
<1>8. /\ campaign' \in CampaignRow /\ campaign'.state # "none" /\ campaign'.reason # "completed"
      /\ campaign'.generation = campaign.generation
      /\ campaign'.state = "finished" => \A j \in Jobs : jobs[j].state # "leased"
  <2>0. campaign.reason # "completed" /\ campaign.state = "active"
    BY <1>1 DEF CampaignInv, ReasonCloses, Active
  <2>1. CASE CancelCampaign
    BY <1>t, <2>0, <2>1 DEF CancelCampaign, CampaignRow
  <2>2. CASE AdvanceExpired
    BY <1>t, <2>0, <2>2 DEF AdvanceExpired, Finished, CampaignRow
  <2> QED
    BY <2>1, <2>2
<1>9. TypeOK'
  BY <1>1, <1>3, <1>6, <1>8 DEF CampaignInv, TypeOK, CampaignRow
<1>10. ClosedIsQuiet' /\ ReasonCloses' /\ CompletedIsTrue' /\ Ungenerated'
  <2>1. campaign'.state = "finished" => \A j \in Jobs : jobs'[j].state \notin Live
    BY <1>2, <1>8 DEF Live
  <2> QED
    BY <1>2, <1>6, <1>8, <2>1 DEF ClosedIsQuiet, ReasonCloses, CompletedIsTrue, Ungenerated,
         CampaignInv,
                                  Busy
<1> QED
  BY <1>4, <1>5, <1>6, <1>7, <1>8, <1>9, <1>10, CarriedKeeps DEF StepKeeps

\* Nothing is live: what cannot be funded is given up, and with the last of it the campaign.
LEMMA IdleStep ==
  ASSUME CampaignInv, AdvanceIdle
  PROVE  StepKeeps
<1>t. jobs \in [Jobs -> JobRow] /\ now \in Nat /\ campaign \in CampaignRow /\ items \in [Items -> ItemRow]
  BY DEF CampaignInv, TypeOK, CampaignRow
<1>0. jobs' = jobs /\ now' = now /\ spent' = spent /\ BeforeDeadline /\ ~ Busy
  BY DEF AdvanceIdle
<1>1. \A i \in Items : items[i].state # "admitted"
  BY <1>0 DEF CampaignInv, AdmittedIsLive, LiveJob, Busy
<1>2. CASE Waiting # Hopeless
  <2>1. /\ items' = [i \in Items |-> IF i \in Hopeless THEN Blocked(items[i]) ELSE items[i]]
        /\ campaign' = campaign
    BY <1>2 DEF AdvanceIdle
  <2>2. \A i \in Hopeless : items[i].state \in {"pending", "new", "open"}
    BY DEF Hopeless, Waiting, NeedsWork
  <2>3. ASSUME NEW i \in Items
        PROVE  /\ items'[i] \in ItemRow /\ items'[i].state # "admitted"
               /\ items[i].state \in {"absent", "complete", "blocked"} => items'[i] = items[i]
    BY <1>1, <1>t, <2>1, <2>2, BlockedRow
  <2>4. items' \in [Items -> ItemRow]
    BY <2>1, <2>3
  <2>5. AdmittedStays(None) /\ SettledStay
    BY <1>1, <2>3 DEF AdmittedStays, SettledStay, Items, Subjects
  <2>6. Ungenerated'
    BY <2>1, <2>3 DEF CampaignInv, Ungenerated
  <2>7. Running /\ campaign' \in CampaignRow /\ now' \in Nat /\ now' >= now
    BY <1>0, <1>t, <2>1 DEF Running, BeforeDeadline, Active
  <2> QED
    BY <1>0, <2>4, <2>5, <2>6, <2>7, ItemsMove
<1>3. CASE Waiting = Hopeless
  <2>1. PICK reason \in {"blocked", "completed", "partial"} :
          /\ items' = BlockAll /\ campaign' = Finished(reason)
          /\ reason = "completed" =>
               /\ CoverageNow
               /\ ~ \E i \in Subjects : items[i].state \notin {"absent", "complete"}
    BY <1>3 DEF AdvanceIdle
  <2>2. /\ items' \in [Items -> ItemRow] /\ SettledStay
        /\ \A i \in Items : items'[i].state \in Settled
        /\ \A i \in Items : items[i].state \in {"absent", "complete"} => items'[i] = items[i]
    BY <2>1, AllBlocked
  <2>3. /\ campaign' \in CampaignRow /\ campaign'.state = "finished" /\ campaign'.reason = reason
        /\ campaign'.generation = campaign.generation
    BY <1>t, <2>1 DEF Finished, CampaignRow
  <2>4. TypeOK'
    BY <1>0, <2>2, <2>3 DEF CampaignInv, TypeOK, CampaignRow
  <2>5. Carried /\ LeaseBounded'
    BY <1>0, JobsUntouched
  <2>6. WorkCarried /\ OwnersCarried
    BY <1>0, <2>2 DEF WorkCarried, OwnersCarried, Settled, Busy, Live
  <2>7. CompletedIsTrue'
    <3>1. reason = "completed" => \A i \in Items : items[i].state \in {"absent", "complete"}
      BY <2>1 DEF CoverageNow, Covered, Items, Subjects
    <3> QED
      BY <2>2, <2>3, <3>1 DEF CompletedIsTrue
  <2>8. ClosedIsQuiet'
    BY <1>0, <2>2 DEF ClosedIsQuiet, Busy, Live
  <2>9. ReasonCloses' /\ Ungenerated'
    BY <2>2, <2>3 DEF ReasonCloses, Ungenerated, CampaignInv
  <2> QED
    BY <2>2, <2>3, <2>4, <2>5, <2>6, <2>7, <2>8, <2>9, CarriedKeeps DEF StepKeeps
<1> QED
  BY <1>2, <1>3

\* A commit that moved on ends the job before there is any work.
LEMMA SuccessorStep ==
  ASSUME CampaignInv, NEW j \in Jobs, PrepareSuccessor(j)
  PROVE  StepKeeps
<1>t. jobs \in [Jobs -> JobRow] /\ campaign \in CampaignRow /\ items \in [Items -> ItemRow]
  BY DEF CampaignInv, TypeOK, CampaignRow
<1>0. /\ now' = now /\ spent' = spent /\ items' = items /\ jobs[j].state = "leased" /\ Active
      /\ jobs' = [jobs EXCEPT ![j] = Ended(j, "cancelled")] /\ campaign.generation = "none"
      /\ BeforeDeadline
  BY DEF PrepareSuccessor, InContext, Holds, BeforeDeadline
<1>1. \A i \in Items : items[i].state = "absent"
  BY <1>0 DEF CampaignInv, Ungenerated
<1>2. /\ Ended(j, "cancelled") \in JobRow /\ Ended(j, "cancelled").state = "cancelled"
      /\ Ended(j, "cancelled").kind = jobs[j].kind /\ Ended(j, "cancelled").item = jobs[j].item
      /\ Ended(j, "cancelled").pool = jobs[j].pool
  BY RowsWritten DEF CampaignInv
<1>3. /\ jobs' \in [Jobs -> JobRow] /\ jobs'[j] = Ended(j, "cancelled")
      /\ \A k \in Jobs : k # j => jobs'[k] = jobs[k]
      /\ Carried /\ LeaseBounded'
  BY <1>0, <1>2, OneJobWritten DEF Live
<1>4. /\ campaign' \in CampaignRow /\ campaign'.generation = "none" /\ campaign'.reason # "completed"
      /\ \/ campaign' = campaign
         \/ campaign'.state = "finished" /\ \A k \in Jobs \ {j} : jobs[k].state \notin Live
  <2>1. campaign.reason # "completed"
    BY <1>0 DEF CampaignInv, ReasonCloses, Active
  <2> QED
    BY <1>0, <1>t, <2>1 DEF PrepareSuccessor, CampaignRow
<1>5. TypeOK'
  BY <1>0, <1>3, <1>4 DEF CampaignInv, TypeOK, CampaignRow
<1>6. WorkCarried /\ SettledStay /\ Ungenerated'
  BY <1>0, <1>1 DEF WorkCarried, SettledStay, Ungenerated
<1>7. OwnersCarried
  <2>1. \A k \in Jobs : jobs[k].state \in Live => jobs[k].item = None
    <3> SUFFICES ASSUME NEW k \in Jobs, jobs[k].state \in Live, jobs[k].item # None
                 PROVE  FALSE
      OBVIOUS
    <3>1. jobs[k].item \in Items
      BY DEF CampaignInv, TypeOK, JobRow, Items, Subjects
    <3>2. items[jobs[k].item].state = "admitted"
      BY <1>0 DEF CampaignInv, LiveOwns, Live
    <3> QED
      BY <1>1, <3>1, <3>2
  <2> QED
    BY <1>2, <1>3, <2>1 DEF OwnersCarried, Live
<1>8. ClosedIsQuiet' /\ ReasonCloses' /\ CompletedIsTrue' /\ campaign'.state # "none"
  <2>1. CASE campaign' = campaign
    BY <1>0, <1>4, <2>1 DEF ClosedIsQuiet, ReasonCloses, CompletedIsTrue, Active
  <2>2. CASE campaign'.state = "finished" /\ \A k \in Jobs \ {j} : jobs[k].state \notin Live
    <3>1. \A k \in Jobs : jobs'[k].state \notin Live
      BY <1>2, <1>3, <2>2 DEF Live
    <3> QED
      BY <1>0, <1>1, <1>4, <2>2, <3>1 DEF ClosedIsQuiet, ReasonCloses, CompletedIsTrue, Busy,
           Live, Settled
  <2> QED
    BY <1>4, <2>1, <2>2
<1> QED
  BY <1>3, <1>5, <1>6, <1>7, <1>8, CarriedKeeps DEF StepKeeps

(***************************************************************************)
(* Steps that create a job                                                  *)
(***************************************************************************)
\* The pool that is chosen for fundable work is one that is not spent.
LEMMA ChosenPoolPays ==
  ASSUME TypeOK, NEW i \in Items, Fundable(i)
  PROVE  ChoosePool(i) \in Pools /\ spent[ChoosePool(i)] < Capacity[ChoosePool(i)]
<1>1. /\ DOMAIN ClassPools(i) \subseteq {1, 2, 3}
      /\ \A n \in DOMAIN ClassPools(i) : ClassPools(i)[n] \in Pools
  <2>1. CASE i \in Findings \cap UrgentItems
    <3>1. ClassPools(i) = <<"general", "verification", "urgent">>
      BY <2>1 DEF ClassPools
    <3> QED
      BY <3>1 DEF Pools
  <2>2. CASE i \in Findings \ UrgentItems
    <3>1. ClassPools(i) = <<"general", "verification">>
      BY <2>2 DEF ClassPools
    <3> QED
      BY <3>1 DEF Pools
  <2>3. CASE i \in UrgentItems \ Findings
    <3>1. ClassPools(i) = <<"general", "urgent">>
      BY <2>3 DEF ClassPools
    <3> QED
      BY <3>1 DEF Pools
  <2>4. CASE i \notin Findings \cup UrgentItems
    <3>1. ClassPools(i) = <<"general">>
      BY <2>4 DEF ClassPools
    <3> QED
      BY <3>1 DEF Pools
  <2> QED
    BY <2>1, <2>2, <2>3, <2>4
<1>2. PoolRank(i) \subseteq {1, 2, 3} /\ PoolRank(i) \subseteq DOMAIN ClassPools(i) /\ PoolRank(i) # {}
  BY <1>1 DEF PoolRank, Fundable
<1>3. \E n \in PoolRank(i) : \A m \in PoolRank(i) : n <= m
  <2>1. CASE 1 \in PoolRank(i)
    BY <1>2, <2>1
  <2>2. CASE 1 \notin PoolRank(i) /\ 2 \in PoolRank(i)
    BY <1>2, <2>2
  <2>3. CASE 1 \notin PoolRank(i) /\ 2 \notin PoolRank(i)
    BY <1>2, <2>3
  <2> QED
    BY <2>1, <2>2, <2>3
<1> DEFINE n == CHOOSE n \in PoolRank(i) : \A m \in PoolRank(i) : n <= m
<1>4. n \in PoolRank(i)
  BY <1>3
<1>5. ChoosePool(i) = ClassPools(i)[n]
  BY DEF ChoosePool
<1> HIDE DEF n
<1> QED
  BY <1>1, <1>2, <1>4, <1>5 DEF PoolRank

\* One job more is charged to one pool, which had room.
LEMMA OneCharge ==
  ASSUME CampaignInv, NEW j \in Jobs, jobs[j].state = "absent", NEW p \in Pools, spent[p] < Capacity[p],
         NEW row, row.pool = p, jobs' = [jobs EXCEPT ![j] = row], spent' = [spent EXCEPT ![p] = @ + 1]
  PROVE  SpendingExact' /\ spent' \in [Pools -> Nat]
<1>1. /\ jobs \in [Jobs -> JobRow] /\ spent \in [Pools -> Nat] /\ jobs[j].pool = None
      /\ \A q \in Pools : spent[q] = Cardinality(Charged(q)) /\ spent[q] <= Capacity[q]
  BY DEF CampaignInv, TypeOK, Uncreated, SpendingExact
<1>2. \A q \in Pools : Capacity[q] \in Int
  BY CampaignAssumption DEF Capacity, Pools
<1>3. None \notin Pools
  BY CampaignAssumption DEF Pools
<1>4. Charged(p)' = Charged(p) \cup {j} /\ j \notin Charged(p)
  BY <1>1, <1>3 DEF Charged
<1>5. \A q \in Pools : q # p => Charged(q)' = Charged(q)
  BY <1>1, <1>3 DEF Charged
<1>6. Cardinality(Charged(p)') = Cardinality(Charged(p)) + 1
  <2>1. IsFiniteSet(Charged(p))
    BY CampaignAssumption, FS_Subset DEF Charged
  <2> QED
    BY <1>4, <2>1, FS_AddElement
<1>7. spent' \in [Pools -> Nat] /\ spent'[p] = spent[p] + 1 /\ \A q \in Pools : q # p => spent'[q] = spent[q]
  BY <1>1
<1>8. ASSUME NEW q \in Pools
      PROVE  spent'[q] = Cardinality(Charged(q)') /\ spent'[q] <= Capacity[q]
  <2>1. CASE q = p
    BY <1>1, <1>2, <1>6, <1>7, <2>1
  <2>2. CASE q # p
    BY <1>1, <1>5, <1>7, <2>2
  <2> QED
    BY <2>1, <2>2
<1> QED
  BY <1>7, <1>8 DEF SpendingExact, Capacity

\* A new job of a running campaign, or the first one of a new campaign.
LEMMA JobStarts ==
  ASSUME CampaignInv, now' = now, campaign' \in CampaignRow, campaign'.state = "active",
         campaign'.reason # "completed",
         campaign.state = "active" \/ \A k \in Jobs : jobs[k].state = "absent",
         NEW j \in Jobs, jobs[j].state = "absent", NEW p \in Pools, spent[p] < Capacity[p],
         NEW row \in JobRow, row.pool = p, row.state \in Live,
         row.state = "leased" => row.lease <= row.hard + GRACE /\ row.hard <= DEADLINE,
         jobs' = [jobs EXCEPT ![j] = row], spent' = [spent EXCEPT ![p] = @ + 1],
         items' \in [Items -> ItemRow],
         row.item # None =>
           /\ row.kind # "survey"
           /\ \A k \in Jobs : jobs[k].state \in Live => jobs[k].item # row.item
           /\ items'[row.item].state = "admitted" /\ items'[row.item].job = j,
         \A i \in Items :
           /\ items[i].state = "admitted" => items'[i] = items[i]
           /\ items'[i].state = "admitted" /\ items'[i] # items[i] =>
                items'[i].job = j /\ row.item = IF i \in Subjects THEN i ELSE None,
         SettledStay, Ungenerated'
  PROVE  StepKeeps
<1> USE DEF CampaignInv
<1>1. jobs \in [Jobs -> JobRow] /\ Subjects \subseteq Items /\ Units \subseteq Items /\ None \notin Jobs
      /\ Units \cap Subjects = {}
  BY CampaignAssumption DEF TypeOK, Items, Subjects
<1>2. /\ jobs' \in [Jobs -> JobRow] /\ jobs'[j] = row
      /\ \A k \in Jobs : k # j => jobs'[k] = jobs[k]
  BY <1>1
<1>3. SpendingExact' /\ spent' \in [Pools -> Nat]
  BY OneCharge
<1>4. TypeOK'
  BY <1>2, <1>3 DEF TypeOK, CampaignRow
<1>5. Uncreated'
  BY <1>2 DEF Uncreated, Live
<1>6. SubjectJobs'
  BY <1>2 DEF SubjectJobs
<1>7. ASSUME NEW i \in Items, items'[i].state = "admitted"
      PROVE  /\ items'[i].job \in Jobs /\ jobs'[items'[i].job].state \in Live
             /\ i \in Subjects => jobs'[items'[i].job].item = i
             /\ i \in Units => jobs'[items'[i].job].item = None
  <2>1. CASE items'[i] = items[i]
    <3>1. /\ items[i].job \in Jobs /\ jobs[items[i].job].state \in Live
          /\ i \in Subjects => jobs[items[i].job].item = i
          /\ i \in Units => jobs[items[i].job].item = None
      BY <1>7, <2>1 DEF AdmittedIsLive, LiveJob, UnitJobs
    <3>2. items[i].job # j
      BY <3>1 DEF Live
    <3> QED
      BY <1>2, <2>1, <3>1, <3>2
  <2>2. CASE items'[i] # items[i]
    BY <1>1, <1>2, <1>7, <2>2
  <2> QED
    BY <2>1, <2>2
<1>8. AdmittedIsLive' /\ UnitJobs'
  BY <1>1, <1>7 DEF AdmittedIsLive, LiveJob, UnitJobs
<1>9. OneWorker'
  <2> SUFFICES ASSUME NEW a \in Jobs, NEW b \in Jobs, jobs'[a].state \in Live, jobs'[b].state \in Live,
                      jobs'[a].item = jobs'[b].item, a # b, jobs'[a].item # None
               PROVE  FALSE
    BY DEF OneWorker
  <2>1. CASE a = j
    BY <1>2, <2>1
  <2>2. CASE b = j
    BY <1>2, <2>2
  <2>3. CASE a # j /\ b # j
    BY <1>2, <2>3 DEF OneWorker
  <2> QED
    BY <2>1, <2>2, <2>3
<1>10. LiveOwns'
  <2> SUFFICES ASSUME NEW k \in Jobs, jobs'[k].item # None,
                      jobs'[k].state = "queued" \/ (jobs'[k].state = "leased" /\ BeforeDeadline')
               PROVE  items'[jobs'[k].item].state = "admitted" /\ items'[jobs'[k].item].job = k
    BY DEF LiveOwns
  <2>1. CASE k = j
    BY <1>2, <2>1
  <2>2. CASE k # j
    <3>1. jobs'[k] = jobs[k] /\ campaign.state = "active"
      BY <1>2, <2>2
    <3>2. BeforeDeadline' => BeforeDeadline
      BY <3>1 DEF BeforeDeadline, Active
    <3>3. items[jobs[k].item].state = "admitted" /\ items[jobs[k].item].job = k
      BY <3>1, <3>2 DEF LiveOwns
    <3>4. jobs[k].item \in Items
      BY <1>1, <3>1 DEF JobRow
    <3> QED
      BY <3>1, <3>3, <3>4
  <2> QED
    BY <2>1, <2>2
<1>11. LeaseBounded'
  BY <1>2 DEF LeaseBounded
<1>12. ClosedIsQuiet' /\ ReasonCloses' /\ CompletedIsTrue'
  BY DEF ClosedIsQuiet, ReasonCloses, CompletedIsTrue
<1> QED
  BY <1>3, <1>4, <1>5, <1>6, <1>8, <1>9, <1>10, <1>11, <1>12 DEF StepKeeps
\* A new campaign's preparation job.
LEMMA OpenStep ==
  ASSUME CampaignInv, NEW j \in Jobs, NEW recipe \in {"bootstrap", "incremental"}, Open(j, recipe)
  PROVE  StepKeeps
<1> DEFINE row == [NoJob EXCEPT !.state = "queued", !.pool = "general"]
<1>1. campaign.state = "none" /\ items' = items /\ now' = now /\ spent' = [spent EXCEPT !["general"] = @ + 1]
      /\ jobs' = [jobs EXCEPT ![j] = row]
      /\ campaign' = [campaign EXCEPT !.state = "active", !.recipe = recipe]
  BY DEF Open
<1>2. /\ \A k \in Jobs : jobs[k].state = "absent" /\ jobs[k].pool = None
      /\ campaign.generation = "none" /\ campaign \in CampaignRow /\ items \in [Items -> ItemRow]
      /\ campaign.reason # "completed"
  BY <1>1 DEF CampaignInv, Uncreated, TypeOK, CampaignRow, ReasonCloses
<1>3. row \in JobRow /\ row.state = "queued" /\ row.pool = "general" /\ row.item = None
  <2>1. 0 \in 0 .. MAX_ATTEMPTS /\ 0 \in Nat
    BY CampaignAssumption
  <2> QED
    BY <2>1 DEF NoJob, JobRow, Kinds, Pools
<1> HIDE DEF row
<1>4. "general" \in Pools /\ spent["general"] < Capacity["general"]
  <2>1. "general" \in Pools /\ Capacity["general"] = MAX_JOBS - URGENT_RESERVE - VERIFICATION_RESERVE
    BY DEF Capacity, Pools
  <2>2. Capacity["general"] > 0
    BY <2>1, CampaignAssumption
  <2>3. Charged("general") = {}
    BY <1>2, <2>1, CampaignAssumption DEF Charged
  <2>4. spent["general"] = 0
    BY <2>1, <2>3, FS_EmptySet DEF CampaignInv, SpendingExact
  <2> QED
    BY <2>1, <2>2, <2>4
<1>5. /\ campaign' \in CampaignRow /\ campaign'.state = "active" /\ campaign'.reason # "completed"
      /\ campaign'.generation = campaign.generation
  BY <1>1, <1>2 DEF CampaignRow
<1>6. SettledStay /\ Ungenerated'
  BY <1>1, <1>5 DEF SettledStay, Ungenerated, CampaignInv
<1> QED
  BY <1>1, <1>2, <1>3, <1>4, <1>5, <1>6, JobStarts DEF Live

\* A campaign no recipe can review is recorded and closed.
LEMMA UnsupportedStep ==
  ASSUME CampaignInv, OpenUnsupported
  PROVE  StepKeeps
<1>1. /\ campaign.state = "none" /\ now' = now /\ jobs' = jobs /\ items' = items /\ spent' = spent
      /\ campaign' = [campaign EXCEPT !.state = "finished", !.reason = "unsupported"]
  BY DEF OpenUnsupported
<1>2. campaign \in CampaignRow
  BY DEF CampaignInv, TypeOK, CampaignRow
<1>3. /\ campaign' \in CampaignRow /\ campaign'.state = "finished" /\ campaign'.reason = "unsupported"
      /\ campaign'.generation = campaign.generation
  BY <1>1, <1>2 DEF CampaignRow
<1>4. campaign.generation = "none" /\ \A j \in Jobs : jobs[j].state = "absent"
  BY <1>1 DEF CampaignInv, Uncreated
<1>5. \A i \in Items : items[i].state = "absent"
  BY <1>4 DEF CampaignInv, Ungenerated
<1>6. TypeOK'
  BY <1>1, <1>3 DEF CampaignInv, TypeOK, CampaignRow
<1>7. Carried /\ LeaseBounded'
  BY <1>1, JobsUntouched
<1>8. WorkCarried /\ OwnersCarried /\ Ungenerated' /\ SettledStay
  BY <1>1, <1>4, <1>5 DEF WorkCarried, OwnersCarried, Ungenerated, SettledStay
<1>9. ClosedIsQuiet' /\ ReasonCloses' /\ CompletedIsTrue'
  BY <1>1, <1>3, <1>4, <1>5 DEF ClosedIsQuiet, ReasonCloses, CompletedIsTrue, Busy, Live, Settled
<1> QED
  BY <1>3, <1>6, <1>7, <1>8, <1>9, CarriedKeeps DEF StepKeeps

\* A waiting lead, finding or batch is handed to a new job.
LEMMA PendingStep ==
  ASSUME CampaignInv, NEW j \in Jobs, NEW i \in Items, ClaimPending(j, i)
  PROVE  StepKeeps
<1> DEFINE base == [NoJob EXCEPT !.kind = KindOf(i), !.pool = ChoosePool(i),
                                 !.item = IF i \in Subjects THEN i ELSE None]
<1>t. /\ jobs \in [Jobs -> JobRow] /\ campaign \in CampaignRow /\ items \in [Items -> ItemRow] /\ now \in Nat
      /\ campaign.reason # "completed" /\ campaign.state = "active"
  BY DEF CampaignInv, TypeOK, CampaignRow, ReasonCloses, ClaimPending, BeforeDeadline, Active
<1>1. /\ now' = now /\ campaign' = campaign /\ jobs[j].state = "absent" /\ items[i].state = "pending"
      /\ \A k \in Jobs : jobs[k].state \in Live => jobs[k].item # i
      /\ campaign.generation # "none"
      /\ jobs' = [jobs EXCEPT ![j] = Leased(base)]
      /\ items' = [items EXCEPT ![i].state = "admitted", ![i].job = j]
      /\ spent' = [spent EXCEPT ![ChoosePool(i)] = @ + 1]
  BY DEF ClaimPending, Ready
<1>2. ChoosePool(i) \in Pools /\ spent[ChoosePool(i)] < Capacity[ChoosePool(i)]
  BY ChosenPoolPays DEF ClaimPending, CampaignInv
<1>3. PICK p \in Pools : p = ChoosePool(i)
  BY <1>2
<1>4. /\ base \in JobRow /\ base.attempts = 0 /\ base.pool = p
      /\ base.item = IF i \in Subjects THEN i ELSE None
      /\ base.item # None => base.kind # "survey"
  <2>1. KindOf(i) \in Kinds /\ (i \in Subjects => KindOf(i) # "survey")
    BY DEF KindOf, Kinds, Subjects
  <2>2. 0 \in 0 .. MAX_ATTEMPTS
    BY CampaignAssumption
  <2> QED
    BY <1>3, <2>1, <2>2 DEF NoJob, JobRow
<1> HIDE DEF base
<1>5. base.attempts < MAX_ATTEMPTS
  BY <1>4, CampaignAssumption
<1>6. PICK row \in JobRow : /\ row = Leased(base) /\ row.state = "leased"
        /\ row.kind = base.kind /\ row.item = base.item /\ row.pool = p
        /\ row.lease <= row.hard + GRACE /\ row.hard <= DEADLINE
  BY <1>4, <1>5, <1>t, LeasedRow
<1>7. /\ items' \in [Items -> ItemRow] /\ items'[i].state = "admitted" /\ items'[i].job = j
      /\ \A k \in Items : k # i => items'[k] = items[k]
  BY <1>1, <1>t DEF ItemRow, ItemStates
<1>8. SettledStay /\ Ungenerated'
  BY <1>1, <1>7 DEF SettledStay, Ungenerated
<1>9. /\ jobs' = [jobs EXCEPT ![j] = row] /\ spent' = [spent EXCEPT ![p] = @ + 1]
      /\ spent[p] < Capacity[p] /\ row.state \in Live
  BY <1>1, <1>2, <1>3, <1>6 DEF Live
<1>10. row.item # None =>
         /\ row.kind # "survey"
         /\ \A k \in Jobs : jobs[k].state \in Live => jobs[k].item # row.item
         /\ items'[row.item].state = "admitted" /\ items'[row.item].job = j
  BY <1>1, <1>4, <1>6, <1>7
<1>11. \A k \in Items :
         /\ items[k].state = "admitted" => items'[k] = items[k]
         /\ items'[k].state = "admitted" /\ items'[k] # items[k] =>
              items'[k].job = j /\ row.item = IF k \in Subjects THEN k ELSE None
  BY <1>1, <1>4, <1>6, <1>7
<1>12. campaign' \in CampaignRow /\ campaign'.state = "active" /\ campaign'.reason # "completed"
  BY <1>1, <1>t
<1>13. now' = now /\ jobs[j].state = "absent" /\ campaign.state = "active"
  BY <1>1, <1>t
<1>14. items' \in [Items -> ItemRow] /\ row.pool = p /\ row.lease <= row.hard + GRACE /\ row.hard <= DEADLINE
  BY <1>6, <1>7
<1> QED
  BY <1>8, <1>9, <1>10, <1>11, <1>12, <1>13, <1>14, JobStarts

\* A survey is given units that no live job has.
LEMMA OrdinaryStep ==
  ASSUME CampaignInv, NEW j \in Jobs, NEW taken \in SUBSET Units, ClaimOrdinary(j, taken)
  PROVE  StepKeeps
<1> DEFINE base == [NoJob EXCEPT !.pool = "general"]
<1>t. /\ jobs \in [Jobs -> JobRow] /\ campaign \in CampaignRow /\ items \in [Items -> ItemRow] /\ now \in Nat
      /\ campaign.reason # "completed" /\ campaign.state = "active"
  BY DEF CampaignInv, TypeOK, CampaignRow, ReasonCloses, ClaimOrdinary, BeforeDeadline, Active
<1>1. /\ now' = now /\ campaign' = campaign /\ jobs[j].state = "absent"
      /\ campaign.generation # "none" /\ \A u \in taken : NeedsWork(u)
      /\ spent["general"] < Capacity["general"]
      /\ jobs' = [jobs EXCEPT ![j] = Leased(base)]
      /\ items' = Assigned(taken, j)
      /\ spent' = [spent EXCEPT !["general"] = @ + 1]
  BY DEF ClaimOrdinary
<1>2. "general" \in Pools
  BY DEF Pools
<1>4. base \in JobRow /\ base.attempts = 0 /\ base.pool = "general" /\ base.item = None
  <2>1. 0 \in 0 .. MAX_ATTEMPTS
    BY CampaignAssumption
  <2> QED
    BY <1>2, <2>1 DEF NoJob, JobRow, Kinds
<1> HIDE DEF base
<1>5. base.attempts < MAX_ATTEMPTS
  BY <1>4, CampaignAssumption
<1>6. PICK row \in JobRow : /\ row = Leased(base) /\ row.state = "leased"
        /\ row.item = None /\ row.pool = "general"
        /\ row.lease <= row.hard + GRACE /\ row.hard <= DEADLINE
  BY <1>4, <1>5, <1>t, LeasedRow
<1>7. ASSUME NEW i \in Items
      PROVE  /\ items'[i] \in ItemRow
             /\ i \notin taken => items'[i] = items[i]
             /\ i \in taken => items'[i].state = "open" /\ items[i].state \in {"new", "open"}
  <2>1. items[i] \in ItemRow
    BY <1>t
  <2>2. items'[i] = IF i \in taken THEN [items[i] EXCEPT !.state = "open", !.job = j] ELSE items[i]
    BY <1>1 DEF Assigned
  <2> QED
    BY <1>1, <2>1, <2>2 DEF ItemRow, ItemStates, NeedsWork
<1>8. items' \in [Items -> ItemRow]
  BY <1>1, <1>7 DEF Assigned
<1>9. SettledStay /\ Ungenerated'
  BY <1>1, <1>7 DEF SettledStay, Ungenerated
<1>10. /\ jobs' = [jobs EXCEPT ![j] = row] /\ row.state \in Live
       /\ campaign' \in CampaignRow /\ campaign'.state = "active" /\ campaign'.reason # "completed"
  BY <1>1, <1>6, <1>t DEF Live
<1>11. \A i \in Items :
         /\ items[i].state = "admitted" => items'[i] = items[i]
         /\ items'[i].state = "admitted" /\ items'[i] # items[i] =>
              items'[i].job = j /\ row.item = IF i \in Subjects THEN i ELSE None
  BY <1>7
<1> QED
  BY <1>t, <1>1, <1>2, <1>6, <1>8, <1>9, <1>10, <1>11, JobStarts
(***************************************************************************)
(* The theorems                                                             *)
(***************************************************************************)
\* Before the campaign is opened there is nothing to account for.
LEMMA CampaignInitial == Init => CampaignInv
<1> SUFFICES ASSUME Init
             PROVE  CampaignInv
  OBVIOUS
<1>1. /\ \A j \in Jobs : jobs[j] = NoJob
      /\ \A i \in Items : items[i] = NoItem
      /\ \A p \in Pools : spent[p] = 0
      /\ campaign.state = "none" /\ campaign.generation = "none" /\ campaign.reason = "none"
  BY DEF Init
<1>2. NoJob \in JobRow /\ NoItem \in ItemRow
  <2>1. 0 \in 0 .. MAX_ATTEMPTS /\ 0 \in Nat
    BY CampaignAssumption
  <2> QED
    BY <2>1 DEF NoJob, JobRow, Kinds, NoItem, ItemRow, ItemStates
<1>3. NoJob.state = "absent" /\ NoJob.item = None /\ NoJob.pool = None /\ NoItem.state = "absent"
  BY DEF NoJob, NoItem
<1>4. TypeOK
  BY <1>2 DEF Init, TypeOK
<1>5. SpendingExact
  <2> SUFFICES ASSUME NEW p \in Pools
               PROVE  spent[p] = Cardinality(Charged(p)) /\ spent[p] <= Capacity[p]
    BY DEF SpendingExact
  <2>1. Charged(p) = {}
    BY <1>1, <1>3, CampaignAssumption DEF Charged
  <2>2. 0 <= Capacity[p]
    BY CampaignAssumption DEF Capacity, Pools
  <2> QED
    BY <1>1, <2>1, <2>2, FS_EmptySet
<1>6. Uncreated /\ Ungenerated /\ SubjectJobs /\ UnitJobs /\ AdmittedIsLive /\ OneWorker /\ LiveOwns
  BY <1>1, <1>3, CampaignAssumption
     DEF Uncreated, Ungenerated, SubjectJobs, UnitJobs, AdmittedIsLive, OneWorker, LiveOwns, Items
<1>7. ClosedIsQuiet /\ LeaseBounded /\ ReasonCloses /\ CompletedIsTrue
  BY <1>1, <1>3 DEF ClosedIsQuiet, LeaseBounded, ReasonCloses, CompletedIsTrue
<1> QED
  BY <1>4, <1>5, <1>6, <1>7 DEF CampaignInv

\* Every action keeps the invariant and leaves settled work settled.
LEMMA CampaignStep ==
  ASSUME CampaignInv, Next
  PROVE  StepKeeps
<1>1. CASE \E j \in Jobs, recipe \in {"bootstrap", "incremental"} : Open(j, recipe)
  BY <1>1, OpenStep
<1>2. CASE OpenUnsupported
  BY <1>2, UnsupportedStep
<1>3. CASE Claim
  <2> PICK j \in Jobs : \/ ClaimQueued(j)
                        \/ \E i \in Items : ClaimPending(j, i)
                        \/ \E taken \in SUBSET Units : ClaimOrdinary(j, taken)
                        \/ HoldJob(j)
    BY <1>3 DEF Claim
  <2>1. CASE ClaimQueued(j)
    BY <2>1, LivingSteps
  <2>2. CASE \E i \in Items : ClaimPending(j, i)
    BY <2>2, PendingStep
  <2>3. CASE \E taken \in SUBSET Units : ClaimOrdinary(j, taken)
    BY <2>3, OrdinaryStep
  <2>4. CASE HoldJob(j)
    BY <2>4, EndingSteps
  <2> QED
    BY <2>1, <2>2, <2>3, <2>4
<1>4. CASE \E i \in Items : HoldItem(i)
  BY <1>4, ItemSteps
<1>5. CASE WorkerStep
  <2> PICK j \in Jobs :
        \/ \E open \in SUBSET Units : \E taken \in SUBSET open : Prepare(j, open, taken)
        \/ PrepareSuccessor(j)
        \/ Seal(j)
        \/ \E u \in Units : SubmitUnit(j, u) \/ \E st \in {"complete", "held"} : SubmitUnitResult(j, u, st)
        \/ \E l \in Leads : SubmitLead(j, l)
        \/ \E resolved \in BOOLEAN, next \in Continuations : FinalizeSurvey(j, resolved, next)
        \/ \E next \in Continuations \cup {Done} :
             \/ \E l \in Leads, f \in Findings \cup {None} : FinalizeDrilldown(j, l, next, f)
             \/ \E f \in Findings : FinalizeVerification(j, f, next)
        \/ Heartbeat(j)
        \/ Fail(j)
    BY <1>5 DEF WorkerStep
  <2>1. CASE \/ Heartbeat(j)
             \/ \E open \in SUBSET Units : \E taken \in SUBSET open : Prepare(j, open, taken)
    BY <2>1, LivingSteps
  <2>2. CASE PrepareSuccessor(j)
    BY <2>2, SuccessorStep
  <2>3. CASE Seal(j)
    BY <2>3, QuietSteps
  <2>4. CASE \/ \E u \in Units : SubmitUnit(j, u) \/ \E st \in {"complete", "held"} : SubmitUnitResult(j, u, st)
             \/ \E l \in Leads : SubmitLead(j, l)
    BY <2>4, ItemSteps
  <2>5. CASE \/ \E resolved \in BOOLEAN, next \in Continuations : FinalizeSurvey(j, resolved, next)
             \/ \E next \in Continuations \cup {Done} :
                  \/ \E l \in Leads, f \in Findings \cup {None} : FinalizeDrilldown(j, l, next, f)
                  \/ \E f \in Findings : FinalizeVerification(j, f, next)
    BY <2>5, ReceiptSteps
  <2>6. CASE Fail(j)
    BY <2>6, EndingSteps
  <2> QED
    BY <2>1, <2>2, <2>3, <2>4, <2>5, <2>6
<1>6. CASE \E j \in Jobs : CancelJob(j) \/ Reap(j)
  BY <1>6, EndingSteps
<1>7. CASE CancelCampaign \/ AdvanceExpired
  BY <1>7, GivingUp
<1>8. CASE AdvanceIdle
  BY <1>8, IdleStep
<1>9. CASE Tick
  BY <1>9, QuietSteps
<1> QED
  BY <1>1, <1>2, <1>3, <1>4, <1>5, <1>6, <1>7, <1>8, <1>9 DEF Next, Advance

\* The invariant along every behaviour.
LEMMA CampaignAlways == Spec => []CampaignInv
<1>1. CampaignInv /\ [Next]_vars => CampaignInv'
  <2> SUFFICES ASSUME CampaignInv, [Next]_vars
               PROVE  CampaignInv'
    OBVIOUS
  <2>1. CASE Next
    BY <2>1, CampaignStep DEF StepKeeps
  <2>2. CASE UNCHANGED vars
    <3>1. now' = now /\ campaign' = campaign /\ jobs' = jobs /\ items' = items /\ spent' = spent
      BY <2>2 DEF vars
    <3>2. TypeOK' /\ SpendingExact'
      BY <3>1 DEF CampaignInv, TypeOK, SpendingExact, Charged
    <3>3. Uncreated' /\ Ungenerated' /\ SubjectJobs' /\ UnitJobs' /\ OneWorker'
      BY <3>1 DEF CampaignInv, Uncreated, Ungenerated, SubjectJobs, UnitJobs, OneWorker
    <3>4. AdmittedIsLive' /\ LiveOwns'
      BY <3>1 DEF CampaignInv, AdmittedIsLive, LiveJob, LiveOwns, BeforeDeadline, Active
    <3>5. ClosedIsQuiet' /\ LeaseBounded' /\ ReasonCloses' /\ CompletedIsTrue'
      BY <3>1 DEF CampaignInv, ClosedIsQuiet, Busy, LeaseBounded, ReasonCloses, CompletedIsTrue
    <3> QED
      BY <3>2, <3>3, <3>4, <3>5 DEF CampaignInv
  <2> QED
    BY <2>1, <2>2
<1> QED
  BY <1>1, CampaignInitial, PTL DEF Spec

\* The budget counts each job once and no pool is overdrawn (admission.rs, charge_raw); work that
\* is admitted belongs to one live job, which finds it again after a failed attempt; leases end
\* with the campaign's deadline and the grace (phase_lifecycle.rs, heartbeat); and a closed
\* campaign has neither queued jobs nor waiting work (campaign_workflow.rs).
THEOREM WorkIsAccounted == Spec => []WorkAccounted
BY CampaignAlways, CampaignImplied, PTL

\* The summary of a campaign says completed only of work that is (campaign_workflow.rs, tick):
\* nothing that arrives after the campaign was closed changes it.
THEOREM CompletedStaysTrue == Spec => []CompletedIsTrue
<1>1. CampaignInv => CompletedIsTrue
  BY DEF CampaignInv
<1> QED
  BY <1>1, CampaignAlways, PTL

\* No late receipt, retry, reap or cancellation reopens finished or blocked work, in whatever
\* order the requests of workers, the operator's and the background tasks come.
THEOREM SettledForGood == Spec => WorkSettles
<1> DEFINE Kept ==
      \A i \in Items : /\ items[i].state = "complete" => items'[i].state = "complete"
                       /\ items[i].state = "blocked" => items'[i].state = "blocked"
<1>1. CampaignInv /\ [Next]_vars => [Kept]_vars
  BY CampaignStep DEF StepKeeps, SettledStay
<1>2. Spec => [][Kept]_vars
  BY <1>1, CampaignAlways, PTL DEF Spec
<1> QED
  BY <1>2 DEF WorkSettles

(***************************************************************************)
(* The evidence about leads                                                 *)
(***************************************************************************)
CONSTANTS
  Surveys, Drilldowns, Identities, Bodies, Keys, LEAD_ATTEMPTS, MAX_LEADS_PER_SURVEY,
  MAX_SIBLING_LEADS_PER_DRILLDOWN, QUERY_LIMIT, MaxSequence

VARIABLES
  lead_jobs, leads, observations, lead_intents, lead_findings, checkpoints, lead_receipts,
  lead_told

Ev == INSTANCE LeadEvidence WITH
  MAX_ATTEMPTS <- LEAD_ATTEMPTS, jobs <- lead_jobs, intents <- lead_intents, findings <- lead_findings,
  receipts <- lead_receipts, told <- lead_told

\* The instance counts as this module does.
LEMMA SameEvCount ==
  ASSUME NEW S
  PROVE  /\ Ev!IsFiniteSet(S) <=> IsFiniteSet(S)
         /\ Ev!Cardinality(S) = Cardinality(S)
BY DEF Ev!IsFiniteSet, IsFiniteSet, Ev!Cardinality, Cardinality

\* The rows of the tables.
Outcomes == {"promoted", "rejected", "hardening", "duplicate_lead", "duplicate_finding"}
WorkRow == [state : {"absent", "queued", "leased", "succeeded", "failed"},
            attempts : 0 .. LEAD_ATTEMPTS, lead : Nat]
LeadRow == [identity : Identities, by : Ev!PhaseJobs, status : {"open", "deferred", "closed"},
            disposition : Outcomes \cup {None}, of : Nat]
WaitRow == [state : {"pending", "admitted", "blocked", "complete"}, job : Drilldowns \cup {None},
            sequence : 0 .. MaxSequence]
SeenRow == [lead : Nat, job : Ev!PhaseJobs]
FoundRow == [identity : Identities, origin : Nat]

EvidenceTyped ==
  /\ lead_jobs \in [Ev!PhaseJobs -> WorkRow] /\ leads \in Seq(LeadRow) /\ lead_intents \in Seq(WaitRow)
  /\ Len(lead_intents) = Len(leads)
  /\ \A j \in Ev!PhaseJobs :
       /\ lead_jobs[j].lead \in 0 .. Len(leads)
       /\ lead_jobs[j].state = "queued" => lead_jobs[j].attempts < LEAD_ATTEMPTS

\* An identity has one lead; a live drilldown is the one its lead's intent names, and the
\* other way around.
Drilled ==
  /\ \A l, m \in 1 .. Len(leads) : leads[l].identity = leads[m].identity => l = m
  /\ \A j \in Drilldowns :
       /\ lead_jobs[j].state \in {"queued", "leased"} =>
            /\ lead_jobs[j].lead \in 1 .. Len(leads)
            /\ lead_intents[lead_jobs[j].lead].state = "admitted" /\ lead_intents[lead_jobs[j].lead].job = j
       /\ lead_jobs[j].state = "succeeded" => lead_jobs[j].lead \in 1 .. Len(leads)
  /\ \A l \in 1 .. Len(leads) : lead_intents[l].state = "admitted" => lead_intents[l].job \in Drilldowns

LeadsWaiting ==
  \A l \in 1 .. Len(leads) :
    /\ leads[l].status = "closed" <=> lead_intents[l].state = "complete"
    /\ lead_intents[l].state = "admitted" =>
         /\ leads[l].status = "open"
         /\ lead_jobs[lead_intents[l].job].lead = l
         /\ lead_jobs[lead_intents[l].job].state \in {"queued", "leased"}

WorkInv == EvidenceTyped /\ Drilled /\ LeadsWaiting

\* What else refers to leads.
Referring ==
  /\ observations \in Seq(SeenRow) /\ lead_findings \in Seq(FoundRow)
  /\ \A o \in 1 .. Len(observations) : observations[o].lead \in 1 .. Len(leads)
  /\ \A f \in 1 .. Len(lead_findings) : lead_findings[f].origin \in 1 .. Len(leads)

\* A request was recorded once, and the lead of its answer has the identity it asked for.
Recorded ==
  /\ \A c \in checkpoints :
       /\ c.job \in Ev!PhaseJobs /\ c.op \in {"lead", "candidates"}
       /\ c.op = "lead" => /\ c.answer.lead \in 1 .. Len(leads)
                           /\ leads[c.answer.lead].identity = c.payload.identity
  /\ \A c, d \in checkpoints : c.job = d.job /\ c.op = d.op /\ c.key = d.key => c = d

\* A job has one receipt, its last act, and what it decided is what the lead says.
SealedOnce ==
  /\ \A r \in lead_receipts : r.job \in Ev!PhaseJobs /\ lead_jobs[r.job].state = "succeeded"
  /\ \A r, s \in lead_receipts : r.job = s.job => r = s

Stands(r) ==
  /\ leads[lead_jobs[r.job].lead].status = "closed"
  /\ leads[lead_jobs[r.job].lead].disposition = r.payload.decision
  /\ r.payload.decision = "promoted" =>
       /\ r.answer.finding \in 1 .. Len(lead_findings)
       /\ lead_findings[r.answer.finding].origin = lead_jobs[r.job].lead

SealedStands ==
  \A r \in lead_receipts : r.job \in Drilldowns /\ r.payload.decision \notin Ev!Continuations => Stands(r)

\* What a worker was told was recorded or sealed.
ReplyOf(c) == [job |-> c.job, op |-> c.op, key |-> c.key, payload |-> c.payload, answer |-> c.answer]

ReplyOfReceipt(r) ==
  [job |-> r.job, op |-> "finish", key |-> r.attempt, payload |-> r.payload, answer |-> r.answer]

ToldTrue ==
  \A a \in lead_told : (\E c \in checkpoints : a = ReplyOf(c)) \/ (\E r \in lead_receipts : a = ReplyOfReceipt(r))

\* The rows of a job, counted in the three tables.
LeadsBy(table, j) == {l \in 1 .. Len(table) : table[l].by = j}
SeenBy(table, j) == {o \in 1 .. Len(table) : table[o].job = j}
Asked(table, j) == {c \in table : c.job = j /\ c.op = "lead"}
KeysOf(table, j) == {c.key : c \in Asked(table, j)}

Counted ==
  \A j \in Ev!PhaseJobs :
    /\ IsFiniteSet(Asked(checkpoints, j)) /\ IsFiniteSet(KeysOf(checkpoints, j))
    /\ Cardinality(Asked(checkpoints, j)) = Cardinality(KeysOf(checkpoints, j))
    /\ Cardinality(KeysOf(checkpoints, j))
         = Cardinality(LeadsBy(leads, j)) + Cardinality(SeenBy(observations, j))
    /\ Cardinality(KeysOf(checkpoints, j)) <= Ev!Limit(j)

EvidenceInv ==
  WorkInv /\ Referring /\ Recorded /\ SealedOnce /\ SealedStands /\ ToldTrue /\ Counted

\* What the runs check.
EvidenceHolds ==
  Ev!TypeOK /\ Ev!AnswersAgree /\ Ev!EvidenceBounded /\ Ev!OneDrilldown /\ Ev!LeadsAccounted /\ Ev!DecisionStands

\* The tables are sequences.
LEMMA Domains ==
  ASSUME EvidenceInv
  PROVE  /\ DOMAIN leads = 1 .. Len(leads) /\ DOMAIN lead_intents = 1 .. Len(leads)
         /\ DOMAIN observations = 1 .. Len(observations) /\ DOMAIN lead_findings = 1 .. Len(lead_findings)
         /\ Len(leads) \in Nat /\ Len(observations) \in Nat /\ Len(lead_findings) \in Nat
BY DEF EvidenceInv, WorkInv, EvidenceTyped, Referring

\* The rows of a lead and of its intent.
LEMMA LeadTyped ==
  ASSUME EvidenceInv, NEW l \in 1 .. Len(leads)
  PROVE  leads[l] \in LeadRow /\ lead_intents[l] \in WaitRow
BY ElementOfSeq DEF EvidenceInv, WorkInv, EvidenceTyped

\* The inductive invariant implies what the runs check.
LEMMA EvidenceImplied == EvidenceInv => EvidenceHolds
<1> SUFFICES ASSUME EvidenceInv
             PROVE  EvidenceHolds
  OBVIOUS
<1>1. Ev!TypeOK
  <2>1. \A l \in 1 .. Len(leads) : leads[l] \in LeadRow /\ lead_intents[l] \in WaitRow
    BY LeadTyped
  <2>2. \A o \in 1 .. Len(observations) : observations[o] \in SeenRow
    BY ElementOfSeq DEF EvidenceInv, Referring
  <2>3. lead_jobs \in [Ev!PhaseJobs -> [state : {"absent", "queued", "leased", "succeeded", "failed"},
                                attempts : 0 .. LEAD_ATTEMPTS, lead : 0 .. Len(leads)]]
    <3>1. ASSUME NEW j \in Ev!PhaseJobs
          PROVE  lead_jobs[j] \in [state : {"absent", "queued", "leased", "succeeded", "failed"},
                              attempts : 0 .. LEAD_ATTEMPTS, lead : 0 .. Len(leads)]
      <4>1. lead_jobs[j] \in WorkRow /\ lead_jobs[j].lead \in 0 .. Len(leads)
        BY DEF EvidenceInv, WorkInv, EvidenceTyped
      <4> QED
        BY <4>1 DEF WorkRow
    <3>2. lead_jobs = [j \in Ev!PhaseJobs |-> lead_jobs[j]]
      BY DEF EvidenceInv, WorkInv, EvidenceTyped
    <3> QED
      BY <3>1, <3>2
  <2> QED
    BY <2>1, <2>2, <2>3, Domains
    DEF Ev!TypeOK, EvidenceInv, WorkInv, EvidenceTyped, Referring, LeadRow, WaitRow, SeenRow
<1>2. Ev!AnswersAgree
  <2> SUFFICES ASSUME NEW a \in lead_told
               PROVE  /\ a.op = "lead" => leads[a.answer.lead].identity = a.payload.identity
                      /\ \A b \in lead_told :
                           (a.job = b.job /\ a.op = b.op
                            /\ (a.op = "finish" \/ (a.key = b.key /\ a.payload = b.payload))) => a = b
    BY DEF Ev!AnswersAgree
  <2>1. \A c \in checkpoints : /\ ReplyOf(c).job = c.job /\ ReplyOf(c).op = c.op /\ ReplyOf(c).key = c.key
                               /\ ReplyOf(c).payload = c.payload /\ ReplyOf(c).answer = c.answer
                               /\ c.op # "finish"
    BY DEF ReplyOf, EvidenceInv, Recorded
  <2>2. \A r \in lead_receipts : ReplyOfReceipt(r).op = "finish" /\ ReplyOfReceipt(r).job = r.job
    BY DEF ReplyOfReceipt
  <2>3. CASE \E c \in checkpoints : a = ReplyOf(c)
    <3>1. PICK c \in checkpoints : a = ReplyOf(c)
      BY <2>3
    <3>2. a.op = "lead" => leads[a.answer.lead].identity = a.payload.identity
      BY <2>1, <3>1 DEF EvidenceInv, Recorded
    <3>3. ASSUME NEW b \in lead_told, a.job = b.job, a.op = b.op, a.key = b.key
          PROVE  a = b
      <4>1. PICK d \in checkpoints : b = ReplyOf(d)
        BY <2>1, <2>2, <3>1, <3>3 DEF EvidenceInv, ToldTrue
      <4>2. c = d
        BY <2>1, <3>1, <3>3, <4>1 DEF EvidenceInv, Recorded
      <4> QED
        BY <3>1, <4>1, <4>2
    <3> QED
      BY <2>1, <3>1, <3>2, <3>3
  <2>4. CASE \E r \in lead_receipts : a = ReplyOfReceipt(r)
    <3>1. PICK r \in lead_receipts : a = ReplyOfReceipt(r)
      BY <2>4
    <3>2. ASSUME NEW b \in lead_told, a.job = b.job, a.op = b.op
          PROVE  a = b
      <4>1. PICK s \in lead_receipts : b = ReplyOfReceipt(s)
        BY <2>1, <2>2, <3>1, <3>2 DEF EvidenceInv, ToldTrue
      <4>2. r = s
        BY <2>2, <3>1, <3>2, <4>1 DEF EvidenceInv, SealedOnce
      <4> QED
        BY <3>1, <4>1, <4>2
    <3>3. a.op # "lead"
      BY <2>2, <3>1
    <3> QED
      BY <3>2, <3>3
  <2> QED
    BY <2>3, <2>4 DEF EvidenceInv, ToldTrue
<1>3. Ev!EvidenceBounded
  <2>1. ASSUME NEW j \in Ev!PhaseJobs
        PROVE  /\ {l \in DOMAIN leads : leads[l].by = j} = LeadsBy(leads, j)
               /\ {o \in DOMAIN observations : observations[o].job = j} = SeenBy(observations, j)
               /\ {c.key : c \in {d \in checkpoints : d.job = j /\ d.op = "lead"}} = KeysOf(checkpoints, j)
    BY Domains DEF LeadsBy, SeenBy, KeysOf, Asked
  <2> QED
    BY SameEvCount, <2>1 DEF Ev!EvidenceBounded, EvidenceInv, Counted
<1>4. Ev!OneDrilldown
  <2>1. ASSUME NEW j \in Drilldowns, lead_jobs[j].state \in {"queued", "leased"}
        PROVE  /\ lead_jobs[j].lead \in 1 .. Len(leads) /\ leads[lead_jobs[j].lead].status = "open"
               /\ lead_intents[lead_jobs[j].lead].job = j
    BY <2>1 DEF EvidenceInv, WorkInv, Drilled, LeadsWaiting
  <2> QED
    BY <2>1, Domains DEF Ev!OneDrilldown, EvidenceInv, WorkInv, Drilled
<1>5. Ev!LeadsAccounted
  BY Domains DEF Ev!LeadsAccounted, EvidenceInv, WorkInv, LeadsWaiting
<1>6. Ev!DecisionStands
  <2> SUFFICES ASSUME NEW a \in lead_told, a.op = "finish", a.job \in Drilldowns,
                      a.payload.decision \notin Ev!Continuations
               PROVE  /\ leads[lead_jobs[a.job].lead].status = "closed"
                      /\ leads[lead_jobs[a.job].lead].disposition = a.payload.decision
                      /\ a.payload.decision = "promoted" =>
                           lead_findings[a.answer.finding].origin = lead_jobs[a.job].lead
    BY DEF Ev!DecisionStands
  <2>1. PICK r \in lead_receipts : a = ReplyOfReceipt(r)
    BY DEF EvidenceInv, ToldTrue, Recorded, ReplyOf
  <2>2. a.job = r.job /\ a.payload = r.payload /\ a.answer = r.answer
    BY <2>1 DEF ReplyOfReceipt
  <2> QED
    BY <2>2 DEF EvidenceInv, SealedStands, Stands
<1> QED
  BY <1>1, <1>2, <1>3, <1>4, <1>5, <1>6 DEF EvidenceHolds

(***************************************************************************)
(* The steps                                                                *)
(***************************************************************************)
LEMMA EvidenceInitial == Ev!ConstantsOK /\ Ev!Init => EvidenceInv
<1> SUFFICES ASSUME Ev!ConstantsOK, Ev!Init
             PROVE  EvidenceInv
  OBVIOUS
<1>1. WorkInv /\ Referring
  BY DEF Ev!ConstantsOK, Ev!Init, WorkInv, EvidenceTyped, Drilled, LeadsWaiting, Referring,
       WorkRow, Ev!PhaseJobs
<1>2. Recorded /\ SealedOnce /\ SealedStands /\ ToldTrue
  BY DEF Ev!Init, Recorded, SealedOnce, SealedStands, ToldTrue
<1>3. Counted
  <2>1. ASSUME NEW j \in Ev!PhaseJobs
        PROVE  /\ Asked(checkpoints, j) = {} /\ KeysOf(checkpoints, j) = {}
               /\ LeadsBy(leads, j) = {} /\ SeenBy(observations, j) = {}
    <3>1. checkpoints = {} /\ Len(leads) = 0 /\ Len(observations) = 0
      BY DEF Ev!Init
    <3>2. Asked(checkpoints, j) = {}
      BY <3>1 DEF Asked
    <3> QED
      BY <3>1, <3>2 DEF KeysOf, LeadsBy, SeenBy
  <2>2. \A j \in Ev!PhaseJobs : Ev!Limit(j) \in Nat
    BY DEF Ev!ConstantsOK, Ev!Limit
  <2>3. IsFiniteSet({}) /\ Cardinality({}) = 0
    BY FS_EmptySet
  <2> QED
    BY <2>1, <2>2, <2>3 DEF Counted
<1> QED
  BY <1>1, <1>2, <1>3 DEF EvidenceInv

\* Steps that change jobs, intents and the status of leads that are not closed, and record nothing.
LEMMA UnrecordedKeeps ==
  ASSUME EvidenceInv, WorkInv', Len(leads') = Len(leads),
         \A l \in 1 .. Len(leads) : leads'[l].identity = leads[l].identity /\ leads'[l].by = leads[l].by,
         \A l \in 1 .. Len(leads) : leads[l].status = "closed" => leads'[l] = leads[l],
         \A j \in Ev!PhaseJobs : lead_jobs[j].state = "succeeded" => lead_jobs'[j] = lead_jobs[j],
         UNCHANGED <<observations, lead_findings, checkpoints, lead_receipts, lead_told>>
  PROVE  EvidenceInv'
<1>1. Referring'
  BY DEF EvidenceInv, Referring
<1>2. Recorded'
  BY DEF EvidenceInv, Recorded
<1>3. SealedOnce'
  BY DEF EvidenceInv, SealedOnce
<1>4. SealedStands'
  <2> SUFFICES ASSUME NEW r \in lead_receipts, r.job \in Drilldowns, r.payload.decision \notin Ev!Continuations
               PROVE  Stands(r)'
    BY DEF SealedStands
  <2>1. Stands(r) /\ lead_jobs'[r.job] = lead_jobs[r.job] /\ lead_jobs[r.job].lead \in 1 .. Len(leads)
    BY DEF EvidenceInv, SealedStands, SealedOnce, WorkInv, Drilled
  <2>2. leads'[lead_jobs[r.job].lead] = leads[lead_jobs[r.job].lead]
    BY <2>1 DEF Stands
  <2> QED
    BY <2>1, <2>2 DEF Stands
<1>5. ToldTrue'
  BY DEF EvidenceInv, ToldTrue
<1>6. Counted'
  <2>1. \A j \in Ev!PhaseJobs : LeadsBy(leads', j) = LeadsBy(leads, j)
    BY DEF LeadsBy
  <2> QED
    BY <2>1 DEF EvidenceInv, Counted
<1> QED
  BY <1>1, <1>2, <1>3, <1>4, <1>5, <1>6 DEF EvidenceInv

\* A job's row that goes on with the lead it has.
LEMMA JobMoves ==
  ASSUME EvidenceInv, NEW j \in Ev!PhaseJobs, lead_jobs[j].state \in {"queued", "leased"},
         NEW row \in WorkRow, row.lead = lead_jobs[j].lead, row.state \in {"queued", "leased"},
         row.state = "queued" => row.attempts < LEAD_ATTEMPTS,
         lead_jobs' = [lead_jobs EXCEPT ![j] = row],
         UNCHANGED <<leads, lead_intents, observations, lead_findings, checkpoints, lead_receipts, lead_told>>
  PROVE  EvidenceInv'
<1>1. /\ lead_jobs' \in [Ev!PhaseJobs -> WorkRow] /\ lead_jobs'[j] = row
      /\ \A k \in Ev!PhaseJobs : k # j => lead_jobs'[k] = lead_jobs[k]
      /\ \A k \in Ev!PhaseJobs : lead_jobs'[k].lead = lead_jobs[k].lead
  BY DEF EvidenceInv, WorkInv, EvidenceTyped
<1>2. \A k \in Ev!PhaseJobs : lead_jobs'[k].state \in {"queued", "leased"} <=> lead_jobs[k].state \in {"queued", "leased"}
  BY <1>1
<1>3. EvidenceTyped'
  BY <1>1 DEF EvidenceInv, WorkInv, EvidenceTyped
<1>4. Drilled'
  BY <1>1, <1>2 DEF EvidenceInv, WorkInv, Drilled, Ev!PhaseJobs
<1>5. LeadsWaiting'
  BY <1>1, <1>2 DEF EvidenceInv, WorkInv, LeadsWaiting, Drilled, Ev!PhaseJobs
<1> QED
  BY <1>1, <1>3, <1>4, <1>5, UnrecordedKeeps DEF WorkInv

\* An attempt starts.
LEMMA ClaimKeeps ==
  ASSUME Ev!ConstantsOK, EvidenceInv, NEW j \in Ev!PhaseJobs, Ev!Claim(j)
  PROVE  EvidenceInv'
<1>1. PICK old, n, row : /\ old = lead_jobs[j] /\ n = old.attempts + 1
                         /\ row = [old EXCEPT !.state = "leased", !.attempts = n]
  OBVIOUS
<1>2. lead_jobs[j] \in WorkRow /\ lead_jobs[j].state = "queued" /\ lead_jobs[j].attempts < LEAD_ATTEMPTS /\ LEAD_ATTEMPTS \in Nat
  <2>1. lead_jobs[j].state = "queued" /\ LEAD_ATTEMPTS \in Nat
    BY DEF Ev!Claim, Ev!ConstantsOK
  <2> QED
    BY <2>1 DEF EvidenceInv, WorkInv, EvidenceTyped
<1>3. row \in WorkRow /\ row.state = "leased" /\ row.lead = lead_jobs[j].lead
  <2>1. n \in 0 .. LEAD_ATTEMPTS
    BY <1>1, <1>2 DEF WorkRow
  <2> QED
    BY <1>1, <1>2, <2>1 DEF WorkRow
<1>4. lead_jobs' = [lead_jobs EXCEPT ![j] = row]
  BY <1>1 DEF Ev!Claim, EvidenceInv, WorkInv, EvidenceTyped
<1> QED
  BY <1>2, <1>3, <1>4, JobMoves DEF Ev!Claim

\* An attempt ends without a receipt.
LEMMA EndAttemptKeeps ==
  ASSUME Ev!ConstantsOK, EvidenceInv, NEW j \in Ev!PhaseJobs, Ev!EndAttempt(j)
  PROVE  EvidenceInv'
<1>1. lead_jobs[j] \in WorkRow /\ lead_jobs[j].state = "leased" /\ LEAD_ATTEMPTS \in Nat
  BY DEF EvidenceInv, WorkInv, EvidenceTyped, Ev!EndAttempt, Ev!Leased, Ev!ConstantsOK
<1>2. CASE lead_jobs[j].attempts < LEAD_ATTEMPTS
  <2>1. PICK row : row = [lead_jobs[j] EXCEPT !.state = "queued"]
    OBVIOUS
  <2>2. row \in WorkRow /\ row.state = "queued" /\ row.lead = lead_jobs[j].lead /\ row.attempts = lead_jobs[j].attempts
    BY <1>1, <2>1 DEF WorkRow
  <2>3. lead_jobs' = [lead_jobs EXCEPT ![j] = row]
    BY <1>2, <2>1 DEF Ev!EndAttempt, EvidenceInv, WorkInv, EvidenceTyped
  <2> QED
    BY <1>1, <1>2, <2>2, <2>3, JobMoves DEF Ev!EndAttempt
<1>3. CASE ~ (lead_jobs[j].attempts < LEAD_ATTEMPTS)
  <2>1. PICK row : row = [lead_jobs[j] EXCEPT !.state = "failed"]
    OBVIOUS
  <2>2. row \in WorkRow /\ row.state = "failed" /\ row.lead = lead_jobs[j].lead
    BY <1>1, <2>1 DEF WorkRow
  <2>3. /\ lead_jobs' = [lead_jobs EXCEPT ![j] = row] /\ lead_intents' = Ev!BlockJobWork(j)
        /\ UNCHANGED <<leads, observations, lead_findings, checkpoints, lead_receipts, lead_told>>
    BY <1>3, <2>1 DEF Ev!EndAttempt, EvidenceInv, WorkInv, EvidenceTyped
  <2>4. /\ lead_jobs' \in [Ev!PhaseJobs -> WorkRow] /\ lead_jobs'[j] = row
        /\ \A k \in Ev!PhaseJobs : k # j => lead_jobs'[k] = lead_jobs[k]
    BY <2>2, <2>3 DEF EvidenceInv, WorkInv, EvidenceTyped
  <2>5. /\ lead_intents' \in [1 .. Len(leads) -> WaitRow] /\ Len(leads) \in Nat
        /\ \A l \in 1 .. Len(leads) :
             /\ lead_intents'[l].job = lead_intents[l].job
             /\ IF lead_intents[l].state = "admitted" /\ lead_intents[l].job = j
                THEN lead_intents'[l].state = "blocked" ELSE lead_intents'[l] = lead_intents[l]
    <3>1. ASSUME NEW l \in 1 .. Len(leads)
          PROVE  /\ [lead_intents[l] EXCEPT !.state = "blocked"] \in WaitRow
                 /\ [lead_intents[l] EXCEPT !.state = "blocked"].state = "blocked"
                 /\ [lead_intents[l] EXCEPT !.state = "blocked"].job = lead_intents[l].job
                 /\ lead_intents[l] \in WaitRow
      BY LeadTyped DEF WaitRow
    <3> QED
      BY <2>3, <3>1, Domains DEF Ev!BlockJobWork
  <2>6. lead_intents' \in Seq(WaitRow) /\ Len(lead_intents') = Len(leads)
    BY <2>5
  <2>7. EvidenceTyped'
    BY <2>2, <2>3, <2>4, <2>6 DEF EvidenceInv, WorkInv, EvidenceTyped
  <2>8. Drilled'
    BY <2>2, <2>3, <2>4, <2>5 DEF EvidenceInv, WorkInv, Drilled, Ev!PhaseJobs
  <2>9. LeadsWaiting'
    BY <2>2, <2>3, <2>4, <2>5 DEF EvidenceInv, WorkInv, LeadsWaiting, Drilled, Ev!PhaseJobs
  <2> QED
    BY <1>1, <2>3, <2>4, <2>7, <2>8, <2>9, UnrecordedKeeps DEF WorkInv
<1> QED
  BY <1>2, <1>3

\* A drilldown is made for a lead nobody works on.
LEMMA AdmitKeeps ==
  ASSUME Ev!ConstantsOK, EvidenceInv, NEW j \in Drilldowns, NEW l \in 1 .. Len(leads), Ev!Admit(j, l)
  PROVE  EvidenceInv'
<1>1. PICK row, i, wait, o, lead :
        /\ row = [state |-> "leased", attempts |-> 1, lead |-> l]
        /\ i = lead_intents[l] /\ wait = [i EXCEPT !.state = "admitted", !.job = j]
        /\ o = leads[l] /\ lead = [o EXCEPT !.status = "open"]
  OBVIOUS
<1>2. /\ leads[l] \in LeadRow /\ lead_intents[l] \in WaitRow /\ lead_jobs[j].state = "absent"
      /\ lead_intents[l].state = "pending" /\ j \in Ev!PhaseJobs /\ leads[l].status # "closed"
  BY LeadTyped DEF Ev!Admit, Ev!PendingEligible, Ev!PhaseJobs, EvidenceInv, WorkInv, LeadsWaiting
<1>3. /\ row \in WorkRow /\ row.state = "leased" /\ row.lead = l
      /\ wait \in WaitRow /\ wait.state = "admitted" /\ wait.job = j
      /\ lead \in LeadRow /\ lead.status = "open" /\ lead.identity = leads[l].identity
      /\ lead.by = leads[l].by
  <2>1. row \in WorkRow /\ row.state = "leased" /\ row.lead = l
    BY <1>1, Domains DEF WorkRow, Ev!ConstantsOK
  <2>2. wait \in WaitRow /\ wait.state = "admitted" /\ wait.job = j
    BY <1>1, <1>2 DEF WaitRow
  <2>3. lead \in LeadRow /\ lead.status = "open" /\ lead.identity = o.identity /\ lead.by = o.by
    BY <1>1, <1>2 DEF LeadRow
  <2> QED
    BY <1>1, <2>1, <2>2, <2>3
<1>4. /\ lead_jobs' = [lead_jobs EXCEPT ![j] = row] /\ lead_intents' = [lead_intents EXCEPT ![l] = wait]
      /\ leads' = [leads EXCEPT ![l] = lead]
      /\ UNCHANGED <<observations, lead_findings, checkpoints, lead_receipts, lead_told>>
  BY <1>1, Domains DEF Ev!Admit, EvidenceInv, WorkInv, EvidenceTyped
<1>5. /\ lead_jobs' \in [Ev!PhaseJobs -> WorkRow] /\ lead_jobs'[j] = row
      /\ \A k \in Ev!PhaseJobs : k # j => lead_jobs'[k] = lead_jobs[k]
  BY <1>2, <1>3, <1>4 DEF EvidenceInv, WorkInv, EvidenceTyped
<1>6. /\ leads' \in Seq(LeadRow) /\ Len(leads') = Len(leads)
      /\ \A m \in 1 .. Len(leads) : leads'[m] = IF m = l THEN lead ELSE leads[m]
  BY <1>3, <1>4, ExceptSeq DEF EvidenceInv, WorkInv, EvidenceTyped
<1>7. /\ lead_intents' \in Seq(WaitRow) /\ Len(lead_intents') = Len(leads)
      /\ \A m \in 1 .. Len(leads) : lead_intents'[m] = IF m = l THEN wait ELSE lead_intents[m]
  BY <1>3, <1>4, ExceptSeq DEF EvidenceInv, WorkInv, EvidenceTyped
<1>8. EvidenceTyped'
  <2>1. \A k \in Ev!PhaseJobs :
        /\ lead_jobs'[k].lead \in 0 .. Len(leads')
        /\ lead_jobs'[k].state = "queued" => lead_jobs'[k].attempts < LEAD_ATTEMPTS
    <3>1. \A k \in Ev!PhaseJobs :
          /\ lead_jobs[k].lead \in 0 .. Len(leads)
          /\ lead_jobs[k].state = "queued" => lead_jobs[k].attempts < LEAD_ATTEMPTS
      BY DEF EvidenceInv, WorkInv, EvidenceTyped
    <3>2. l \in 0 .. Len(leads)
      BY Domains
    <3> QED
      BY <1>3, <1>5, <1>6, <3>1, <3>2
  <2> QED
    BY <2>1, <1>5, <1>6, <1>7 DEF EvidenceTyped
<1>9. Drilled'
  <2>1. \A m, k \in 1 .. Len(leads') : leads'[m].identity = leads'[k].identity => m = k
    BY <1>3, <1>6 DEF EvidenceInv, WorkInv, Drilled
  <2>2. ASSUME NEW k \in Drilldowns, k # j
        PROVE  /\ lead_jobs'[k] = lead_jobs[k]
               /\ lead_jobs[k].state \in {"queued", "leased"} => lead_jobs[k].lead # l
    BY <1>2, <1>5, <2>2 DEF Ev!PhaseJobs, EvidenceInv, WorkInv, Drilled
  <2>3. ASSUME NEW k \in Drilldowns
        PROVE  /\ lead_jobs'[k].state \in {"queued", "leased"} =>
                    /\ lead_jobs'[k].lead \in 1 .. Len(leads')
                    /\ lead_intents'[lead_jobs'[k].lead].state = "admitted" /\ lead_intents'[lead_jobs'[k].lead].job = k
               /\ lead_jobs'[k].state = "succeeded" => lead_jobs'[k].lead \in 1 .. Len(leads')
    <3>1. CASE k = j
      BY <1>3, <1>5, <1>6, <1>7, <3>1
    <3>2. CASE k # j
      <4>1. lead_jobs'[k] = lead_jobs[k]
        BY <2>2, <3>2
      <4>2. /\ lead_jobs[k].state \in {"queued", "leased"} =>
                 /\ lead_jobs[k].lead \in 1 .. Len(leads) /\ lead_jobs[k].lead # l
                 /\ lead_intents[lead_jobs[k].lead].state = "admitted" /\ lead_intents[lead_jobs[k].lead].job = k
            /\ lead_jobs[k].state = "succeeded" => lead_jobs[k].lead \in 1 .. Len(leads)
        BY <2>2, <3>2 DEF EvidenceInv, WorkInv, Drilled
      <4> QED
        BY <1>6, <1>7, <4>1, <4>2
    <3> QED
      BY <3>1, <3>2
  <2>4. \A m \in 1 .. Len(leads') : lead_intents'[m].state = "admitted" => lead_intents'[m].job \in Drilldowns
    BY <1>3, <1>6, <1>7 DEF EvidenceInv, WorkInv, Drilled
  <2> QED
    BY <2>1, <2>3, <2>4 DEF Drilled
<1>10. LeadsWaiting'
  <2> SUFFICES ASSUME NEW m \in 1 .. Len(leads)
               PROVE  /\ leads'[m].status = "closed" <=> lead_intents'[m].state = "complete"
                      /\ lead_intents'[m].state = "admitted" =>
                           /\ leads'[m].status = "open"
                           /\ lead_jobs'[lead_intents'[m].job].lead = m
                           /\ lead_jobs'[lead_intents'[m].job].state \in {"queued", "leased"}
    BY <1>6 DEF LeadsWaiting
  <2>1. CASE m = l
    BY <1>3, <1>5, <1>6, <1>7, <2>1
  <2>2. CASE m # l
    <3>1. leads'[m] = leads[m] /\ lead_intents'[m] = lead_intents[m]
      BY <1>6, <1>7, <2>2
    <3>2. lead_intents[m].state = "admitted" =>
            /\ lead_intents[m].job \in Ev!PhaseJobs /\ lead_jobs[lead_intents[m].job].state \in {"queued", "leased"}
      BY DEF EvidenceInv, WorkInv, Drilled, LeadsWaiting, Ev!PhaseJobs
    <3>3. lead_intents[m].state = "admitted" => lead_jobs'[lead_intents[m].job] = lead_jobs[lead_intents[m].job]
      BY <1>2, <1>5, <3>2
    <3> QED
      BY <3>1, <3>3 DEF EvidenceInv, WorkInv, LeadsWaiting
  <2> QED
    BY <2>1, <2>2
<1> QED
  BY <1>2, <1>3, <1>4, <1>5, <1>6, <1>8, <1>9, <1>10, UnrecordedKeeps DEF WorkInv

\* Repetitions add a true answer and nothing else.
LEMMA ReplayKeeps ==
  ASSUME EvidenceInv, NEW a,
         (\E c \in checkpoints : a = ReplyOf(c)) \/ (\E r \in lead_receipts : a = ReplyOfReceipt(r)),
         lead_told' = lead_told \cup {a},
         UNCHANGED <<lead_jobs, leads, observations, lead_intents, lead_findings, checkpoints, lead_receipts>>
  PROVE  EvidenceInv'
<1>1. ToldTrue'
  BY DEF EvidenceInv, ToldTrue
<1>2. WorkInv' /\ Referring' /\ Recorded' /\ SealedOnce' /\ SealedStands' /\ Counted'
  BY DEF EvidenceInv, WorkInv, EvidenceTyped, Drilled, LeadsWaiting, Referring, Recorded,
       SealedOnce,
         SealedStands, Stands, Counted
<1> QED
  BY <1>1, <1>2 DEF EvidenceInv

\* A repeated request is answered from the tables and changes none.
LEMMA ReplaysKeep ==
  ASSUME EvidenceInv, NEW j \in Ev!PhaseJobs
  PROVE  /\ \A op, key, payload : Ev!Replay(j, op, key, payload) => EvidenceInv'
         /\ \A attempt, payload : Ev!ReplayReceipt(j, attempt, payload) => EvidenceInv'
<1>1. ASSUME NEW op, NEW key, NEW payload, Ev!Replay(j, op, key, payload)
      PROVE  EvidenceInv'
  <2>1. PICK c \in checkpoints : /\ c.job = j /\ c.op = op /\ c.key = key /\ c.payload = payload
                                 /\ Ev!Tell(j, op, key, payload, c.answer)
    BY <1>1 DEF Ev!Replay, Ev!Hit, Ev!Stored
  <2>2. lead_told' = lead_told \cup {ReplyOf(c)}
    BY <2>1 DEF Ev!Tell, ReplyOf
  <2> QED
    BY <1>1, <2>2, ReplayKeeps DEF Ev!Replay
<1>2. ASSUME NEW attempt, NEW payload, Ev!ReplayReceipt(j, attempt, payload)
      PROVE  EvidenceInv'
  <2>1. PICK r \in lead_receipts :
        /\ r.job = j /\ r.attempt = attempt /\ r.payload = payload
        /\ Ev!Tell(j, "finish", attempt, payload, r.answer)
    BY <1>2 DEF Ev!ReplayReceipt, Ev!ReplayTerminal
  <2>2. lead_told' = lead_told \cup {ReplyOfReceipt(r)}
    BY <2>1 DEF Ev!Tell, ReplyOfReceipt
  <2> QED
    BY <1>2, <2>2, ReplayKeeps DEF Ev!ReplayReceipt
<1> QED
  BY <1>1, <1>2

\* A request that was not recorded is recorded, and its worker told.
LEMMA RecordsGrow ==
  ASSUME EvidenceInv, NEW j \in Ev!PhaseJobs, NEW op \in {"lead", "candidates"}, NEW key, NEW payload,
         NEW answer, Ev!Miss(j, op, key), Ev!Record(j, op, key, payload, answer),
         Ev!Tell(j, op, key, payload, answer), lead_receipts' = lead_receipts,
         Len(leads') \in Nat, Len(leads') >= Len(leads),
         \A l \in 1 .. Len(leads) : leads'[l].identity = leads[l].identity,
         op = "lead" => /\ answer.lead \in 1 .. Len(leads')
                        /\ leads'[answer.lead].identity = payload.identity
  PROVE  Recorded' /\ ToldTrue'
<1>1. PICK n : n = [job |-> j, op |-> op, key |-> key, payload |-> payload, answer |-> answer,
                    attempt |-> lead_jobs[j].attempts]
  OBVIOUS
<1>2. /\ n.job = j /\ n.op = op /\ n.key = key /\ n.payload = payload /\ n.answer = answer
      /\ checkpoints' = checkpoints \cup {n} /\ lead_told' = lead_told \cup {ReplyOf(n)}
  BY <1>1 DEF Ev!Record, Ev!Tell, ReplyOf
<1>3. \A c \in checkpoints : ~ (c.job = j /\ c.op = op /\ c.key = key)
  BY DEF Ev!Miss, Ev!Stored
<1>4. \A c \in checkpoints : c.op = "lead" => /\ c.answer.lead \in 1 .. Len(leads')
                                              /\ leads'[c.answer.lead].identity = c.payload.identity
  <2>1. \A c \in checkpoints : c.op = "lead" => /\ c.answer.lead \in 1 .. Len(leads)
                                                /\ leads[c.answer.lead].identity = c.payload.identity
    BY DEF EvidenceInv, Recorded
  <2> QED
    BY <2>1, Domains
<1>5. Recorded'
  <2>1. \A c \in checkpoints' :
          /\ c.job \in Ev!PhaseJobs /\ c.op \in {"lead", "candidates"}
          /\ c.op = "lead" => /\ c.answer.lead \in 1 .. Len(leads')
                              /\ leads'[c.answer.lead].identity = c.payload.identity
    BY <1>2, <1>4 DEF EvidenceInv, Recorded
  <2>2. \A c, d \in checkpoints' : c.job = d.job /\ c.op = d.op /\ c.key = d.key => c = d
    BY <1>2, <1>3 DEF EvidenceInv, Recorded
  <2> QED
    BY <2>1, <2>2 DEF Recorded
<1>6. ToldTrue'
  BY <1>2 DEF EvidenceInv, ToldTrue
<1> QED
  BY <1>5, <1>6

\* How many rows a job has are numbers.
LEMMA RowCounts ==
  ASSUME EvidenceInv, NEW j \in Ev!PhaseJobs
  PROVE  /\ IsFiniteSet(LeadsBy(leads, j)) /\ Cardinality(LeadsBy(leads, j)) \in Nat
         /\ IsFiniteSet(SeenBy(observations, j)) /\ Cardinality(SeenBy(observations, j)) \in Nat
<1>1. IsFiniteSet(1 .. Len(leads)) /\ IsFiniteSet(1 .. Len(observations))
  BY Domains, FS_Interval
<1>2. LeadsBy(leads, j) \subseteq 1 .. Len(leads) /\ SeenBy(observations, j) \subseteq 1 .. Len(observations)
  BY DEF LeadsBy, SeenBy
<1> QED
  BY <1>1, <1>2, FS_Subset, FS_CardinalityType

\* A recorded piece of evidence is counted with the row it left.
LEMMA CountsGrow ==
  ASSUME Ev!ConstantsOK, EvidenceInv, NEW j \in Ev!PhaseJobs, NEW key, NEW payload, NEW answer,
         Ev!Miss(j, "lead", key), Ev!AcceptedCount(j, "lead") < Ev!Limit(j),
         Ev!Record(j, "lead", key, payload, answer),
         \A k \in Ev!PhaseJobs :
           Cardinality(LeadsBy(leads', k)) + Cardinality(SeenBy(observations', k))
             = IF k = j THEN Cardinality(LeadsBy(leads, k)) + Cardinality(SeenBy(observations, k)) + 1
               ELSE Cardinality(LeadsBy(leads, k)) + Cardinality(SeenBy(observations, k))
  PROVE  Counted'
<1>1. PICK n : n = [job |-> j, op |-> "lead", key |-> key, payload |-> payload, answer |-> answer,
                    attempt |-> lead_jobs[j].attempts]
  OBVIOUS
<1>2. n.job = j /\ n.op = "lead" /\ n.key = key /\ checkpoints' = checkpoints \cup {n}
  BY <1>1 DEF Ev!Record
<1>3. n \notin Asked(checkpoints, j) /\ key \notin KeysOf(checkpoints, j)
  BY <1>2 DEF Ev!Miss, Ev!Stored, Asked, KeysOf
<1>4. /\ Asked(checkpoints', j) = Asked(checkpoints, j) \cup {n}
      /\ \A k \in Ev!PhaseJobs : k # j => Asked(checkpoints', k) = Asked(checkpoints, k)
  BY <1>2 DEF Asked
<1>5. /\ KeysOf(checkpoints', j) = KeysOf(checkpoints, j) \cup {key}
      /\ \A k \in Ev!PhaseJobs : k # j => KeysOf(checkpoints', k) = KeysOf(checkpoints, k)
  BY <1>2, <1>4 DEF KeysOf
<1>6. /\ IsFiniteSet(Asked(checkpoints, j)) /\ IsFiniteSet(KeysOf(checkpoints, j))
      /\ Cardinality(Asked(checkpoints, j)) = Cardinality(KeysOf(checkpoints, j))
      /\ Cardinality(KeysOf(checkpoints, j))
           = Cardinality(LeadsBy(leads, j)) + Cardinality(SeenBy(observations, j))
  BY DEF EvidenceInv, Counted
<1>7. /\ IsFiniteSet(Asked(checkpoints', j)) /\ IsFiniteSet(KeysOf(checkpoints', j))
      /\ Cardinality(Asked(checkpoints', j)) = Cardinality(Asked(checkpoints, j)) + 1
      /\ Cardinality(KeysOf(checkpoints', j)) = Cardinality(KeysOf(checkpoints, j)) + 1
  BY <1>3, <1>4, <1>5, <1>6, FS_AddElement
<1>8. Cardinality(KeysOf(checkpoints, j)) < Ev!Limit(j) /\ Cardinality(KeysOf(checkpoints, j)) \in Nat
      /\ Ev!Limit(j) \in Nat
  BY SameEvCount, <1>6, FS_CardinalityType DEF Ev!AcceptedCount, Asked, Ev!Limit, Ev!ConstantsOK
<1> QED
  <2> SUFFICES ASSUME NEW k \in Ev!PhaseJobs
               PROVE  /\ IsFiniteSet(Asked(checkpoints', k)) /\ IsFiniteSet(KeysOf(checkpoints', k))
                      /\ Cardinality(Asked(checkpoints', k)) = Cardinality(KeysOf(checkpoints', k))
                      /\ Cardinality(KeysOf(checkpoints', k))
                           = Cardinality(LeadsBy(leads', k)) + Cardinality(SeenBy(observations', k))
                      /\ Cardinality(KeysOf(checkpoints', k)) <= Ev!Limit(k)
    BY DEF Counted, Ev!Limit
  <2>1. CASE k = j
    BY <1>6, <1>7, <1>8, <2>1
  <2>2. CASE k # j
    BY <1>4, <1>5, <2>2 DEF EvidenceInv, Counted
  <2> QED
    BY <2>1, <2>2

\* Where a step leaves leads, jobs and findings as they are, so do the receipts.
LEMMA SealsStay ==
  ASSUME EvidenceInv, Len(leads') \in Nat, Len(leads') >= Len(leads),
         \A l \in 1 .. Len(leads) : leads'[l] = leads[l],
         UNCHANGED <<lead_jobs, lead_findings, lead_receipts>>
  PROVE  SealedOnce' /\ SealedStands'
<1>1. SealedOnce'
  BY DEF EvidenceInv, SealedOnce
<1>2. ASSUME NEW r \in lead_receipts, r.job \in Drilldowns, r.payload.decision \notin Ev!Continuations
      PROVE  Stands(r)'
  <2>1. Stands(r) /\ lead_jobs[r.job].lead \in 1 .. Len(leads)
    BY <1>2 DEF EvidenceInv, SealedStands, SealedOnce, WorkInv, Drilled
  <2>2. leads'[lead_jobs[r.job].lead] = leads[lead_jobs[r.job].lead]
    BY <2>1
  <2> QED
    BY <2>1, <2>2 DEF Stands
<1> QED
  BY <1>1, <1>2 DEF SealedStands

\* Evidence of an identity nobody reported before makes a lead.
LEMMA CreateKeeps ==
  ASSUME Ev!ConstantsOK, EvidenceInv, NEW j \in Ev!PhaseJobs, NEW key, NEW payload \in Ev!Payloads,
         Ev!Miss(j, "lead", key), Ev!AcceptedCount(j, "lead") < Ev!Limit(j),
         Ev!CreateLead(j, key, payload, "lead"), UNCHANGED <<lead_jobs, lead_findings, lead_receipts>>
  PROVE  EvidenceInv'
<1>1. PICK id, lead, answer :
        /\ id = Len(leads) + 1 /\ lead = Ev!NewLead(j, payload.identity)
        /\ answer = [lead |-> id, outcome |-> "created", observation |-> 0]
  OBVIOUS
<1>2. /\ \A l \in 1 .. Len(leads) : leads[l].identity # payload.identity
      /\ leads' = Append(leads, lead) /\ lead_intents' = Append(lead_intents, Ev!InitialIntent)
      /\ Ev!Record(j, "lead", key, payload, answer) /\ Ev!Tell(j, "lead", key, payload, answer)
      /\ observations' = observations
  BY <1>1, Domains DEF Ev!CreateLead, Ev!Known
<1>3. /\ lead \in LeadRow /\ lead.identity = payload.identity /\ lead.by = j /\ lead.status = "open"
      /\ Ev!InitialIntent \in WaitRow /\ Ev!InitialIntent.state = "pending"
  BY <1>1 DEF Ev!NewLead, Ev!InitialIntent, LeadRow, WaitRow, Ev!Payloads, Ev!ConstantsOK
<1>4. /\ leads' \in Seq(LeadRow) /\ Len(leads') = Len(leads) + 1 /\ leads'[id] = lead
      /\ \A l \in 1 .. Len(leads) : leads'[l] = leads[l]
  BY <1>1, <1>2, <1>3, AppendProperties DEF EvidenceInv, WorkInv, EvidenceTyped
<1>5. /\ lead_intents' \in Seq(WaitRow) /\ Len(lead_intents') = Len(leads) + 1 /\ lead_intents'[id] = Ev!InitialIntent
      /\ \A l \in 1 .. Len(leads) : lead_intents'[l] = lead_intents[l]
  BY <1>1, <1>2, <1>3, AppendProperties DEF EvidenceInv, WorkInv, EvidenceTyped
<1>6. /\ Len(leads) \in Nat /\ id \in 1 .. Len(leads')
      /\ \A l \in 1 .. Len(leads') : l = id \/ l \in 1 .. Len(leads)
      /\ \A l \in 1 .. Len(leads) : l \in 1 .. Len(leads') /\ l # id
      /\ \A l \in 0 .. Len(leads) : l \in 0 .. Len(leads')
  BY <1>1, <1>4, Domains
<1>7. EvidenceTyped'
  <2>1. \A k \in Ev!PhaseJobs :
        /\ lead_jobs[k].lead \in 0 .. Len(leads')
        /\ lead_jobs[k].state = "queued" => lead_jobs[k].attempts < LEAD_ATTEMPTS
    BY <1>6 DEF EvidenceInv, WorkInv, EvidenceTyped
  <2>2. lead_jobs' = lead_jobs /\ lead_jobs \in [Ev!PhaseJobs -> WorkRow]
    BY DEF EvidenceInv, WorkInv, EvidenceTyped
  <2>3. Len(lead_intents') = Len(leads')
    BY <1>4, <1>5
  <2> QED
    BY <1>4, <1>5, <2>1, <2>2, <2>3 DEF EvidenceTyped
<1>8. Drilled'
  <2>1. \A l, m \in 1 .. Len(leads') : leads'[l].identity = leads'[m].identity => l = m
    BY <1>2, <1>3, <1>4, <1>6 DEF EvidenceInv, WorkInv, Drilled
  <2>2. \A l \in 1 .. Len(leads') : lead_intents'[l].state = "admitted" => lead_intents'[l].job \in Drilldowns
    BY <1>3, <1>5, <1>6 DEF EvidenceInv, WorkInv, Drilled
  <2> QED
    BY <1>5, <1>6, <2>1, <2>2 DEF EvidenceInv, WorkInv, Drilled
<1>9. LeadsWaiting'
  <2> SUFFICES ASSUME NEW l \in 1 .. Len(leads')
               PROVE  /\ leads'[l].status = "closed" <=> lead_intents'[l].state = "complete"
                      /\ lead_intents'[l].state = "admitted" =>
                           /\ leads'[l].status = "open"
                           /\ lead_jobs[lead_intents'[l].job].lead = l
                           /\ lead_jobs[lead_intents'[l].job].state \in {"queued", "leased"}
    BY DEF LeadsWaiting
  <2>1. CASE l = id
    BY <1>3, <1>4, <1>5, <2>1
  <2>2. CASE l \in 1 .. Len(leads)
    BY <1>4, <1>5, <2>2 DEF EvidenceInv, WorkInv, LeadsWaiting
  <2> QED
    BY <1>6, <2>1, <2>2
<1>10. Referring'
  BY <1>2, <1>6 DEF EvidenceInv, Referring
<1>11. Recorded' /\ ToldTrue'
  <2>1. answer.lead = id
    BY <1>1
  <2>2. Len(leads') \in Nat /\ Len(leads') >= Len(leads)
    BY <1>4, <1>6
  <2> QED
    BY <1>2, <1>3, <1>4, <1>6, <2>1, <2>2, RecordsGrow
<1>12. SealedOnce' /\ SealedStands'
  BY <1>4, <1>6, SealsStay
<1>13. Counted'
  <2>1. /\ LeadsBy(leads', j) = LeadsBy(leads, j) \cup {id} /\ id \notin LeadsBy(leads, j)
        /\ \A k \in Ev!PhaseJobs : k # j => LeadsBy(leads', k) = LeadsBy(leads, k)
    BY <1>3, <1>4, <1>6 DEF LeadsBy
  <2>2. Cardinality(LeadsBy(leads', j)) = Cardinality(LeadsBy(leads, j)) + 1
    BY <2>1, RowCounts, FS_AddElement
  <2>3. \A k \in Ev!PhaseJobs :
          Cardinality(LeadsBy(leads', k)) + Cardinality(SeenBy(observations', k))
             = IF k = j THEN Cardinality(LeadsBy(leads, k)) + Cardinality(SeenBy(observations, k)) + 1
               ELSE Cardinality(LeadsBy(leads, k)) + Cardinality(SeenBy(observations, k))
    <3> SUFFICES ASSUME NEW k \in Ev!PhaseJobs
                 PROVE  Cardinality(LeadsBy(leads', k)) + Cardinality(SeenBy(observations', k))
                          = IF k = j
                            THEN Cardinality(LeadsBy(leads, k)) + Cardinality(SeenBy(observations, k)) + 1
                            ELSE Cardinality(LeadsBy(leads, k)) + Cardinality(SeenBy(observations, k))
      OBVIOUS
    <3>1. SeenBy(observations', k) = SeenBy(observations, k)
      BY <1>2
    <3>2. Cardinality(LeadsBy(leads, k)) \in Nat /\ Cardinality(SeenBy(observations, k)) \in Nat
      BY RowCounts
    <3> QED
      BY <2>1, <2>2, <3>1, <3>2
  <2> QED
    BY <1>2, <2>3, CountsGrow
<1> QED
  BY <1>7, <1>8, <1>9, <1>10, <1>11, <1>12, <1>13 DEF EvidenceInv, WorkInv

\* Evidence for a lead that exists is kept beside it.
LEMMA AttachKeeps ==
  ASSUME Ev!ConstantsOK, EvidenceInv, NEW j \in Ev!PhaseJobs, NEW key, NEW payload \in Ev!Payloads,
         Ev!Miss(j, "lead", key), Ev!AcceptedCount(j, "lead") < Ev!Limit(j),
         Ev!AttachEvidence(j, key, payload, "lead"), UNCHANGED <<lead_jobs, lead_findings, lead_receipts>>
  PROVE  EvidenceInv'
<1>1. PICK l, answer, row :
        /\ l \in 1 .. Len(leads) /\ leads[l].identity = payload.identity /\ answer.lead = l
        /\ row = [lead |-> l, job |-> j] /\ observations' = Append(observations, row)
        /\ Ev!Record(j, "lead", key, payload, answer) /\ Ev!Tell(j, "lead", key, payload, answer)
        /\ UNCHANGED <<leads, lead_intents>>
  <2>1. PICK l \in Ev!Known(payload.identity) :
          LET answer == [lead |-> l,
                         outcome |-> IF leads[l].status = "closed" THEN "closed_exists" ELSE "attached",
                         observation |-> Len(observations) + 1]
          IN  /\ observations' = Append(observations, [lead |-> l, job |-> j])
              /\ Ev!Record(j, "lead", key, payload, answer) /\ Ev!Tell(j, "lead", key, payload, answer)
              /\ UNCHANGED <<leads, lead_intents>>
    BY DEF Ev!AttachEvidence
  <2>2. l \in 1 .. Len(leads) /\ leads[l].identity = payload.identity
    BY Domains DEF Ev!Known
  <2>3. PICK answer :
          answer = [lead |-> l,
                    outcome |-> IF leads[l].status = "closed" THEN "closed_exists" ELSE "attached",
                    observation |-> Len(observations) + 1]
    OBVIOUS
  <2>4. answer.lead = l
    BY <2>3
  <2> QED
    BY <2>1, <2>2, <2>3, <2>4
<1>2. PICK id : id = Len(observations) + 1
  OBVIOUS
<1>3. row \in SeenRow /\ row.lead = l /\ row.job = j
  BY <1>1, Domains DEF SeenRow
<1>4. /\ observations' \in Seq(SeenRow) /\ Len(observations') = Len(observations) + 1
      /\ observations'[id] = row
      /\ \A o \in 1 .. Len(observations) : observations'[o] = observations[o]
  BY <1>1, <1>2, <1>3, AppendProperties DEF EvidenceInv, Referring
<1>5. /\ Len(observations) \in Nat /\ id \in 1 .. Len(observations')
      /\ \A o \in 1 .. Len(observations') : o = id \/ o \in 1 .. Len(observations)
      /\ \A o \in 1 .. Len(observations) : o \in 1 .. Len(observations') /\ o # id
  BY <1>2, <1>4, Domains
<1>6. WorkInv'
  BY <1>1 DEF EvidenceInv, WorkInv, EvidenceTyped, Drilled, LeadsWaiting
<1>7. Referring'
  BY <1>1, <1>3, <1>4, <1>5 DEF EvidenceInv, Referring
<1>8. Len(leads') \in Nat /\ Len(leads') >= Len(leads) /\ leads' = leads
  BY <1>1, Domains
<1>9. Recorded' /\ ToldTrue'
  BY <1>1, <1>8, RecordsGrow
<1>10. SealedOnce' /\ SealedStands'
  BY <1>8, SealsStay
<1>11. Counted'
  <2>1. /\ SeenBy(observations', j) = SeenBy(observations, j) \cup {id} /\ id \notin SeenBy(observations, j)
        /\ \A k \in Ev!PhaseJobs : k # j => SeenBy(observations', k) = SeenBy(observations, k)
    BY <1>3, <1>4, <1>5 DEF SeenBy
  <2>2. Cardinality(SeenBy(observations', j)) = Cardinality(SeenBy(observations, j)) + 1
    BY <2>1, RowCounts, FS_AddElement
  <2>3. \A k \in Ev!PhaseJobs :
          Cardinality(LeadsBy(leads', k)) + Cardinality(SeenBy(observations', k))
             = IF k = j THEN Cardinality(LeadsBy(leads, k)) + Cardinality(SeenBy(observations, k)) + 1
               ELSE Cardinality(LeadsBy(leads, k)) + Cardinality(SeenBy(observations, k))
    <3> SUFFICES ASSUME NEW k \in Ev!PhaseJobs
                 PROVE  Cardinality(LeadsBy(leads', k)) + Cardinality(SeenBy(observations', k))
                          = IF k = j
                            THEN Cardinality(LeadsBy(leads, k)) + Cardinality(SeenBy(observations, k)) + 1
                            ELSE Cardinality(LeadsBy(leads, k)) + Cardinality(SeenBy(observations, k))
      OBVIOUS
    <3>1. LeadsBy(leads', k) = LeadsBy(leads, k)
      BY <1>8
    <3>2. Cardinality(LeadsBy(leads, k)) \in Nat /\ Cardinality(SeenBy(observations, k)) \in Nat
      BY RowCounts
    <3>3. CASE k = j
      BY <2>2, <3>1, <3>2, <3>3
    <3>4. CASE k # j
      BY <2>1, <3>1, <3>4
    <3> QED
      BY <3>3, <3>4
  <2> QED
    BY <1>1, <2>3, CountsGrow
<1> QED
  BY <1>6, <1>7, <1>9, <1>10, <1>11 DEF EvidenceInv

\* A lead is submitted: repeated, new, or attached to the one there is.
LEMMA SubmitKeeps ==
  ASSUME Ev!ConstantsOK, EvidenceInv, NEW j \in Ev!PhaseJobs, NEW key \in Keys, NEW payload \in Ev!Payloads,
         Ev!SubmitLead(j, key, payload)
  PROVE  EvidenceInv'
BY ReplaysKeep, CreateKeeps, AttachKeeps DEF Ev!SubmitLead

\* An answered query.
LEMMA CandidatesKeep ==
  ASSUME Ev!ConstantsOK, EvidenceInv, NEW j \in Ev!PhaseJobs, NEW query \in Identities, Ev!IssueCandidates(j, query)
  PROVE  EvidenceInv'
<1>1. CASE Ev!Replay(j, "candidates", query, query)
  BY <1>1, ReplaysKeep
<1>2. CASE ~ Ev!Replay(j, "candidates", query, query)
  <2>1. PICK answer :
          /\ Ev!Miss(j, "candidates", query) /\ Ev!Record(j, "candidates", query, query, answer)
          /\ Ev!Tell(j, "candidates", query, query, answer)
          /\ UNCHANGED <<lead_jobs, leads, observations, lead_intents, lead_findings, lead_receipts>>
    <3>1. PICK answer : answer = [leads |-> Ev!Known(query),
                                  findings |-> {f \in DOMAIN lead_findings : lead_findings[f].identity = query}]
      OBVIOUS
    <3>2. /\ Ev!Miss(j, "candidates", query) /\ Ev!Record(j, "candidates", query, query, answer)
          /\ Ev!Tell(j, "candidates", query, query, answer)
          /\ UNCHANGED <<lead_jobs, leads, observations, lead_intents, lead_findings, lead_receipts>>
      BY <1>2, <3>1, Zenon DEF Ev!IssueCandidates
    <3> QED
      BY <3>2
  <2>2. Len(leads') \in Nat /\ Len(leads') >= Len(leads) /\ leads' = leads
    BY <2>1, Domains
  <2>3. WorkInv' /\ Referring'
    BY <2>1 DEF EvidenceInv, WorkInv, EvidenceTyped, Drilled, LeadsWaiting, Referring
  <2>4. Recorded' /\ ToldTrue'
    BY <2>1, <2>2, RecordsGrow
  <2>5. SealedOnce' /\ SealedStands'
    BY <2>1, <2>2, SealsStay
  <2>6. Counted'
    <3>1. \A k \in Ev!PhaseJobs : Asked(checkpoints', k) = Asked(checkpoints, k)
      BY <2>1 DEF Ev!Record, Asked
    <3>2. \A k \in Ev!PhaseJobs : KeysOf(checkpoints', k) = KeysOf(checkpoints, k)
      BY <3>1 DEF KeysOf
    <3> QED
      BY <2>1, <3>1, <3>2 DEF EvidenceInv, Counted, Ev!Limit
  <2> QED
    BY <2>3, <2>4, <2>5, <2>6 DEF EvidenceInv
<1> QED
  BY <1>1, <1>2

(***************************************************************************)
(* Receipts                                                                 *)
(***************************************************************************)
\* A receipt is the job's first and last.
LEMMA SealGrows ==
  ASSUME EvidenceInv, NEW j \in Ev!PhaseJobs, lead_jobs[j].state = "leased", NEW payload, NEW answer,
         Ev!Seal(j, payload, answer)
  PROVE  /\ SealedOnce' /\ ToldTrue'
         /\ lead_receipts' = lead_receipts \cup {Ev!Receipt(j, payload, answer)}
         /\ \A r \in lead_receipts : r.job # j /\ lead_jobs'[r.job] = lead_jobs[r.job]
         /\ lead_jobs' \in [Ev!PhaseJobs -> WorkRow] /\ lead_jobs'[j].state = "succeeded"
         /\ lead_jobs'[j].lead = lead_jobs[j].lead
         /\ \A k \in Ev!PhaseJobs : k # j => lead_jobs'[k] = lead_jobs[k]
<1>1. PICK n : n = Ev!Receipt(j, payload, answer)
  OBVIOUS
<1>2. /\ n.job = j /\ lead_receipts' = lead_receipts \cup {n} /\ lead_told' = lead_told \cup {ReplyOfReceipt(n)}
      /\ checkpoints' = checkpoints
  BY <1>1 DEF Ev!Seal, Ev!Receipt, Ev!Tell, ReplyOfReceipt
<1>3. PICK o, row : o = lead_jobs[j] /\ row = [o EXCEPT !.state = "succeeded"]
  OBVIOUS
<1>4. o \in WorkRow /\ row \in WorkRow /\ row.state = "succeeded" /\ row.lead = o.lead
  BY <1>3 DEF EvidenceInv, WorkInv, EvidenceTyped, WorkRow
<1>5. /\ lead_jobs' \in [Ev!PhaseJobs -> WorkRow] /\ lead_jobs'[j] = row
      /\ \A k \in Ev!PhaseJobs : k # j => lead_jobs'[k] = lead_jobs[k]
  BY <1>3, <1>4 DEF Ev!Seal, EvidenceInv, WorkInv, EvidenceTyped
<1>6. \A r \in lead_receipts : r.job \in Ev!PhaseJobs /\ r.job # j /\ lead_jobs'[r.job] = lead_jobs[r.job]
  BY <1>5 DEF EvidenceInv, SealedOnce
<1>7. SealedOnce'
  BY <1>2, <1>4, <1>5, <1>6 DEF EvidenceInv, SealedOnce
<1>8. ToldTrue'
  BY <1>2 DEF EvidenceInv, ToldTrue
<1> QED
  BY <1>1, <1>2, <1>3, <1>4, <1>5, <1>6, <1>7, <1>8

\* A survey ends.
LEMMA SurveyEnds ==
  ASSUME Ev!ConstantsOK, EvidenceInv, NEW j \in Surveys, Ev!FinalizeSurvey(j)
  PROVE  EvidenceInv'
<1>1. PICK payload, answer : Ev!Seal(j, payload, answer)
  BY DEF Ev!FinalizeSurvey
<1>2. /\ j \in Ev!PhaseJobs /\ j \notin Drilldowns /\ lead_jobs[j].state = "leased"
      /\ UNCHANGED <<leads, lead_intents, lead_findings, observations, checkpoints>>
  BY DEF Ev!FinalizeSurvey, Ev!Seal, Ev!Leased, Ev!PhaseJobs, Ev!ConstantsOK
<1>3. /\ SealedOnce' /\ ToldTrue' /\ lead_receipts' = lead_receipts \cup {Ev!Receipt(j, payload, answer)}
      /\ \A r \in lead_receipts : r.job # j /\ lead_jobs'[r.job] = lead_jobs[r.job]
      /\ lead_jobs' \in [Ev!PhaseJobs -> WorkRow] /\ lead_jobs'[j].state = "succeeded"
      /\ lead_jobs'[j].lead = lead_jobs[j].lead
      /\ \A k \in Ev!PhaseJobs : k # j => lead_jobs'[k] = lead_jobs[k]
  BY <1>1, <1>2, SealGrows
<1>4. EvidenceTyped'
  BY <1>2, <1>3 DEF EvidenceInv, WorkInv, EvidenceTyped
<1>5. Drilled' /\ LeadsWaiting'
  BY <1>2, <1>3 DEF EvidenceInv, WorkInv, Drilled, LeadsWaiting, Ev!PhaseJobs
<1>6. Referring' /\ Recorded' /\ Counted'
  BY <1>2 DEF EvidenceInv, Referring, Recorded, Counted
<1>7. SealedStands'
  <2>1. Ev!Receipt(j, payload, answer).job = j
    BY DEF Ev!Receipt
  <2> QED
    BY <1>2, <1>3, <2>1 DEF EvidenceInv, SealedStands, Stands
<1> QED
  BY <1>3, <1>4, <1>5, <1>6, <1>7 DEF EvidenceInv, WorkInv

\* What a drilldown's receipt does to its lead and the intent, which it leaves closed or
\* deferred, and to the findings.
LeadDecided(j, payload, answer, l, lead, wait) ==
  /\ Ev!Deciding(j) /\ Ev!Seal(j, payload, answer) /\ l = lead_jobs[j].lead
  /\ lead \in LeadRow /\ lead.identity = leads[l].identity /\ lead.by = leads[l].by
  /\ wait \in WaitRow /\ wait.state # "admitted" /\ (lead.status = "closed" <=> wait.state = "complete")
  /\ leads' = [leads EXCEPT ![l] = lead] /\ lead_intents' = [lead_intents EXCEPT ![l] = wait]
  /\ payload.decision \notin Ev!Continuations =>
       lead.status = "closed" /\ lead.disposition = payload.decision
  /\ payload.decision = "promoted" =>
       answer.finding \in 1 .. Len(lead_findings') /\ lead_findings'[answer.finding].origin = l

FindingsGrow ==
  /\ lead_findings' \in Seq(FoundRow) /\ Len(lead_findings') >= Len(lead_findings)
  /\ \A f \in 1 .. Len(lead_findings) : lead_findings'[f] = lead_findings[f]
  /\ \A f \in 1 .. Len(lead_findings') : lead_findings'[f].origin \in 1 .. Len(leads)

\* A drilldown ends.
LEMMA DecisionKeeps ==
  ASSUME Ev!ConstantsOK, EvidenceInv, NEW j \in Drilldowns, NEW payload, NEW answer, NEW l, NEW lead, NEW wait,
         LeadDecided(j, payload, answer, l, lead, wait), FindingsGrow
  PROVE  EvidenceInv'
<1> USE DEF LeadDecided, FindingsGrow
<1>1. /\ j \in Ev!PhaseJobs /\ lead_jobs[j].state = "leased" /\ l \in 1 .. Len(leads)
      /\ leads[l].status = "open" /\ lead_intents[l].state = "admitted" /\ lead_intents[l].job = j
      /\ UNCHANGED <<observations, checkpoints>>
  BY DEF Ev!Deciding, Ev!Leased, Ev!PhaseJobs, EvidenceInv, WorkInv, Drilled, Ev!Seal
<1>2. /\ SealedOnce' /\ ToldTrue' /\ lead_receipts' = lead_receipts \cup {Ev!Receipt(j, payload, answer)}
      /\ \A r \in lead_receipts : r.job # j /\ lead_jobs'[r.job] = lead_jobs[r.job]
      /\ lead_jobs' \in [Ev!PhaseJobs -> WorkRow] /\ lead_jobs'[j].state = "succeeded"
      /\ lead_jobs'[j].lead = l
      /\ \A k \in Ev!PhaseJobs : k # j => lead_jobs'[k] = lead_jobs[k]
  BY <1>1, SealGrows
<1>3. /\ leads' \in Seq(LeadRow) /\ Len(leads') = Len(leads)
      /\ \A m \in 1 .. Len(leads) : leads'[m] = IF m = l THEN lead ELSE leads[m]
  BY <1>1, ExceptSeq DEF EvidenceInv, WorkInv, EvidenceTyped
<1>4. /\ lead_intents' \in Seq(WaitRow) /\ Len(lead_intents') = Len(leads)
      /\ \A m \in 1 .. Len(leads) : lead_intents'[m] = IF m = l THEN wait ELSE lead_intents[m]
  BY <1>1, ExceptSeq DEF EvidenceInv, WorkInv, EvidenceTyped
<1>5. EvidenceTyped'
  BY <1>2, <1>3, <1>4 DEF EvidenceInv, WorkInv, EvidenceTyped
<1>6. Drilled'
  <2>1. \A m, k \in 1 .. Len(leads') : leads'[m].identity = leads'[k].identity => m = k
    BY <1>3 DEF EvidenceInv, WorkInv, Drilled
  <2>2. ASSUME NEW k \in Drilldowns
        PROVE  /\ lead_jobs'[k].state \in {"queued", "leased"} =>
                    /\ lead_jobs'[k].lead \in 1 .. Len(leads')
                    /\ lead_intents'[lead_jobs'[k].lead].state = "admitted" /\ lead_intents'[lead_jobs'[k].lead].job = k
               /\ lead_jobs'[k].state = "succeeded" => lead_jobs'[k].lead \in 1 .. Len(leads')
    <3>1. CASE k = j
      BY <1>1, <1>2, <1>3, <3>1
    <3>2. CASE k # j
      <4>1. lead_jobs'[k] = lead_jobs[k]
        BY <1>2, <3>2 DEF Ev!PhaseJobs
      <4>2. /\ lead_jobs[k].state \in {"queued", "leased"} =>
                 /\ lead_jobs[k].lead \in 1 .. Len(leads) /\ lead_jobs[k].lead # l
                 /\ lead_intents[lead_jobs[k].lead].state = "admitted" /\ lead_intents[lead_jobs[k].lead].job = k
            /\ lead_jobs[k].state = "succeeded" => lead_jobs[k].lead \in 1 .. Len(leads)
        BY <1>1, <3>2 DEF EvidenceInv, WorkInv, Drilled
      <4> QED
        BY <1>3, <1>4, <4>1, <4>2
    <3> QED
      BY <3>1, <3>2
  <2>3. \A m \in 1 .. Len(leads') : lead_intents'[m].state = "admitted" => lead_intents'[m].job \in Drilldowns
    BY <1>3, <1>4 DEF EvidenceInv, WorkInv, Drilled
  <2> QED
    BY <2>1, <2>2, <2>3 DEF Drilled
<1>7. LeadsWaiting'
  <2> SUFFICES ASSUME NEW m \in 1 .. Len(leads)
               PROVE  /\ leads'[m].status = "closed" <=> lead_intents'[m].state = "complete"
                      /\ lead_intents'[m].state = "admitted" =>
                           /\ leads'[m].status = "open"
                           /\ lead_jobs'[lead_intents'[m].job].lead = m
                           /\ lead_jobs'[lead_intents'[m].job].state \in {"queued", "leased"}
    BY <1>3 DEF LeadsWaiting
  <2>1. CASE m = l
    BY <1>3, <1>4, <2>1
  <2>2. CASE m # l
    <3>1. leads'[m] = leads[m] /\ lead_intents'[m] = lead_intents[m]
      BY <1>3, <1>4, <2>2
    <3>2. lead_intents[m].state = "admitted" =>
            /\ lead_intents[m].job \in Ev!PhaseJobs /\ lead_jobs[lead_intents[m].job].lead = m /\ lead_intents[m].job # j
      BY <2>2 DEF EvidenceInv, WorkInv, Drilled, LeadsWaiting, Ev!PhaseJobs
    <3>3. lead_intents[m].state = "admitted" => lead_jobs'[lead_intents[m].job] = lead_jobs[lead_intents[m].job]
      BY <1>2, <3>2
    <3> QED
      BY <3>1, <3>3 DEF EvidenceInv, WorkInv, LeadsWaiting
  <2> QED
    BY <2>1, <2>2
<1>8. Referring'
  BY <1>1, <1>3 DEF EvidenceInv, Referring
<1>9. Recorded'
  <2>1. \A m \in 1 .. Len(leads) : leads'[m].identity = leads[m].identity
    BY <1>3
  <2> QED
    BY <1>1, <1>3, <2>1 DEF EvidenceInv, Recorded
<1>10. SealedStands'
  <2>1. ASSUME NEW r \in lead_receipts, r.job \in Drilldowns, r.payload.decision \notin Ev!Continuations
        PROVE  Stands(r)'
    <3>1. Stands(r) /\ lead_jobs'[r.job] = lead_jobs[r.job] /\ lead_jobs[r.job].lead \in 1 .. Len(leads)
      BY <1>2, <2>1 DEF EvidenceInv, SealedStands, SealedOnce, WorkInv, Drilled
    <3>2. leads'[lead_jobs[r.job].lead] = leads[lead_jobs[r.job].lead]
      BY <1>1, <1>3, <3>1 DEF Stands
    <3>3. \A f \in 1 .. Len(lead_findings) : f \in 1 .. Len(lead_findings') /\ lead_findings'[f] = lead_findings[f]
      BY Domains
    <3> QED
      BY <3>1, <3>2, <3>3 DEF Stands
  <2>2. PICK n : n = Ev!Receipt(j, payload, answer)
    OBVIOUS
  <2>3. n.job = j /\ n.payload = payload /\ n.answer = answer
    BY <2>2 DEF Ev!Receipt
  <2>4. n.payload.decision \notin Ev!Continuations => Stands(n)'
    BY <1>1, <1>2, <1>3, <2>3 DEF Stands
  <2> QED
    BY <1>2, <2>1, <2>2, <2>4 DEF SealedStands
<1>11. Counted'
  <2>1. \A k \in Ev!PhaseJobs : LeadsBy(leads', k) = LeadsBy(leads, k)
    BY <1>1, <1>3 DEF LeadsBy
  <2> QED
    BY <1>1, <2>1 DEF EvidenceInv, Counted, Ev!Limit
<1> QED
  BY <1>2, <1>5, <1>6, <1>7, <1>8, <1>9, <1>10, <1>11 DEF EvidenceInv, WorkInv

\* Closing the lead of a drilldown with what its receipt says.
LEMMA ClosingKeeps ==
  ASSUME Ev!ConstantsOK, EvidenceInv, NEW j \in Drilldowns, Ev!Deciding(j), NEW target, NEW answer,
         NEW decision \in Outcomes, NEW of \in Nat, Ev!Close(j, decision, of),
         Ev!Seal(j, [decision |-> decision, target |-> target], answer),
         FindingsGrow,
         decision = "promoted" =>
           answer.finding \in 1 .. Len(lead_findings') /\ lead_findings'[answer.finding].origin = lead_jobs[j].lead
  PROVE  EvidenceInv'
<1>1. PICK l, o, lead, i, wait, payload :
        /\ l = lead_jobs[j].lead /\ o = leads[l] /\ i = lead_intents[l]
        /\ lead = [o EXCEPT !.status = "closed", !.disposition = decision, !.of = of]
        /\ wait = [i EXCEPT !.state = "complete"]
        /\ payload = [decision |-> decision, target |-> target]
  OBVIOUS
<1>2. l \in 1 .. Len(leads) /\ lead_jobs[j].lead = l
  BY <1>1 DEF Ev!Deciding, Ev!Leased, EvidenceInv, WorkInv, Drilled
<1>3. o \in LeadRow /\ i \in WaitRow
  BY <1>1, <1>2, LeadTyped
<1>4. /\ lead \in LeadRow /\ lead.identity = o.identity /\ lead.by = o.by
      /\ lead.status = "closed" /\ lead.disposition = decision
  BY <1>1, <1>3 DEF LeadRow
<1>5. wait \in WaitRow /\ wait.state = "complete"
  BY <1>1, <1>3 DEF WaitRow
<1>6. leads' = [leads EXCEPT ![l] = lead] /\ lead_intents' = [lead_intents EXCEPT ![l] = wait]
  BY <1>1, <1>2, <1>3 DEF Ev!Close, Ev!FinishSubjectIntent, LeadRow, WaitRow
<1>7. Ev!Seal(j, payload, answer) /\ payload.decision = decision
  BY <1>1
<1>8. wait.state # "admitted" /\ (lead.status = "closed" <=> wait.state = "complete")
  BY <1>4, <1>5
<1>9. lead.identity = leads[l].identity /\ lead.by = leads[l].by /\ l = lead_jobs[j].lead
  BY <1>1, <1>4
<1>10. lead.disposition = payload.decision
  BY <1>4, <1>7
<1>11. payload.decision = "promoted" =>
         answer.finding \in 1 .. Len(lead_findings') /\ lead_findings'[answer.finding].origin = l
  BY <1>2, <1>7
<1>12. LeadDecided(j, payload, answer, l, lead, wait)
  BY <1>4, <1>5, <1>6, <1>7, <1>8, <1>9, <1>10, <1>11 DEF LeadDecided
<1> QED
  BY <1>12, DecisionKeeps

\* The decisions that leave the findings alone.
LEMMA RefusalsKeep ==
  ASSUME Ev!ConstantsOK, EvidenceInv, NEW j \in Drilldowns
  PROVE  /\ \A decision \in {"rejected", "hardening"} : Ev!RejectLead(j, decision) => EvidenceInv'
         /\ \A l \in DOMAIN leads : Ev!DuplicateOfLead(j, l) => EvidenceInv'
         /\ \A f \in DOMAIN lead_findings : Ev!DuplicateOfFinding(j, f) => EvidenceInv'
<1>1. ASSUME NEW decision \in Outcomes \ {"promoted"}, NEW of \in Nat, NEW target, NEW answer, Ev!Deciding(j),
             Ev!Close(j, decision, of), Ev!Seal(j, [decision |-> decision, target |-> target], answer),
             UNCHANGED lead_findings
      PROVE  EvidenceInv'
  <2>1. FindingsGrow
    BY <1>1, Domains DEF FindingsGrow, EvidenceInv, Referring
  <2> QED
    BY <1>1, <2>1, ClosingKeeps
<1>2. ASSUME NEW decision \in {"rejected", "hardening"}, Ev!RejectLead(j, decision)
      PROVE  EvidenceInv'
  <2>1. decision \in Outcomes \ {"promoted"} /\ 0 \in Nat
    BY DEF Outcomes
  <2> QED
    BY <1>1, <1>2, <2>1 DEF Ev!RejectLead
<1>3. ASSUME NEW l \in DOMAIN leads, Ev!DuplicateOfLead(j, l)
      PROVE  EvidenceInv'
  <2>1. "duplicate_lead" \in Outcomes \ {"promoted"} /\ l \in Nat
    BY Domains DEF Outcomes
  <2> QED
    BY <1>1, <1>3, <2>1 DEF Ev!DuplicateOfLead
<1>4. ASSUME NEW f \in DOMAIN lead_findings, Ev!DuplicateOfFinding(j, f)
      PROVE  EvidenceInv'
  <2>1. "duplicate_finding" \in Outcomes \ {"promoted"} /\ f \in Nat
    BY Domains DEF Outcomes
  <2> QED
    BY <1>1, <1>4, <2>1 DEF Ev!DuplicateOfFinding
<1> QED
  BY <1>2, <1>3, <1>4

\* A promotion.
LEMMA PromoteKeeps ==
  ASSUME Ev!ConstantsOK, EvidenceInv, NEW j \in Drilldowns, NEW identity \in Identities, Ev!Promote(j, identity)
  PROVE  EvidenceInv'
<1>1. PICK id, row, answer, l :
        /\ id = Len(lead_findings) + 1 /\ l = lead_jobs[j].lead /\ row = [identity |-> identity, origin |-> l]
        /\ answer = [finding |-> id]
  OBVIOUS
<1>2. /\ Ev!Deciding(j) /\ lead_findings' = Append(lead_findings, row) /\ Ev!Close(j, "promoted", id)
      /\ Ev!Seal(j, [decision |-> "promoted", target |-> identity], answer)
  BY <1>1 DEF Ev!Promote
<1>3. l \in 1 .. Len(leads) /\ l \in Nat
  BY <1>1, <1>2, Domains DEF Ev!Deciding, Ev!Leased, EvidenceInv, WorkInv, Drilled
<1>4. row \in FoundRow /\ row.origin = l /\ answer.finding = id /\ id \in Nat
  BY <1>1, <1>3, Domains DEF FoundRow
<1>5. /\ lead_findings' \in Seq(FoundRow) /\ Len(lead_findings') = Len(lead_findings) + 1 /\ lead_findings'[id] = row
      /\ \A f \in 1 .. Len(lead_findings) : lead_findings'[f] = lead_findings[f]
  BY <1>1, <1>2, <1>4, AppendProperties DEF EvidenceInv, Referring
<1>6. /\ Len(lead_findings') >= Len(lead_findings) /\ id \in 1 .. Len(lead_findings')
      /\ \A f \in 1 .. Len(lead_findings') : f = id \/ f \in 1 .. Len(lead_findings)
  BY <1>1, <1>5, Domains
<1>7. \A f \in 1 .. Len(lead_findings') : lead_findings'[f].origin \in 1 .. Len(leads)
  BY <1>3, <1>4, <1>5, <1>6 DEF EvidenceInv, Referring
<1>8. "promoted" \in Outcomes
  BY DEF Outcomes
<1>9. FindingsGrow /\ lead_findings'[answer.finding].origin = lead_jobs[j].lead
  BY <1>1, <1>4, <1>5, <1>6, <1>7 DEF FindingsGrow
<1> QED
  BY <1>1, <1>2, <1>4, <1>6, <1>8, <1>9, ClosingKeeps

\* A deferral.
LEMMA DeferKeeps ==
  ASSUME Ev!ConstantsOK, EvidenceInv, NEW j \in Drilldowns, NEW class \in Ev!Continuations, Ev!Defer(j, class)
  PROVE  EvidenceInv'
<1>1. PICK l, o, lead, n, wait, payload, answer :
        /\ l = lead_jobs[j].lead /\ o = leads[l] /\ lead = [o EXCEPT !.status = "deferred"]
        /\ n = lead_intents[l].sequence
        /\ wait = [state |-> Ev!ContinuationState(class), job |-> None, sequence |-> n + 1]
        /\ payload = [decision |-> class, target |-> None] /\ answer = [finding |-> 0]
  OBVIOUS
<1>2. Ev!Deciding(j) /\ n < MaxSequence /\ Ev!Seal(j, payload, answer) /\ UNCHANGED lead_findings
  BY <1>1 DEF Ev!Defer
<1>3. l \in 1 .. Len(leads) /\ lead_jobs[j].lead = l
  BY <1>1, <1>2 DEF Ev!Deciding, Ev!Leased, EvidenceInv, WorkInv, Drilled
<1>4. o \in LeadRow /\ lead_intents[l] \in WaitRow
  BY <1>1, <1>3, LeadTyped
<1>5. lead \in LeadRow /\ lead.identity = o.identity /\ lead.by = o.by /\ lead.status = "deferred"
  BY <1>1, <1>4 DEF LeadRow
<1>6. n + 1 \in 0 .. MaxSequence
  BY <1>1, <1>2, <1>4 DEF WaitRow, Ev!ConstantsOK
<1>7. wait \in WaitRow /\ wait.state # "admitted" /\ wait.state # "complete"
  BY <1>1, <1>6 DEF WaitRow, Ev!ContinuationState
<1>8. leads' = [leads EXCEPT ![l] = lead] /\ lead_intents' = [lead_intents EXCEPT ![l] = wait]
  BY <1>1, <1>3, <1>4 DEF Ev!Defer, LeadRow
<1>9. payload.decision \in Ev!Continuations /\ payload.decision # "promoted"
  BY <1>1 DEF Ev!Continuations
<1>10. FindingsGrow
  BY <1>2, Domains DEF FindingsGrow, EvidenceInv, Referring
<1>11. lead.status = "closed" <=> wait.state = "complete"
  BY <1>5, <1>7
<1>12. LeadDecided(j, payload, answer, l, lead, wait)
  BY <1>1, <1>2, <1>3, <1>5, <1>7, <1>8, <1>9, <1>11 DEF LeadDecided
<1> QED
  BY <1>10, <1>12, DecisionKeeps

\* Every step.
LEMMA EvidenceStep ==
  ASSUME Ev!ConstantsOK, EvidenceInv, [Ev!Next]_(Ev!vars)
  PROVE  EvidenceInv'
<1>1. ASSUME NEW j \in Ev!PhaseJobs, Ev!Claim(j) \/ Ev!EndAttempt(j)
      PROVE  EvidenceInv'
  BY <1>1, ClaimKeeps, EndAttemptKeeps
<1>2. ASSUME NEW j \in Drilldowns, NEW l \in DOMAIN lead_intents, Ev!Admit(j, l)
      PROVE  EvidenceInv'
  BY <1>2, AdmitKeeps, Domains
<1>3. ASSUME NEW j \in Ev!PhaseJobs, NEW key \in Keys, NEW payload \in Ev!Payloads, Ev!SubmitLead(j, key, payload)
      PROVE  EvidenceInv'
  BY <1>3, SubmitKeeps
<1>4. ASSUME NEW j \in Ev!PhaseJobs, NEW query \in Identities, Ev!IssueCandidates(j, query)
      PROVE  EvidenceInv'
  BY <1>4, CandidatesKeep
<1>5. ASSUME NEW j \in Surveys, Ev!FinalizeSurvey(j)
      PROVE  EvidenceInv'
  BY <1>5, SurveyEnds
<1>6. ASSUME NEW j \in Drilldowns,
             \/ \E identity \in Identities : Ev!Promote(j, identity)
             \/ \E decision \in {"rejected", "hardening"} : Ev!RejectLead(j, decision)
             \/ \E l \in DOMAIN leads : Ev!DuplicateOfLead(j, l)
             \/ \E f \in DOMAIN lead_findings : Ev!DuplicateOfFinding(j, f)
             \/ \E class \in Ev!Continuations : Ev!Defer(j, class)
      PROVE  EvidenceInv'
  BY <1>6, PromoteKeeps, RefusalsKeep, DeferKeeps
<1>7. ASSUME NEW j \in Ev!PhaseJobs, NEW attempt, NEW payload, Ev!ReplayReceipt(j, attempt, payload)
      PROVE  EvidenceInv'
  BY <1>7, ReplaysKeep
<1>8. CASE UNCHANGED Ev!vars
  BY <1>8 DEF Ev!vars, EvidenceInv, WorkInv, EvidenceTyped, Drilled, LeadsWaiting, Referring,
       Recorded,
              SealedOnce, SealedStands, Stands, ToldTrue, Counted
<1> QED
  BY <1>1, <1>2, <1>3, <1>4, <1>5, <1>6, <1>7, <1>8 DEF Ev!Next

\* A repeated checkpoint or terminal request gets the answer it got first, whatever
\* happened to the lead since, and that answer names a lead of the identity it asked for;
\* the leads and observations of a job are its distinct accepted requests and stay within
\* its limit over all of its attempts; an identity is drilled down by one live job at most
\* and never after it was decided; no lead is forgotten; and a decision a worker was told
\* stays the lead's disposition (evidence.rs, submit_lead_for; leads.rs, submit_inner;
\* review_intents.rs, admit_subject_raw; terminal_receipt.rs, replay_terminal).
THEOREM EvidenceIsSound == Ev!ConstantsOK => (Ev!Spec => []EvidenceHolds)
<1> SUFFICES ASSUME Ev!ConstantsOK
             PROVE  Ev!Spec => []EvidenceHolds
  OBVIOUS
<1>1. Ev!Init => EvidenceInv
  BY EvidenceInitial
<1>2. EvidenceInv /\ [Ev!Next]_(Ev!vars) => EvidenceInv'
  BY EvidenceStep
<1>3. EvidenceInv => EvidenceHolds
  BY EvidenceImplied
<1> QED
  BY <1>1, <1>2, <1>3, PTL DEF Ev!Spec

(***************************************************************************)
(* The inventory of a generation                                            *)
(***************************************************************************)
CONSTANTS
  Preparers, MapSurveys, Paths, Blobs, Hidden, Profiles, MapUnits, MapKeys, Refs, UnitsOf,
  MAX_ENTRIES, MAX_OPERATIONS

VARIABLES inventory_jobs, manifest, rows, profile, baseline, dispositions

Mani == INSTANCE Inventory WITH
  Surveys <- MapSurveys, Units <- MapUnits, Keys <- MapKeys,
  jobs <- inventory_jobs, active <- baseline, checkpoints <- dispositions

\* The instance counts as this module does.
LEMMA SameManiCount ==
  ASSUME NEW S
  PROVE  /\ Mani!IsFiniteSet(S) <=> IsFiniteSet(S)
         /\ Mani!Cardinality(S) = Cardinality(S)
BY DEF Mani!IsFiniteSet, IsFiniteSet, Mani!Cardinality, Cardinality

ManifestRows == [path : Paths, blob : Blobs, revision : Nat, units : SUBSET MapUnits,
         disposition : Mani!Dispositions]

Manifests == [owner : Preparers \cup {None}, expected : 0 .. MAX_ENTRIES, digest : Mani!Listings,
              received : 0 .. MAX_ENTRIES, sealed : BOOLEAN]

InventoryTypes ==
  /\ inventory_jobs \in [Mani!PhaseJobs -> {"queued", "leased", "ended"}]
  /\ manifest \in Manifests
  /\ rows \in Seq(ManifestRows)
  /\ profile \in Profiles \cup {None}
  /\ baseline \in BOOLEAN

\* The stored entries are as many as were received, in the order of their paths, and none
\* before the manifest is declared.
Stored ==
  /\ Len(rows) = manifest.received /\ manifest.received <= manifest.expected
  /\ \A i, j \in 1 .. Len(rows) : i < j => rows[i].path < rows[j].path
  /\ ~ Mani!Declared => rows = <<>> /\ ~ manifest.sealed

\* What was accepted for the entry e.
History(e) == {c \in dispositions : c.op = "disposition" /\ c.entry = e}

\* Each disposition is of a stored entry, and the histories are complete.
Histories ==
  /\ IsFiniteSet(dispositions)
  /\ \A c \in dispositions : c.op = "disposition" => c.entry \in 1 .. Len(rows)
  /\ \A e \in 1 .. Len(rows) :
       /\ {c.expected : c \in History(e)} = 0 .. rows[e].revision - 1
       /\ Cardinality(History(e)) = rows[e].revision
       /\ \A c \in History(e) :
            c.expected = rows[e].revision - 1 => rows[e].disposition = c.disposition

InventoryInv ==
  InventoryTypes /\ Stored /\ Mani!SealedIsDeclared /\ Histories /\ Mani!MappingsMatch

-----------------------------------------------------------------------------
\* What a listing is.
LEMMA ListingIs ==
  ASSUME Mani!ConstantsOK, NEW s
  PROVE  s \in Mani!Listings <=> /\ s \in Seq(Mani!Entries) /\ Len(s) <= MAX_ENTRIES
                            /\ \A i, j \in 1 .. Len(s) : i < j => s[i].path < s[j].path
<1>1. MAX_ENTRIES \in Nat
  BY DEF Mani!ConstantsOK
<1>2. s \in Mani!SeqOf(Mani!Entries, MAX_ENTRIES) => s \in Seq(Mani!Entries) /\ Len(s) <= MAX_ENTRIES
  <2> SUFFICES ASSUME NEW m \in 0 .. MAX_ENTRIES, s \in [1 .. m -> Mani!Entries]
               PROVE  s \in Seq(Mani!Entries) /\ Len(s) <= MAX_ENTRIES
    BY DEF Mani!SeqOf
  <2> QED
    BY <1>1
<1>3. s \in Seq(Mani!Entries) /\ Len(s) <= MAX_ENTRIES => s \in Mani!SeqOf(Mani!Entries, MAX_ENTRIES)
  <2> SUFFICES ASSUME s \in Seq(Mani!Entries), Len(s) <= MAX_ENTRIES
               PROVE  \E m \in 0 .. MAX_ENTRIES : s \in [1 .. m -> Mani!Entries]
    BY DEF Mani!SeqOf
  <2>1. Len(s) \in 0 .. MAX_ENTRIES /\ s \in [1 .. Len(s) -> Mani!Entries]
    BY <1>1
  <2> QED
    BY <2>1
<1>4. s \in Seq(Mani!Entries) => DOMAIN s = 1 .. Len(s)
  OBVIOUS
<1> QED
  BY <1>2, <1>3, <1>4 DEF Mani!Listings, Mani!Ordered

\* What a sequence of rows lists.
Listed(r) == [i \in DOMAIN r |-> [path |-> r[i].path, blob |-> r[i].blob]]

\* The members are the entries of the rows, one for one.
LEMMA MembersAre ==
  ASSUME NEW r \in Seq(ManifestRows)
  PROVE  /\ Listed(r) \in Seq(Mani!Entries) /\ Len(Listed(r)) = Len(r)
         /\ \A i \in 1 .. Len(r) : Listed(r)[i] = [path |-> r[i].path, blob |-> r[i].blob]
<1>1. DOMAIN r = 1 .. Len(r) /\ Len(r) \in Nat
  OBVIOUS
<1>2. \A i \in 1 .. Len(r) : [path |-> r[i].path, blob |-> r[i].blob] \in Mani!Entries
  <2> TAKE i \in 1 .. Len(r)
  <2>1. r[i] \in ManifestRows
    BY ElementOfSeq
  <2> QED
    BY <2>1 DEF ManifestRows, Mani!Entries
<1>3. Listed(r) = [i \in 1 .. Len(r) |-> [path |-> r[i].path, blob |-> r[i].blob]]
  BY <1>1 DEF Listed
<1>4. Listed(r) \in [1 .. Len(r) -> Mani!Entries]
  BY <1>2, <1>3
<1>5. Listed(r) \in Seq(Mani!Entries) /\ Len(Listed(r)) = Len(r)
  BY <1>1, <1>4
<1> QED
  BY <1>3, <1>5

\* The invariant holds of a repository without a manifest.
LEMMA InventoryInitially ==
  ASSUME Mani!ConstantsOK, Mani!Init
  PROVE  InventoryInv
<1>1. rows = <<>> /\ dispositions = {} /\ Len(rows) = 0 /\ manifest = Mani!NoManifest
      /\ manifest.received = 0 /\ manifest.expected = 0 /\ manifest.owner = None
      /\ manifest.sealed = FALSE /\ profile = None
  BY DEF Mani!Init, Mani!NoManifest
<1>2. <<>> \in Mani!Listings
  <2>1. PICK s : s = <<>>
    OBVIOUS
  <2>2. s \in Seq(Mani!Entries) /\ Len(s) = 0 /\ MAX_ENTRIES \in Nat
    BY <2>1, EmptySeq DEF Mani!ConstantsOK
  <2>3. Len(s) <= MAX_ENTRIES /\ \A i, j \in 1 .. Len(s) : i < j => s[i].path < s[j].path
    BY <2>2
  <2>4. s \in Mani!Listings
    BY <2>2, <2>3, ListingIs
  <2> QED
    BY <2>1, <2>4
<1>3. InventoryTypes
  <2>1. manifest \in Manifests
    BY <1>1, <1>2 DEF Mani!NoManifest, Manifests, Mani!ConstantsOK
  <2>2. rows \in Seq(ManifestRows)
    BY <1>1, EmptySeq
  <2> QED
    BY <2>1, <2>2 DEF InventoryTypes, Mani!Init
<1>4. Stored
  BY <1>1 DEF Stored, Mani!Declared
<1>5. Mani!SealedIsDeclared
  BY <1>1 DEF Mani!SealedIsDeclared
<1>6. Histories
  BY <1>1, FS_EmptySet DEF Histories
<1>7. Mani!MappingsMatch
  BY <1>1 DEF Mani!MappingsMatch
<1> QED
  BY <1>3, <1>4, <1>5, <1>6, <1>7 DEF InventoryInv

\* Members are as they were when the rows are, or differ in their dispositions only.
LEMMA SameMembers ==
  ASSUME InventoryTypes, InventoryTypes', Len(rows') = Len(rows),
         \A i \in 1 .. Len(rows) : rows'[i].path = rows[i].path /\ rows'[i].blob = rows[i].blob
  PROVE  Mani!Members' = Mani!Members /\ Mani!IsPrefix(Mani!Members, Mani!Members')
<1>1. rows \in Seq(ManifestRows) /\ DOMAIN rows = 1 .. Len(rows) /\ Len(rows) \in Nat
      /\ rows' \in Seq(ManifestRows) /\ DOMAIN rows' = 1 .. Len(rows)
  BY DEF InventoryTypes
<1>2. Mani!Members' = Mani!Members
  BY <1>1 DEF Mani!Members
<1>3. Mani!Members = Listed(rows) /\ Listed(rows) \in Seq(Mani!Entries) /\ Len(Listed(rows)) \in Nat
  BY <1>1, MembersAre DEF Mani!Members, Listed
<1> QED
  BY <1>2, <1>3 DEF Mani!IsPrefix

-----------------------------------------------------------------------------
\* Steps that leave the manifest, the rows, the profile and the checkpoints alone.
LEMMA JobsMove ==
  ASSUME Mani!ConstantsOK, InventoryInv, inventory_jobs' \in [Mani!PhaseJobs -> {"queued", "leased", "ended"}],
         baseline' \in BOOLEAN, UNCHANGED <<manifest, rows, profile, dispositions>>
  PROVE  InventoryInv' /\ Mani!AcceptedStandsStep
<1>1. InventoryTypes'
  BY DEF InventoryInv, InventoryTypes
<1>2. Mani!Members' = Mani!Members
  BY DEF Mani!Members
<1>3. Stored' /\ Mani!SealedIsDeclared' /\ Mani!MappingsMatch'
  BY <1>2 DEF InventoryInv, Stored, Mani!SealedIsDeclared, Mani!MappingsMatch, Mani!Declared
<1>4. Histories'
  BY DEF InventoryInv, Histories, History
<1>5. Mani!AcceptedStandsStep
  BY <1>1, SameMembers DEF InventoryInv, Mani!AcceptedStandsStep
<1> QED
  BY <1>1, <1>3, <1>4, <1>5 DEF InventoryInv

\* Leases come and go; the tables stay.
LEMMA LeaseMoves ==
  ASSUME Mani!ConstantsOK, InventoryInv, NEW j \in Mani!PhaseJobs,
         Mani!Lease(j) \/ Mani!EndAttempt(j) \/ Mani!FinishBootstrap(j)
  PROVE  InventoryInv' /\ Mani!AcceptedStandsStep
<1>1. inventory_jobs \in [Mani!PhaseJobs -> {"queued", "leased", "ended"}] /\ baseline \in BOOLEAN
  BY DEF InventoryInv, InventoryTypes
<1>2. inventory_jobs' \in [Mani!PhaseJobs -> {"queued", "leased", "ended"}]
  BY <1>1 DEF Mani!Lease, Mani!EndAttempt, Mani!FinishBootstrap
<1>3. baseline' \in BOOLEAN
  BY <1>1 DEF Mani!Lease, Mani!EndAttempt, Mani!FinishBootstrap
<1>4. UNCHANGED <<manifest, rows, profile, dispositions>>
  BY DEF Mani!Lease, Mani!EndAttempt, Mani!FinishBootstrap
<1> QED
  BY <1>2, <1>3, <1>4, JobsMove

\* A manifest is declared.
LEMMA DeclareKeeps ==
  ASSUME Mani!ConstantsOK, InventoryInv, NEW j \in Preparers,
         NEW expected \in 0 .. MAX_ENTRIES + 1, NEW digest \in Mani!Listings,
         Mani!DeclareManifest(j, expected, digest)
  PROVE  InventoryInv' /\ Mani!AcceptedStandsStep
<1>1. /\ manifest \in Manifests /\ MAX_ENTRIES \in Nat /\ None \notin Preparers
      /\ UNCHANGED <<inventory_jobs, rows, profile, baseline, dispositions>>
      /\ expected \in 0 .. MAX_ENTRIES
  BY DEF InventoryInv, InventoryTypes, Mani!DeclareManifest, Mani!ConstantsOK, Mani!PhaseJobs
<1>2. /\ manifest' \in Manifests /\ manifest'.owner = j
      /\ Mani!Declared => /\ manifest'.expected = manifest.expected
                     /\ manifest'.digest = manifest.digest
                     /\ manifest'.received = manifest.received
                     /\ manifest'.sealed = manifest.sealed
      /\ ~ Mani!Declared => manifest'.received = 0 /\ manifest'.sealed = FALSE
      /\ manifest'.expected \in Nat
  <2>1. CASE Mani!Declared
    <3>1. manifest' = [manifest EXCEPT !.owner = j]
      BY <2>1 DEF Mani!DeclareManifest, Mani!Redeclared
    <3> QED
      BY <1>1, <2>1, <3>1 DEF Manifests
  <2>2. CASE ~ Mani!Declared
    <3>1. manifest' = [owner |-> j, expected |-> expected, digest |-> digest, received |-> 0,
                       sealed |-> FALSE]
      BY <2>2 DEF Mani!DeclareManifest, Mani!Redeclared, Mani!NoManifest
    <3>2. 0 \in 0 .. MAX_ENTRIES /\ expected \in Nat
      BY <1>1
    <3>3. [owner |-> j, expected |-> expected, digest |-> digest, received |-> 0,
           sealed |-> FALSE] \in Manifests
      BY <1>1, <3>2 DEF Manifests
    <3> QED
      BY <2>2, <3>1, <3>2, <3>3
  <2> QED
    BY <2>1, <2>2
<1>3. InventoryTypes'
  BY <1>1, <1>2 DEF InventoryInv, InventoryTypes
<1>4. Mani!Members' = Mani!Members /\ Mani!IsPrefix(Mani!Members, Mani!Members')
  BY <1>1, <1>3, SameMembers DEF InventoryInv
<1>5. Mani!Declared'
  BY <1>1, <1>2 DEF Mani!Declared
<1>6. Stored'
  <2>1. CASE Mani!Declared
    BY <1>1, <1>2, <1>5, <2>1 DEF InventoryInv, Stored
  <2>2. CASE ~ Mani!Declared
    <3>1. Len(rows) = 0
      BY <2>2, EmptySeq DEF InventoryInv, Stored
    <3> QED
      BY <1>1, <1>2, <1>5, <2>2, <3>1 DEF InventoryInv, Stored
  <2> QED
    BY <2>1, <2>2
<1>7. Mani!SealedIsDeclared'
  <2>1. CASE Mani!Declared
    BY <1>1, <1>2, <1>4, <2>1 DEF InventoryInv, Mani!SealedIsDeclared
  <2>2. CASE ~ Mani!Declared
    BY <1>1, <1>2, <2>2 DEF InventoryInv, Mani!SealedIsDeclared, Stored
  <2> QED
    BY <2>1, <2>2
<1>8. Histories'
  BY <1>1 DEF InventoryInv, Histories, History
<1>9. Mani!MappingsMatch'
  BY <1>1 DEF InventoryInv, Mani!MappingsMatch
<1>10. Mani!AcceptedStandsStep
  BY <1>1, <1>2, <1>4 DEF Mani!AcceptedStandsStep
<1> QED
  BY <1>3, <1>6, <1>7, <1>8, <1>9, <1>10 DEF InventoryInv

\* A manifest that is complete is sealed.
LEMMA SealKeeps ==
  ASSUME Mani!ConstantsOK, InventoryInv, NEW j \in Preparers, Mani!SealManifest(j)
  PROVE  InventoryInv' /\ Mani!AcceptedStandsStep
<1>1. /\ manifest \in Manifests /\ UNCHANGED <<inventory_jobs, rows, profile, baseline, dispositions>>
      /\ manifest' = [manifest EXCEPT !.sealed = TRUE]
      /\ manifest.received = manifest.expected /\ Mani!Members = manifest.digest
      /\ manifest.owner = j /\ None \notin Preparers
  BY DEF InventoryInv, InventoryTypes, Mani!SealManifest, Mani!Certified, Mani!Owns,
       Mani!ConstantsOK, Mani!PhaseJobs
<1>2. /\ manifest' \in Manifests /\ manifest'.owner = manifest.owner
      /\ manifest'.expected = manifest.expected /\ manifest'.digest = manifest.digest
      /\ manifest'.received = manifest.received /\ manifest'.sealed = TRUE
  BY <1>1 DEF Manifests
<1>3. InventoryTypes'
  BY <1>1, <1>2 DEF InventoryInv, InventoryTypes
<1>4. Mani!Members' = Mani!Members /\ Mani!IsPrefix(Mani!Members, Mani!Members')
  BY <1>1, <1>3, SameMembers DEF InventoryInv
<1>5. Stored'
  BY <1>1, <1>2 DEF InventoryInv, Stored, Mani!Declared
<1>6. Mani!SealedIsDeclared'
  BY <1>1, <1>2, <1>4 DEF InventoryInv, Mani!SealedIsDeclared, Stored
<1>7. Histories'
  BY <1>1 DEF InventoryInv, Histories, History
<1>8. Mani!MappingsMatch'
  BY <1>1 DEF InventoryInv, Mani!MappingsMatch
<1>9. Mani!AcceptedStandsStep
  BY <1>1, <1>2, <1>4 DEF Mani!AcceptedStandsStep
<1> QED
  BY <1>3, <1>5, <1>6, <1>7, <1>8, <1>9 DEF InventoryInv

\* A profile is published, once.
LEMMA PublishKeeps ==
  ASSUME Mani!ConstantsOK, InventoryInv, NEW j \in Preparers, NEW p \in Profiles, Mani!PublishProfile(j, p)
  PROVE  InventoryInv' /\ Mani!AcceptedStandsStep
<1>1. /\ UNCHANGED <<inventory_jobs, manifest, rows, baseline>> /\ profile = None /\ profile' = p
      /\ manifest.sealed
  BY DEF Mani!PublishProfile
<1>2. PICK c : /\ c.op = "profile"
               /\ dispositions' = dispositions \cup {c}
  <2>1. dispositions' = dispositions \cup {[job |-> j, op |-> "profile", key |-> None, entry |-> 0,
                                         expected |-> 0, disposition |-> None]}
    BY DEF Mani!PublishProfile
  <2>2. [job |-> j, op |-> "profile", key |-> None, entry |-> 0, expected |-> 0,
         disposition |-> None].op = "profile"
    OBVIOUS
  <2> QED
    BY <2>1, <2>2
<1>3. InventoryTypes'
  BY <1>1 DEF InventoryInv, InventoryTypes
<1>4. Mani!Members' = Mani!Members /\ Mani!IsPrefix(Mani!Members, Mani!Members')
  BY <1>1, <1>3, SameMembers DEF InventoryInv
<1>5. Stored' /\ Mani!SealedIsDeclared' /\ Mani!MappingsMatch'
  BY <1>1, <1>4 DEF InventoryInv, Stored, Mani!SealedIsDeclared, Mani!MappingsMatch, Mani!Declared
<1>6. Histories'
  <2>1. IsFiniteSet(dispositions')
    BY <1>2, FS_AddElement DEF InventoryInv, Histories
  <2>2. \A e \in 1 .. Len(rows) : History(e)' = History(e)
    BY <1>2 DEF History
  <2> QED
    BY <1>1, <1>2, <2>1, <2>2 DEF InventoryInv, Histories
<1>7. Mani!AcceptedStandsStep
  BY <1>1, <1>4 DEF Mani!AcceptedStandsStep
<1> QED
  BY <1>3, <1>5, <1>6, <1>7 DEF InventoryInv

\* ManifestRows that follow the stored ones leave these a prefix.
LEMMA PrefixStays ==
  ASSUME InventoryTypes, InventoryTypes', Len(rows) <= Len(rows'),
         \A i \in 1 .. Len(rows) : rows'[i] = rows[i]
  PROVE  Mani!IsPrefix(Mani!Members, Mani!Members')
<1>1. PICK old, all : old = rows /\ all = rows'
  OBVIOUS
<1>2. PICK s, t : s = Listed(old) /\ t = Listed(all)
  OBVIOUS
<1>3. /\ Mani!Members = s /\ Mani!Members' = t /\ old \in Seq(ManifestRows) /\ all \in Seq(ManifestRows)
      /\ Len(old) <= Len(all) /\ \A i \in 1 .. Len(old) : all[i] = old[i]
  BY <1>1, <1>2 DEF Mani!Members, Listed, InventoryTypes
<1> DEFINE n == Len(old)
<1>4. /\ s \in Seq(Mani!Entries) /\ t \in Seq(Mani!Entries) /\ n \in Nat /\ n = Len(s)
      /\ Len(s) <= Len(t) /\ \A i \in 1 .. n : s[i] = t[i]
  <2>1. /\ s \in Seq(Mani!Entries) /\ Len(s) = Len(old)
        /\ \A i \in 1 .. Len(old) : s[i] = [path |-> old[i].path, blob |-> old[i].blob]
    BY <1>2, <1>3, MembersAre
  <2>2. /\ t \in Seq(Mani!Entries) /\ Len(t) = Len(all)
        /\ \A i \in 1 .. Len(all) : t[i] = [path |-> all[i].path, blob |-> all[i].blob]
    BY <1>2, <1>3, MembersAre
  <2>3. Len(old) \in Nat /\ Len(all) \in Nat
    BY <1>3
  <2>4. \A i \in 1 .. Len(old) : s[i] = t[i]
    <3> TAKE i \in 1 .. Len(old)
    <3>1. i \in 1 .. Len(all) /\ all[i] = old[i]
      BY <1>3, <2>3
    <3> QED
      BY <2>1, <2>2, <3>1
  <2> QED
    BY <1>3, <2>1, <2>2, <2>3, <2>4
<1> HIDE DEF n
<1>5. \A i \in 1 .. n : s[i] \in Mani!Entries /\ t[i] \in Mani!Entries
  BY <1>4, ElementOfSeq
<1>6. /\ SubSeq(s, 1, n) \in Seq(Mani!Entries) /\ Len(SubSeq(s, 1, n)) = n
      /\ \A i \in 1 .. n : SubSeq(s, 1, n)[i] = s[i]
  BY <1>4, <1>5, SubSeqProperties
<1>7. /\ SubSeq(t, 1, n) \in Seq(Mani!Entries) /\ Len(SubSeq(t, 1, n)) = n
      /\ \A i \in 1 .. n : SubSeq(t, 1, n)[i] = t[i]
  BY <1>4, <1>5, SubSeqProperties
<1>8. SubSeq(s, 1, n) = SubSeq(t, 1, n)
  BY <1>4, <1>6, <1>7, SeqEqual
<1> QED
  BY <1>3, <1>4, <1>8 DEF Mani!IsPrefix

\* A chunk is added to the listing.
LEMMA UploadKeeps ==
  ASSUME Mani!ConstantsOK, InventoryInv, NEW j \in Preparers, NEW start \in 0 .. MAX_ENTRIES,
         NEW chunk \in Mani!Listings, Mani!UploadManifest(j, start, chunk)
  PROVE  InventoryInv' /\ Mani!AcceptedStandsStep
<1>1. /\ manifest \in Manifests /\ rows \in Seq(ManifestRows) /\ Len(rows) \in Nat
      /\ DOMAIN rows = 1 .. Len(rows)
      /\ start = manifest.received /\ Len(rows) = start
      /\ manifest.owner = j /\ ~ manifest.sealed /\ None \notin Preparers
      /\ UNCHANGED <<inventory_jobs, profile, baseline, dispositions>>
      /\ manifest' = [manifest EXCEPT !.received = start + Len(chunk)]
      /\ start + Len(chunk) <= manifest.expected
      /\ MAX_ENTRIES \in Nat /\ Paths \subseteq Nat
  BY DEF InventoryInv, InventoryTypes, Stored, Mani!UploadManifest, Mani!Extends, Mani!Owns,
       Mani!ConstantsOK,
         Mani!PhaseJobs
<1>2. /\ chunk \in Seq(Mani!Entries) /\ Len(chunk) \in Nat /\ DOMAIN chunk = 1 .. Len(chunk)
      /\ \A i, k \in 1 .. Len(chunk) : i < k => chunk[i].path < chunk[k].path
  BY ListingIs
<1>3. PICK new : new = [i \in 1 .. Len(chunk) |-> Mani!NewRow(chunk[i])]
  OBVIOUS
<1>4. \A i \in 1 .. Len(chunk) :
        /\ chunk[i] \in Mani!Entries /\ chunk[i].path \in Nat
        /\ Mani!NewRow(chunk[i]) \in ManifestRows
        /\ Mani!NewRow(chunk[i]).path = chunk[i].path /\ Mani!NewRow(chunk[i]).revision = 0
        /\ Mani!NewRow(chunk[i]).units = {} /\ Mani!NewRow(chunk[i]).disposition # "mapped"
  <2> TAKE i \in 1 .. Len(chunk)
  <2>1. chunk[i] \in Mani!Entries
    BY <1>2, ElementOfSeq
  <2>2. PICK disposition \in {"excluded", "unresolved"} :
          disposition = IF chunk[i].path \in Hidden THEN "excluded" ELSE "unresolved"
    OBVIOUS
  <2>3. Mani!NewRow(chunk[i]) = [path |-> chunk[i].path, blob |-> chunk[i].blob, revision |-> 0,
                            units |-> {}, disposition |-> disposition]
    BY <2>2 DEF Mani!NewRow
  <2> QED
    BY <1>1, <2>1, <2>2, <2>3 DEF Mani!Entries, ManifestRows, Mani!Dispositions
<1>5. new \in [1 .. Len(chunk) -> ManifestRows]
  BY <1>3, <1>4
<1>6. new \in Seq(ManifestRows) /\ Len(new) = Len(chunk)
  BY <1>2, <1>5
<1>7. rows' = rows \o new
  BY <1>2, <1>3 DEF Mani!UploadManifest
<1>8. PICK n, all : n = Len(rows) /\ all = rows'
  OBVIOUS
<1>9. /\ all \in Seq(ManifestRows) /\ Len(all) = n + Len(chunk) /\ n \in Nat /\ n <= Len(all)
      /\ \A i \in 1 .. n : all[i] = rows[i]
      /\ \A i \in n + 1 .. Len(all) : i - n \in 1 .. Len(chunk) /\ all[i] = Mani!NewRow(chunk[i - n])
  <2>1. /\ rows \o new \in Seq(ManifestRows) /\ Len(rows \o new) = n + Len(chunk)
        /\ \A i \in 1 .. n + Len(chunk) :
             (rows \o new)[i] = IF i <= n THEN rows[i] ELSE new[i - n]
    <3>1. /\ rows \o new \in Seq(ManifestRows) /\ Len(rows \o new) = Len(rows) + Len(new)
          /\ \A i \in 1 .. Len(rows) + Len(new) :
               (rows \o new)[i] = IF i <= Len(rows) THEN rows[i] ELSE new[i - Len(rows)]
      BY <1>1, <1>6, ConcatProperties
    <3> QED
      BY <1>6, <1>8, <3>1
  <2> QED
    BY <1>1, <1>2, <1>3, <1>7, <1>8, <2>1
<1>10. /\ manifest' \in Manifests /\ manifest'.owner = manifest.owner
       /\ manifest'.expected = manifest.expected /\ manifest'.digest = manifest.digest
       /\ manifest'.received = n + Len(chunk) /\ manifest'.sealed = manifest.sealed
  BY <1>1, <1>2, <1>8 DEF Manifests
<1>11. InventoryTypes'
  BY <1>1, <1>8, <1>9, <1>10 DEF InventoryInv, InventoryTypes
<1>12. Mani!IsPrefix(Mani!Members, Mani!Members')
  BY <1>8, <1>9, <1>11, PrefixStays DEF InventoryInv
<1>13. Stored'
  <2>1. ASSUME NEW i \in 1 .. Len(all), NEW k \in 1 .. Len(all), i < k
        PROVE  all[i].path < all[k].path
    <3>1. CASE k <= n
      BY <1>1, <1>8, <1>9, <2>1, <3>1 DEF InventoryInv, Stored
    <3>2. CASE i > n
      <4>1. /\ i - n \in 1 .. Len(chunk) /\ k - n \in 1 .. Len(chunk) /\ i - n < k - n
            /\ all[i] = Mani!NewRow(chunk[i - n]) /\ all[k] = Mani!NewRow(chunk[k - n])
        BY <1>9, <2>1, <3>2
      <4> QED
        BY <1>2, <1>4, <4>1
    <3>3. CASE i <= n /\ k > n
      <4>1. /\ i \in 1 .. n /\ n \in 1 .. n /\ k - n \in 1 .. Len(chunk) /\ 1 \in 1 .. Len(chunk)
            /\ all[i] = rows[i] /\ all[k] = Mani!NewRow(chunk[k - n])
        BY <1>2, <1>9, <2>1, <3>3
      <4>2. rows # <<>> /\ chunk # <<>>
        BY <1>1, <1>2, <1>8, <4>1, EmptySeq
      <4>3. rows[n].path < chunk[1].path
        BY <1>8, <4>2 DEF Mani!UploadManifest, Mani!Extends, Mani!Last
      <4>4. rows[i] \in ManifestRows /\ rows[n] \in ManifestRows
        BY <1>1, <1>8, <4>1, ElementOfSeq
      <4>5. rows[i].path \in Nat /\ rows[n].path \in Nat
        BY <1>1, <4>4 DEF ManifestRows
      <4>6. rows[i].path <= rows[n].path
        BY <1>1, <1>8, <4>1, <4>5 DEF InventoryInv, Stored
      <4>7. chunk[1].path <= chunk[k - n].path
        BY <1>2, <1>4, <4>1
      <4>8. chunk[1].path \in Nat /\ chunk[k - n].path \in Nat /\ all[k].path = chunk[k - n].path
        BY <1>4, <4>1
      <4>9. rows[i].path < chunk[k - n].path
        BY <4>3, <4>5, <4>6, <4>7, <4>8
      <4> QED
        BY <4>1, <4>8, <4>9
    <3> QED
      BY <1>9, <3>1, <3>2, <3>3
  <2>2. Mani!Declared'
    BY <1>1, <1>10 DEF Mani!Declared
  <2> QED
    BY <1>1, <1>8, <1>9, <1>10, <2>1, <2>2 DEF Stored
<1>14. Mani!SealedIsDeclared'
  BY <1>1, <1>10 DEF InventoryInv, Mani!SealedIsDeclared
<1>15. Histories'
  <2>1. \A e : History(e)' = History(e)
    BY <1>1 DEF History
  <2>2. ASSUME NEW e \in 1 .. Len(all)
        PROVE  /\ {c.expected : c \in History(e)} = 0 .. all[e].revision - 1
               /\ Cardinality(History(e)) = all[e].revision
               /\ \A c \in History(e) :
                    c.expected = all[e].revision - 1 => all[e].disposition = c.disposition
    <3>1. CASE e <= n
      BY <1>8, <1>9, <3>1 DEF InventoryInv, Histories
    <3>2. CASE e > n
      <4>1. History(e) = {}
        BY <1>8, <1>9, <3>2 DEF InventoryInv, Histories, History
      <4>2. all[e].revision = 0
        <5>1. e - n \in 1 .. Len(chunk) /\ all[e] = Mani!NewRow(chunk[e - n])
          BY <1>9, <3>2
        <5> QED
          BY <1>4, <5>1
      <4> QED
        BY <4>1, <4>2, FS_EmptySet
    <3> QED
      BY <1>9, <3>1, <3>2
  <2>3. \A c \in dispositions : c.op = "disposition" => c.entry \in 1 .. Len(all)
    BY <1>8, <1>9 DEF InventoryInv, Histories
  <2> QED
    BY <1>1, <1>8, <2>1, <2>2, <2>3 DEF InventoryInv, Histories
<1>16. Mani!MappingsMatch'
  <2>1. DOMAIN all = 1 .. Len(all)
    BY <1>9
  <2>2. ASSUME NEW e \in 1 .. Len(all)
        PROVE  /\ all[e].disposition = "mapped" <=> all[e].units # {}
               /\ \A u \in all[e].units : all[e].path \in Refs[u]
    <3>1. CASE e <= n
      BY <1>1, <1>8, <1>9, <3>1 DEF InventoryInv, Mani!MappingsMatch
    <3>2. CASE e > n
      <4>1. e - n \in 1 .. Len(chunk) /\ all[e] = Mani!NewRow(chunk[e - n])
        BY <1>9, <3>2
      <4> QED
        BY <1>4, <4>1
    <3> QED
      BY <1>9, <3>1, <3>2
  <2> QED
    BY <1>8, <2>1, <2>2 DEF Mani!MappingsMatch
<1>17. Mani!AcceptedStandsStep
  BY <1>1, <1>10, <1>12 DEF Mani!AcceptedStandsStep
<1> QED
  BY <1>11, <1>13, <1>14, <1>15, <1>16, <1>17 DEF InventoryInv

\* An accepted disposition adds one to the history of its entry and to its revision.
LEMMA HistoryGrows ==
  ASSUME NEW H, NEW c, NEW revision \in Nat, IsFiniteSet(H),
         {b.expected : b \in H} = 0 .. revision - 1, Cardinality(H) = revision,
         c.expected = revision
  PROVE  /\ {b.expected : b \in H \cup {c}} = 0 .. (revision + 1) - 1
         /\ Cardinality(H \cup {c}) = revision + 1
         /\ \A b \in H \cup {c} : b.expected = (revision + 1) - 1 => b = c
<1>1. \A b \in H : b.expected \in 0 .. revision - 1
  OBVIOUS
<1>2. c \notin H
  BY <1>1
<1>3. Cardinality(H \cup {c}) = revision + 1
  BY <1>2, FS_AddElement
<1>4. {b.expected : b \in H \cup {c}} = {b.expected : b \in H} \cup {revision}
  OBVIOUS
<1>5. 0 .. (revision + 1) - 1 = (0 .. revision - 1) \cup {revision}
  OBVIOUS
<1>6. \A b \in H \cup {c} : b.expected = (revision + 1) - 1 => b = c
  BY <1>1
<1> QED
  BY <1>3, <1>4, <1>5, <1>6

\* The disposition of an entry, new or repeated.
LEMMA ProfileKeeps ==
  ASSUME Mani!ConstantsOK, InventoryInv, NEW j \in Mani!PhaseJobs, NEW key \in MapKeys,
         NEW disposition \in Mani!Dispositions, NEW mapped \in SUBSET MapUnits, NEW e \in DOMAIN rows,
         NEW expected \in 0 .. rows[e].revision,
         Mani!SubmitDisposition(j, key, e, expected, disposition, mapped)
  PROVE  InventoryInv' /\ Mani!AcceptedStandsStep
<1>1. /\ rows \in Seq(ManifestRows) /\ Len(rows) \in Nat /\ DOMAIN rows = 1 .. Len(rows)
      /\ e \in 1 .. Len(rows)
      /\ UNCHANGED <<inventory_jobs, manifest, profile, baseline>>
      /\ rows[e].revision = expected
      /\ disposition = "mapped" <=> mapped # {}
      /\ \A u \in mapped : rows[e].path \in Refs[u]
  BY DEF InventoryInv, InventoryTypes, Mani!SubmitDisposition, Mani!CurrentRevision
<1>2. rows[e] \in ManifestRows
  BY <1>1, ElementOfSeq
<1>3. PICK r : r = [rows[e] EXCEPT !.disposition = disposition, !.units = mapped,
                                   !.revision = rows[e].revision + 1]
  OBVIOUS
<1>4. /\ r \in ManifestRows /\ r.path = rows[e].path /\ r.blob = rows[e].blob
      /\ r.disposition = disposition /\ r.units = mapped /\ r.revision = expected + 1
      /\ expected \in Nat
  <2>1. rows[e].revision \in Nat /\ rows[e].revision + 1 \in Nat
    BY <1>2 DEF ManifestRows
  <2>2. r \in ManifestRows
    BY <1>2, <1>3, <2>1 DEF ManifestRows
  <2>3. /\ r.path = rows[e].path /\ r.blob = rows[e].blob /\ r.disposition = disposition
        /\ r.units = mapped /\ r.revision = rows[e].revision + 1
    BY <1>2, <1>3 DEF ManifestRows
  <2> QED
    BY <1>1, <2>1, <2>2, <2>3
<1>5. PICK n, all : n = Len(rows) /\ all = rows'
  OBVIOUS
<1>6. /\ all \in Seq(ManifestRows) /\ Len(all) = n /\ DOMAIN all = 1 .. n
      /\ all[e] = r /\ \A i \in 1 .. n : i # e => all[i] = rows[i]
  <2>1. rows' = [rows EXCEPT ![e] = r]
    BY <1>3 DEF Mani!SubmitDisposition, Mani!Replaced
  <2>2. /\ [rows EXCEPT ![e] = r] \in Seq(ManifestRows) /\ Len([rows EXCEPT ![e] = r]) = Len(rows)
        /\ \A i \in 1 .. Len(rows) : [rows EXCEPT ![e] = r][i] = IF i = e THEN r ELSE rows[i]
    BY <1>1, <1>4, ExceptSeq
  <2> QED
    BY <1>1, <1>5, <2>1, <2>2
<1>7. PICK c : /\ c.op = "disposition" /\ c.entry = e /\ c.expected = expected
               /\ c.disposition = disposition
               /\ dispositions' = dispositions \cup {c}
  <2>1. PICK c : c = [job |-> j, op |-> "disposition", key |-> key, entry |-> e,
                      expected |-> expected, disposition |-> disposition]
    OBVIOUS
  <2>2. dispositions' = dispositions \cup {c}
    BY <2>1 DEF Mani!SubmitDisposition
  <2>3. c.op = "disposition" /\ c.entry = e /\ c.expected = expected
        /\ c.disposition = disposition
    BY <2>1
  <2> QED
    BY <2>2, <2>3
<1>8. InventoryTypes'
  BY <1>1, <1>5, <1>6 DEF InventoryInv, InventoryTypes
<1>9. \A i \in 1 .. n : all[i].path = rows[i].path /\ all[i].blob = rows[i].blob
  BY <1>1, <1>4, <1>5, <1>6
<1>10. Mani!Members' = Mani!Members /\ Mani!IsPrefix(Mani!Members, Mani!Members')
  BY <1>5, <1>6, <1>8, <1>9, SameMembers DEF InventoryInv
<1>11. Stored'
  <2>1. \A i, k \in 1 .. n : i < k => all[i].path < all[k].path
    BY <1>5, <1>9 DEF InventoryInv, Stored
  <2>2. Mani!Declared' = Mani!Declared /\ rows # <<>>
    BY <1>1 DEF Mani!Declared
  <2>3. Mani!Declared
    BY <2>2 DEF InventoryInv, Stored
  <2> QED
    BY <1>1, <1>5, <1>6, <2>1, <2>2, <2>3 DEF InventoryInv, Stored
<1>12. Mani!SealedIsDeclared'
  BY <1>1, <1>5, <1>6, <1>10 DEF InventoryInv, Mani!SealedIsDeclared
<1>13. Histories'
  <2>1. IsFiniteSet(dispositions) /\ IsFiniteSet(dispositions')
    BY <1>7, FS_AddElement DEF InventoryInv, Histories
  <2>2. \A b \in dispositions' : b.op = "disposition" => b.entry \in 1 .. n
    BY <1>1, <1>5, <1>7 DEF InventoryInv, Histories
  <2>3. ASSUME NEW i \in 1 .. n
        PROVE  /\ {b.expected : b \in History(i)'} = 0 .. all[i].revision - 1
               /\ Cardinality(History(i)') = all[i].revision
               /\ \A b \in History(i)' :
                    b.expected = all[i].revision - 1 => all[i].disposition = b.disposition
    <3>1. CASE i # e
      <4>1. History(i)' = History(i)
        BY <1>7, <3>1 DEF History
      <4> QED
        BY <1>5, <1>6, <3>1, <4>1 DEF InventoryInv, Histories
    <3>2. CASE i = e
      <4>1. PICK H : H = History(e)
        OBVIOUS
      <4>2. History(e)' = H \cup {c}
        BY <1>7, <4>1 DEF History
      <4>3. IsFiniteSet(H)
        <5>1. H \subseteq dispositions
          BY <4>1 DEF History
        <5> QED
          BY <2>1, <5>1, FS_Subset
      <4>4. {b.expected : b \in H} = 0 .. expected - 1 /\ Cardinality(H) = expected
        BY <1>1, <4>1 DEF InventoryInv, Histories
      <4>5. /\ {b.expected : b \in H \cup {c}} = 0 .. (expected + 1) - 1
            /\ Cardinality(H \cup {c}) = expected + 1
            /\ \A b \in H \cup {c} : b.expected = (expected + 1) - 1 => b = c
        BY <1>4, <1>7, <4>3, <4>4, HistoryGrows
      <4>6. all[i].revision = expected + 1 /\ all[i].disposition = c.disposition
        BY <1>4, <1>6, <1>7, <3>2
      <4> QED
        BY <3>2, <4>2, <4>5, <4>6
    <3> QED
      BY <3>1, <3>2
  <2> QED
    BY <1>5, <1>6, <2>1, <2>2, <2>3 DEF Histories
<1>14. Mani!MappingsMatch'
  <2>1. ASSUME NEW i \in 1 .. n
        PROVE  /\ all[i].disposition = "mapped" <=> all[i].units # {}
               /\ \A u \in all[i].units : all[i].path \in Refs[u]
    <3>1. CASE i # e
      BY <1>1, <1>5, <1>6, <3>1 DEF InventoryInv, Mani!MappingsMatch
    <3>2. CASE i = e
      BY <1>1, <1>4, <1>6, <3>2
    <3> QED
      BY <3>1, <3>2
  <2> QED
    BY <1>5, <1>6, <2>1 DEF Mani!MappingsMatch
<1>15. Mani!AcceptedStandsStep
  BY <1>1, <1>10 DEF Mani!AcceptedStandsStep
<1> QED
  BY <1>8, <1>11, <1>12, <1>13, <1>14, <1>15 DEF InventoryInv

-----------------------------------------------------------------------------
\* Every step keeps the invariant.
LEMMA InventoryStep ==
  ASSUME Mani!ConstantsOK, InventoryInv, [Mani!Next]_(Mani!vars)
  PROVE  InventoryInv' /\ Mani!AcceptedStandsStep
<1>1. CASE UNCHANGED Mani!vars
  BY <1>1, JobsMove DEF Mani!vars, InventoryInv, InventoryTypes
<1>2. CASE Mani!Next
  BY <1>2, LeaseMoves, DeclareKeeps, UploadKeeps, SealKeeps, PublishKeeps, ProfileKeeps DEF
       Mani!Next
<1> QED
  BY <1>1, <1>2

\* The invariant implies what the run checks.
LEMMA InventoryImplied ==
  ASSUME Mani!ConstantsOK, InventoryInv
  PROVE  Mani!TypeOK /\ Mani!SealedIsDeclared /\ Mani!NoLostUpdate /\ Mani!MappingsMatch
<1>1. /\ rows \in Seq(ManifestRows) /\ DOMAIN rows = 1 .. Len(rows) /\ Len(rows) \in Nat
      /\ manifest \in Manifests /\ Paths \subseteq Nat
  BY DEF InventoryInv, InventoryTypes, Mani!ConstantsOK
<1>2. \A i \in 1 .. Len(rows) : rows[i] \in ManifestRows
  BY <1>1, ElementOfSeq
<1>3. Mani!Members \in Mani!Listings
  <2>1. PICK s : s = Mani!Members
    OBVIOUS
  <2>2. /\ s \in Seq(Mani!Entries) /\ Len(s) = Len(rows)
        /\ \A i \in 1 .. Len(rows) : s[i] = [path |-> rows[i].path, blob |-> rows[i].blob]
    <3>1. s = Listed(rows)
      BY <2>1 DEF Mani!Members, Listed
    <3> QED
      BY <1>1, <3>1, MembersAre
  <2>3. \A i, k \in 1 .. Len(s) : i < k => s[i].path < s[k].path
    <3> SUFFICES ASSUME NEW i \in 1 .. Len(s), NEW k \in 1 .. Len(s), i < k
                 PROVE  s[i].path < s[k].path
      OBVIOUS
    <3>1. s[i].path = rows[i].path /\ s[k].path = rows[k].path
      <4>1. /\ s[i] = [path |-> rows[i].path, blob |-> rows[i].blob]
            /\ s[k] = [path |-> rows[k].path, blob |-> rows[k].blob]
        BY <2>2
      <4> QED
        BY <4>1
    <3>2. rows[i].path < rows[k].path
      BY <2>2 DEF InventoryInv, Stored
    <3> QED
      BY <3>1, <3>2
  <2>4. Len(s) <= MAX_ENTRIES
    BY <1>1, <2>2 DEF InventoryInv, Stored, Manifests, Mani!ConstantsOK
  <2> QED
    BY <2>1, <2>2, <2>3, <2>4, ListingIs
<1>4. manifest.received \in 0 .. manifest.expected
  BY <1>1 DEF InventoryInv, Stored, Manifests
<1>5. Mani!TypeOK
  BY <1>1, <1>2, <1>3, <1>4 DEF InventoryInv, InventoryTypes, Mani!TypeOK, Manifests, ManifestRows
<1>6. Mani!NoLostUpdate
  BY SameManiCount, <1>1 DEF InventoryInv, Histories, History, Mani!NoLostUpdate
<1> QED
  BY <1>5, <1>6 DEF InventoryInv

\* What a generation's inventory is read by: a sealed manifest is the declared listing
\* whoever uploaded it, the dispositions of an entry were accepted one upon the other, and
\* units are mapped to the paths they refer to.
InventoryHolds == Mani!TypeOK /\ Mani!SealedIsDeclared /\ Mani!NoLostUpdate /\ Mani!MappingsMatch

\* Whichever preparation jobs declare, take over, upload and seal it in whatever pieces,
\* and whichever surveys revise its entries at once, the inventory stays sound
\* (manifest.rs, upload_manifest and seal_manifest; inventory_disposition.rs, replace).
THEOREM InventoryIsSound == Mani!ConstantsOK => (Mani!Spec => []InventoryHolds)
<1> SUFFICES ASSUME Mani!ConstantsOK
             PROVE  Mani!Spec => []InventoryHolds
  OBVIOUS
<1>1. Mani!Init => InventoryInv
  BY InventoryInitially
<1>2. InventoryInv /\ [Mani!Next]_(Mani!vars) => InventoryInv'
  BY InventoryStep
<1>3. InventoryInv => InventoryHolds
  BY InventoryImplied DEF InventoryHolds
<1> QED
  BY <1>1, <1>2, <1>3, PTL DEF Mani!Spec

\* A stored member keeps its place, the descriptor and the seal stand, and a frozen profile
\* is not replaced (manifest.rs, declare_manifest, upload_manifest and publish_profile).
THEOREM InventoryStands == Mani!ConstantsOK => (Mani!Spec => Mani!AcceptedStands)
<1> SUFFICES ASSUME Mani!ConstantsOK
             PROVE  Mani!Spec => Mani!AcceptedStands
  OBVIOUS
<1>1. Mani!Init => InventoryInv
  BY InventoryInitially
<1>2. InventoryInv /\ [Mani!Next]_(Mani!vars) => InventoryInv'
  BY InventoryStep
<1>3. InventoryInv /\ [Mani!Next]_(Mani!vars) => [Mani!AcceptedStandsStep]_(Mani!vars)
  BY InventoryStep
<1> QED
  BY <1>1, <1>2, <1>3, PTL DEF Mani!Spec, Mani!AcceptedStands

(***************************************************************************)
(* The order of the claims                                                  *)
(***************************************************************************)
CONSTANTS
  NWork, Info, Repos, Workers, Reviews, Verifiers, REPO_CAP, TOTAL_CAP, SURVEY_CAP, DRILLDOWN_CAP,
  VERIFY_CAP, VERIFY_RESERVED, BURST, AGING_CAP, RANK_JOBS, RANK_URGENT, RANK_VERIFICATION, RANK_ATTEMPTS,
  MAX_NOW

VARIABLES rank_now, work, rank_spent, burst, recent, passed, borrowed

Rank == INSTANCE ClaimRanking WITH
  MAX_JOBS <- RANK_JOBS, URGENT_RESERVE <- RANK_URGENT, VERIFICATION_RESERVE <- RANK_VERIFICATION,
  MAX_ATTEMPTS <- RANK_ATTEMPTS, now <- rank_now, spent <- rank_spent

\* The instance counts as this module does.
LEMMA SameRankCount ==
  ASSUME NEW S
  PROVE  /\ Rank!IsFiniteSet(S) <=> IsFiniteSet(S)
         /\ Rank!Cardinality(S) = Cardinality(S)
BY DEF Rank!IsFiniteSet, IsFiniteSet, Rank!Cardinality, Cardinality

(***************************************************************************)
(* The best of a set of keys                                                *)
(***************************************************************************)
KeyLen == 10

\* Whole numbers that are bounded from below have a least one.
LEMMA LeastKey ==
  ASSUME NEW S, S # {}, NEW f \in [S -> Int], NEW b \in Nat, \A x \in S : f[x] >= - b
  PROVE  \E x \in S : \A y \in S : f[x] <= f[y]
<1>1. PICK T : T = {f[x] + b : x \in S}
  OBVIOUS
<1>2. T \subseteq Nat /\ T # {}
  <2>1. \A x \in S : f[x] + b \in Nat
    OBVIOUS
  <2> QED
    BY <1>1, <2>1
<1>3. PICK m \in T : \A k \in T : ~ (<<k, m>> \in OpToRel(<, Nat))
  BY <1>2, NatLessThanWellFounded, WFMin
<1>4. \A k \in T : ~ (k < m)
  BY <1>2, <1>3 DEF OpToRel
<1>5. PICK x \in S : m = f[x] + b
  BY <1>1
<1>6. \A y \in S : f[y] + b \in T
  BY <1>1
<1>7. ASSUME NEW y \in S
      PROVE  f[x] <= f[y]
  <2>1. ~ (f[y] + b < m)
    BY <1>4, <1>6
  <2> QED
    BY <1>5, <2>1
<1> QED
  BY <1>7

\* The members of S that are best in the first n places: they agree in them.
Narrowed(K, S, T, n) ==
  /\ T \subseteq S /\ T # {}
  /\ \A x, y \in T : \A m \in 1..n : K[x][m] = K[y][m]
  /\ \A x \in T : \A y \in S \ T :
       \E m \in 1..n : K[x][m] < K[y][m] /\ \A l \in 1..(m - 1) : K[x][l] = K[y][l]

\* Whole keys, bounded from below.
Keyed(K, S, b) == \A x \in S : \A n \in 1..KeyLen : K[x][n] \in Int /\ K[x][n] >= - b

\* Of members that agree so far, those that are best in the next place.
LEMMA NarrowStep ==
  ASSUME NEW S, NEW K, NEW b \in Nat, Keyed(K, S, b), NEW n \in 0..(KeyLen - 1), NEW T, Narrowed(K, S, T, n)
  PROVE  \E U : Narrowed(K, S, U, n + 1)
<1> USE DEF KeyLen
<1>1. T \subseteq S /\ T # {} /\ n + 1 \in 1..KeyLen
  BY DEF Narrowed
<1>2. PICK f : f = [x \in T |-> K[x][n + 1]]
  OBVIOUS
<1>3. f \in [T -> Int] /\ \A x \in T : f[x] >= - b
  BY <1>1, <1>2 DEF Keyed
<1>4. PICK a \in T : \A y \in T : f[a] <= f[y]
  BY <1>1, <1>3, LeastKey
<1>5. PICK U : U = {x \in T : f[x] = f[a]}
  OBVIOUS
<1>6. U \subseteq S /\ U # {} /\ U \subseteq T
  BY <1>1, <1>4, <1>5
<1>7. ASSUME NEW x \in U, NEW y \in U, NEW m \in 1..(n + 1)
      PROVE  K[x][m] = K[y][m]
  <2>1. CASE m = n + 1
    BY <1>2, <1>5, <1>6, <2>1
  <2>2. CASE m \in 1..n
    BY <1>6, <2>2 DEF Narrowed
  <2> QED
    BY <2>1, <2>2
<1>8. ASSUME NEW x \in U, NEW y \in S \ U
      PROVE  \E m \in 1..(n + 1) : K[x][m] < K[y][m] /\ \A l \in 1..(m - 1) : K[x][l] = K[y][l]
  <2>1. CASE y \in T
    <3>1. f[x] = f[a] /\ f[y] # f[a] /\ f[a] <= f[y] /\ f[x] \in Int /\ f[y] \in Int
      BY <1>3, <1>4, <1>5, <1>8, <2>1
    <3>2. K[x][n + 1] < K[y][n + 1]
      BY <1>2, <1>6, <2>1, <3>1
    <3>3. \A l \in 1..n : K[x][l] = K[y][l]
      BY <1>6, <2>1 DEF Narrowed
    <3>4. (n + 1) - 1 = n /\ n + 1 \in 1..(n + 1)
      OBVIOUS
    <3> QED
      BY <3>2, <3>3, <3>4
  <2>2. CASE y \notin T
    <3>1. PICK m \in 1..n : K[x][m] < K[y][m] /\ \A l \in 1..(m - 1) : K[x][l] = K[y][l]
      BY <1>6, <2>2 DEF Narrowed
    <3>2. m \in 1..(n + 1)
      OBVIOUS
    <3> QED
      BY <3>1, <3>2
  <2> QED
    BY <2>1, <2>2
<1> QED
  BY <1>6, <1>7, <1>8 DEF Narrowed

\* So place by place all but the best are left out.
LEMMA NarrowAll ==
  ASSUME NEW S, S # {}, NEW K, NEW b \in Nat, Keyed(K, S, b)
  PROVE  \E T : Narrowed(K, S, T, KeyLen)
<1> USE DEF KeyLen
<1>1. PICK D : D = {d \in 0..KeyLen : \E T : Narrowed(K, S, T, KeyLen - d)}
  OBVIOUS
<1>2. Narrowed(K, S, S, 0)
  BY DEF Narrowed
<1>3. KeyLen \in D
  BY <1>1, <1>2
<1>4. D \subseteq Nat /\ D # {}
  BY <1>1, <1>3
<1>5. PICK d \in D : \A k \in D : ~ (k < d)
  <2>1. PICK d \in D : \A k \in D : ~ (<<k, d>> \in OpToRel(<, Nat))
    BY <1>4, NatLessThanWellFounded, WFMin
  <2> QED
    BY <1>4, <2>1 DEF OpToRel
<1>6. PICK T : Narrowed(K, S, T, KeyLen - d)
  BY <1>1
<1>7. CASE d = 0
  BY <1>6, <1>7
<1>8. CASE d # 0
  <2>1. KeyLen - d \in 0..(KeyLen - 1) /\ d - 1 \in 0..KeyLen /\ (KeyLen - d) + 1 = KeyLen - (d - 1) /\ d - 1 < d
    BY <1>1, <1>8
  <2>2. PICK n : n = KeyLen - d
    OBVIOUS
  <2>3. \E U : Narrowed(K, S, U, n + 1)
    BY <1>6, <2>1, <2>2, NarrowStep
  <2>4. d - 1 \in D
    BY <1>1, <2>1, <2>2, <2>3
  <2> QED
    BY <1>5, <2>1, <2>4
<1> QED
  BY <1>7, <1>8

\* A sequence without one of its members has its other members once each.
LEMMA Removed ==
  ASSUME NEW S, NEW s \in Seq(S), Rank!IsInjective(s), NEW e
  PROVE  /\ Rank!RemoveFirst(s, e) \in Seq(S) /\ Rank!IsInjective(Rank!RemoveFirst(s, e))
         /\ \A i \in DOMAIN Rank!RemoveFirst(s, e) : Rank!RemoveFirst(s, e)[i] # e
<1>1. CASE ~\E i \in 1..Len(s) : s[i] = e
  <2>1. Rank!RemoveFirst(s, e) = s
    BY <1>1 DEF Rank!RemoveFirst
  <2> QED
    BY <1>1, <2>1
<1>2. CASE \E i \in 1..Len(s) : s[i] = e
  <2>1. PICK I : I = {i \in 1..Len(s) : s[i] = e}
    OBVIOUS
  <2>2. PICK i \in 1..Len(s) : s[i] = e
    BY <1>2
  <2>3. I = {i} /\ I # {}
    BY <2>1, <2>2 DEF Rank!IsInjective
  <2>4. Rank!Min(I) = i
    BY <2>2, <2>3 DEF Rank!Min
  <2>5. Rank!SelectInSeq(s, LAMBDA v : v = e) = i
    BY <2>1, <2>3, <2>4 DEF Rank!SelectInSeq
  <2>6. Rank!RemoveFirst(s, e) = SubSeq(s, 1, i - 1) \o SubSeq(s, i + 1, Len(s))
    BY <1>2, <2>5 DEF Rank!RemoveFirst, Rank!RemoveAt
  <2>7. PICK t : t = SubSeq(s, 1, i - 1) \o SubSeq(s, i + 1, Len(s))
    OBVIOUS
  <2>8. /\ t \in Seq(S) /\ DOMAIN t = 1..(Len(s) - 1)
        /\ \A j \in DOMAIN t : t[j] = IF j < i THEN s[j] ELSE s[j + 1]
    <3>1. PICK a, b : a = SubSeq(s, 1, i - 1) /\ b = SubSeq(s, i + 1, Len(s))
      OBVIOUS
    <3>2. a \in Seq(S) /\ Len(a) = i - 1 /\ \A j \in 1..(i - 1) : a[j] = s[j]
      BY <2>2, <3>1, SubSeqProperties
    <3>3. b \in Seq(S) /\ Len(b) = Len(s) - i /\ \A j \in 1..(Len(s) - i) : b[j] = s[i + j]
      BY <2>2, <3>1, SubSeqProperties
    <3>4. t = a \o b
      BY <2>7, <3>1
    <3>5. t \in Seq(S) /\ Len(t) = Len(s) - 1
      <4>1. a \o b \in Seq(S) /\ Len(a \o b) = Len(a) + Len(b)
        BY <3>2, <3>3, ConcatProperties
      <4> QED
        BY <2>2, <3>2, <3>3, <3>4, <4>1
    <3>6. \A j \in 1..(Len(s) - 1) : t[j] = IF j < i THEN s[j] ELSE s[j + 1]
      <4> SUFFICES ASSUME NEW j \in 1..(Len(s) - 1)
                   PROVE  t[j] = IF j < i THEN s[j] ELSE s[j + 1]
        OBVIOUS
      <4>1. t[j] = IF j <= Len(a) THEN a[j] ELSE b[j - Len(a)]
        BY <2>2, <3>2, <3>3, <3>4, ConcatProperties
      <4>2. CASE j < i
        BY <2>2, <3>2, <4>1, <4>2
      <4>3. CASE ~(j < i)
        <5>1. j - Len(a) \in 1..(Len(s) - i) /\ i + (j - Len(a)) = j + 1
          BY <2>2, <3>2, <4>3
        <5> QED
          BY <2>2, <3>2, <3>3, <4>1, <4>3, <5>1
      <4> QED
        BY <4>2, <4>3
    <3> QED
      BY <3>5, <3>6
  <2>9. \A j \in DOMAIN t : \E m \in 1..Len(s) :
           t[j] = s[m] /\ m # i /\ m = (IF j < i THEN j ELSE j + 1)
    BY <2>2, <2>8
  <2>10. \A j \in DOMAIN t : t[j] # e
    BY <2>2, <2>9 DEF Rank!IsInjective
  <2>11. Rank!IsInjective(t)
    <3> SUFFICES ASSUME NEW a \in DOMAIN t, NEW b \in DOMAIN t, t[a] = t[b]
                 PROVE  a = b
      BY DEF Rank!IsInjective
    <3>1. PICK m \in 1..Len(s) : t[a] = s[m] /\ m = (IF a < i THEN a ELSE a + 1)
      BY <2>9
    <3>2. PICK n \in 1..Len(s) : t[b] = s[n] /\ n = (IF b < i THEN b ELSE b + 1)
      BY <2>9
    <3>3. m = n
      <4>1. DOMAIN s = 1..Len(s)
        OBVIOUS
      <4>2. s[m] = s[n]
        BY <3>1, <3>2, Zenon
      <4> QED
        BY <4>1, <4>2 DEF Rank!IsInjective
    <3> QED
      BY <2>2, <2>8, <3>1, <3>2, <3>3
  <2> QED
    BY <2>6, <2>7, <2>8, <2>10, <2>11
<1> QED
  BY <1>1, <1>2

\* A member added to a sequence that does not have it is in it once.
LEMMA Added ==
  ASSUME NEW S, NEW s \in Seq(S), Rank!IsInjective(s), NEW e \in S, \A i \in DOMAIN s : s[i] # e
  PROVE  Append(s, e) \in Seq(S) /\ Rank!IsInjective(Append(s, e))
<1>1. /\ Append(s, e) \in Seq(S) /\ DOMAIN Append(s, e) = 1..(Len(s) + 1) /\ DOMAIN s = 1..Len(s)
      /\ Append(s, e)[Len(s) + 1] = e /\ \A i \in 1..Len(s) : Append(s, e)[i] = s[i]
  OBVIOUS
<1> QED
  BY <1>1 DEF Rank!IsInjective

(***************************************************************************)
(* The first candidate                                                      *)
(***************************************************************************)
\* The attempts of work that has no job; claims that passed over a survey count in the burst
\* under way, or in one that another worker's claim ended.
RankInv ==
  /\ Rank!TypeOK
  /\ \A i \in Rank!Work : work[i].state \in {"none", "fresh"} => work[i].attempts = 0
  /\ \A r \in Repos : passed[r] <= burst[r] + (BURST + 1) * borrowed[r]

\* What TypeOK says of a source, a repository and the clock, in the form the steps use.
LEMMA RankTypes ==
  ASSUME Rank!ConstantsOK, Rank!TypeOK
  PROVE  /\ rank_now \in Nat
         /\ \A i \in Rank!Work : /\ i \in Nat /\ Info[i].repo \in Repos /\ Info[i].kind \in Rank!Kinds
                             /\ Info[i].band \in 0..3 /\ Info[i].legacy \in BOOLEAN
                             /\ work[i].state \in {"none", "fresh", "queued", "leased"}
                             /\ work[i].since \in 0..MAX_NOW /\ work[i].since \in Nat
                             /\ work[i].attempts \in 0..RANK_ATTEMPTS
                             /\ work[i].worker \in Workers \cup {None}
         /\ \A r \in Repos : /\ burst[r] \in 0..BURST /\ passed[r] \in Nat /\ borrowed[r] \in Nat
                             /\ \A p \in Rank!Pools : rank_spent[r][p] \in 0..RANK_JOBS
         /\ IsFiniteSet(Rank!Work)
<1>1. NWork \in Int /\ 1 \in Int /\ Rank!Work = 1..NWork
  BY DEF Rank!ConstantsOK, Rank!Work
<1>2. IsFiniteSet(Rank!Work)
  BY <1>1, FS_Interval
<1>3. \A i \in Rank!Work : /\ i \in Nat /\ Info[i].repo \in Repos /\ Info[i].kind \in Rank!Kinds
                      /\ Info[i].band \in 0..3 /\ Info[i].legacy \in BOOLEAN
  BY <1>1 DEF Rank!ConstantsOK, Rank!Bands
<1>4. \A i \in Rank!Work : /\ work[i].state \in {"none", "fresh", "queued", "leased"}
                      /\ work[i].since \in 0..MAX_NOW /\ work[i].attempts \in 0..RANK_ATTEMPTS
                      /\ work[i].worker \in Workers \cup {None}
  BY DEF Rank!TypeOK
<1>5. \A r \in Repos : /\ burst[r] \in 0..BURST /\ passed[r] \in Nat /\ borrowed[r] \in Nat
                       /\ \A p \in Rank!Pools : rank_spent[r][p] \in 0..RANK_JOBS
  BY DEF Rank!TypeOK
<1> QED
  BY <1>2, <1>3, <1>4, <1>5 DEF Rank!TypeOK, Rank!ConstantsOK

\* The leased jobs of the campaigns, and some of them, can be counted.
LEMMA LeasedFinite ==
  ASSUME Rank!ConstantsOK, NEW S, S \subseteq Rank!Work
  PROVE  IsFiniteSet(S) /\ Cardinality(S) \in Nat
<1>1. NWork \in Int /\ 1 \in Int /\ Rank!Work = 1..NWork
  BY DEF Rank!ConstantsOK, Rank!Work
<1>2. IsFiniteSet(Rank!Work)
  BY <1>1, FS_Interval
<1>3. IsFiniteSet(S)
  BY <1>2, FS_Subset
<1> QED
  BY <1>3, FS_CardinalityType

\* A repository's place among the last claims is a number.
LEMMA LastClaimTyped ==
  ASSUME Rank!ConstantsOK, Rank!TypeOK, NEW r
  PROVE  Rank!LastClaim(r) \in Nat
<1>1. DOMAIN recent \subseteq Nat
  BY DEF Rank!TypeOK
<1> QED
  BY <1>1 DEF Rank!LastClaim

\* Rank keys are whole numbers and bounded from below.
LEMMA KeyTyped ==
  ASSUME Rank!ConstantsOK, Rank!TypeOK, NEW i \in Rank!Work, NEW w
  PROVE  /\ DOMAIN Rank!RankKey(i, w) = 1..KeyLen /\ Rank!RankKey(i, w)[KeyLen] = i
         /\ Rank!RankKey(i, w)[1] = IF Rank!BurstPromoted(i) THEN 0 ELSE 1
         /\ \A n \in 1..KeyLen : Rank!RankKey(i, w)[n] \in Int /\ Rank!RankKey(i, w)[n] >= - (AGING_CAP + 1)
<1>1. AGING_CAP \in Nat /\ i \in Nat /\ rank_now \in Nat /\ work[i].since \in Nat /\ Info[i].band \in 0..3
  BY RankTypes DEF Rank!ConstantsOK
<1>2. Rank!ActiveIn(Info[i].repo) \in Nat
  BY SameRankCount, LeasedFinite DEF Rank!ActiveIn, Rank!Leased, Rank!Campaigned
<1>3. Rank!LastClaim(Info[i].repo) \in Nat
  BY LastClaimTyped
<1>4. Rank!AntiAffinity(i, w) \in {0, 1}
  BY DEF Rank!AntiAffinity
<1>5. PICK k7 : k7 = IF Info[i].legacy THEN (IF Info[i].kind = "verify" THEN -1 ELSE 0)
                    ELSE - Rank!Smaller(Rank!Age(i), AGING_CAP)
  OBVIOUS
<1>6. k7 \in Int /\ k7 >= - (AGING_CAP + 1)
  <2>1. Rank!Age(i) \in Int
    BY <1>1 DEF Rank!Age
  <2> QED
    BY <1>1, <1>5, <2>1 DEF Rank!Smaller
<1>7. Rank!RankKey(i, w) =
        << IF Rank!BurstPromoted(i) THEN 0 ELSE 1,
           IF Rank!BurstPromoted(i) THEN work[i].since ELSE 0,
           IF Info[i].legacy THEN 2 ELSE Info[i].band,
           Rank!AntiAffinity(i, w),
           IF Info[i].legacy THEN 0 ELSE Rank!ActiveIn(Info[i].repo),
           IF Info[i].legacy THEN 0 ELSE Rank!LastClaim(Info[i].repo),
           k7,
           work[i].since,
           IF work[i].state = "queued" THEN 0 ELSE 1,
           i >>
  BY <1>5 DEF Rank!RankKey
<1> HIDE DEF Rank!AntiAffinity, Rank!ActiveIn, Rank!LastClaim, Rank!BurstPromoted
<1>8. DOMAIN Rank!RankKey(i, w) = 1..KeyLen
  BY <1>7 DEF KeyLen
<1> QED
  BY <1>1, <1>2, <1>3, <1>4, <1>6, <1>7, <1>8 DEF KeyLen

\* The ranking has a first candidate: keys differ in their last place, and are bounded below.
LEMMA FirstIsBest ==
  ASSUME Rank!ConstantsOK, Rank!TypeOK, NEW w, Rank!Candidates(w) # {}
  PROVE  /\ Rank!First(w) \in Rank!Candidates(w)
         /\ \A d \in Rank!Candidates(w) \ {Rank!First(w)} : Rank!Better(Rank!RankKey(Rank!First(w), w), Rank!RankKey(d, w))
<1>1. PICK K : K = [i \in Rank!Candidates(w) |-> Rank!RankKey(i, w)]
  OBVIOUS
<1>2. Rank!Candidates(w) \subseteq Rank!Work /\ AGING_CAP + 1 \in Nat
  BY DEF Rank!Candidates, Rank!ConstantsOK
<1>3. \A i \in Rank!Candidates(w) : K[i] = Rank!RankKey(i, w) /\ DOMAIN K[i] = 1..KeyLen /\ K[i][KeyLen] = i
  BY <1>1, <1>2, KeyTyped
<1>4. Keyed(K, Rank!Candidates(w), AGING_CAP + 1)
  BY <1>2, <1>3, KeyTyped DEF Keyed
<1>5. PICK T : Narrowed(K, Rank!Candidates(w), T, KeyLen)
  BY <1>2, <1>4, NarrowAll
<1>6. PICK a : a \in T
  BY <1>5 DEF Narrowed
<1>7. a \in Rank!Candidates(w) /\ T = {a}
  BY <1>3, <1>5, <1>6 DEF Narrowed, KeyLen
<1>8. ASSUME NEW d \in Rank!Candidates(w) \ {a}
      PROVE  Rank!Better(Rank!RankKey(a, w), Rank!RankKey(d, w))
  <2>1. PICK m \in 1..KeyLen : K[a][m] < K[d][m] /\ \A l \in 1..(m - 1) : K[a][l] = K[d][l]
    BY <1>5, <1>6, <1>7 DEF Narrowed
  <2> QED
    BY <1>3, <1>7, <2>1 DEF Rank!Better
<1>9. PICK ranked : ranked = {<<i, Rank!RankKey(i, w)>> : i \in Rank!Candidates(w)}
  OBVIOUS
<1>10. \E c \in ranked : \A d \in ranked \ {c} : Rank!Better(c[2], d[2])
  <2>1. <<a, Rank!RankKey(a, w)>> \in ranked
    BY <1>7, <1>9
  <2>2. ASSUME NEW d \in ranked \ {<<a, Rank!RankKey(a, w)>>}
        PROVE  Rank!Better(<<a, Rank!RankKey(a, w)>>[2], d[2])
    <3>1. PICK e \in Rank!Candidates(w) : d = <<e, Rank!RankKey(e, w)>>
      BY <1>9
    <3>2. e # a
      BY <2>2, <3>1
    <3>3. Rank!Better(Rank!RankKey(a, w), Rank!RankKey(e, w))
      BY <1>8, <3>2
    <3> QED
      BY <3>1, <3>3
  <2> QED
    BY <2>1, <2>2
<1>11. PICK c : c = CHOOSE x \in ranked : \A d \in ranked \ {x} : Rank!Better(x[2], d[2])
  OBVIOUS
<1>12. c \in ranked /\ \A d \in ranked \ {c} : Rank!Better(c[2], d[2])
  BY <1>10, <1>11
<1>13. Rank!First(w) = c[1]
  BY <1>9, <1>11 DEF Rank!First
<1>14. PICK i \in Rank!Candidates(w) : c = <<i, Rank!RankKey(i, w)>>
  BY <1>9, <1>12
<1>15. ASSUME NEW d \in Rank!Candidates(w) \ {i}
       PROVE  Rank!Better(Rank!RankKey(i, w), Rank!RankKey(d, w))
  <2>1. <<d, Rank!RankKey(d, w)>> \in ranked \ {c}
    BY <1>9, <1>14
  <2>2. Rank!Better(c[2], <<d, Rank!RankKey(d, w)>>[2])
    BY <1>12, <2>1
  <2> QED
    BY <1>14, <2>2
<1> QED
  BY <1>13, <1>14, <1>15

\* A survey that was passed over for long enough comes before other work.
LEMMA PromotedFirst ==
  ASSUME Rank!ConstantsOK, Rank!TypeOK, NEW w, NEW s \in Rank!Candidates(w), Rank!BurstPromoted(s)
  PROVE  Rank!BurstPromoted(Rank!First(w))
<1>1. Rank!First(w) \in Rank!Work /\ s \in Rank!Work
      /\ (Rank!First(w) # s => Rank!Better(Rank!RankKey(Rank!First(w), w), Rank!RankKey(s, w)))
  BY FirstIsBest DEF Rank!Candidates
<1>2. Rank!RankKey(s, w)[1] = 0 /\ Rank!RankKey(Rank!First(w), w)[1] = (IF Rank!BurstPromoted(Rank!First(w)) THEN 0 ELSE 1)
      /\ DOMAIN Rank!RankKey(Rank!First(w), w) = 1..KeyLen
  BY <1>1, KeyTyped
<1>3. CASE Rank!First(w) # s /\ ~ Rank!BurstPromoted(Rank!First(w))
  <2>1. PICK n \in 1..KeyLen : /\ Rank!RankKey(Rank!First(w), w)[n] < Rank!RankKey(s, w)[n]
                              /\ \A m \in 1..(n - 1) : Rank!RankKey(Rank!First(w), w)[m] = Rank!RankKey(s, w)[m]
    BY <1>1, <1>2, <1>3 DEF Rank!Better
  <2>2. CASE n = 1
    BY <1>2, <1>3, <2>1, <2>2
  <2>3. CASE n # 1
    <3>1. 1 \in 1..(n - 1)
      BY <2>3 DEF KeyLen
    <3> QED
      BY <1>2, <1>3, <2>1, <3>1
  <2> QED
    BY <2>2, <2>3
<1> QED
  BY <1>3

(***************************************************************************)
(* The invariant                                                            *)
(***************************************************************************)
\* Work the query counts as paid for finds a pool.
LEMMA FundedHasPool ==
  ASSUME Rank!ConstantsOK, Rank!TypeOK, NEW i \in Rank!Work, Rank!Fundable(i)
  PROVE  /\ Rank!ChoosePool(i) \in Rank!Pools /\ Rank!ChoosePool(i) # None
         /\ rank_spent[Info[i].repo][Rank!ChoosePool(i)] < RANK_JOBS
<1>1. PICK s : s = rank_spent[Info[i].repo]
  OBVIOUS
<1>2. s["general"] \in Nat /\ s["urgent"] \in Nat /\ s["verification"] \in Nat
  BY <1>1, RankTypes DEF Rank!Pools
<1>3. {RANK_JOBS, RANK_URGENT, RANK_VERIFICATION} \subseteq Nat /\ RANK_URGENT + RANK_VERIFICATION < RANK_JOBS
  BY DEF Rank!ConstantsOK
<1>4. PICK cap : cap = [general |-> Rank!GeneralCap, urgent |-> RANK_URGENT, verification |-> RANK_VERIFICATION]
  OBVIOUS
<1>5. PICK open : open = {p \in Rank!Pools : /\ s["general"] + s["urgent"] + s["verification"] # RANK_JOBS
                                        /\ Rank!MayDraw(i, p) /\ s[p] < cap[p]}
  OBVIOUS
<1>6. Rank!ChoosePool(i) = IF "general" \in open THEN "general"
                      ELSE IF "verification" \in open THEN "verification"
                      ELSE IF "urgent" \in open THEN "urgent" ELSE None
  BY <1>1, <1>4, <1>5 DEF Rank!ChoosePool
<1>7. open # {}
  <2>1. s["general"] + s["urgent"] + s["verification"] # RANK_JOBS
    BY <1>1, <1>2, <1>3 DEF Rank!Fundable
  <2>2. \E p \in Rank!Pools : Rank!MayDraw(i, p) /\ s[p] < cap[p]
    BY <1>1, <1>4 DEF Rank!Fundable, Rank!MayDraw, Rank!Pools
  <2> QED
    BY <1>5, <2>1, <2>2
<1>8. open \subseteq Rank!Pools
  BY <1>5
<1>9. Rank!ChoosePool(i) \in open
  BY <1>6, <1>7, <1>8 DEF Rank!Pools
<1>10. \A p \in open : s[p] < RANK_JOBS
  BY <1>2, <1>3, <1>4, <1>5 DEF Rank!Pools, Rank!GeneralCap
<1> QED
  BY <1>1, <1>8, <1>9, <1>10 DEF Rank!ConstantsOK

\* What a claim may take: of a campaign, what is paid for or can be, in a repository with a
\* slot left, and other than a verification only beside the slots kept for these.
LEMMA CandidateIs ==
  ASSUME Rank!ConstantsOK, Rank!TypeOK, NEW w, NEW i \in Rank!Candidates(w)
  PROVE  /\ i \in Rank!Work /\ work[i].state \in {"queued", "fresh"}
         /\ work[i].state = "fresh" => ~ Info[i].legacy /\ Rank!Fundable(i)
         /\ ~ Info[i].legacy /\ work[i].state = "queued" => work[i].attempts < RANK_ATTEMPTS
         /\ ~ Info[i].legacy /\ Info[i].kind # "verify" /\ Rank!VerifyWaits(Info[i].repo) => Rank!WithinReserve(i)
BY DEF Rank!Candidates, Rank!Offered, Rank!Eligible

\* The claim's first candidate is never one the charge refuses.
LEMMA FirstIsPaid == Rank!ConstantsOK /\ Rank!TypeOK => Rank!NoBarrenClaim
<1> SUFFICES ASSUME Rank!ConstantsOK, Rank!TypeOK, NEW w \in Workers, Rank!Candidates(w) # {}, work[Rank!First(w)].state = "fresh"
             PROVE  Rank!ChoosePool(Rank!First(w)) # None
  BY DEF Rank!NoBarrenClaim
<1>1. Rank!First(w) \in Rank!Candidates(w)
  BY FirstIsBest
<1>2. Rank!First(w) \in Rank!Work /\ Rank!Fundable(Rank!First(w))
  BY <1>1, CandidateIs
<1> QED
  BY <1>2, FundedHasPool

\* The invariant holds before the first claim.
LEMMA RankBegins == Rank!ConstantsOK /\ Rank!Init => RankInv
<1> SUFFICES ASSUME Rank!ConstantsOK, Rank!Init
             PROVE  RankInv
  OBVIOUS
<1>1. {MAX_NOW, BURST, RANK_JOBS, RANK_ATTEMPTS} \subseteq Nat
  BY DEF Rank!ConstantsOK
<1>2. recent \in Seq(Repos) /\ Rank!IsInjective(recent)
  BY DEF Rank!Init, Rank!IsInjective
<1>3. Rank!TypeOK
  BY <1>1, <1>2 DEF Rank!Init, Rank!TypeOK
<1>4. 0 <= 0 + (BURST + 1) * 0
  BY <1>1
<1>5. \A r \in Repos : passed[r] = 0 /\ burst[r] = 0 /\ borrowed[r] = 0
  BY DEF Rank!Init
<1> QED
  BY <1>3, <1>4, <1>5 DEF Rank!Init, RankInv

\* Steps that change one row of the work and nothing of the turns.
LEMMA SourceRowKeeps ==
  ASSUME Rank!ConstantsOK, RankInv, NEW i \in Rank!Work, NEW row,
         row \in [state : {"none", "fresh", "queued", "leased"}, since : 0..MAX_NOW,
                  attempts : 0..RANK_ATTEMPTS, worker : Workers \cup {None}],
         row.state \in {"none", "fresh"} => row.attempts = 0,
         work' = [work EXCEPT ![i] = row], UNCHANGED <<rank_now, rank_spent, burst, recent, passed, borrowed>>
  PROVE  RankInv'
<1>1. Rank!TypeOK'
  BY DEF RankInv, Rank!TypeOK
<1>2. \A j \in Rank!Work : work'[j] = IF j = i THEN row ELSE work[j]
  BY DEF RankInv, Rank!TypeOK
<1> QED
  BY <1>1, <1>2 DEF RankInv

\* Work arrives, ends or is queued again.
LEMMA ArrivalKeeps ==
  ASSUME Rank!ConstantsOK, RankInv, NEW i \in Rank!Work, Rank!Arrive(i) \/ Rank!Finish(i) \/ Rank!Requeue(i)
  PROVE  RankInv'
<1>1. PICK r : r = work[i]
  OBVIOUS
<1>2. r \in [state : {"none", "fresh", "queued", "leased"}, since : 0..MAX_NOW,
             attempts : 0..RANK_ATTEMPTS, worker : Workers \cup {None}]
      /\ rank_now \in 0..MAX_NOW /\ RANK_ATTEMPTS \in Nat
      /\ (r.state \in {"none", "fresh"} => r.attempts = 0)
  BY <1>1 DEF RankInv, Rank!TypeOK, Rank!ConstantsOK
<1>3. CASE Rank!Arrive(i)
  <2>1. PICK s \in {"queued", "fresh"} : work' = [work EXCEPT ![i] = [r EXCEPT !.state = s, !.since = rank_now]]
    BY <1>1, <1>3 DEF Rank!Arrive, RankInv, Rank!TypeOK
  <2> QED
    BY <1>1, <1>2, <1>3, <2>1, SourceRowKeeps DEF Rank!Arrive
<1>4. CASE Rank!Finish(i)
  <2>1. work' = [work EXCEPT ![i] = [r EXCEPT !.state = "none", !.attempts = 0]]
    BY <1>1, <1>4 DEF Rank!Finish, RankInv, Rank!TypeOK
  <2>2. PICK row : row = [r EXCEPT !.state = "none", !.attempts = 0]
    OBVIOUS
  <2>3. /\ row \in [state : {"none", "fresh", "queued", "leased"}, since : 0..MAX_NOW,
                    attempts : 0..RANK_ATTEMPTS, worker : Workers \cup {None}]
        /\ row.attempts = 0
    <3>1. 0 \in 0..RANK_ATTEMPTS
      BY <1>2
    <3>2. row = [state |-> "none", since |-> r.since, attempts |-> 0, worker |-> r.worker]
      BY <1>2, <2>2
    <3>3. r.since \in 0..MAX_NOW /\ r.worker \in Workers \cup {None}
      BY <1>2
    <3> QED
      BY <3>1, <3>2, <3>3
  <2> QED
    BY <1>4, <2>1, <2>2, <2>3, SourceRowKeeps DEF Rank!Finish
<1>5. CASE Rank!Requeue(i)
  <2>1. work' = [work EXCEPT ![i] = [r EXCEPT !.state = "queued"]]
    BY <1>1, <1>5 DEF Rank!Requeue, RankInv, Rank!TypeOK
  <2> QED
    BY <1>2, <1>5, <2>1, SourceRowKeeps DEF Rank!Requeue
<1> QED
  BY <1>3, <1>4, <1>5

\* A legacy job is claimed.
LEMMA LegacyKeeps ==
  ASSUME Rank!ConstantsOK, RankInv, NEW w \in Workers, Rank!ClaimLegacy(w)
  PROVE  RankInv'
<1>1. PICK i : i = Rank!First(w)
  OBVIOUS
<1>2. i \in Rank!Work
  BY <1>1, FirstIsBest, CandidateIs DEF Rank!ClaimLegacy, RankInv
<1>3. PICK r : r = work[i]
  OBVIOUS
<1>4. r \in [state : {"none", "fresh", "queued", "leased"}, since : 0..MAX_NOW,
             attempts : 0..RANK_ATTEMPTS, worker : Workers \cup {None}]
  BY <1>2, <1>3 DEF RankInv, Rank!TypeOK
<1>5. work' = [work EXCEPT ![i] = [r EXCEPT !.state = "leased"]]
  BY <1>1, <1>2, <1>3 DEF Rank!ClaimLegacy, RankInv, Rank!TypeOK
<1> QED
  BY <1>2, <1>4, <1>5, SourceRowKeeps DEF Rank!ClaimLegacy

\* A claim of a campaign's work takes its first candidate, charges it if it is new, and
\* counts the turn of its repository.
LEMMA TurnKeeps ==
  ASSUME Rank!ConstantsOK, RankInv, NEW w \in Workers, Rank!Claim(w)
  PROVE  RankInv'
<1>1. PICK i : i = Rank!First(w)
  OBVIOUS
<1>2. PICK r : r = Info[i].repo
  OBVIOUS
<1>3. PICK fresh \in BOOLEAN : fresh = (work[i].state = "fresh")
  OBVIOUS
<1>4. Rank!TypeOK /\ i \in Rank!Candidates(w) /\ i \in Rank!Work /\ r \in Repos /\ ~ Info[i].legacy
  <2>1. Rank!TypeOK
    BY DEF RankInv
  <2>2. i \in Rank!Candidates(w)
    BY <1>1, <2>1, FirstIsBest DEF Rank!Claim
  <2>3. i \in Rank!Work
    BY <2>1, <2>2, CandidateIs
  <2> QED
    BY <1>1, <1>2, <2>1, <2>2, <2>3, RankTypes DEF Rank!Claim
<1>5. /\ work' = [work EXCEPT ![i].state = "leased", ![i].attempts = @ + 1,
                             ![i].since = IF fresh THEN rank_now ELSE @,
                             ![i].worker = IF Info[i].kind = "drilldown" THEN w ELSE @]
      /\ rank_spent' = IF fresh THEN [rank_spent EXCEPT ![r][Rank!ChoosePool(i)] = @ + 1] ELSE rank_spent
      /\ burst' = [burst EXCEPT ![r] = Rank!NextBurst(i)]
      /\ recent' = Append(Rank!RemoveFirst(recent, r), r)
      /\ passed' = [passed EXCEPT ![r] = Rank!NextPassed(i)]
      /\ borrowed' = [borrowed EXCEPT ![r] = Rank!NextBorrowed(w, i)]
      /\ rank_now' = rank_now
  BY <1>1, <1>2, <1>3 DEF Rank!Claim
<1>6. work' \in [Rank!Work -> [state : {"none", "fresh", "queued", "leased"}, since : 0..MAX_NOW,
                         attempts : 0..RANK_ATTEMPTS, worker : Workers \cup {None}]]
      /\ \A j \in Rank!Work : work'[j].state \in {"none", "fresh"} => work'[j].attempts = 0
  <2>1. PICK v : v = work[i]
    OBVIOUS
  <2>2. /\ v \in [state : {"none", "fresh", "queued", "leased"}, since : 0..MAX_NOW,
                  attempts : 0..RANK_ATTEMPTS, worker : Workers \cup {None}]
        /\ rank_now \in 0..MAX_NOW /\ RANK_ATTEMPTS \in Nat \ {0}
        /\ v.attempts + 1 \in 0..RANK_ATTEMPTS
    <3>1. /\ v \in [state : {"none", "fresh", "queued", "leased"}, since : 0..MAX_NOW,
                    attempts : 0..RANK_ATTEMPTS, worker : Workers \cup {None}]
          /\ rank_now \in 0..MAX_NOW /\ RANK_ATTEMPTS \in Nat \ {0}
      BY <1>4, <2>1 DEF Rank!TypeOK, Rank!ConstantsOK
    <3>2. (v.state = "queued" /\ v.attempts < RANK_ATTEMPTS) \/ (v.state = "fresh" /\ v.attempts = 0)
      <4>1. v.state \in {"queued", "fresh"} /\ (v.state = "queued" => v.attempts < RANK_ATTEMPTS)
        BY <1>4, <2>1, CandidateIs
      <4>2. v.state = "fresh" => v.attempts = 0
        BY <1>4, <2>1 DEF RankInv
      <4> QED
        BY <4>1, <4>2
    <3> QED
      BY <3>1, <3>2
  <2>3. PICK u : u = [v EXCEPT !.state = "leased", !.attempts = @ + 1,
                              !.since = IF fresh THEN rank_now ELSE @,
                              !.worker = IF Info[i].kind = "drilldown" THEN w ELSE @]
    OBVIOUS
  <2>4. u \in [state : {"none", "fresh", "queued", "leased"}, since : 0..MAX_NOW,
               attempts : 0..RANK_ATTEMPTS, worker : Workers \cup {None}] /\ u.state = "leased"
    BY <2>2, <2>3
  <2>5. work' = [work EXCEPT ![i] = u]
    BY <1>4, <1>5, <2>1, <2>3 DEF Rank!TypeOK
  <2> QED
    BY <1>4, <2>4, <2>5 DEF Rank!TypeOK, RankInv
<1>7. rank_spent' \in [Repos -> [Rank!Pools -> 0..RANK_JOBS]]
  <2>1. CASE ~ fresh
    BY <1>4, <1>5, <2>1 DEF Rank!TypeOK
  <2>2. CASE fresh
    <3>1. Rank!ChoosePool(i) \in Rank!Pools /\ rank_spent[r][Rank!ChoosePool(i)] < RANK_JOBS
      BY <1>2, <1>3, <1>4, <2>2, CandidateIs, FundedHasPool
    <3>2. PICK p \in Rank!Pools : p = Rank!ChoosePool(i)
      BY <3>1
    <3>3. rank_spent[r][p] \in 0..RANK_JOBS /\ rank_spent[r][p] < RANK_JOBS /\ RANK_JOBS \in Nat
          /\ rank_spent \in [Repos -> [Rank!Pools -> 0..RANK_JOBS]]
      <4>1. RANK_JOBS \in Nat /\ rank_spent \in [Repos -> [Rank!Pools -> 0..RANK_JOBS]]
        BY <1>4 DEF Rank!TypeOK, Rank!ConstantsOK
      <4>2. rank_spent[r][p] \in 0..RANK_JOBS
        BY <1>4, <4>1
      <4> QED
        BY <3>1, <3>2, <4>1, <4>2
    <3>4. rank_spent[r][p] + 1 \in 0..RANK_JOBS /\ rank_spent' = [rank_spent EXCEPT ![r][p] = @ + 1]
      BY <1>5, <2>2, <3>2, <3>3
    <3> QED
      BY <1>4, <3>3, <3>4
  <2> QED
    BY <2>1, <2>2
<1>8. recent' \in Seq(Repos) /\ Rank!IsInjective(recent')
  <2>1. recent \in Seq(Repos) /\ Rank!IsInjective(recent)
    BY <1>4 DEF Rank!TypeOK
  <2>2. PICK s : s = Rank!RemoveFirst(recent, r)
    OBVIOUS
  <2>3. s \in Seq(Repos) /\ Rank!IsInjective(s) /\ \A n \in DOMAIN s : s[n] # r
    BY <2>1, <2>2, Removed
  <2> QED
    BY <1>4, <1>5, <2>2, <2>3, Added
<1>9. /\ Rank!NextBurst(i) \in 0..BURST /\ Rank!NextPassed(i) \in Nat /\ Rank!NextBorrowed(w, i) \in Nat
      /\ Rank!NextPassed(i) <= Rank!NextBurst(i) + (BURST + 1) * Rank!NextBorrowed(w, i)
  <2>1. PICK p, b, q : p = passed[r] /\ b = burst[r] /\ q = borrowed[r]
    OBVIOUS
  <2>2. p \in Nat /\ b \in 0..BURST /\ q \in Nat /\ p <= b + (BURST + 1) * q /\ BURST \in Nat \ {0}
    BY <1>4, <2>1, RankTypes DEF RankInv, Rank!ConstantsOK
  <2>3. Rank!NextBurst(i) = IF Info[i].kind = "survey" \/ b >= BURST THEN 0 ELSE b + 1
    BY <1>2, <2>1 DEF Rank!NextBurst
  <2>4. CASE Rank!PassesOver(i)
    <3>1. Rank!NextPassed(i) = p + 1 /\ Rank!NextBorrowed(w, i) = q + (IF Rank!Borrows(w, i) THEN 1 ELSE 0)
          /\ Info[i].kind # "survey"
      BY <1>2, <2>1, <2>4 DEF Rank!NextPassed, Rank!NextBorrowed, Rank!PassesOver
    <3>2. b >= BURST => Rank!Borrows(w, i)
      <4> SUFFICES ASSUME b >= BURST, "survey" \in Reviews[w]
                   PROVE  FALSE
        BY <1>2, <2>1 DEF Rank!Borrows
      <4>1. PICK s \in Rank!OfRepo(r) : Info[s].kind = "survey" /\ Rank!Offered(s)
        BY <1>2, <2>4 DEF Rank!PassesOver
      <4>2. s \in Rank!Candidates(w) /\ Info[s].repo = r
        BY <4>1 DEF Rank!Candidates, Rank!Takes, Rank!OfRepo, Rank!Campaigned
      <4>3. Rank!BurstPromoted(s)
        BY <2>1, <4>1, <4>2 DEF Rank!BurstPromoted
      <4>4. Rank!BurstPromoted(i)
        BY <1>1, <1>4, <4>2, <4>3, PromotedFirst
      <4> QED
        BY <3>1, <4>4 DEF Rank!BurstPromoted
    <3>3. (BURST + 1) * (q + 1) = (BURST + 1) * q + BURST + 1 /\ (BURST + 1) * q \in Nat
      BY <2>2
    <3>4. CASE Rank!Borrows(w, i)
      <4>1. b >= BURST
        BY <1>2, <2>1, <3>4 DEF Rank!Borrows
      <4>2. Rank!NextBurst(i) = 0 /\ Rank!NextBorrowed(w, i) = q + 1
        BY <2>3, <3>1, <3>4, <4>1
      <4> QED
        BY <2>2, <3>1, <3>3, <4>2
    <3>5. CASE ~ Rank!Borrows(w, i)
      <4>1. ~ (b >= BURST)
        BY <3>2, <3>5
      <4>2. Rank!NextBurst(i) = b + 1 /\ Rank!NextBorrowed(w, i) = q
        BY <2>2, <2>3, <3>1, <3>5, <4>1
      <4> QED
        BY <2>2, <3>1, <3>3, <4>1, <4>2
    <3> QED
      BY <3>4, <3>5
  <2>5. CASE ~ Rank!PassesOver(i)
    <3>1. Rank!NextPassed(i) = 0 /\ Rank!NextBorrowed(w, i) = 0
      BY <2>5 DEF Rank!NextPassed, Rank!NextBorrowed
    <3>2. Rank!NextBurst(i) \in 0..BURST /\ (BURST + 1) * 0 = 0
      BY <2>2, <2>3
    <3> QED
      BY <2>2, <3>1, <3>2
  <2> QED
    BY <2>4, <2>5
<1>10. /\ burst' \in [Repos -> 0..BURST] /\ passed' \in [Repos -> Nat] /\ borrowed' \in [Repos -> Nat]
       /\ \A q \in Repos : passed'[q] <= burst'[q] + (BURST + 1) * borrowed'[q]
  <2>1. PICK b, p, o : b = Rank!NextBurst(i) /\ p = Rank!NextPassed(i) /\ o = Rank!NextBorrowed(w, i)
    OBVIOUS
  <2>2. /\ burst \in [Repos -> 0..BURST] /\ passed \in [Repos -> Nat] /\ borrowed \in [Repos -> Nat]
        /\ \A q \in Repos : passed[q] <= burst[q] + (BURST + 1) * borrowed[q]
    BY <1>4 DEF Rank!TypeOK, RankInv
  <2>3. /\ burst' = [burst EXCEPT ![r] = b] /\ passed' = [passed EXCEPT ![r] = p]
        /\ borrowed' = [borrowed EXCEPT ![r] = o]
        /\ b \in 0..BURST /\ p \in Nat /\ o \in Nat /\ p <= b + (BURST + 1) * o
    BY <1>5, <1>9, <2>1
  <2>4. ASSUME NEW q \in Repos
        PROVE  passed'[q] <= burst'[q] + (BURST + 1) * borrowed'[q]
    <3>1. CASE q = r
      BY <1>4, <2>2, <2>3, <3>1
    <3>2. CASE q # r
      <4>1. passed'[q] = passed[q] /\ burst'[q] = burst[q] /\ borrowed'[q] = borrowed[q]
        BY <1>4, <2>2, <2>3, <3>2
      <4> QED
        BY <2>2, <4>1
    <3> QED
      BY <3>1, <3>2
  <2> QED
    BY <1>4, <2>2, <2>3, <2>4
<1> QED
  BY <1>4, <1>5, <1>6, <1>7, <1>8, <1>10 DEF RankInv, Rank!TypeOK

\* Every step keeps the invariant.
LEMMA RankStep == Rank!ConstantsOK /\ RankInv /\ [Rank!Next]_(Rank!vars) => RankInv'
<1> SUFFICES ASSUME Rank!ConstantsOK, RankInv, [Rank!Next]_(Rank!vars)
             PROVE  RankInv'
  OBVIOUS
<1>1. CASE Rank!Restart
  <2>1. recent' \in Seq(Repos) /\ Rank!IsInjective(recent') /\ BURST \in Nat
    BY <1>1 DEF Rank!Restart, Rank!IsInjective, Rank!ConstantsOK
  <2>2. \A r \in Repos : passed'[r] = 0 /\ burst'[r] = 0 /\ borrowed'[r] = 0
    BY <1>1 DEF Rank!Restart
  <2>3. 0 <= 0 + (BURST + 1) * 0
    BY <2>1
  <2>4. Rank!TypeOK'
    BY <1>1, <2>1 DEF Rank!Restart, RankInv, Rank!TypeOK
  <2> QED
    BY <1>1, <2>2, <2>3, <2>4 DEF Rank!Restart, RankInv
<1>2. CASE Rank!Tick
  <2>1. rank_now' \in 0..MAX_NOW
    BY <1>2 DEF Rank!Tick, RankInv, Rank!TypeOK, Rank!ConstantsOK
  <2> QED
    BY <1>2, <2>1 DEF Rank!Tick, RankInv, Rank!TypeOK
<1>3. CASE UNCHANGED Rank!vars
  BY <1>3 DEF Rank!vars, RankInv, Rank!TypeOK
<1> QED
  BY <1>1, <1>2, <1>3, ArrivalKeeps, LegacyKeeps, TurnKeeps DEF Rank!Next

(***************************************************************************)
(* The slots kept for verifications                                         *)
(***************************************************************************)
\* What is leased besides verifications, counted directly.
LEMMA SplitCount ==
  ASSUME Rank!ConstantsOK, NEW L, L \subseteq Rank!Work, NEW r
  PROVE  Cardinality({i \in L : Info[i].repo = r})
           - Cardinality({i \in L : Info[i].repo = r /\ Info[i].kind = "verify"})
         = Cardinality({i \in L : Info[i].repo = r /\ Info[i].kind # "verify"})
<1>1. PICK A, B : A = {i \in L : Info[i].repo = r} /\ B = {i \in L : Info[i].repo = r /\ Info[i].kind = "verify"}
  OBVIOUS
<1>2. A \subseteq Rank!Work /\ B \subseteq Rank!Work /\ A \cap B = B
      /\ A \ B = {i \in L : Info[i].repo = r /\ Info[i].kind # "verify"}
  BY <1>1
<1>3. IsFiniteSet(A) /\ Cardinality(A) \in Nat /\ Cardinality(B) \in Nat /\ Cardinality(A \ B) \in Nat
  BY <1>2, LeasedFinite
<1>4. Cardinality(A \ B) = Cardinality(A) - Cardinality(A \cap B)
  BY <1>3, FS_Difference
<1> QED
  BY <1>1, <1>2, <1>3, <1>4

Beside(r) == {i \in Rank!Leased : Info[i].repo = r /\ Info[i].kind # "verify"}

\* NonVerify counts the leased jobs that are no verifications.
LEMMA BesideCounts ==
  ASSUME Rank!ConstantsOK, NEW r
  PROVE  /\ Rank!NonVerify(r) = Cardinality(Beside(r)) /\ Rank!NonVerify(r)' = Cardinality(Beside(r)')
         /\ Beside(r) \subseteq Rank!Work /\ Beside(r)' \subseteq Rank!Work
<1>1. Rank!Leased \subseteq Rank!Work /\ Rank!Leased' \subseteq Rank!Work
  BY DEF Rank!Leased, Rank!Campaigned
<1>2. /\ Rank!ActiveIn(r) = Cardinality({i \in Rank!Leased : Info[i].repo = r})
      /\ Rank!ActiveIn(r)' = Cardinality({i \in Rank!Leased' : Info[i].repo = r})
  BY SameRankCount DEF Rank!ActiveIn
<1>3. /\ Rank!ActiveOf(r, "verify") = Cardinality({i \in Rank!Leased : Info[i].repo = r /\ Info[i].kind = "verify"})
      /\ Rank!ActiveOf(r, "verify")' = Cardinality({i \in Rank!Leased' : Info[i].repo = r /\ Info[i].kind = "verify"})
  BY SameRankCount DEF Rank!ActiveOf
<1>4. \A L \in SUBSET Rank!Work :
        Cardinality({i \in L : Info[i].repo = r})
          - Cardinality({i \in L : Info[i].repo = r /\ Info[i].kind = "verify"})
        = Cardinality({i \in L : Info[i].repo = r /\ Info[i].kind # "verify"})
  BY SplitCount
<1>5. Rank!NonVerify(r) = Cardinality({i \in Rank!Leased : Info[i].repo = r /\ Info[i].kind # "verify"})
  BY <1>1, <1>2, <1>3, <1>4 DEF Rank!NonVerify
<1>6. Rank!NonVerify(r)' = Cardinality({i \in Rank!Leased' : Info[i].repo = r /\ Info[i].kind # "verify"})
  BY <1>1, <1>2, <1>3, <1>4 DEF Rank!NonVerify
<1> QED
  BY <1>1, <1>5, <1>6 DEF Beside

\* Every step keeps the slots a waiting verification may claim.
LEMMA ReserveStep == Rank!ConstantsOK /\ RankInv /\ [Rank!Next]_(Rank!vars) => Rank!ReserveKeptStep
<1> SUFFICES ASSUME Rank!ConstantsOK, RankInv, [Rank!Next]_(Rank!vars), NEW r \in Repos,
                    Rank!VerifyWaits(r), Rank!NonVerify(r) <= REPO_CAP - VERIFY_RESERVED
             PROVE  Rank!NonVerify(r)' <= REPO_CAP - VERIFY_RESERVED
  BY DEF Rank!ReserveKeptStep
<1>1. REPO_CAP \in Nat /\ VERIFY_RESERVED \in Nat /\ Rank!TypeOK
  BY DEF Rank!ConstantsOK, RankInv
<1>2. /\ Rank!NonVerify(r) = Cardinality(Beside(r)) /\ Rank!NonVerify(r)' = Cardinality(Beside(r)')
      /\ Beside(r) \subseteq Rank!Work /\ Beside(r)' \subseteq Rank!Work
  BY BesideCounts
<1>3. /\ IsFiniteSet(Beside(r)) /\ Cardinality(Beside(r)) \in Nat
      /\ IsFiniteSet(Beside(r)') /\ Cardinality(Beside(r)') \in Nat
  BY <1>2, LeasedFinite
<1>4. ASSUME Beside(r)' \subseteq Beside(r)
      PROVE  Rank!NonVerify(r)' <= REPO_CAP - VERIFY_RESERVED
  <2>1. Cardinality(Beside(r)') <= Cardinality(Beside(r))
    BY <1>3, <1>4, FS_Subset
  <2> QED
    BY <1>1, <1>2, <1>3, <2>1
<1>5. ASSUME \A i \in Rank!Campaigned : work'[i].state = "leased" => work[i].state = "leased"
      PROVE  Beside(r)' \subseteq Beside(r)
  BY <1>5 DEF Beside, Rank!Leased
<1>6. ASSUME NEW i \in Rank!Work, Rank!Arrive(i) \/ Rank!Finish(i) \/ Rank!Requeue(i)
      PROVE  Beside(r)' \subseteq Beside(r)
  BY <1>1, <1>5, <1>6 DEF Rank!Arrive, Rank!Finish, Rank!Requeue, Rank!TypeOK, Rank!Campaigned
<1>7. ASSUME NEW w \in Workers, Rank!ClaimLegacy(w)
      PROVE  Beside(r)' \subseteq Beside(r)
  <2>1. Rank!First(w) \in Rank!Work
    BY <1>1, <1>7, FirstIsBest, CandidateIs DEF Rank!ClaimLegacy
  <2>2. PICK i \in Rank!Work : Info[i].legacy /\ work' = [work EXCEPT ![i].state = "leased"]
    BY <1>7, <2>1 DEF Rank!ClaimLegacy
  <2> QED
    BY <1>1, <1>5, <2>2 DEF Rank!TypeOK, Rank!Campaigned
<1>8. CASE Rank!Restart \/ Rank!Tick \/ UNCHANGED Rank!vars
  <2>1. work' = work
    BY <1>8 DEF Rank!Restart, Rank!Tick, Rank!vars
  <2>2. Beside(r)' \subseteq Beside(r)
    BY <1>5, <2>1
  <2> QED
    BY <1>4, <2>2
<1>9. ASSUME NEW w \in Workers, Rank!Claim(w)
      PROVE  Rank!NonVerify(r)' <= REPO_CAP - VERIFY_RESERVED
  <2>1. PICK i : i = Rank!First(w)
    OBVIOUS
  <2>2. i \in Rank!Candidates(w)
    BY <1>1, <1>9, <2>1, FirstIsBest DEF Rank!Claim
  <2>3. i \in Rank!Work
    BY <1>1, <2>2, CandidateIs
  <2>4. ~ Info[i].legacy /\ \A j \in Rank!Work : j # i => work'[j] = work[j]
    BY <1>1, <1>9, <2>1, <2>3 DEF Rank!Claim, Rank!TypeOK
  <2>5. Beside(r)' \subseteq Beside(r) \cup {i}
    BY <2>4 DEF Beside, Rank!Leased, Rank!Campaigned
  <2>6. CASE Info[i].repo # r \/ Info[i].kind = "verify"
    <3>1. i \notin Beside(r)'
      BY <2>6 DEF Beside
    <3> QED
      BY <1>4, <2>5, <3>1
  <2>7. CASE Info[i].repo = r /\ Info[i].kind # "verify"
    <3>1. Rank!WithinReserve(i)
      BY <1>1, <2>2, <2>4, <2>7, CandidateIs
    <3>2. PICK a, v : a = Rank!ActiveIn(r) /\ v = Rank!ActiveOf(r, "verify")
      OBVIOUS
    <3>3. a \in Nat /\ v \in Nat
      BY SameRankCount, <3>2, LeasedFinite DEF Rank!ActiveIn, Rank!ActiveOf, Rank!Leased,
           Rank!Campaigned
    <3>4. a < REPO_CAP - Rank!Larger(0, VERIFY_RESERVED - v) /\ Rank!NonVerify(r) = a - v
      BY <2>7, <3>1, <3>2 DEF Rank!WithinReserve, Rank!NonVerify
    <3>5. Rank!NonVerify(r) < REPO_CAP - VERIFY_RESERVED
      BY <1>1, <3>3, <3>4 DEF Rank!Larger
    <3>6. Cardinality(Beside(r) \cup {i}) <= Cardinality(Beside(r)) + 1 /\ IsFiniteSet(Beside(r) \cup {i})
          /\ Cardinality(Beside(r) \cup {i}) \in Nat
      <4>1. /\ Cardinality(Beside(r) \cup {i}) = Cardinality(Beside(r))
                \/ Cardinality(Beside(r) \cup {i}) = Cardinality(Beside(r)) + 1
            /\ IsFiniteSet(Beside(r) \cup {i})
        BY <1>3, FS_AddElement
      <4> QED
        BY <1>3, <4>1
    <3>7. Cardinality(Beside(r)') <= Cardinality(Beside(r) \cup {i})
      BY <2>5, <3>6, FS_Subset
    <3> QED
      BY <1>1, <1>2, <1>3, <3>5, <3>6, <3>7
  <2> QED
    BY <2>6, <2>7
<1> QED
  BY <1>4, <1>6, <1>7, <1>8, <1>9 DEF Rank!Next

(***************************************************************************)
(* The results                                                              *)
(***************************************************************************)
\* A claim's first candidate can be paid for, so no claim ends empty-handed while other work
\* waits behind it; and a survey that could run is passed over by at most BURST claims of its
\* repository in a row, and by BURST + 1 more for each burst that a worker without surveys
\* ended (admission_candidates.rs, ranked_raw; admission_claim.rs, fairness; admission.rs,
\* choose_pool), for any number of sources, repositories and workers, whatever kinds these
\* take, and any policy.
THEOREM ClaimsAreFair == Rank!ConstantsOK => (Rank!Spec => [](Rank!TypeOK /\ Rank!NoBarrenClaim /\ Rank!SurveyWaitBounded))
<1> SUFFICES ASSUME Rank!ConstantsOK
             PROVE  Rank!Spec => [](Rank!TypeOK /\ Rank!NoBarrenClaim /\ Rank!SurveyWaitBounded)
  OBVIOUS
<1>1. Rank!Init => RankInv
  BY RankBegins
<1>2. RankInv /\ [Rank!Next]_(Rank!vars) => RankInv'
  BY RankStep
<1>3. RankInv => Rank!TypeOK /\ Rank!NoBarrenClaim /\ Rank!SurveyWaitBounded
  <2> SUFFICES ASSUME RankInv
               PROVE  Rank!TypeOK /\ Rank!NoBarrenClaim /\ Rank!SurveyWaitBounded
    OBVIOUS
  <2>1. Rank!TypeOK
    BY DEF RankInv
  <2>2. Rank!SurveyWaitBounded
    <3> SUFFICES ASSUME NEW r \in Repos
                 PROVE  passed[r] <= BURST + (BURST + 1) * borrowed[r]
      BY DEF Rank!SurveyWaitBounded
    <3>1. PICK p, b, q : p = passed[r] /\ b = burst[r] /\ q = borrowed[r]
      OBVIOUS
    <3>2. p <= b + (BURST + 1) * q /\ p \in Nat /\ b \in 0..BURST /\ BURST \in Nat /\ q \in Nat
      BY <2>1, <3>1, RankTypes DEF RankInv, Rank!ConstantsOK
    <3>3. (BURST + 1) * q \in Nat
      BY <3>2
    <3> QED
      BY <3>1, <3>2, <3>3
  <2> QED
    BY <2>1, <2>2, FirstIsPaid
<1> QED
  BY <1>1, <1>2, <1>3, PTL DEF Rank!Spec

\* A slot that is free for a waiting verification stays free for it (admission_candidates.rs,
\* ranked_raw), whatever claims, ends and retries come in between.
THEOREM ReserveIsKept == Rank!ConstantsOK => (Rank!Spec => Rank!ReserveKept)
<1> SUFFICES ASSUME Rank!ConstantsOK
             PROVE  Rank!Spec => Rank!ReserveKept
  OBVIOUS
<1>1. Rank!Init => RankInv
  BY RankBegins
<1>2. RankInv /\ [Rank!Next]_(Rank!vars) => RankInv'
  BY RankStep
<1>3. RankInv /\ [Rank!Next]_(Rank!vars) => [Rank!ReserveKeptStep]_(Rank!vars)
  BY ReserveStep
<1> QED
  BY <1>1, <1>2, <1>3, PTL DEF Rank!Spec, Rank!ReserveKept

(***************************************************************************)
(* Claims among sources that cannot be delivered                            *)
(***************************************************************************)
CONSTANTS
  Singles, QueuedUnits, Polls, MAX_REPAIRS, UNITS_PER_JOB, PAGE, TICK_REPAIRS, MaxFaults

VARIABLES condition, present, delivery_rows, lock, draft, polls, cursor, walk, charged, faults

Dlv == INSTANCE ClaimDelivery WITH Units <- QueuedUnits, rows <- delivery_rows

\* The instance counts as this module does.
LEMMA SameDlvCount ==
  ASSUME NEW S
  PROVE  Dlv!Cardinality(S) = Cardinality(S)
BY DEF Dlv!IsFiniteSet, IsFiniteSet, Dlv!Cardinality, Cardinality

(***************************************************************************)
(* The inductive invariant                                                  *)
(***************************************************************************)
TableRow == [held : SUBSET Dlv!Sources, taken : SUBSET Dlv!Sources]
DraftRow == [held : SUBSET Dlv!Sources, taken : SUBSET Dlv!Sources, left : 0 .. MAX_REPAIRS, holds : Nat]

ClaimTyped ==
  /\ condition \in [Dlv!Sources -> Dlv!Conditions] /\ present \subseteq Dlv!Sources
  /\ delivery_rows \in TableRow /\ draft \in DraftRow
  /\ lock \in Polls \cup {None}
  /\ polls \in [Polls -> 0 .. MAX_REPAIRS] /\ charged \in [Polls -> Nat]
  /\ cursor \in Dlv!Sources \cup {0} /\ walk \subseteq present

\* What is stored is finite, however many sources there may be.
Bounded == \E n \in Nat : present \subseteq 0 .. n

\* What is held and leased, in the database and in the open transaction alike.
LargeIn(set) == {u \in set \cap QueuedUnits : condition[u] = "large"}

Blamed(sick) ==
  /\ \A s \in sick \cap Singles : condition[s] # "sound"
  /\ (\E u \in sick \cap QueuedUnits : condition[u] # "stored") => Cardinality(LargeIn(sick)) > 1

Leases(sick, taken) ==
  /\ sick \subseteq present /\ taken \subseteq present /\ taken \cap sick = {}
  /\ \A s \in taken : condition[s] # "stored"
  /\ \A s \in taken \cap Singles : condition[s] = "sound"

ClaimTables ==
  /\ Leases(delivery_rows.held, delivery_rows.taken) /\ Blamed(delivery_rows.held)
  /\ Leases(draft.held, draft.taken) /\ Blamed(draft.held)

\* A transaction starts from the database, which nobody changes meanwhile.
Drafted == lock # None => delivery_rows.held \subseteq draft.held /\ delivery_rows.taken \subseteq draft.taken

\* A poll pays for what it holds, once it is committed.
Charges ==
  \A p \in Polls : /\ charged[p] + polls[p] <= MAX_REPAIRS
                   /\ lock = p => draft.left + draft.holds = polls[p]

\* Behind the walk everything that waited from the start validates.
Walked ==
  cursor # 0 => \A s \in walk : s <= cursor /\ s \in Dlv!Waiting(delivery_rows) => condition[s] # "stored"

ClaimInv == ClaimTyped /\ Bounded /\ ClaimTables /\ Drafted /\ Charges /\ Walked

\* What the runs check.
ClaimHolds == Dlv!TypeOK /\ Dlv!LeasedIsDelivered /\ Dlv!BlameIsExact /\ Dlv!RepairsBounded

\* The invariant implies what the run checks.
LEMMA ClaimImplied == Dlv!ConstantsOK /\ ClaimInv => ClaimHolds
<1> SUFFICES ASSUME Dlv!ConstantsOK, ClaimInv
             PROVE  ClaimHolds
  OBVIOUS
<1>1. Dlv!TypeOK
  BY DEF ClaimInv, ClaimTyped, ClaimTables, Leases, Dlv!TypeOK, TableRow, DraftRow
<1>2. Dlv!LeasedIsDelivered
  BY DEF ClaimInv, ClaimTables, Leases, Dlv!LeasedIsDelivered
<1>3. Dlv!BlameIsExact
  BY SameDlvCount DEF ClaimInv, ClaimTables, Blamed, LargeIn, Dlv!BlameIsExact
<1>4. Dlv!RepairsBounded
  <2> SUFFICES ASSUME NEW p \in Polls
               PROVE  charged[p] <= MAX_REPAIRS
    BY DEF Dlv!RepairsBounded
  <2>1. charged[p] \in Nat /\ polls[p] \in Nat /\ MAX_REPAIRS \in Nat
    BY DEF ClaimInv, ClaimTyped, Dlv!ConstantsOK
  <2>2. charged[p] + polls[p] <= MAX_REPAIRS
    BY DEF ClaimInv, Charges
  <2> QED
    BY <2>1, <2>2
<1> QED
  BY <1>1, <1>2, <1>3, <1>4 DEF ClaimHolds

(***************************************************************************)
(* Pages of numbers                                                         *)
(***************************************************************************)
LEMMA LeastOf ==
  ASSUME NEW S \in SUBSET Nat, S # {}
  PROVE  \E m \in S : \A t \in S : m <= t
<1>1. PICK m \in S : \A k \in S : ~ (<<k, m>> \in OpToRel(<, Nat))
  BY NatLessThanWellFounded, WFMin
<1>2. \A k \in S : ~ (k < m)
  BY <1>1 DEF OpToRel
<1> QED
  BY <1>2

\* The last of a finite set of numbers.
LEMMA LastOf ==
  ASSUME NEW n \in Nat, NEW S \in SUBSET (0 .. n), S # {}
  PROVE  Dlv!Last(S) \in S /\ \A t \in S : t <= Dlv!Last(S)
<1>1. PICK U : U = {k \in Nat : \A t \in S : t <= k}
  OBVIOUS
<1>2. U \in SUBSET Nat /\ n \in U
  BY <1>1
<1>3. PICK m \in U : \A k \in U : m <= k
  BY <1>2, LeastOf
<1>4. m \in Nat /\ \A t \in S : t <= m
  BY <1>1
<1>5. m \in S
  <2> SUFFICES ASSUME m \notin S
               PROVE  FALSE
    OBVIOUS
  <2>1. \A t \in S : t \in Nat /\ t <= m - 1
    BY <1>4
  <2>2. PICK x \in S : TRUE
    OBVIOUS
  <2>3. m - 1 \in Nat
    BY <1>4, <2>1, <2>2
  <2>4. m - 1 \in U
    BY <1>1, <2>1, <2>3
  <2> QED
    BY <1>3, <1>4, <2>4
<1>6. \E x \in S : \A t \in S : t <= x
  BY <1>4, <1>5
<1> QED
  BY <1>6 DEF Dlv!Last

\* What a bounded set counts.
LEMMA BoundedCounts ==
  ASSUME NEW n \in Nat, NEW S \in SUBSET (0 .. n), NEW T \in SUBSET S
  PROVE  /\ IsFiniteSet(S) /\ IsFiniteSet(T) /\ Cardinality(S) \in Nat /\ Cardinality(T) \in Nat
         /\ Cardinality(T) <= Cardinality(S)
<1>1. IsFiniteSet(0 .. n)
  BY FS_Interval
<1>2. IsFiniteSet(S)
  BY <1>1, FS_Subset
<1> QED
  BY <1>2, FS_Subset, FS_CardinalityType

\* A page that is not full is everything there is.
LEMMA ShortPage ==
  ASSUME NEW n \in Nat, NEW R \in SUBSET (0 .. n), NEW k \in Nat, NEW P,
         P = {s \in R : Cardinality({t \in R : t < s}) < k}, Cardinality(P) < k
  PROVE  P = R
<1> SUFFICES ASSUME P # R
             PROVE  FALSE
  OBVIOUS
<1>1. P \in SUBSET R /\ (R \ P) \in SUBSET Nat /\ (R \ P) # {}
  <2>1. P \subseteq R
    OBVIOUS
  <2>2. R \subseteq Nat
    OBVIOUS
  <2> QED
    BY <2>1, <2>2, Zenon
<1>2. PICK m \in R \ P : \A t \in R \ P : m <= t
  BY <1>1, LeastOf
<1>3. PICK B : B = {t \in R : t < m}
  OBVIOUS
<1>4. B \in SUBSET P
  BY <1>1, <1>2, <1>3
<1>5. P \in SUBSET (0 .. n)
  BY <1>1
<1>6. Cardinality(B) <= Cardinality(P) /\ Cardinality(B) \in Nat /\ Cardinality(P) \in Nat
  BY <1>4, <1>5, BoundedCounts
<1>7. ~ (Cardinality(B) < k)
  BY <1>2, <1>3
<1> QED
  BY <1>6, <1>7

\* Counting from below: fewer before an earlier one.
LEMMA FewerBefore ==
  ASSUME NEW n \in Nat, NEW R \in SUBSET (0 .. n), NEW k \in Nat, NEW s \in 0 .. n, NEW t \in 0 .. n, t <= s,
         Cardinality({x \in R : x < s}) < k
  PROVE  Cardinality({x \in R : x < t}) < k
<1>1. PICK A, B : A = {x \in R : x < s} /\ B = {x \in R : x < t}
  OBVIOUS
<1>2. A \in SUBSET (0 .. n) /\ B \in SUBSET A
  <2>1. \A x \in R : x \in 0 .. n /\ (x < t => x < s)
    OBVIOUS
  <2>2. \A x \in B : x \in A
    BY <1>1, <2>1
  <2>3. \A x \in A : x \in 0 .. n
    BY <1>1, <2>1
  <2> QED
    BY <2>2, <2>3
<1>3. Cardinality(B) <= Cardinality(A) /\ Cardinality(A) \in Nat /\ Cardinality(B) \in Nat
  BY <1>2, BoundedCounts
<1>4. Cardinality(A) < k
  <2>1. A = {x \in R : x < s}
    BY <1>1
  <2> QED
    BY <2>1
<1>5. Cardinality(B) < k
  BY <1>3, <1>4
<1> QED
  BY <1>1, <1>5, Zenon

(***************************************************************************)
(* The tables                                                               *)
(***************************************************************************)
LEMMA StoredCounts ==
  ASSUME Bounded, NEW S \in SUBSET present, NEW T \in SUBSET S
  PROVE  /\ Cardinality(S) \in Nat /\ Cardinality(T) \in Nat /\ Cardinality(T) <= Cardinality(S)
<1>1. PICK n \in Nat : present \subseteq 0 .. n
  BY DEF Bounded
<1>2. S \in SUBSET (0 .. n)
  BY <1>1
<1> QED
  BY <1>2, BoundedCounts

\* More sources are held: each unsound, or units that are too large together.
LEMMA BlameGrows ==
  ASSUME Bounded, NEW sick \in SUBSET present, Blamed(sick), NEW more \in SUBSET present,
         \A s \in more \cap Singles : condition[s] # "sound",
         (\A u \in more \cap QueuedUnits : condition[u] = "stored") \/ Cardinality(LargeIn(more)) > 1
  PROVE  Blamed(sick \cup more)
<1>1. PICK all : all = sick \cup more
  OBVIOUS
<1>2. /\ LargeIn(all) \in SUBSET present /\ LargeIn(sick) \in SUBSET LargeIn(all)
      /\ LargeIn(more) \in SUBSET LargeIn(all)
  BY <1>1 DEF LargeIn
<1>3. /\ Cardinality(LargeIn(all)) \in Nat
      /\ Cardinality(LargeIn(sick)) \in Nat /\ Cardinality(LargeIn(sick)) <= Cardinality(LargeIn(all))
      /\ Cardinality(LargeIn(more)) \in Nat /\ Cardinality(LargeIn(more)) <= Cardinality(LargeIn(all))
  BY <1>2, StoredCounts
<1>4. \A s \in all \cap Singles : condition[s] # "sound"
  BY <1>1 DEF Blamed
<1>5. ASSUME NEW u \in all \cap QueuedUnits, condition[u] # "stored"
      PROVE  Cardinality(LargeIn(all)) > 1
  <2>1. CASE u \in sick
    <3>1. Cardinality(LargeIn(sick)) > 1
      BY <1>5, <2>1 DEF Blamed
    <3> QED
      BY <1>3, <3>1
  <2>2. CASE u \in more
    <3>1. Cardinality(LargeIn(more)) > 1
      BY <1>5, <2>2
    <3> QED
      BY <1>3, <3>1
  <2> QED
    BY <1>1, <2>1, <2>2
<1>6. Blamed(all)
  BY <1>4, <1>5 DEF Blamed
<1> QED
  BY <1>1, <1>6

\* Nothing leased and nothing held is in order.
LEMMA EmptyTable == Leases({}, {}) /\ Blamed({})
BY DEF Leases, Blamed

\* Tables and draft in order stay so while sources are added.
LEMMA TablesMove ==
  ASSUME condition' = condition, present \subseteq present',
         Leases(delivery_rows'.held, delivery_rows'.taken), Blamed(delivery_rows'.held),
         Leases(draft'.held, draft'.taken), Blamed(draft'.held)
  PROVE  ClaimTables'
BY DEF ClaimTables, Leases, Blamed, LargeIn

\* Nothing of the walk comes back that does not validate.
LEMMA WalkStays ==
  ASSUME Walked, UNCHANGED <<condition, cursor, walk>>,
         \A s \in walk : s \in Dlv!Waiting(delivery_rows)' => s \in Dlv!Waiting(delivery_rows) \/ condition[s] # "stored"
  PROVE  Walked'
BY DEF Walked

\* The invariant holds when the server starts.
LEMMA ClaimInitial == Dlv!ConstantsOK /\ Dlv!Init => ClaimInv
<1> SUFFICES ASSUME Dlv!ConstantsOK, Dlv!Init
             PROVE  ClaimInv
  OBVIOUS
<1>1. delivery_rows.held = {} /\ delivery_rows.taken = {} /\ draft.held = {} /\ draft.taken = {} /\ draft.left = 0 /\ draft.holds = 0
  BY DEF Dlv!Init, Dlv!Empty
<1>2. ClaimTyped
  BY DEF Dlv!Init, Dlv!Empty, ClaimTyped, TableRow, DraftRow, Dlv!ConstantsOK
<1>3. Bounded
  <2>1. present \subseteq 0 .. 0 /\ 0 \in Nat
    BY DEF Dlv!Init
  <2> QED
    BY <2>1 DEF Bounded
<1>4. ClaimTables
  BY <1>1, EmptyTable DEF ClaimTables
<1>5. Drafted /\ Charges /\ Walked
  BY <1>1 DEF Dlv!Init, Drafted, Charges, Walked, Dlv!ConstantsOK
<1> QED
  BY <1>2, <1>3, <1>4, <1>5 DEF ClaimInv

(***************************************************************************)
(* Sources come and come back                                               *)
(***************************************************************************)
LEMMA SourceKeeps ==
  ASSUME Dlv!ConstantsOK, ClaimInv, NEW s \in Dlv!Sources, Dlv!Store(s)
  PROVE  ClaimInv'
<1>1. /\ s \notin present /\ present' = present \cup {s} /\ lock = None
      /\ UNCHANGED <<condition, delivery_rows, lock, draft, polls, cursor, walk, charged>>
  BY DEF Dlv!Store
<1>2. ClaimTyped'
  BY <1>1 DEF ClaimInv, ClaimTyped
<1>3. Bounded'
  <2>1. PICK n \in Nat : present \subseteq 0 .. n
    BY DEF ClaimInv, Bounded
  <2>2. s \in Nat
    BY DEF Dlv!ConstantsOK
  <2>3. n + s \in Nat /\ \A x \in 0 .. n : x \in 0 .. n + s
    BY <2>2
  <2>4. present' \subseteq 0 .. n + s
    BY <1>1, <2>1, <2>2, <2>3
  <2> QED
    BY <2>3, <2>4 DEF Bounded
<1>4. ClaimTables'
  BY <1>1, TablesMove DEF ClaimInv, ClaimTables
<1>5. Walked'
  <2>1. \A x \in walk : x \in Dlv!Waiting(delivery_rows)' => x \in Dlv!Waiting(delivery_rows)
    BY <1>1 DEF Dlv!Waiting, ClaimInv, ClaimTyped
  <2> QED
    BY <1>1, <2>1, WalkStays DEF ClaimInv
<1>6. Drafted' /\ Charges'
  BY <1>1 DEF ClaimInv, Drafted, Charges
<1> QED
  BY <1>2, <1>3, <1>4, <1>5, <1>6 DEF ClaimInv

\* A leased source comes back.
LEMMA RequeueKeeps ==
  ASSUME Dlv!ConstantsOK, ClaimInv, NEW s \in Dlv!Sources, Dlv!Requeue(s)
  PROVE  ClaimInv'
<1>1. PICK o, r : o = delivery_rows /\ r = [o EXCEPT !.taken = o.taken \ {s}]
  OBVIOUS
<1>2. /\ s \in o.taken /\ delivery_rows' = r /\ lock = None
      /\ UNCHANGED <<condition, present, lock, draft, polls, cursor, walk, charged>>
  BY <1>1 DEF Dlv!Requeue
<1>3. o \in TableRow
  BY <1>1 DEF ClaimInv, ClaimTyped
<1>4. r \in TableRow /\ r.held = o.held /\ r.taken = o.taken \ {s}
  BY <1>1, <1>3 DEF TableRow
<1>5. ClaimTyped' /\ Bounded'
  BY <1>2, <1>4 DEF ClaimInv, ClaimTyped, Bounded
<1>6. Leases(o.held, o.taken) /\ Blamed(o.held)
  BY <1>1 DEF ClaimInv, ClaimTables
<1>7. ClaimTables'
  <2>1. Leases(r.held, r.taken) /\ Blamed(r.held)
    BY <1>4, <1>6 DEF Leases
  <2>2. Leases(draft'.held, draft'.taken) /\ Blamed(draft'.held)
    BY <1>2 DEF ClaimInv, ClaimTables
  <2> QED
    BY <1>2, <2>1, <2>2, TablesMove
<1>8. Walked'
  <2>1. \A x \in walk : x \in Dlv!Waiting(delivery_rows)' => x \in Dlv!Waiting(delivery_rows) \/ x = s
    BY <1>1, <1>2, <1>4 DEF Dlv!Waiting
  <2>2. condition[s] # "stored"
    BY <1>2, <1>6 DEF Leases
  <2> QED
    BY <1>2, <2>1, <2>2, WalkStays DEF ClaimInv
<1>9. Drafted' /\ Charges'
  BY <1>2 DEF ClaimInv, Drafted, Charges
<1> QED
  BY <1>5, <1>7, <1>8, <1>9 DEF ClaimInv

(***************************************************************************)
(* Polls                                                                    *)
(***************************************************************************)
LEMMA PollTyped ==
  ASSUME Dlv!ConstantsOK, ClaimInv, NEW p \in Polls
  PROVE  /\ polls[p] \in Nat /\ polls[p] <= MAX_REPAIRS /\ charged[p] \in Nat /\ MAX_REPAIRS \in Nat
         /\ charged[p] + polls[p] <= MAX_REPAIRS
         /\ draft.left \in Nat /\ draft.holds \in Nat
         /\ lock = p => draft.left + draft.holds = polls[p]
BY DEF ClaimInv, ClaimTyped, Charges, DraftRow, Dlv!ConstantsOK

\* A poll opens or closes while no transaction of its own is open.
LEMMA PollTurns ==
  ASSUME Dlv!ConstantsOK, ClaimInv, NEW p \in Polls, lock # p,
         NEW n \in 0 .. MAX_REPAIRS, polls' = [polls EXCEPT ![p] = n],
         NEW c \in Nat, charged' = [charged EXCEPT ![p] = c], c + n <= MAX_REPAIRS,
         UNCHANGED <<condition, present, delivery_rows, lock, draft, cursor, walk>>
  PROVE  ClaimInv'
<1>1. ClaimTyped' /\ Bounded'
  BY DEF ClaimInv, ClaimTyped, Bounded
<1>2. ClaimTables' /\ Drafted'
  BY DEF ClaimInv, ClaimTables, Leases, Blamed, LargeIn, Drafted
<1>3. Walked'
  BY DEF ClaimInv, Walked, Dlv!Waiting
<1>4. Charges'
  <2> SUFFICES ASSUME NEW q \in Polls
               PROVE  /\ charged'[q] + polls'[q] <= MAX_REPAIRS
                      /\ lock = q => draft.left + draft.holds = polls'[q]
    BY DEF Charges
  <2>1. CASE q = p
    <3>1. charged'[q] = c /\ polls'[q] = n
      BY <2>1 DEF ClaimInv, ClaimTyped
    <3> QED
      BY <2>1, <3>1
  <2>2. CASE q # p
    <3>1. charged'[q] = charged[q] /\ polls'[q] = polls[q]
      BY <2>2 DEF ClaimInv, ClaimTyped
    <3> QED
      BY <3>1 DEF ClaimInv, Charges
  <2> QED
    BY <2>1, <2>2
<1> QED
  BY <1>1, <1>2, <1>3, <1>4 DEF ClaimInv

\* A poll comes or goes.
LEMMA OpenCloseKeeps ==
  ASSUME Dlv!ConstantsOK, ClaimInv, NEW p \in Polls, Dlv!OpenPoll(p) \/ Dlv!ClosePoll(p)
  PROVE  ClaimInv'
<1>1. CASE Dlv!OpenPoll(p)
  <2>1. MAX_REPAIRS \in 0 .. MAX_REPAIRS /\ 0 \in Nat /\ 0 + MAX_REPAIRS <= MAX_REPAIRS
    BY DEF Dlv!ConstantsOK
  <2> QED
    BY <1>1, <2>1, PollTurns DEF Dlv!OpenPoll
<1>2. CASE Dlv!ClosePoll(p)
  <2>1. PICK c : c = charged[p]
    OBVIOUS
  <2>2. 0 \in 0 .. MAX_REPAIRS /\ c \in Nat /\ c + 0 <= MAX_REPAIRS
    BY <2>1, PollTyped
  <2>3. charged' = [charged EXCEPT ![p] = c]
    BY <1>2, <2>1 DEF Dlv!ClosePoll, ClaimInv, ClaimTyped
  <2> QED
    BY <1>2, <2>2, <2>3, PollTurns DEF Dlv!ClosePoll
<1> QED
  BY <1>1, <1>2

\* A claim opens its transaction.
LEMMA BeginKeeps ==
  ASSUME Dlv!ConstantsOK, ClaimInv, NEW p \in Polls, Dlv!Begin(p)
  PROVE  ClaimInv'
<1>1. PICK h, t, n, d : /\ h = delivery_rows.held /\ t = delivery_rows.taken /\ n = polls[p]
                        /\ d = [held |-> h, taken |-> t, left |-> n, holds |-> 0]
  OBVIOUS
<1>2. /\ lock' = p /\ draft' = d /\ lock = None
      /\ UNCHANGED <<condition, present, delivery_rows, polls, cursor, walk, charged>>
  BY <1>1 DEF Dlv!Begin
<1>3. d \in DraftRow /\ d.held = h /\ d.taken = t /\ d.left = n /\ d.holds = 0 /\ n \in Nat
  BY <1>1, PollTyped DEF ClaimInv, ClaimTyped, TableRow, DraftRow
<1>4. ClaimTyped' /\ Bounded'
  BY <1>2, <1>3 DEF ClaimInv, ClaimTyped, Bounded
<1>5. ClaimTables'
  BY <1>1, <1>2, <1>3, TablesMove DEF ClaimInv, ClaimTables
<1>6. Drafted' /\ Walked'
  BY <1>1, <1>2, <1>3 DEF ClaimInv, Drafted, Walked, Dlv!Waiting
<1>7. Charges'
  BY <1>1, <1>2, <1>3 DEF ClaimInv, Charges
<1> QED
  BY <1>4, <1>5, <1>6, <1>7 DEF ClaimInv

(***************************************************************************)
(* Claims                                                                   *)
(***************************************************************************)
\* The end of a transaction: its tables are in the database or forgotten.
LEMMA EndKeeps ==
  ASSUME Dlv!ConstantsOK, ClaimInv, NEW p \in Polls, lock = p, NEW r \in TableRow, delivery_rows' = r,
         Leases(r.held, r.taken), Blamed(r.held), delivery_rows.held \subseteq r.held, delivery_rows.taken \subseteq r.taken,
         NEW n \in 0 .. MAX_REPAIRS, polls' = [polls EXCEPT ![p] = n],
         NEW c \in Nat, charged' = [charged EXCEPT ![p] = c], c + n <= MAX_REPAIRS,
         lock' = None, draft' = Dlv!Empty, UNCHANGED <<condition, present, cursor, walk>>
  PROVE  ClaimInv'
<1>1. /\ draft' \in DraftRow /\ draft'.held = {} /\ draft'.taken = {} /\ None \notin Polls
  BY DEF Dlv!Empty, DraftRow, Dlv!ConstantsOK
<1>2. ClaimTyped' /\ Bounded'
  BY <1>1 DEF ClaimInv, ClaimTyped, Bounded
<1>3. ClaimTables'
  <2>1. Leases(draft'.held, draft'.taken) /\ Blamed(draft'.held)
    BY <1>1, EmptyTable
  <2> QED
    BY <2>1, TablesMove
<1>4. Walked'
  <2>1. \A s \in walk : s \in Dlv!Waiting(delivery_rows)' => s \in Dlv!Waiting(delivery_rows)
    BY DEF Dlv!Waiting
  <2> QED
    BY <2>1, WalkStays DEF ClaimInv
<1>5. Charges'
  <2> SUFFICES ASSUME NEW q \in Polls
               PROVE  charged'[q] + polls'[q] <= MAX_REPAIRS
    BY <1>1 DEF Charges
  <2>1. CASE q = p
    <3>1. charged'[q] = c /\ polls'[q] = n
      BY <2>1 DEF ClaimInv, ClaimTyped
    <3> QED
      BY <3>1
  <2>2. CASE q # p
    <3>1. charged'[q] = charged[q] /\ polls'[q] = polls[q]
      BY <2>2 DEF ClaimInv, ClaimTyped
    <3> QED
      BY <3>1 DEF ClaimInv, Charges
  <2> QED
    BY <2>1, <2>2
<1>6. Drafted'
  BY DEF Drafted
<1> QED
  BY <1>2, <1>3, <1>4, <1>5, <1>6 DEF ClaimInv

\* What a claim tries waits: a single source, or units.
LEMMA CandidateShape ==
  ASSUME Dlv!ConstantsOK, ClaimInv, NEW batch \in Dlv!Candidates(draft)
  PROVE  /\ batch \subseteq Dlv!Waiting(draft) /\ batch \subseteq present
         /\ batch \subseteq Singles \/ (batch \subseteq QueuedUnits /\ batch \subseteq Dlv!WaitingUnits(draft))
         /\ batch \cap draft.held = {} /\ batch \cap draft.taken = {}
         /\ Singles \cap QueuedUnits = {}
<1>1. Singles \cap QueuedUnits = {}
  BY DEF Dlv!ConstantsOK, Dlv!Sources
<1>2. \/ \E s \in Dlv!Waiting(draft) \cap Singles : batch = {s}
      \/ batch = Dlv!Assigned(draft)
  BY DEF Dlv!Candidates
<1>3. Dlv!Assigned(draft) \subseteq Dlv!WaitingUnits(draft)
  BY DEF Dlv!Assigned
<1>4. /\ batch \subseteq Dlv!Waiting(draft)
      /\ batch \subseteq Singles \/ (batch \subseteq QueuedUnits /\ batch \subseteq Dlv!WaitingUnits(draft))
  BY <1>2, <1>3 DEF Dlv!WaitingUnits
<1> QED
  BY <1>1, <1>4 DEF Dlv!Waiting

\* A candidate is delivered and leased.
LEMMA DeliverKeeps ==
  ASSUME Dlv!ConstantsOK, ClaimInv, NEW p \in Polls, NEW batch \in Dlv!Candidates(draft), Dlv!Deliver(p, batch)
  PROVE  ClaimInv'
<1>1. PICK h, t, r, c : /\ h = draft.held /\ t = draft.taken \cup batch
                        /\ r = [held |-> h, taken |-> t] /\ c = charged[p] + draft.holds
  OBVIOUS
<1>2. /\ lock = p /\ delivery_rows' = r /\ polls' = [polls EXCEPT ![p] = 0] /\ charged' = [charged EXCEPT ![p] = c]
      /\ lock' = None /\ draft' = Dlv!Empty /\ UNCHANGED <<condition, present, cursor, walk>>
  BY <1>1 DEF Dlv!Deliver, ClaimInv, ClaimTyped
<1>3. /\ \A s \in batch : condition[s] # "stored"
      /\ \A s \in batch \cap Singles : condition[s] \in Dlv!Conditions /\ condition[s] # "stored" /\ condition[s] # "large"
  BY CandidateShape DEF Dlv!Deliver, Dlv!Undeliverable, ClaimInv, ClaimTyped
<1>4. \A s \in batch \cap Singles : condition[s] = "sound"
  BY <1>3 DEF Dlv!Conditions
<1>5. r \in TableRow /\ r.held = h /\ r.taken = t
  BY <1>1, CandidateShape DEF TableRow, DraftRow, ClaimInv, ClaimTyped
<1>6. Leases(h, t) /\ Blamed(h)
  BY <1>1, <1>3, <1>4, CandidateShape DEF ClaimInv, ClaimTables, Leases
<1>7. delivery_rows.held \subseteq h /\ delivery_rows.taken \subseteq t
  BY <1>1, <1>2 DEF ClaimInv, Drafted, Dlv!ConstantsOK
<1>8. 0 \in 0 .. MAX_REPAIRS /\ c \in Nat /\ c + 0 <= MAX_REPAIRS
  BY <1>1, <1>2, PollTyped
<1> QED
  BY <1>2, <1>5, <1>6, <1>7, <1>8, EndKeeps

\* A claim finds nothing.
LEMMA EmptyKeeps ==
  ASSUME Dlv!ConstantsOK, ClaimInv, NEW p \in Polls, Dlv!ClaimEmpty(p)
  PROVE  ClaimInv'
<1>1. PICK h, t, r, n, c : /\ h = draft.held /\ t = draft.taken /\ n = draft.left
                           /\ r = [held |-> h, taken |-> t] /\ c = charged[p] + draft.holds
  OBVIOUS
<1>2. /\ lock = p /\ delivery_rows' = r /\ polls' = [polls EXCEPT ![p] = n] /\ charged' = [charged EXCEPT ![p] = c]
      /\ lock' = None /\ draft' = Dlv!Empty /\ UNCHANGED <<condition, present, cursor, walk>>
  BY <1>1 DEF Dlv!ClaimEmpty, ClaimInv, ClaimTyped
<1>3. r \in TableRow /\ r.held = h /\ r.taken = t
  BY <1>1 DEF TableRow, DraftRow, ClaimInv, ClaimTyped
<1>4. Leases(h, t) /\ Blamed(h)
  BY <1>1 DEF ClaimInv, ClaimTables
<1>5. delivery_rows.held \subseteq h /\ delivery_rows.taken \subseteq t
  BY <1>1, <1>2 DEF ClaimInv, Drafted, Dlv!ConstantsOK
<1>6. n \in 0 .. MAX_REPAIRS /\ c \in Nat /\ c + n <= MAX_REPAIRS
  BY <1>1, <1>2, PollTyped
<1> QED
  BY <1>2, <1>3, <1>4, <1>5, <1>6, EndKeeps

\* A claim's transaction is rolled back.
LEMMA FailKeeps ==
  ASSUME Dlv!ConstantsOK, ClaimInv, NEW p \in Polls, Dlv!ClaimFails(p)
  PROVE  ClaimInv'
<1>1. PICK r, c : r = delivery_rows /\ c = charged[p]
  OBVIOUS
<1>2. /\ lock = p /\ delivery_rows' = r /\ polls' = [polls EXCEPT ![p] = 0] /\ charged' = [charged EXCEPT ![p] = c]
      /\ lock' = None /\ draft' = Dlv!Empty /\ UNCHANGED <<condition, present, cursor, walk>>
  BY <1>1 DEF Dlv!ClaimFails, ClaimInv, ClaimTyped
<1>3. r \in TableRow /\ Leases(r.held, r.taken) /\ Blamed(r.held)
  BY <1>1 DEF ClaimInv, ClaimTyped, ClaimTables
<1>4. 0 \in 0 .. MAX_REPAIRS /\ c \in Nat /\ c + 0 <= MAX_REPAIRS
  BY <1>1, <1>2, PollTyped
<1>5. delivery_rows.held \subseteq r.held /\ delivery_rows.taken \subseteq r.taken
  BY <1>1
<1> QED
  BY <1>2, <1>3, <1>4, <1>5, EndKeeps

\* A failure is charged to its cause.
LEMMA HoldBlames ==
  ASSUME Dlv!ConstantsOK, ClaimInv, NEW batch \in Dlv!Candidates(draft), Dlv!Undeliverable(batch),
         NEW blamed \in Dlv!Blame(batch)
  PROVE  /\ blamed \subseteq Dlv!Waiting(draft)
         /\ \A s \in blamed \cap Singles : condition[s] # "sound"
         /\ (\A u \in blamed \cap QueuedUnits : condition[u] = "stored") \/ Cardinality(LargeIn(blamed)) > 1
<1>1. CASE batch \subseteq Singles
  <2>1. blamed = batch
    BY <1>1 DEF Dlv!Blame
  <2>2. {u \in batch \cap QueuedUnits : condition[u] = "large"} = {}
    BY <1>1, CandidateShape
  <2>3. \E s \in batch : condition[s] \in {"stored", "large"}
    BY SameDlvCount, <1>1, <2>2, FS_EmptySet DEF Dlv!Undeliverable
  <2>4. PICK s : batch = {s}
    <3>1. CASE \E s \in Dlv!Waiting(draft) \cap Singles : batch = {s}
      BY <3>1
    <3>2. CASE batch = Dlv!Assigned(draft)
      <4>1. batch \subseteq QueuedUnits
        BY <3>2 DEF Dlv!Assigned, Dlv!WaitingUnits
      <4> QED
        BY <1>1, <2>3, <4>1, CandidateShape
    <3> QED
      BY <3>1, <3>2 DEF Dlv!Candidates
  <2>5. condition[s] # "sound" /\ s \in Singles /\ s \notin QueuedUnits
    BY <1>1, <2>3, <2>4, CandidateShape
  <2> QED
    BY <2>1, <2>4, <2>5, CandidateShape
<1>2. CASE ~ (batch \subseteq Singles)
  <2>1. batch \subseteq QueuedUnits /\ batch \subseteq Dlv!WaitingUnits(draft) /\ Singles \cap QueuedUnits = {}
    BY <1>2, CandidateShape
  <2>2. CASE \E u \in batch : condition[u] = "stored"
    <3>1. PICK u \in batch : condition[u] = "stored" /\ blamed = {u}
      BY <1>2, <2>2 DEF Dlv!Blame
    <3> QED
      BY <2>1, <3>1, CandidateShape
  <2>3. CASE ~ (\E u \in batch : condition[u] = "stored")
    <3>1. blamed = Dlv!WaitingUnits(draft)
      BY <1>2, <2>3 DEF Dlv!Blame
    <3>2. batch \cap Singles = {}
      BY <2>1
    <3>3. Cardinality(LargeIn(batch)) > 1
      BY SameDlvCount, <2>3, <3>2 DEF Dlv!Undeliverable, LargeIn
    <3>4. LargeIn(blamed) \in SUBSET present /\ LargeIn(batch) \in SUBSET LargeIn(blamed)
      BY <2>1, <3>1 DEF LargeIn, Dlv!WaitingUnits, Dlv!Waiting
    <3>5. /\ Cardinality(LargeIn(batch)) \in Nat /\ Cardinality(LargeIn(blamed)) \in Nat
          /\ Cardinality(LargeIn(batch)) <= Cardinality(LargeIn(blamed))
      BY <3>4, StoredCounts DEF ClaimInv
    <3>6. Cardinality(LargeIn(blamed)) > 1
      BY <3>3, <3>5
    <3>7. blamed \subseteq Dlv!Waiting(draft) /\ blamed \cap Singles = {}
      BY <2>1, <3>1 DEF Dlv!WaitingUnits
    <3> QED
      BY <3>6, <3>7
  <2> QED
    BY <2>2, <2>3
<1> QED
  BY <1>1, <1>2

\* A candidate that cannot be delivered is held, at the cost of a repair.
LEMMA HoldKeeps ==
  ASSUME Dlv!ConstantsOK, ClaimInv, NEW p \in Polls, NEW batch \in Dlv!Candidates(draft), Dlv!Hold(p, batch)
  PROVE  ClaimInv'
<1>1. PICK blamed \in Dlv!Blame(batch) :
        draft' = [draft EXCEPT !.held = @ \cup blamed, !.left = @ - 1, !.holds = @ + 1]
  BY DEF Dlv!Hold
<1>2. /\ lock = p /\ draft.left > 0 /\ Dlv!Undeliverable(batch)
      /\ UNCHANGED <<condition, present, delivery_rows, lock, polls, cursor, walk, charged>>
  BY DEF Dlv!Hold
<1>3. PICK o, h, n, m : o = draft /\ h = o.held \cup blamed /\ n = o.left - 1 /\ m = o.holds + 1
  OBVIOUS
<1>4. PICK d : d = [o EXCEPT !.held = h, !.left = n, !.holds = m]
  OBVIOUS
<1>5. draft' = d
  BY <1>1, <1>3, <1>4
<1>6. /\ o \in DraftRow /\ o.left \in Nat /\ o.holds \in Nat /\ o.left > 0
      /\ o.left <= MAX_REPAIRS /\ MAX_REPAIRS \in Nat
  BY <1>2, <1>3 DEF ClaimInv, ClaimTyped, DraftRow, Dlv!ConstantsOK
<1>7. n \in 0 .. MAX_REPAIRS /\ m \in Nat /\ n + m = o.left + o.holds
  BY <1>3, <1>6
<1>8. blamed \in SUBSET present /\ blamed \cap o.taken = {} /\ present \subseteq Dlv!Sources
  BY <1>2, <1>3, HoldBlames DEF Dlv!Waiting, ClaimInv, ClaimTyped
<1>9. d \in DraftRow /\ d.held = h /\ d.taken = o.taken /\ d.left = n /\ d.holds = m
  BY <1>3, <1>4, <1>6, <1>7, <1>8 DEF DraftRow
<1>10. ClaimTyped' /\ Bounded'
  BY <1>2, <1>5, <1>9 DEF ClaimInv, ClaimTyped, Bounded
<1>11. Leases(o.held, o.taken) /\ Blamed(o.held) /\ o.held \in SUBSET present
  BY <1>3 DEF ClaimInv, ClaimTables, Leases
<1>12. Blamed(h)
  BY <1>2, <1>3, <1>8, <1>11, HoldBlames, BlameGrows DEF ClaimInv
<1>13. Leases(h, o.taken)
  BY <1>3, <1>8, <1>11 DEF Leases
<1>14. ClaimTables'
  <2>1. Leases(delivery_rows'.held, delivery_rows'.taken) /\ Blamed(delivery_rows'.held)
    BY <1>2 DEF ClaimInv, ClaimTables
  <2> QED
    BY <1>2, <1>5, <1>9, <1>12, <1>13, <2>1, TablesMove
<1>15. Walked'
  BY <1>2 DEF ClaimInv, Walked, Dlv!Waiting
<1>16. Drafted'
  BY <1>2, <1>3, <1>5, <1>9 DEF ClaimInv, Drafted
<1>17. Charges'
  BY <1>2, <1>3, <1>5, <1>7, <1>9 DEF ClaimInv, Charges
<1> QED
  BY <1>10, <1>14, <1>15, <1>16, <1>17 DEF ClaimInv

(***************************************************************************)
(* The walk                                                                 *)
(***************************************************************************)
\* What a tick inspects: all that is left, or all up to the one it goes on behind.
LEMMA TickLooks ==
  ASSUME Dlv!ConstantsOK, ClaimInv, NEW R, R = Dlv!Rows(cursor), NEW page, page = Dlv!Page(cursor),
         NEW seen, seen = Dlv!Inspected(page)
  PROVE  /\ seen \subseteq R
         /\ Dlv!Complete(page) => seen = R
         /\ ~ Dlv!Complete(page) =>
              /\ Dlv!Last(seen) \in seen
              /\ \A s \in R : s <= Dlv!Last(seen) => s \in seen
<1>1. PICK n \in Nat : present \subseteq 0 .. n
  BY DEF ClaimInv, Bounded
<1>2. PICK sick : sick = Dlv!Sick(page)
  OBVIOUS
<1>3. page = {s \in R : Cardinality({t \in R : t < s}) < PAGE}
  BY SameDlvCount DEF Dlv!Page
<1>4. seen = {s \in page : Cardinality({t \in sick : t < s}) < TICK_REPAIRS}
  BY SameDlvCount, <1>2 DEF Dlv!Inspected
<1>5. PAGE \in Nat \ {0} /\ TICK_REPAIRS \in Nat \ {0}
  BY DEF Dlv!ConstantsOK
<1>6. R \in SUBSET (0 .. n)
  BY <1>1 DEF Dlv!Rows, Dlv!Waiting
<1>7. page \in SUBSET R
  BY <1>3
<1>8. seen \in SUBSET page
  BY <1>4
<1>9. sick \in SUBSET page
  BY <1>2 DEF Dlv!Sick
<1>10. /\ page \in SUBSET (0 .. n) /\ seen \in SUBSET (0 .. n) /\ sick \in SUBSET (0 .. n)
       /\ Cardinality(sick) \in Nat
  BY <1>6, <1>7, <1>8, <1>9, BoundedCounts
<1>11. ASSUME Dlv!Complete(page)
       PROVE  seen = R
  <2>1. Cardinality(page) < PAGE /\ Cardinality(sick) < TICK_REPAIRS
    BY SameDlvCount, <1>2, <1>11 DEF Dlv!Complete
  <2>2. page = R
    BY <1>3, <1>5, <1>6, <2>1, ShortPage
  <2>3. ASSUME NEW s \in page
        PROVE  s \in seen
    <3>1. PICK B : B = {t \in sick : t < s}
      OBVIOUS
    <3>2. B \in SUBSET sick
      BY <3>1
    <3>3. Cardinality(B) \in Nat /\ Cardinality(B) <= Cardinality(sick)
      BY <1>10, <3>2, BoundedCounts
    <3>4. Cardinality(B) < TICK_REPAIRS
      BY <1>5, <1>10, <2>1, <3>3
    <3> QED
      BY <1>4, <3>1, <3>4
  <2> QED
    BY <1>8, <2>2, <2>3
<1>12. ASSUME ~ Dlv!Complete(page)
       PROVE  Dlv!Last(seen) \in seen /\ \A s \in R : s <= Dlv!Last(seen) => s \in seen
  <2>1. page # {}
    <3> SUFFICES ASSUME page = {}
                 PROVE  FALSE
      OBVIOUS
    <3>1. Cardinality(page) = 0 /\ Cardinality(sick) = 0
      BY <1>9, FS_EmptySet
    <3> QED
      BY SameDlvCount, <1>2, <1>5, <1>12, <3>1 DEF Dlv!Complete
  <2>2. PICK m \in page : \A t \in page : m <= t
    <3>1. page \in SUBSET Nat
      BY <1>10
    <3> QED
      BY <2>1, <3>1, LeastOf
  <2>3. {t \in sick : t < m} = {}
    <3>1. \A t \in sick : m <= t /\ m \in Nat /\ t \in Nat
      BY <1>9, <1>10, <2>2
    <3> QED
      BY <3>1
  <2>4. m \in seen
    <3>1. Cardinality({t \in sick : t < m}) = 0
      BY <2>3, FS_EmptySet
    <3>2. Cardinality({t \in sick : t < m}) < TICK_REPAIRS
      BY <1>5, <3>1
    <3> QED
      BY <1>4, <3>2
  <2>5. Dlv!Last(seen) \in seen
    BY <1>10, <2>4, LastOf
  <2>6. PICK z : z = Dlv!Last(seen) /\ z \in seen
    BY <2>5
  <2>7. /\ z \in R /\ z \in 0 .. n /\ Cardinality({t \in R : t < z}) < PAGE
        /\ Cardinality({t \in sick : t < z}) < TICK_REPAIRS
    BY <1>3, <1>4, <1>6, <2>6
  <2>8. ASSUME NEW s \in R, s <= z
        PROVE  s \in seen
    <3>1. s \in 0 .. n
      BY <1>6
    <3>2. Cardinality({t \in R : t < s}) < PAGE
      BY <1>5, <1>6, <2>7, <2>8, <3>1, FewerBefore
    <3>3. Cardinality({t \in sick : t < s}) < TICK_REPAIRS
      BY <1>5, <1>10, <2>7, <2>8, <3>1, FewerBefore
    <3> QED
      BY <1>3, <1>4, <3>2, <3>3
  <2> QED
    BY <2>5, <2>6, <2>8
<1> QED
  BY <1>7, <1>8, <1>11, <1>12

\* What a tick leaves waiting, of what waited when the walk began, up to where it came.
LEMMA TickFinds ==
  ASSUME Dlv!ConstantsOK, ClaimInv, NEW page, page = Dlv!Page(cursor), NEW seen, seen = Dlv!Inspected(page),
         walk' = IF cursor = 0 THEN Dlv!Waiting(delivery_rows) ELSE walk,
         NEW s \in walk', s \in Dlv!Waiting(delivery_rows), condition[s] = "stored",
         Dlv!Complete(page) \/ s <= Dlv!Last(seen)
  PROVE  s \in Dlv!Sick(seen)
<1>1. s \in present /\ s \in Nat /\ s > 0
  BY DEF Dlv!Waiting, ClaimInv, ClaimTyped, Dlv!ConstantsOK
<1>2. s \in Dlv!Rows(cursor)
  <2>1. CASE cursor = 0
    BY <1>1, <2>1 DEF Dlv!Rows
  <2>2. CASE cursor # 0
    <3>1. s \in walk /\ cursor \in Nat
      BY <2>2 DEF ClaimInv, ClaimTyped, Dlv!ConstantsOK
    <3>2. ~ (s <= cursor)
      BY <2>2, <3>1 DEF ClaimInv, Walked
    <3> QED
      BY <1>1, <3>1, <3>2 DEF Dlv!Rows
  <2> QED
    BY <2>1, <2>2
<1>3. s \in seen
  BY <1>2, TickLooks
<1> QED
  BY <1>3 DEF Dlv!Sick

\* The tick inspects a page.
LEMMA WalkTicks ==
  ASSUME Dlv!ConstantsOK, ClaimInv, Dlv!Tick
  PROVE  ClaimInv' /\ Dlv!WalkIsThoroughStep
<1>1. PICK page, seen, sick, o, r :
        /\ page = Dlv!Page(cursor) /\ seen = Dlv!Inspected(page) /\ sick = Dlv!Sick(seen) /\ o = delivery_rows
        /\ r = [o EXCEPT !.held = o.held \cup sick]
  OBVIOUS
<1>2. /\ lock = None /\ delivery_rows' = r /\ cursor' = Dlv!NextCursor(page)
      /\ walk' = IF cursor = 0 THEN Dlv!Waiting(delivery_rows) ELSE walk
      /\ UNCHANGED <<condition, present, lock, draft, polls, charged>>
  BY <1>1 DEF Dlv!Tick
<1>3. sick \subseteq Dlv!Waiting(o) /\ \A s \in sick : condition[s] = "stored"
  <2>1. seen \subseteq Dlv!Rows(cursor)
    BY <1>1, TickLooks
  <2>2. Dlv!Rows(cursor) \subseteq Dlv!Waiting(o)
    BY <1>1 DEF Dlv!Rows
  <2> QED
    BY <1>1, <2>1, <2>2 DEF Dlv!Sick
<1>4. o \in TableRow /\ sick \in SUBSET present /\ sick \cap o.taken = {} /\ present \subseteq Dlv!Sources
  BY <1>1, <1>3 DEF ClaimInv, ClaimTyped, Dlv!Waiting
<1>5. r \in TableRow /\ r.held = o.held \cup sick /\ r.taken = o.taken
  BY <1>1, <1>4 DEF TableRow
<1>6. cursor' = (IF Dlv!Complete(page) THEN 0 ELSE Dlv!Last(seen)) /\ (~ Dlv!Complete(page) => Dlv!Last(seen) \in Dlv!Sources)
  <2>1. cursor' = (IF Dlv!Complete(page) THEN 0 ELSE Dlv!Last(seen))
    BY <1>1, <1>2 DEF Dlv!NextCursor
  <2>2. seen \subseteq Dlv!Waiting(delivery_rows) /\ (~ Dlv!Complete(page) => Dlv!Last(seen) \in seen)
    BY <1>1, TickLooks DEF Dlv!Rows
  <2> QED
    BY <1>4, <2>1, <2>2 DEF Dlv!Waiting
<1>7. ClaimTyped'
  <2>1. walk' \subseteq present
    BY <1>2 DEF Dlv!Waiting, ClaimInv, ClaimTyped
  <2>2. cursor' \in Dlv!Sources \cup {0}
    BY <1>6
  <2> QED
    BY <1>2, <1>5, <2>1, <2>2 DEF ClaimInv, ClaimTyped
<1>8. Leases(o.held, o.taken) /\ Blamed(o.held) /\ o.held \in SUBSET present
  BY <1>1 DEF ClaimInv, ClaimTables, Leases
<1>9. Blamed(r.held)
  <2>1. \A s \in sick : condition[s] # "sound"
    BY <1>3
  <2> QED
    BY <1>3, <1>4, <1>5, <1>8, <2>1, BlameGrows DEF ClaimInv
<1>10. Leases(r.held, r.taken)
  BY <1>4, <1>5, <1>8 DEF Leases
<1>11. ClaimTables'
  <2>1. Leases(draft'.held, draft'.taken) /\ Blamed(draft'.held)
    BY <1>2 DEF ClaimInv, ClaimTables
  <2> QED
    BY <1>2, <1>9, <1>10, <2>1, TablesMove
<1>12. ASSUME NEW s \in walk', s \in Dlv!Waiting(delivery_rows'), Dlv!Complete(page) \/ s <= Dlv!Last(seen)
       PROVE  condition[s] # "stored"
  <2> SUFFICES ASSUME condition[s] = "stored"
               PROVE  FALSE
    OBVIOUS
  <2>1. s \in Dlv!Waiting(delivery_rows) /\ s \notin sick
    BY <1>1, <1>2, <1>5, <1>12 DEF Dlv!Waiting
  <2> QED
    BY <1>1, <1>2, <1>12, <2>1, TickFinds
<1>13. Dlv!Waiting(delivery_rows)' = Dlv!Waiting(delivery_rows')
  BY <1>2 DEF Dlv!Waiting
<1>14. Walked'
  BY <1>2, <1>6, <1>12, <1>13 DEF Walked
<1>15. Drafted' /\ Charges' /\ Bounded'
  BY <1>2 DEF ClaimInv, Drafted, Charges, Bounded
<1>16. Dlv!WalkIsThoroughStep
  <2>1. cursor' = 0 => Dlv!Complete(page)
    BY <1>6 DEF Dlv!ConstantsOK
  <2> QED
    BY <1>12, <2>1 DEF Dlv!WalkIsThoroughStep, Dlv!Sick
<1> QED
  BY <1>7, <1>11, <1>14, <1>15, <1>16 DEF ClaimInv

\* The server stops: transactions, polls and the walk are gone.
LEMMA RestartKeeps ==
  ASSUME Dlv!ConstantsOK, ClaimInv, Dlv!Restart
  PROVE  ClaimInv'
<1>1. /\ lock' = None /\ draft' = Dlv!Empty /\ polls' = [p \in Polls |-> 0] /\ cursor' = 0
      /\ UNCHANGED <<condition, present, delivery_rows, walk, charged>>
  BY DEF Dlv!Restart
<1>2. draft' \in DraftRow /\ draft'.held = {} /\ draft'.taken = {} /\ None \notin Polls /\ MAX_REPAIRS \in Nat
  BY <1>1 DEF Dlv!Empty, DraftRow, Dlv!ConstantsOK
<1>3. ClaimTyped' /\ Bounded'
  <2>1. polls' \in [Polls -> 0 .. MAX_REPAIRS]
    BY <1>1, <1>2
  <2>2. lock' \in Polls \cup {None} /\ cursor' \in Dlv!Sources \cup {0}
    BY <1>1
  <2> QED
    BY <1>1, <1>2, <2>1, <2>2 DEF ClaimInv, ClaimTyped, Bounded
<1>4. ClaimTables'
  <2>1. Leases(draft'.held, draft'.taken) /\ Blamed(draft'.held)
    BY <1>2, EmptyTable
  <2> QED
    BY <1>1, <2>1, TablesMove DEF ClaimInv, ClaimTables
<1>5. Drafted' /\ Walked'
  BY <1>1 DEF Drafted, Walked
<1>6. Charges'
  <2> SUFFICES ASSUME NEW p \in Polls
               PROVE  charged[p] + 0 <= MAX_REPAIRS
    BY <1>1, <1>2 DEF Charges
  <2> QED
    BY PollTyped
<1> QED
  BY <1>3, <1>4, <1>5, <1>6 DEF ClaimInv

\* Every step.
LEMMA ClaimStep ==
  ASSUME Dlv!ConstantsOK, ClaimInv, [Dlv!Next]_(Dlv!vars)
  PROVE  ClaimInv'
<1>1. ASSUME NEW s \in Dlv!Sources, Dlv!Store(s) \/ Dlv!Requeue(s)
      PROVE  ClaimInv'
  BY <1>1, SourceKeeps, RequeueKeeps
<1>2. ASSUME NEW p \in Polls, Dlv!OpenPoll(p) \/ Dlv!ClosePoll(p) \/ Dlv!Begin(p) \/ Dlv!ClaimFails(p)
      PROVE  ClaimInv'
  BY <1>2, OpenCloseKeeps, BeginKeeps, FailKeeps
<1>3. ASSUME NEW p \in Polls, Dlv!Claim(p)
      PROVE  ClaimInv'
  BY <1>3, DeliverKeeps, HoldKeeps, EmptyKeeps DEF Dlv!Claim
<1>4. CASE Dlv!Tick
  BY <1>4, WalkTicks
<1>5. CASE Dlv!Restart
  BY <1>5, RestartKeeps
<1>6. CASE UNCHANGED Dlv!vars
  BY <1>6 DEF Dlv!vars, ClaimInv, ClaimTyped, Bounded, ClaimTables, Leases, Blamed, LargeIn,
       Drafted, Charges,
              Walked, Dlv!Waiting
<1> QED
  BY <1>1, <1>2, <1>3, <1>4, <1>5, <1>6 DEF Dlv!Next

\* What is leased was delivered in full and is not held, a failure is charged to its cause,
\* and a long poll holds no more than its repairs, whatever claims, ticks, errors and
\* restarts interleave (admission_claim.rs, claim_in_transaction; routes/jobs.rs, lease).
THEOREM DeliveriesAreSound == Dlv!ConstantsOK => (Dlv!Spec => []ClaimHolds)
<1> SUFFICES ASSUME Dlv!ConstantsOK
             PROVE  Dlv!Spec => []ClaimHolds
  OBVIOUS
<1>1. Dlv!Init => ClaimInv
  BY ClaimInitial
<1>2. ClaimInv /\ [Dlv!Next]_(Dlv!vars) => ClaimInv'
  BY ClaimStep
<1>3. ClaimInv => ClaimHolds
  BY ClaimImplied
<1> QED
  BY <1>1, <1>2, <1>3, PTL DEF Dlv!Spec

\* When a walk is complete, everything that waited when it began and still waits validates,
\* however the walk was cut into pages and whatever was stored, leased or returned
\* meanwhile (validation.rs, maintain_campaign).
THEOREM WalkIsComplete == Dlv!ConstantsOK => (Dlv!Spec => Dlv!WalkIsThorough)
<1> SUFFICES ASSUME Dlv!ConstantsOK
             PROVE  Dlv!Spec => Dlv!WalkIsThorough
  OBVIOUS
<1>1. Dlv!Init => ClaimInv
  BY ClaimInitial
<1>2. ClaimInv /\ [Dlv!Next]_(Dlv!vars) => ClaimInv'
  BY ClaimStep
<1>3. ClaimInv /\ [Dlv!Next]_(Dlv!vars) => [Dlv!WalkIsThoroughStep]_(Dlv!vars)
  <2> SUFFICES ASSUME ClaimInv
               PROVE  Dlv!WalkIsThoroughStep
    OBVIOUS
  <2>1. CASE Dlv!Tick
    BY <2>1, WalkTicks
  <2>2. CASE ~ Dlv!Tick
    BY <2>2 DEF Dlv!WalkIsThoroughStep
  <2> QED
    BY <2>1, <2>2
<1> QED
  BY <1>1, <1>2, <1>3, PTL DEF Dlv!Spec, Dlv!WalkIsThorough

=============================================================================
