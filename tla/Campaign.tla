------------------------------ MODULE Campaign ------------------------------
(***************************************************************************)
(* One review campaign: its survey, drilldown and verify jobs, the work     *)
(* they hand to each other, the job budget and the end of the campaign.     *)
(*                                                                          *)
(* A work item is a lead (drilled down by a job), a finding (verified by a  *)
(* job) or a review unit (surveyed).  The row of a lead or a finding is its *)
(* intent.  A unit that needs a follow-up goes through a continuation batch *)
(* of its own here; batches of several units are the matter of SurveyUnits. *)
(* Which eligible candidate a claim takes is left open; ClaimRanking models *)
(* the order.                                                               *)
(***************************************************************************)
EXTENDS Naturals, Sequences, FiniteSets

CONSTANTS
  Jobs, Leads, Findings, Units,
  UrgentItems,           \* leads and findings of the urgent band
  None,
  MAX_ATTEMPTS,          \* policy.max_attempts
  MAX_JOBS,              \* policy.campaign_max_jobs
  URGENT_RESERVE,        \* policy.campaign_urgent_reserve
  VERIFICATION_RESERVE,  \* policy.campaign_verification_reserve
  DEADLINE,              \* campaign_deadline_seconds; the campaign opens at 0
  PHASE_DEADLINE,        \* phase.deadline_seconds
  LEASE, GRACE,          \* lease_seconds, lease_report_grace_seconds
  BACKOFF                \* retry_backoff_base_seconds

Items == Leads \cup Findings \cup Units
Subjects == Leads \cup Findings
Pools == {"general", "urgent", "verification"}

ASSUME CampaignAssumption ==
  /\ IsFiniteSet(Jobs)
  /\ Leads \cap Findings = {} /\ Leads \cap Units = {} /\ Findings \cap Units = {}
  /\ None \notin Jobs \cup Leads \cup Findings \cup Units \cup Pools
  /\ UrgentItems \subseteq Subjects
  /\ {MAX_ATTEMPTS, MAX_JOBS, DEADLINE, PHASE_DEADLINE, LEASE, GRACE} \subseteq Nat \ {0}
  /\ {URGENT_RESERVE, VERIFICATION_RESERVE, BACKOFF} \subseteq Nat
  /\ URGENT_RESERVE + VERIFICATION_RESERVE < MAX_JOBS
  /\ GRACE <= LEASE

VARIABLES
  now,
  campaign,    \* state, recipe, terminal reason, stored coverage and generation
  jobs,
  items,       \* state of the work, the job it belongs to, when it is due
  spent        \* admission charges per pool

vars == <<now, campaign, jobs, items, spent>>

Kinds == {"survey", "drilldown", "verify"}
Live == {"queued", "leased"}

NoJob ==
  [state |-> "absent", kind |-> "survey", item |-> None, attempts |-> 0, eligible |-> 0,
   lease |-> 0, hard |-> 0, prepared |-> FALSE, pool |-> None]

\* `new` is an open unit that no job was assigned yet, `held` one whose follow-up is
\* recorded but not frozen into a batch.
ItemStates ==
  {"absent", "new", "open", "held", "pending", "admitted", "blocked", "complete", "deferred"}

NoItem == [state |-> "absent", job |-> None, due |-> 0]

Active == campaign.state = "active"
BeforeDeadline == Active /\ now < DEADLINE
Busy == \E j \in Jobs : jobs[j].state \in Live
LiveJob(j) == j # None /\ jobs[j].state \in Live
Min2(a, b) == IF a < b THEN a ELSE b

(***************************************************************************)
(* Admission: pools and charges                                             *)
(***************************************************************************)
Capacity ==
  [p \in Pools |-> CASE p = "urgent" -> URGENT_RESERVE
                     [] p = "verification" -> VERIFICATION_RESERVE
                     [] OTHER -> MAX_JOBS - URGENT_RESERVE - VERIFICATION_RESERVE]

\* The pools a class of work may draw on, in the order they are tried.
ClassPools(i) ==
  CASE i \in Findings \cap UrgentItems -> <<"general", "verification", "urgent">>
    [] i \in Findings \ UrgentItems -> <<"general", "verification">>
    [] i \in UrgentItems \ Findings -> <<"general", "urgent">>
    [] OTHER -> <<"general">>

PoolRank(i) == {n \in DOMAIN ClassPools(i) : spent[ClassPools(i)[n]] < Capacity[ClassPools(i)[n]]}

Fundable(i) == PoolRank(i) # {}

ChoosePool(i) == ClassPools(i)[CHOOSE n \in PoolRank(i) : \A m \in PoolRank(i) : n <= m]

(***************************************************************************)
(* Blocking work                                                            *)
(***************************************************************************)
\* Untouched units are deferred, everything that has evidence is blocked.
Blocked(r) == [r EXCEPT !.state = IF @ \in {"new", "open", "deferred"} THEN "deferred" ELSE "blocked"]

\* What becomes of the work of jobs that failed or were cancelled: their admitted items
\* and their holds are blocked, their untouched units deferred.
BlockJobWork(ended) ==
  [i \in Items |->
     IF items[i].job \in ended /\ items[i].state \in {"admitted", "held", "open", "new"}
     THEN Blocked(items[i]) ELSE items[i]]

\* Every unfinished item of the campaign.
BlockAll ==
  [i \in Items |-> IF items[i].state \in {"absent", "complete"} THEN items[i] ELSE Blocked(items[i])]

Ended(j, state) == [jobs[j] EXCEPT !.state = state, !.lease = 0, !.hard = 0, !.prepared = FALSE]

Succeeded(j) == Ended(j, "succeeded")

Requeued(j) == [jobs[j] EXCEPT !.state = "queued", !.lease = 0, !.hard = 0, !.prepared = FALSE,
                              !.eligible = now + BACKOFF]

\* The queued jobs are cancelled; leased ones keep their lease.
QueuedCancelled == [j \in Jobs |-> IF jobs[j].state = "queued" THEN Ended(j, "cancelled") ELSE jobs[j]]

(***************************************************************************)
(* Opening                                                                  *)
(***************************************************************************)
Init ==
  /\ now = 0
  /\ campaign = [state |-> "none", recipe |-> "bootstrap", reason |-> "none",
                 complete |-> FALSE, generation |-> "none"]
  /\ jobs = [j \in Jobs |-> NoJob]
  /\ items = [i \in Items |-> NoItem]
  /\ spent = [p \in Pools |-> 0]

\* The preparation job is the one job that is queued and charged before its first lease.
\* The commit is pinned at the first checkout (a request that names a commit pins it here,
\* the same step done earlier).
Open(j, recipe) ==
  /\ campaign.state = "none"
  /\ campaign' = [campaign EXCEPT !.state = "active", !.recipe = recipe]
  /\ jobs' = [jobs EXCEPT ![j] = [NoJob EXCEPT !.state = "queued", !.pool = "general"]]
  /\ spent' = [spent EXCEPT !["general"] = @ + 1]
  /\ UNCHANGED <<now, items>>

\* A full review of a repository that has a generation, or a commit that moved on: the
\* campaign is recorded as finished, without a job.
OpenUnsupported ==
  /\ campaign.state = "none"
  /\ campaign' = [campaign EXCEPT !.state = "finished", !.reason = "unsupported"]
  /\ UNCHANGED <<now, jobs, items, spent>>

(***************************************************************************)
(* Claims                                                                   *)
(***************************************************************************)
Leased(job) ==
  LET hard == Min2(now + PHASE_DEADLINE, DEADLINE)
  IN  [job EXCEPT !.state = "leased", !.attempts = @ + 1, !.hard = hard,
                  !.lease = Min2(now + LEASE, hard + GRACE), !.prepared = FALSE]

\* A unit that an ordinary survey may take.
NeedsWork(u) ==
  \/ items[u].state = "new"
  \/ items[u].state = "open" /\ ~ LiveJob(items[u].job)

Assigned(taken, j) ==
  [i \in Items |-> IF i \in taken THEN [items[i] EXCEPT !.state = "open", !.job = j] ELSE items[i]]

\* A queued job: the preparation, or a retry, which keeps its charge and its work.
ClaimQueued(j) ==
  /\ BeforeDeadline
  /\ jobs[j].state = "queued"
  /\ jobs[j].eligible <= now
  /\ jobs[j].attempts < MAX_ATTEMPTS
  /\ jobs[j].item # None =>
       items[jobs[j].item].state = "admitted" /\ items[jobs[j].item].job = j
  /\ jobs' = [jobs EXCEPT ![j] = Leased(@)]
  /\ UNCHANGED <<now, campaign, items, spent>>

KindOf(i) == IF i \in Leads THEN "drilldown" ELSE IF i \in Findings THEN "verify" ELSE "survey"

Ready == campaign.generation \in {"ready", "active"}

\* A pending intent or batch: the job is created, leased, given the work and charged.
ClaimPending(j, i) ==
  /\ BeforeDeadline
  /\ Ready /\ (i \in Units => campaign.generation = "active")
  /\ jobs[j].state = "absent"
  /\ items[i].state = "pending"
  /\ items[i].due <= now
  /\ \A k \in Jobs : jobs[k].state \in Live => jobs[k].item # i
  /\ Fundable(i)
  /\ jobs' = [jobs EXCEPT ![j] = Leased([NoJob EXCEPT !.kind = KindOf(i), !.pool = ChoosePool(i),
                                           !.item = IF i \in Subjects THEN i ELSE None])]
  /\ items' = [items EXCEPT ![i].state = "admitted", ![i].job = j]
  /\ spent' = [spent EXCEPT ![ChoosePool(i)] = @ + 1]
  /\ UNCHANGED <<now, campaign>>

\* An ordinary survey of units that need work.
ClaimOrdinary(j, taken) ==
  /\ BeforeDeadline
  /\ campaign.generation = "active"
  /\ jobs[j].state = "absent"
  /\ \A k \in Jobs : jobs[k].state = "queued" /\ jobs[k].kind = "survey" =>
       \E u \in Units : items[u].state = "admitted" /\ items[u].job = k
  /\ taken # {} /\ \A u \in taken : NeedsWork(u)
  /\ spent["general"] < Capacity["general"]
  /\ jobs' = [jobs EXCEPT ![j] = Leased([NoJob EXCEPT !.pool = "general"])]
  /\ items' = Assigned(taken, j)
  /\ spent' = [spent EXCEPT !["general"] = @ + 1]
  /\ UNCHANGED <<now, campaign>>

\* A source that stored data makes undeliverable, found by a claim or by maintenance.
\* Holds the job produced itself stay as they are.
HoldJob(j) ==
  /\ BeforeDeadline
  /\ jobs[j].state = "queued"
  /\ \E state \in {"failed", "cancelled"} : jobs' = [jobs EXCEPT ![j].state = state]
  /\ items' = [i \in Items |-> IF items[i].job = j /\ items[i].state \in {"admitted", "open"}
                               THEN Blocked(items[i]) ELSE items[i]]
  /\ UNCHANGED <<now, campaign, spent>>

HoldItem(i) ==
  /\ BeforeDeadline
  /\ items[i].state = "pending" \/ (i \in Units /\ NeedsWork(i))
  /\ items' = [items EXCEPT ![i] = Blocked(@)]
  /\ UNCHANGED <<now, campaign, jobs, spent>>

(***************************************************************************)
(* A worker's requests.  Lease control needs the lease; domain requests     *)
(* also need a campaign that runs, the prepared attempt and a ready         *)
(* generation.                                                              *)
(***************************************************************************)
Holds(j) == jobs[j].state = "leased" /\ jobs[j].lease >= now

InContext(j) == Holds(j) /\ BeforeDeadline /\ now < jobs[j].hard

Domain(j) == InContext(j) /\ jobs[j].prepared /\ Ready

Bootstrapping(j) == campaign.recipe = "bootstrap" /\ campaign.generation # "active"
                      /\ jobs[j].kind = "survey"

\* The checkout.  The first one pins the commit; an incremental campaign then joins the
\* active generation with the units that are open there, and its survey is given some.
Prepare(j, open, taken) ==
  LET first == campaign.generation = "none"
      incremental == campaign.recipe = "incremental"
  IN  /\ InContext(j)
      /\ ~ jobs[j].prepared
      /\ ~ (first /\ incremental) => open = {}
      /\ taken \subseteq open /\ (taken = {} => open = {})
      /\ jobs' = [jobs EXCEPT ![j].prepared = TRUE]
      /\ campaign' = [campaign EXCEPT !.generation = IF ~ first THEN @ ELSE
                                        IF incremental THEN "active" ELSE "building"]
      /\ items' = [i \in Items |-> IF i \notin open THEN items[i]
                                   ELSE [NoItem EXCEPT !.state = "open", !.job = IF i \in taken THEN j ELSE None]]
      /\ UNCHANGED <<now, spent>>

\* The commit moved on since the active generation: no recipe reviews a successor, so the
\* job is cancelled and the campaign ends with it.
PrepareSuccessor(j) ==
  /\ InContext(j)
  /\ campaign.generation = "none" /\ campaign.recipe = "incremental"
  /\ jobs' = [jobs EXCEPT ![j] = Ended(j, "cancelled")]
  /\ campaign' = IF \E k \in Jobs \ {j} : jobs[k].state \in Live THEN campaign
                 ELSE [campaign EXCEPT !.state = "finished", !.reason = "unsupported"]
  /\ UNCHANGED <<now, items, spent>>

\* The inventory manifest is sealed and the profile published.
Seal(j) ==
  /\ InContext(j)
  /\ jobs[j].prepared
  /\ campaign.generation = "building"
  /\ campaign' = [campaign EXCEPT !.generation = "ready"]
  /\ UNCHANGED <<now, jobs, items, spent>>

SubmitUnit(j, u) ==
  /\ Domain(j)
  /\ jobs[j].kind = "survey"
  /\ items[u].state = "absent"
  /\ items' = [items EXCEPT ![u].state = "new", ![u].job = j]
  /\ UNCHANGED <<now, campaign, jobs, spent>>

\* Only the job that owns the unit now may report on it.
Owns(j, u) ==
  /\ items[u].job = j
  /\ \/ items[u].state \in {"open", "admitted"}
     \/ items[u].state = "new" /\ Bootstrapping(j)

SubmitUnitResult(j, u, state) ==
  /\ Domain(j)
  /\ jobs[j].kind = "survey"
  /\ Owns(j, u)
  /\ state \in {"complete", "held"}
  /\ items' = [items EXCEPT ![u].state = state]
  /\ UNCHANGED <<now, campaign, jobs, spent>>

\* A new intent, and a finished one.
Handoff == [NoItem EXCEPT !.state = "pending"]
Done == [NoItem EXCEPT !.state = "complete"]

\* A lead of a survey or a sibling lead of a drilldown.
SubmitLead(j, l) ==
  /\ Domain(j)
  /\ jobs[j].kind \in {"survey", "drilldown"}
  /\ items[l].state = "absent"
  /\ items' = [items EXCEPT ![l] = Handoff]
  /\ UNCHANGED <<now, campaign, jobs, spent>>

\* Source analysis that remains is due after a delay, every other class waits blocked.
Continuations == {[NoItem EXCEPT !.state = "pending", !.due = now + BACKOFF],
                  [NoItem EXCEPT !.state = "blocked"]}

Covered(rows) == \A u \in Units : rows[u].state \in {"absent", "complete"}

\* The survey's receipt: coverage is computed, a bootstrap generation becomes active, and
\* follow-ups and the rest of an admitted batch are frozen into new batches.
FinalizeSurvey(j, resolved, next) ==
  /\ Domain(j)
  /\ jobs[j].kind = "survey"
  /\ campaign' = [campaign EXCEPT !.generation = "active", !.complete = resolved /\ Covered(items)]
  /\ jobs' = [jobs EXCEPT ![j] = Succeeded(j)]
  /\ items' = [i \in Items |-> IF i \in Units /\ items[i].job = j /\ items[i].state \in {"held", "admitted"}
                               THEN next ELSE items[i]]
  /\ UNCHANGED <<now, spent>>

\* The subject the job was admitted to, still its own.
AdmittedTo(j, i) == jobs[j].item = i /\ items[i].state = "admitted" /\ items[i].job = j

\* Fault: an intent is finished whatever became of it and of the campaign.
FinalizeAnyway(j, l, next, f) ==
  /\ Holds(j)
  /\ jobs[j].item = l
  /\ f = None
  /\ jobs' = [jobs EXCEPT ![j] = Succeeded(j)]
  /\ items' = [items EXCEPT ![l] = next]
  /\ UNCHANGED <<now, campaign, spent>>

\* The receipt of a drilldown: the lead is closed (promoted, with the intent of the new
\* finding f) or deferred to a continuation.
FinalizeDrilldown(j, l, next, f) ==
  /\ Domain(j)
  /\ AdmittedTo(j, l)
  /\ f # None => items[f].state = "absent" /\ next = Done
  /\ jobs' = [jobs EXCEPT ![j] = Succeeded(j)]
  /\ items' = [i \in Items |-> IF i = l THEN next ELSE IF i = f THEN Handoff ELSE items[i]]
  /\ UNCHANGED <<now, campaign, spent>>

\* The receipt of a verification: decisive, or inconclusive with a continuation.
FinalizeVerification(j, f, next) ==
  /\ Domain(j)
  /\ AdmittedTo(j, f)
  /\ jobs' = [jobs EXCEPT ![j] = Succeeded(j)]
  /\ items' = [items EXCEPT ![f] = next]
  /\ UNCHANGED <<now, campaign, spent>>

Heartbeat(j) ==
  LET until == Min2(now + LEASE, jobs[j].hard + GRACE)
  IN  /\ Holds(j)
      /\ until > now
      /\ jobs' = [jobs EXCEPT ![j].lease = until]
      /\ UNCHANGED <<now, campaign, items, spent>>

\* A failed attempt goes back to the queue only while the campaign runs and attempts are
\* left.
RetryOrFail(j) ==
  IF BeforeDeadline /\ jobs[j].attempts < MAX_ATTEMPTS
  THEN /\ jobs' = [jobs EXCEPT ![j] = Requeued(j)]
       /\ UNCHANGED items
  ELSE /\ jobs' = [jobs EXCEPT ![j] = Ended(j, "failed")]
       /\ items' = BlockJobWork({j})

Fail(j) == Holds(j) /\ RetryOrFail(j) /\ UNCHANGED <<now, campaign, spent>>

(***************************************************************************)
(* The operator and the server's background tasks                           *)
(***************************************************************************)
\* Fault: the job ends and its work is forgotten.
CancelForgets(j) ==
  /\ jobs[j].state \in Live
  /\ jobs' = [jobs EXCEPT ![j] = Ended(j, "cancelled")]
  /\ UNCHANGED <<now, campaign, items, spent>>

CancelJob(j) ==
  /\ jobs[j].state \in Live
  /\ jobs' = [jobs EXCEPT ![j] = Ended(j, "cancelled")]
  /\ items' = BlockJobWork({j})
  /\ UNCHANGED <<now, campaign, spent>>

CancelCampaign ==
  /\ Active
  /\ campaign' = [campaign EXCEPT !.state = "cancelled", !.reason = "cancelled"]
  /\ jobs' = QueuedCancelled
  /\ items' = BlockAll
  /\ UNCHANGED <<now, spent>>

Reap(j) ==
  /\ jobs[j].state = "leased" /\ jobs[j].lease < now
  /\ RetryOrFail(j)
  /\ UNCHANGED <<now, campaign, spent>>

\* Fault: the coverage stored by the last survey is believed.
StoredCoverage == campaign.complete

\* Coverage as the terminal summary has it: what was stored, checked against the units.
CoverageNow == campaign.complete /\ Covered(items)

Finished(reason) == [campaign EXCEPT !.state = "finished", !.reason = reason]

\* Fault: queued jobs are left in the queue.
AdvanceKeepsQueued ==
  /\ Active /\ now >= DEADLINE
  /\ items' = BlockAll
  /\ campaign' = IF Busy THEN campaign ELSE Finished("deadline")
  /\ UNCHANGED <<now, jobs, spent>>

\* Past its deadline the campaign gives up what is queued and waiting, and ends when the
\* last lease has.
AdvanceExpired ==
  /\ Active /\ now >= DEADLINE
  /\ jobs' = QueuedCancelled
  /\ items' = BlockAll
  /\ campaign' = IF \E j \in Jobs : jobs[j].state = "leased" THEN campaign ELSE Finished("deadline")
  /\ UNCHANGED <<now, spent>>

Waiting ==
  {i \in Items : \/ items[i].state = "pending"
                 \/ i \in Units /\ campaign.generation = "active" /\ NeedsWork(i)}

\* Waiting work that can never be funded or is due too late is given up.
Hopeless == {i \in Waiting : ~ Fundable(i) \/ items[i].due >= DEADLINE}

\* The campaign runs and nothing is queued or leased: it goes on while some waiting work
\* can be funded, and ends otherwise; what has no explanation then is blocked.
AdvanceIdle ==
  LET unfinished == \E i \in Subjects : items[i].state \notin {"absent", "complete"}
      reason == IF Hopeless # {} THEN "blocked"
                ELSE IF CoverageNow /\ ~ unfinished THEN "completed" ELSE "partial"
  IN  /\ BeforeDeadline
      /\ ~ Busy
      /\ IF Waiting # Hopeless
         THEN /\ items' = [i \in Items |-> IF i \in Hopeless THEN Blocked(items[i]) ELSE items[i]]
              /\ UNCHANGED campaign
         ELSE items' = BlockAll /\ campaign' = Finished(reason)
      /\ UNCHANGED <<now, jobs, spent>>

\* When the last lease that can be given has run out.
Horizon == DEADLINE + GRACE + 1

Tick ==
  /\ campaign.state # "none"
  /\ now < Horizon
  /\ now' = now + 1
  /\ UNCHANGED <<campaign, jobs, items, spent>>

Claim ==
  \E j \in Jobs : \/ ClaimQueued(j)
                  \/ \E i \in Items : ClaimPending(j, i)
                  \/ \E taken \in SUBSET Units : ClaimOrdinary(j, taken)
                  \/ HoldJob(j)

WorkerStep ==
  \E j \in Jobs : \/ \E open \in SUBSET Units : \E taken \in SUBSET open : Prepare(j, open, taken)
                  \/ PrepareSuccessor(j)
                  \/ Seal(j)
                  \/ \E u \in Units : SubmitUnit(j, u) \/ \E s \in {"complete", "held"} : SubmitUnitResult(j, u, s)
                  \/ \E l \in Leads : SubmitLead(j, l)
                  \/ \E resolved \in BOOLEAN, next \in Continuations : FinalizeSurvey(j, resolved, next)
                  \/ \E next \in Continuations \cup {Done} :
                       \/ \E l \in Leads, f \in Findings \cup {None} : FinalizeDrilldown(j, l, next, f)
                       \/ \E f \in Findings : FinalizeVerification(j, f, next)
                  \/ Heartbeat(j)
                  \/ Fail(j)

Advance == AdvanceExpired \/ AdvanceIdle

Next ==
  \/ \E j \in Jobs, recipe \in {"bootstrap", "incremental"} : Open(j, recipe)
  \/ OpenUnsupported
  \/ Claim
  \/ \E i \in Items : HoldItem(i)
  \/ WorkerStep
  \/ \E j \in Jobs : CancelJob(j) \/ Reap(j)
  \/ CancelCampaign
  \/ Advance
  \/ Tick

Spec == Init /\ [][Next]_vars

\* The clock runs, and the background tasks reap leases and advance campaigns.  Nothing
\* is asked of workers.
FairSpec == Spec /\ WF_vars(Tick) /\ WF_vars(Advance) /\ \A j \in Jobs : WF_vars(Reap(j))

(***************************************************************************)
(* Properties                                                               *)
(***************************************************************************)
JobRow ==
  [state : {"absent", "queued", "leased", "succeeded", "failed", "cancelled"}, kind : Kinds,
   item : Subjects \cup {None}, attempts : 0 .. MAX_ATTEMPTS, eligible : Nat, lease : Nat,
   hard : Nat, prepared : BOOLEAN, pool : Pools \cup {None}]

ItemRow == [state : ItemStates, job : Jobs \cup {None}, due : Nat]

\* Rows have the shapes of the tables, and no attempt counter passes the policy's bound
\* (admission_claim.rs, lease).
TypeOK ==
  /\ now \in Nat
  /\ campaign \in [state : {"none", "active", "finished", "cancelled"},
                   recipe : {"bootstrap", "incremental"},
                   reason : {"none", "completed", "blocked", "partial", "deadline", "cancelled",
                             "unsupported"},
                   complete : BOOLEAN, generation : {"none", "building", "ready", "active"}]
  /\ jobs \in [Jobs -> JobRow]
  /\ items \in [Items -> ItemRow]
  /\ spent \in [Pools -> Nat]

Charged(p) == {j \in Jobs : jobs[j].pool = p}

\* The budget counters are the jobs that exist, one charge each whatever their retries,
\* and no pool is overdrawn (admission.rs, charge_raw).
SpendingExact ==
  \A p \in Pools : spent[p] = Cardinality(Charged(p)) /\ spent[p] <= Capacity[p]

\* Work that is admitted belongs to a job that is queued or leased, so it is neither lost
\* nor done twice: every way a job ends settles or blocks what it was given.
AdmittedIsLive ==
  \A i \in Items : items[i].state = "admitted" =>
     /\ items[i].job \in Jobs /\ LiveJob(items[i].job)
     /\ i \in Subjects => jobs[items[i].job].item = i

\* A job of a running campaign that is queued again can be claimed again: its subject is
\* still admitted to it, no other job works on it.
RetryKeepsItsWork ==
  \A j \in Jobs :
    jobs[j].state = "queued" /\ jobs[j].item # None =>
      /\ items[jobs[j].item].state = "admitted" /\ items[jobs[j].item].job = j
      /\ \A k \in Jobs \ {j} : jobs[k].state \in Live => jobs[k].item # jobs[j].item

Settled == {"absent", "complete", "blocked", "deferred"}

\* A campaign that ended is quiet: finished, it has no live job; cancelled, only leases
\* that were out; and no work waits for a claim that can never come.
ClosedIsQuiet ==
  campaign.state \in {"finished", "cancelled"} =>
    /\ \A j \in Jobs : jobs[j].state # "queued"
    /\ campaign.state = "finished" => ~ Busy
    /\ \A i \in Items : items[i].state \in Settled

\* A campaign reported completed has nothing unfinished (campaign_workflow.rs, tick).
CompletedIsTrue ==
  campaign.reason = "completed" =>
    \A i \in Items : items[i].state \in {"absent", "complete"}

\* No lease outlives the attempt's hard deadline, or the campaign's, by more than the
\* report grace, however often it is renewed (phase_lifecycle.rs, heartbeat).
LeaseBounded ==
  \A j \in Jobs : jobs[j].state = "leased" =>
    jobs[j].lease <= jobs[j].hard + GRACE /\ jobs[j].hard <= DEADLINE

\* A campaign's work is paid for once and answered for by a job as long as it is
\* admitted, its leases respect its deadlines, and nothing of a closed campaign runs.
WorkAccounted ==
  /\ TypeOK /\ SpendingExact /\ AdmittedIsLive /\ RetryKeepsItsWork /\ ClosedIsQuiet
  /\ LeaseBounded

\* Finished work stays finished, and blocked work stays blocked for the campaign's
\* lifetime: no late request, retry or reap reopens it.
WorkSettles ==
  [][\A i \in Items : /\ items[i].state = "complete" => items'[i].state = "complete"
                      /\ items[i].state = "blocked" => items'[i].state = "blocked"]_vars

\* Every campaign ends, and every lease, though workers may do nothing at all.
CampaignEnds ==
  /\ Active ~> ~ Active
  /\ \A j \in Jobs : jobs[j].state = "leased" ~> jobs[j].state # "leased"
=============================================================================
