# A TLA+ development of loupe

loupe is a server that queues code scans of registered repositories, leases them
to workers, has a second worker verify what they find, and reports what is
confirmed as a GitHub issue or by mail. A newer kind of review, the campaign,
works through a repository in phases: it surveys units, drills into leads and
verifies findings under a budget. The hard part is seldom a single handler; it is
what happens between them: workers that disappear and come back late, reapers that
run beside every request, operators who retry and cancel, answers that are lost,
deliveries that cannot be part of a transaction. The modules here model that part
from the Rust sources; every definition names its lines in `PROJECT.json` (`map`).

## Inventory

| part | state | operations | touches |
|---|---|---|---|
| state machines (`loupe-core`) | none | `JobState::apply`, `FindingState::apply`, `roll_up_verdicts` | every write of a state column |
| job queue (`loupe-storage/jobs.rs`, `scheduler/`, `admission_claim.rs`) | `jobs` | enqueue, claim, heartbeat, complete, cancel, retry, reap | findings, long poll |
| findings (`findings.rs`, `recovery.rs`) | `findings`, `finding_verifications` | submit, settle, verdict, deadline, approve, reject, recover | jobs, reports |
| reports (`reports.rs`, `reporters/`) | receipts in memory, `report_identity` | select, deliver, mark, retry | findings; the outside |
| App tokens (`github_app.rs`) | one cached token and its lock | mint, reuse, invalidate after a 401 | reports; GitHub |
| long poll (`routes/jobs.rs` `lease`) | a `Notify`, a deadline, repairs | subscribe, claim, sleep | jobs |
| enrolment (`auth.rs`, `workers.rs`) | `workers` | register, revoke, let a request in | jobs |
| registry (`repos.rs`, `github_app_credentials.rs`) | `repos`, credentials | register, update, delete, set the App | reports |
| request budgets (`request_budget.rs`) | a bucket per worker and route | admit, read the body | every worker route |
| data directory, migrations (`init.rs`, `migrations/`) | files, schema version | init, serve, upgrade | everything stored |
| campaigns (`campaign*.rs`, `phase_lifecycle.rs`, `admission*.rs`) | campaigns, intents, spending, phase jobs | open, claim, checkpoint, finish, cancel, advance, reap | units, leads, findings |
| generations (`generations.rs`) | generations, active pointer | pin, activate, succeed | campaigns |
| units (`unit_holds.rs`, `review_units.rs`) | assignments, batches | hold, hand over, report, compact | phase jobs |
| leads, evidence (`leads.rs`, `review_authority/`) | checkpoints, leads, receipts | submit, decide, drill down | phase jobs |
| inventory (`inventory*.rs`) | a manifest and its rows | declare, upload, seal, dispose | generations |
| claim order and delivery (`admission_candidates.rs`, `admission_claim/`) | turns, bursts, quarantine | choose, validate, deliver, hold | jobs, campaigns |
| worker (`loupe-worker`) | its lease, child processes, sockets, clones | run a job, keep the lease, report | every worker route |
| clients, TLS, wire and text types | none of their own | - | - |

SQLite serialises transactions: one process owns one locked connection, and every
handler modelled here runs in one IMMEDIATE transaction. Concurrency on the server
is therefore between transactions, and between a transaction and what follows it
(a notification, a delivery, a receipt). On the worker it is between tasks, child
processes and sockets. What can go wrong there is the list `hazards` of
`PROJECT.json`, each with the line where it bites.

What makes the parts correct:

* queue - an attempt that lost its job can do nothing to it; a live lease is not
  taken away; attempts stay within their budget; a dead worker's job comes back;
* findings - nothing that had to be verified is reported unverified; a decision is
  never undone by a retry, a late verdict or the reaper; no finding is verified
  twice at once; none is left pending by a scan that is over;
* reports - what the database calls reported went out; a repeat has a reason;
* requests - nobody sleeps beside work it was told of; every request ends; a revoked
  worker starts nothing; a window lets through what it says;
* campaigns - work is paid for once, settled once and never lost; a closed campaign
  is quiet; what it calls complete is complete; repeated requests get one answer;
* worker - what it calls a success was stored; ceilings hold with many connections;
  secrets stay inside; helpers, sockets and locks do not outlive their use.

## Modules

### Queue

**StateMachine** is `state_machine.rs`: two tables (`JobFrom`/`JobTo`,
`FindingFrom`/`FindingTo`) and `RollUpVerdicts`. A row that is not in the
database has the state `"absent"`.

**JobLifecycle** is one repository's queue and findings. `jobs`, `findings` and
`verdicts` are the three tables; `attempt` is what each running worker attempt
believes it was assigned, which the server does not see; `repo` the verification and
approval settings; `cause` an auxiliary record of what dismissed a finding.
One action is one transaction:

| action | code |
|---|---|
| `EnqueueScan`, `ScheduleDue` | `routes/jobs.rs enqueue_scan`, `maintenance.rs schedule_due` |
| `Claim`, `Quarantine` | `admission_claim.rs claim_in_transaction`, `admission_quarantine.rs hold` |
| `Heartbeat`, `SubmitFinding`, `SubmitVerdict` | `jobs.rs heartbeat`, `findings.rs submit`, `reports.rs submit_verdict` |
| `CompleteScan`, `CompleteVerify`, `CompleteFailed` | `reports.rs complete_assignment` and what it calls |
| `Cancel`, `RetryScan`, `RetryVerifyJob`, `RetryVerification` | `jobs.rs cancel`, `retry_failed`, `recovery.rs retry_verification_candidates` |
| `Approve`, `Reject`, `UpdateRepo`, `MarkReported` | `findings.rs approve`, `reject`, `repos.rs update_raw`, `reports.rs ReportReceipt::complete` |
| `ReapLeases`, `ReapValidating` | `jobs.rs reap_legacy`, `findings.rs reap_stale_validating` |
| `AttemptEnds`, `Tick` | the worker process, the clock |

Every worker request carries the guard `LeaseHeld`: state, worker, capability and
expiry are checked in the transaction of the request. A request stamps `now` when
it arrives and may run up to `RequestDelay` seconds later; the expiry is compared
with that stamp, and a heartbeat renews from it. Time is kept relative (seconds
left), so no clock has to be bounded. A capability hash is the attempt that holds
it. What is left open: which job of the best rank is claimed first, whether a
repository is due, and why a stored row cannot be delivered (any claim may be
quarantined). A claim that quarantines one job and leases the next in the same
transaction appears as two steps, and the candidates of one retry-verify request as
one step each; they touch different rows. Operator requests and reapers use the
time of their transaction.

**FindingPromise** is the abstract specification: a finding is open, then
withdrawn, refused or accepted; a refusal is final; what is accepted is only
ever published. `JobLifecycle!PromiseKept` is its `Spec` under the mapping
`Stage`: the run `leases` checks that the detailed module implements it, and
`JobLifecycle_proofs` proves it.

**LongPoll** separates the steps that JobLifecycle joins: a handler commits
and notifies later; a poll subscribes, claims and sleeps, and may be dropped. The
reaper, the delayed requeue and the campaign tick requeue without notifying, and
checkpoints wake one waiter, as in the code.

**Enrolment** lets a request in at the door (`auth.rs`) and runs its transaction
later, with registrations and revocations in between. The claim and the campaign
routes look at `revoked_at` again; the older routes do not.

**AppTokens** is the installation-token cache: the clock is read before the lock,
the lock is held across the mint, GitHub may reject a token or never answer.

### Server

**ReportDispatch** follows a report after the transaction that selected it:
`dispatch` is what each handler still has to deliver and to mark, `rows` the findings
with their `report_identity`. Row numbers are used again after a repository is deleted;
identities never are. Deliveries fail before or after they took effect, receipts
fail, the server stops.

**Registry** is the repositories and their credentials. Each route is one immediate
transaction, except that setting the App asks GitHub first and stores afterwards.

**RequestBudget** is the bucket of `request_budget.rs`: a request reads the clock,
waits for the lock, and refills from the time it read. The window it promises is
therefore widened by `Rate * MaxDelay`, and by as much again whenever the worker's full
entry was reclaimed (see `ServerParts_proofs`). The run has two instances: one with all
three resources and a table for one worker, one with three workers and a table for two.

**DataDir** is `loupe-server init` file by file (`create_new`, then fill; the Unix build, since
elsewhere `write_secret` opens with `File::create` and writes over what is there), run
twice at once or killed at any step, beside a server that reads the directory.

**Upgrade** is the schema migration: one immediate transaction, version read after the
lock, foreign keys checked before commit, an older build refusing a newer schema.

### Campaigns

**Campaign** is one campaign: its state and deadlines, the intents (pending, admitted,
blocked, done), the phase jobs and their leases, and what was spent. Actions are the
claim of queued, pending and ordinary work, holds, preparation and sealing, unit
results, leads, the three terminal receipts, heartbeat, failure, cancellation of a job
or of the campaign, the reaper, the tick's `advance` and the clock. Opening is an
operator's call that no HTTP route of this commit reaches.

**Generations** is the lineage of a repository's commits: pinning, activation,
superseding and successors, with row ids handed out in ascending order
(`IsNewRow`).

**SurveyUnits** is the assignment of units to survey jobs: epochs, holds, handover,
batches and their compaction while a receipt is under way, and the quarantine of a queued
survey, a batch or units (`HoldQueued`, `HoldBatch`, `HoldUnits`).

**CampaignVerdicts** is the verification of a campaign's findings: one transaction per
request, posting and recording in one step, sealed receipts and their replay, and the
findings of older scans beside them so that the validating reaper runs.

**LeadEvidence** is one generation's checkpoints, leads and decisions. A refused
request changes nothing; the replay of a stored one is answered before the limits
are looked at.

**Inventory** is the manifest: declaration, ordered upload, sealing, dispositions,
takeover by another owner. The worker's side does not exist in the repository.

**ClaimRanking** is the order of claims: pools, the reserve, weights, turns and bursts,
the last two kept in TEMP tables and forgotten at a restart. A claim ranks what it is offered
after the kinds its worker does not take are left out (`Takes`). The burst that was to end with
a survey is then ended by whatever such a worker takes (`Borrows`; the tests call it a borrowed
opportunity), so that a survey may be passed over by `BURST` claims, and by `BURST + 1` more for
each burst that was borrowed; `passed` and `borrowed` are the histories that say so.

**ClaimDelivery** is a claim's savepoints: a candidate that does not decode, is too
large or is damaged is blamed and held, within a number of repairs per poll; a
background walk looks at the waiting ones.

### Worker

**WorkerJob** is one lease over a network that loses and delays requests and answers:
heartbeat, execution, submission, completion, cancellation and quarantine.

**ModelBroker** is the proxy between an agent and the model: connections that count
requests, output and tokens with compare-and-swap beside each other, a secret that
taints the session, finish and abort.

**RepoCache** is the directory of bare clones: locks, refresh, rebuild, pins, eviction, and
removals, clones and checkouts that fail and leave a clone half done or ask for another.
**AgentSession** is the life of an agent process, its tools and the flush of its verdict.
**NetworkSupervisor** starts the sandbox's network helpers, loads the packet filter and
tears down; when it is killed, its pipes close and its children get their signal at
different times (`BlockPipeCloses`, `OrphansDie`). **SourceDiscovery** is the walk that
finds the projects of a tree, in which every entry can be read: those that cannot
(`filter_map(Result::ok)` and a failing `metadata`) are left out by the code as if they were
not there, which is a smaller tree. **ScanFanout** is the scan's sessions under a permit
count, with cancellation. **GitCredentials** is the credential helper, its sockets and the
checks of the destination.

### Composition

**MCQueue**, **MCServer**, **MCCampaigns** and **MCWorker** put components side by side; a
configuration gives their constants small values and says which components it runs
(`Parts`). The components they instantiate have no variable in common: where two of them are
about one table, each keeps the columns and the operations it is about and leaves the rest
of the other's steps open. Nothing is gained by interleaving such components, so a behaviour
picks one at the start (`part`) and runs it while the others stay as they began; the states
of a run are the sum, not the product, of the components' states. An invariant `part = "x"
=> X!P` says of the run exactly what `P` says of the component alone.

**JobLifecycle_proofs**, **ReportDispatch_proofs** and the other modules whose names
end in `_proofs` hold the theorems.

Definitions whose comment starts with "Fault:" are not part of any specification.
Each is a plausible mistake in the definition that follows it; `mutants` in
`PROJECT.json` says which property finds it, so that every property is known to
be able to fail.

## Runs

| run | components | what it shows |
|---|---|---|
| leases | JobLifecycle in three scopes, delay 1; LongPoll; Enrolment; AppTokens | the fence around a lease, the attempt budget; no double verification, orphaned verify job or revived decision (`FindingPromise` is implemented); settings that change; lost wake-ups, revocations, mixed-up tokens |
| queue_ends | the same four, fair | abandoned leases, validating findings, polls, a revoked worker's leases and dispatches end |
| server | ReportDispatch, Registry, RequestBudget, DataDir, Upgrade | reported means delivered, repeats have a reason; credentials, windows, directories and upgrades keep their promises |
| campaigns | Campaign, SurveyUnits, CampaignVerdicts | work is paid once, settled once, never lost; repeated requests get the sealed answer |
| admission | Campaign (coverage), Generations, LeadEvidence, Inventory, ClaimRanking, ClaimDelivery | what campaigns pin, choose, deliver, record and call complete |
| campaigns_end | Campaign, ClaimDelivery, fair | campaigns end though no worker acts; damaged sources are held and sound ones get out |
| worker | the eight worker modules | the races of a lease, a session, a clone, a filter, a walk, a fan-out and a credential |
| worker_ends | seven of them, fair | each comes to an end |
| retry_doc, rollup_doc, mint_doc, pin_doc | JobLifecycle, AppTokens, RepoCache | documents and code disagree (below) |

The definition of each property says what it is about; `hazards` says which line of the
code it guards.

### Bounds

The job queue of the run `leases` is explored in three scopes, which bound what a behaviour
uses at once and leave all actions in: `leases` has two rows with two workers and two
attempts under way, `recovery` three rows with one attempt under way and one verdict of a
verify job, `settings` two rows and one attempt while the operator changes the settings.
Every property of the queue is checked in all three. Three jobs are two scans and a verify
job, or a scan and two verify jobs of one finding, the smallest mixes in which two
recoveries compete. `MAX_ATTEMPTS` 2 (3 in the code) has a first, a last and an exhausted
attempt. A lease of one second has a live, a last and an expired second; deadlines and
budgets likewise. Two attempts are an old and a new holder of one job. Two row numbers and
three identities let a number be reused while a batch of two is under way. In the campaigns
two or three jobs let an attempt, its retry and somebody else's job meet; two units let one
be handed over while the other is reported. Ceilings of 1 to 3 are reached by two
connections from below. The marker depth of the walk is 2 (5 in the code), and its trees are
a base, two features and an optional package. The credential helper takes 1 or 2 connections
(16 in the code). A delivery count stops at "more than once"; clocks of the absolute kind
stop at `MaxTime`; tokens, secrets and identities run out: `leases` has two tokens, so that
a dispatch replaces one, and `mint_doc` has the three it takes to mint one too many. In the
ranking one worker takes surveys and another does not. `JobLifecycle` has no bound in its
guards other than the number of rows.

Symmetry is over rows, keys, capabilities, identities and requests that no definition
tells apart, and is not used where liveness is checked. Deadlock is checked in every run;
where a component really may stop (nobody is left to act) its group allows `Rest`.

### Fairness

Each group states the fairness of its components beside its specification.

* The clock and the reapers tick: `spawn_reaper` and the campaign tick loop until
  shutdown. Nothing obliges a worker, a verifier, an agent, Git, GitHub or an operator
  to act. Each reaper is fair on its own; in the code the second runs after the
  first in the same tick and is skipped if the first returns an error.
* A request's handler is polled by the async runtime, so a step it can take is taken.
  Waiting for the App token's mutex is strongly fair: tokio's mutex is FIFO. So is the
  per-clone lock of the cache.
* The worker's own steps are fair: timers fire (drain, start-up and I/O deadlines), tasks
  are joined, aborted connections end. Answers of the server are not assumed.

### Where documents and code disagree

Four runs expect a violation; `findings` quotes the lines.

* `retry_doc` - a failed verify job is retried although the deadline reaper dismissed its
  finding; the handler's comment says it must still be `validating`.
* `rollup_doc` - a terminal inconclusive verdict dismisses at once; ARCH.md and README.md
  say such a finding stays `validating`.
* `mint_doc` - a dispatch may mint three installation tokens: one up front, and one for each of
  its two posts that GitHub rejects. The reporter's comment and a test's message allow one
  re-mint. `TokensSound` states no bound on the mints; `MintsAreBounded` proves that three is
  the most.
* `pin_doc` - a clone pinned between the collection of the candidates and their removal
  is evicted; the field's comment says eviction skips pinned clones. The runner holds one
  lease at a time, so nothing meets it today.

Others were met while modelling and have no run of their own: the retry of a verify job also
revives a finding that a terminal inconclusive verdict dismissed if an earlier deadline left
its row behind (`routes/jobs.rs`:226 says it does not); findings of a Manual repository stay
`confirmed` (ARCH.md:280 says they are stamped reported); a repository cannot be registered
again under its own label with a PAT (README.md recommends it to change a URL); a scan of a
checkout whose directory does not resolve finds no file and ends well
(`source_discovery.rs`:249); a verify run may return success without a posted verdict;
`init` does not look for an admin key of its own when it decides whether the directory is
fresh. `FindingPromise` and `Stage` state what the code keeps nevertheless: a dismissal is
final once the operator rejected the finding or a verifier confirmed or dismissed it.

Exposures no property states, because nothing promises otherwise: the follow-ups of a survey
that is quarantined between two attempts keep their holds without a mark of it
(`admission_quarantine.rs` blocks only what was admitted to the job), which is the exception
`UnitsAnswered` names; between the death of a network supervisor and the signal to its children
a blocked sandbox may run on (`NetworkSound` excepts that window); a survey waits for as long as
workers that take no surveys end every burst; a finding deduplicated
against a scan that is then cancelled is lost until the next scan; two leads may be
declared duplicates of each other (`drilldown.rs`:234); a crash between opening the
database and recording the admin leaves an `init` to be repeated by hand; a path excluded
by its absolute name; servers of two versions on one database (the README rules it out).

## Proofs

The runs show a property on a small instance, the theorems for every value of the constants.
Four `_proofs` modules extend the component they are about (`Campaign_proofs` adds a generic
instance of four others). The others, `QueueParts_proofs`,
`ServerParts_proofs`, `CampaignParts_proofs` and `WorkerParts_proofs`, extend a group
(`MCQueue`, ...) and speak of its instances; the configurations only give its constants
values, so that a theorem there is about the very formula a run checks. TLC has also checked
the inductive invariants on small instances. A theorem rests on the named assumptions of its
module (`ConstantsAssumption`, `DestinationsAssumption`, `CampaignAssumption`,
`BoundsAssumption`) or, for a component that is instantiated, has its `ConstantsOK` as a
hypothesis; the runs evaluate all of them. They ask that disjoint tables have disjoint keys,
that sets that are counted are finite, and that limits are natural numbers in the relation
the configuration code enforces.

### From a component to its group

A group's `RunSpec` lets a behaviour run one of its components. `QueueComposes`,
`ServerComposes`, `CampaignsCompose` and `WorkerComposes` prove that every behaviour of it is a
behaviour of each component's `Spec`: the initial states are the conjunction of the
components', and a step of one leaves the others' variables alone. A component's theorem
(`RevocationIsFinal`, say, about `Enrol!Spec`) then gives the run's property
(`QueueRevocations`, about `RunSpec`) at once, for every value of the group's constants. A few
instances are of a fixed size and have no such theorem: the two of `RequestBudget`,
which differ in size, and `LeadEvidence`, `Inventory`, `ClaimRanking` and `ClaimDelivery` in
the run `admission`. What they promise is proved of a generic instance of
the component (`Bud`, `Ev`, `Mani`, `Rank`, `Dlv`) instead.

### JobLifecycle_proofs

`TypeOK` is not inductive: a claim adds one to `attempts`, so its bound needs to
know that no job is queued with all its attempts used. `BudgetInductive` therefore
proves `TypeOK /\ AttemptBudget` together, one lemma per family of rows the actions write.
`CapabilityFence` (a capability opens one leased job, to its own attempt) is inductive on
top of it; what carries it is that a claim draws a hash no row has, and that every way out
of a lease clears the column. `JobStep` is the relation of one step on one job's row; every
action satisfies it, and the theorems on steps (`JobsMoveByTable`, `LiveLeaseStays`) follow
from it without looking at the actions again.

The second half of the module is the life of a finding. `FindingInv` adds three facts to the
properties. `Unjudged`: verdicts exist only on findings past pending that have to be
verified; without it a requeued finding could meet a verdict of an earlier life.
`ValidatingRequired`: what is being validated has to be verified. `OperatorDecided`: an
operator's rejection of such a finding follows a decisive verdict, so the retry, which asks
for the absence of one, cannot revive it. An action moves a finding in one of nine ways
(submitted, withdrawn, taken, revived, ...); one lemma per action says which, one says that
each way keeps the invariant, and the refinement `PromiseIsKept` maps each way to a step of
`FindingPromise` or to a stutter. The abstract stage is a function of the finding's row,
verdicts and cause of dismissal.

### ReportDispatch_proofs

`ReportedWasDelivered` needs to follow a member from its selection to its receipt:
`Selected` (its identity was drawn, its row is confirmed or reported if it is
still the same row), `SentWasDelivered` (what is on a receipt went out). That a row number
may be reused after a deletion is why members are pairs of a row and an identity, and why
every clause asks whether the member is still `Valid`. `RepeatsExplained` needs
`WaitsOnce` and `Recorded` as well: a member that is not excused waits in one handler, has
not gone out, and once out is on a receipt, marked or deleted.

### Campaign_proofs

The longest argument: twenty-five actions on jobs, items, the budget and the campaign.
`WorkAccounted` says that the subject of a queued job is admitted to it.
That is not inductive, since a job becomes queued from leased; `LiveOwns` says it
of leased jobs too, but only while the campaign runs, because `BlockAll` takes the subjects
of leased jobs away when it ends. What closes the circle is that a failed
attempt is queued again only while the campaign runs. `OneWorker`, `SubjectJobs` and
`UnitJobs` keep apart the jobs and the two kinds of work, `Uncreated` and `Ungenerated`
say what does not exist yet (so that the first charge fits the budget, and a commit that
moved on ends the campaign before there is work), `ReasonCloses` is what makes a
completed summary final. Most steps start no job; for these `CarriedKeeps` reduces the
invariant to three relations between the old and the new state (`Carried`, `WorkCarried`,
`OwnersCarried`), for the others `JobStarts` does it once. The same lemmas give the action
property `WorkSettles`.

The module also holds the arguments for two tables a campaign writes and for the order and the
delivery of claims, of generic instances.

`EvidenceIsSound` of LeadEvidence states six properties at once, because their invariants
lean on each other. `AnswersAgree` is about a history, so the invariant ties the history to
the tables: whatever a worker was told is the answer of a recorded checkpoint or of a sealed
receipt (`ToldTrue`), and there is one record per job, operation and key (`Recorded`) and one
receipt per job (`SealedOnce`, which needs that a receipt ends its job). `OneDrilldown` comes
from `Drilled`: identities are unique among leads, and a live drilldown and the intent of its
lead name each other. `DecisionStands` needs `SealedStands`: a lead closed by a receipt is not
touched again, because `Admit` takes only pending intents and a closed lead's intent is
complete (`Waiting`). `EvidenceBounded` is an equation between cardinalities (`Counted`): an
accepted request adds one key and one row, in `CreateKeeps` to the leads and in `AttachKeeps`
to the observations, and the limit is checked on the records of every attempt. All decisions of
a drilldown share `DecisionKeeps`; they differ in what they leave on the lead and its intent
(`LeadDecided`).

`InventoryIsSound` of Inventory: `Stored` says that what is stored is a listing, as long as
what was received; an upload extends it by a chunk whose first path is beyond its last
(`PrefixStays`), so that the seal's comparison is one of whole listings. `Histories` counts:
the accepted dispositions of an entry name the revisions before its own, one each, which is
what no lost update means, and a survey's request that repeats or comes late changes nothing
(`HistoryGrows`). `InventoryStands` follows from the same facts.

`ClaimsAreFair` of ClaimRanking. The claim takes a candidate better than all others, and
that there is one is the first thing to show: rank keys are tuples of whole numbers bounded
from below, and `NarrowAll` narrows the candidates place by place to those that are best so
far (`NarrowStep`), until the source's own number leaves one. `FundedHasPool` says that what
the query calls affordable `choose_pool` can pay for, which is `NoBarrenClaim`. For the wait
of a survey the invariant is `passed <= burst + (BURST + 1) * borrowed`: a claim that passes
over a survey adds one to `passed` and to the burst, or, at a full burst, resets it.
`PromotedFirst` shows that then no worker that takes surveys passes over the one that is
promoted, so the reset is a borrowed one and pays `BURST + 1`. `ReserveIsKept` counts the
leased jobs beside the verifications (`Beside`): a claim adds one only within the reserve.

`DeliveriesAreSound` of ClaimDelivery: the same predicates (`Leases`, `Blamed`) hold of the
database and of the open transaction's draft, so a commit carries them over and a rollback
needs nothing. `Drafted` says the draft only adds to the database it started from; `Charges`
is the repairs' balance, what a poll has committed, what its open claim has held and what is
left add up to at most its allowance. A unit that validates may be held only with a survey
too large as a whole; the proof compares the large units of the tried batch with all that
wait (`HoldBlames`). `WalkIsComplete` rests on `Walked`: behind the cursor, nothing that
waited from the walk's start is still waiting with rows that do not validate. It survives a
source coming back, because only what validates was ever leased, and a new source, because
the walk's history has only what was stored before. That a page which is not full is
everything left, and that a page cut by the repairs is inspected from below without a gap,
are facts about ranks in finite sets of numbers (`ShortPage`, `FewerBefore`, `LastOf`).
Nothing bounds the number of sources; what is stored at any time is bounded (`Bounded`).

### QueueParts_proofs

`WakeupsReachClaims` of LongPoll has one part that is inductive, `NoLostWakeup`. The other,
`CheckpointReachesClaim`, is not: it lets a sleeping poll count as on its way when it was woken
with all others, and such a poll drops its wake-up when its request is dropped, whereas one
that `notify_one` woke hands it on. `OnItsWay` counts only the latter, polls that have yet to
look and the stored permit; a claim that looks settles it for all.

`RevocationHolds` of Enrolment is about requests that were on their way when the worker was
revoked. `DoorHolds` says where such a request may be: one that would count as late has been
sent and not let in, and its certificate is revoked, so the door refuses it. A request that
was let in before is stopped by the second look at the certificate in the transaction of the
claim; that look is what `NothingStray` needs.

`TokensSound` of AppTokens speaks of the past: a token is minted after the 401 it answers,
and a second one for a key has a reason. `LockHeld` (who mints holds the lock) and
`CachedLast` (a key's last token, if it was put into the cache and nobody dropped it, is still
there with its own expiry) explain a second mint. `MintedLater` says that whatever
arrives at the cache while a dispatch waits to retry is younger than its 401, and
`Allowance` how often a dispatch may still mint, which bounds its row and gives
`MintsAreBounded`.

### WorkerJob_proofs

`ResultsSound` says what a recorded success stands for; requests are lost, delayed and
answered after their client gave up, so the success the server records may have left a
runner that has since started another lease. `Won` is what a claim of success stands for
and goes on standing for: the attempt's output, if it produced one, is stored, its scanner
was not cut short, it was not quarantined before the claim, and whoever holds the
attempt is past every step that could change that (`Past`). `ClaimsWon` says it of
every claim on its way, `DecidedWon` of the one that was recorded. `RunnerOwns` (an attempt
is run by the worker it was leased to) keeps two runners apart, `Fresh` says that an attempt
that has not run has neither output nor cut, and `OutputAnswered` ties the answer a runner
reads to its own request. All the runner's actions are instances of one relation,
`RunnerStep`, with an obligation on the place it goes to, `Arrives`; the lemma
`RunnerKeeps` does the work once. The run has one worker process that leases the job twice;
the theorem covers any number.

### CampaignParts_proofs

`SettledByVerdict` of CampaignVerdicts counts conclusive verdicts. The invariant states the
same without counting (`OneVerdict`, `VerdictAgrees`), and one lemma turns it back into a
cardinality. A verdict is accepted only for a leased job, and the job's receipt is the last
thing the job does (`Sealed`), which is why a repeated request can only read the receipt.
`AdmittedLives` is the other half of "no verification is lost": an admitted intent's job is
queued or leased and is about this finding; every way a job ends either seals a receipt or
blocks the intent. `WithinLimits` is needed for types alone: a job that is queued has an
attempt left. `PreparedLast` bounds the preparations: only a finding that was let out has
been prepared. Actions that say nothing to a worker fall under two lemmas, one for the queue
(`WorkKeeps`) and one for findings that move (`MovesKeep`, with the moves listed in
`Moves`); the receipt has its own argument.

`LineageSound` of Generations: `Based` is the heart of it, whatever is being built is built
on the baseline of the moment, and on none while there is none. Together with
`SealedBootstrap` (only the manifest of a generation without predecessor is sealed) it shows
that `Finalize` activates a generation only while there is no baseline and nothing else is
being built. The branch of `Finalize` that retires an older baseline is therefore dead until
a recipe seals successors; the proof uses that the code guards it, and shows that it is
never taken. `PinsHeld` needs `OneCampaign`: a new generation supersedes bootstraps only
while no other campaign runs. A step touches the generations in three ways, `Noted`, `Born`
and `Activated`, with one lemma each; the campaign's row is dealt with by `RowKeeps`.

`UnitsAnswered` of SurveyUnits. `Epochs` (an epoch of a unit has one owner) and `LiveOwns`
(a job that may still run owns its units in their present epoch) keep the jobs apart.
`HoldsStand` says whom a held unit waits for: outside a batch its own job's receipt, unless
it is blocked; in a batch the batch, which is waiting, blocked, or admitted to a job that
has yet to report the unit; a survey that was quarantined while queued may keep holds of its
own, and its batch is blocked with it. With `Incoming` (the batch a running job was given is
still what it was) this gives `Deliverable`, that no check of a receipt can refuse a job
that runs. The receipt itself is the hard step (`FinalizeKeeps`): follow-ups are ordered,
cut into batches by division and numbered behind the batches there are, and each new batch
has to be admissible as it is cut. `RanksFill` shows by counting that ranks in a strict
order have no gap, `ClassBatches` and `FrozenBatches` that a batch then has as many members
as its row says, in places 0, 1, 2 and so on. `CoverageStands` needs in addition that a
covered unit is in no batch that waits (`CoveredIsOut`): its epoch has one owner, who
reports once.

### WorkerParts_proofs

`CeilingsHold` of ModelBroker bounds what all connections of a session do together while
each only checks its own step. `SendsCounted` counts the connections that have passed the
check and not sent yet; `TokensOpen` bounds the tokens by the ceiling and one reply for each
connection that has closed, since the ceiling is looked at before a reply is read. Both
count sets of connections, so each action needs to know which connection enters or leaves
them; four counting lemmas say it once.

`VerdictsDelivered` of AgentSession relates what the agent was told to what the server has.
`AgentPlaces` says what every place of the broker, and each of its ends, stands for: it is
`done` in a verify run that had a connection only with a verdict that was flushed, it ends
`quarantined` only after a hit. `AgentWays` says that the worker returns only when the
broker's task is over or gives both up. Both are needed for `ReturnIsFinal` too, an action
property.

`CacheSound` of RepoCache. `PinsExact` counts the callers that hold a guard (`PinsCounted`): a
caller takes a pin and gives it back in steps that touch nobody else, so each action adds
one, removes one or leaves the set alone. `TypeOK` includes that the access log names no
clone twice (`LogInv`), while it is written by refreshes and by eviction passes that share no
lock; an access takes its clone out of the log before it adds it again, and a pass at `unlog`
still has the clone it removed at the head of its list. `Removed`, `Added` and `Orders` say of
sequences without repetition what taking one entry out, adding one and sorting a set do.

`FanoutSound` of ScanFanout: the permits in use are the tasks that were spawned and have not
ended (`Holding`), taken by the spawner before the task exists and returned by the task's
end. The scan's answer compares two counts, errors against files that were not skipped; that
errors and skipped files are disjoint and finite, so that the counts agree only if every file
is one or the other, is the lemma `FinishKeeps`.

`NetworkSound` of NetworkSupervisor has no constants. `FirstRule` says that a packet gets the
verdict of the first rule that matches it, `RulesDecide` goes through the two rule lists in
their order and shows that they accept what `Permitted` says; `Guarded` says that
the filter is loaded before the sandbox is released and that a helper is gone before its
supervisor passes it.

`CredentialSafe` of GitCredentials is about a thread, a Git process and any number of
helpers that talk over a socket while the host's configuration may change. `Checked` says
that Git is run with what was projected and validated, and `transport_command` pins it;
`ThreadStarted` that a thread with the token exists for a destination over TLS only;
`HelpersTyped` that a helper not started has no answer, so that an answer is about the URL
the helper was asked for. Every step also satisfies `AnsweredOrQuitStep`, which gives
`HelpersAnswer`.

### ServerParts_proofs

`CredentialsSound` of Registry needs `LabelsUnique`: the label of a token is made of the
row, the row it replaces and the time, and a request that meets a label in use fails, so no
two rows come to share one. `NextIsNew` (the number of a new row is not in the table) is
proved by taking a least element in the well-founded order of the naturals. `Unshared` is
what lets a rotation delete the token it replaces. Requests that touch no row fall under
`RowsUntouched`, registration and removal under `RowWritten`, the three ways of changing the
credential under `RepointKeeps`.

`WindowBounded` of RequestBudget bounds what one worker is admitted from any moment on. The
argument is an account: while the worker has an entry, what it was given and what is left in
its bucket is at most one burst and the refill up to the bucket's own time (`Owed`); while
it has none, what it was given has been earned (`Earned`), because an entry is reclaimed
only when it is full. `Grace` is what late charges may have gained. The first attempt at
this proof failed for a good reason. A charge reads the clock before it takes the lock
(`request_budget.rs:171`), and if its worker's full, idle entry was reclaimed in between it
opens a new one at the earlier time, whose refill then counts the seconds of its delay a
second time. The window is thus wider by `Rate * MaxDelay` for each time the entry was
reclaimed, not once, and `window.reclaimed` counts those. The instance of the time had a
table for one worker, in which nobody else's charge can reclaim the entry; the run now has a
second instance with three workers and a table for two, on which the narrower bound fails.
The repository's `README.md:286` says of the reclaim that it "cannot reset spent credit";
that holds up to this term, which is small, since a delay is the wait for a lock and an
entry is idle for `idle_seconds` first.

`DirectoryIsUsable` and `FilesWrittenOnce` of DataDir: several runs of init may meet in one
directory, and what keeps them apart is that a file is created only if it is not there.
`OwnFiles` says what a run may rely on, that the files before the one it is at are its own,
`OneFills` that at most one run is between creating a file and filling it, and `Layered` that
a whole file of one init stands upon whole files of the same init; so whoever wrote the last
file wrote all of them, which is what a server that loads a certificate and a key needs.
`SealedFor` ties the database's key and admin to the run that got that far.

`UpgradesAreSound` and `UpgradesKeepJobs` of Upgrade: `Transactions` says that the open
transaction holds what some number of migrations made of the committed database, step by
step (`JobsKept`), so that the commit changes versions and jobs together. `RunsApart` says
that only the holder of the write lock has a transaction. The first attempt failed for a
good reason. The property used to say that every upgrade ends a lease; on builds 1, 2 and 7
it does, but versions 4 to 6 leave the jobs table alone, and a lease outlives an upgrade
from 5 to 6. The property now says what each migration does to a lease, the run has builds 5
and 6 as well, and the theorem is for every set of builds.

### What is only model-checked

Liveness (`QueueEnds`, `CampaignsEnd`, `WorkerEnds`) and everything that rests on fairness
or ENABLED is out of the prover's reach. So are what recursive functions compute
(`SourceDiscovery`) and the trees of a checkout. The runs' `WindowBounded`,
`EvidenceSound`, `InventorySound`, `ClaimsSound`, `GrantsStand` and `SettledWorkStays` speak of
instances of fixed size. Of their components, `BudgetsHold`, `EvidenceIsSound`,
`InventoryIsSound`, `InventoryStands`, `ClaimsAreFair`, `ReserveIsKept`, `DeliveriesAreSound`,
`WalkIsComplete`, `GenerationsAdvance`, `SettledStaysSettled`, `CoverageStands` and
`SettledForGood` are theorems for every value of the constants.

## Not modelled

About half of the repository's lines are inline tests. Of the rest, what the model leaves
out is data and its conversion: decoding and bounding of requests (`ingress/`), text and
provenance types, wire types, SQL row mappings and table shapes, prompts, rendering of
reports and pages, command-line parsing, certificates, the argument vector of the
sandbox, configuration that is fixed at start, the full-text index and the read-only
views. `PROJECT.json` lists each with the reason. Where such code decides (a row does not
decode, a report is too large), the decision is a nondeterministic choice of the action
that meets it.

## Plan

The model is complete for the components listed as modelled, and their safety properties are
proved, except those of `SourceDiscovery`. What remains is breadth: the parts listed as
partly modelled.
