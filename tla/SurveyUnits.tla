---------------------------- MODULE SurveyUnits ----------------------------
(***************************************************************************)
(* Who may report on a review unit.  Survey jobs take units in order, under *)
(* an assignment epoch that moves on with every new owner.  A unit reported *)
(* as needing a follow-up is held; when its survey is finalized the holds,  *)
(* and what is left of the batch the survey was admitted to, are frozen     *)
(* into continuation batches that a later survey takes whole.               *)
(*                                                                          *)
(* Units are row ids, which also stand for the priority order.  Budgets,    *)
(* leases and due times are in Campaign.                                    *)
(***************************************************************************)
EXTENDS Naturals, Sequences, FiniteSets

CONSTANTS
  Jobs, Boot,            \* survey jobs; Boot is the bootstrap that builds the generation
  None,
  NUnits,
  UNITS_PER_JOB          \* policy.survey_units_per_job

UnitIds == 1..NUnits

ConstantsOK ==
  /\ Boot \in Jobs /\ None \notin Jobs /\ IsFiniteSet(Jobs)
  /\ NUnits \in Nat /\ UNITS_PER_JOB \in Nat \ {0}

VARIABLES
  jobs,       \* state of each job's row
  units,      \* status, epoch and the job that proposed the unit
  assigned,   \* assigned[j]: the rows of job_assigned_review_units of j, by unit
  results,    \* accepted results
  holds,      \* review_unit_holds, by unit
  batches     \* survey_continuation_batches, in the order of their ids

vars == <<jobs, units, assigned, results, holds, batches>>

Live == {"queued", "leased"}
Classes == {"source", "other"}     \* source analysis remains, or one of the blocked classes
NoBatch == 0
Without(f, x) == [y \in DOMAIN f \ {x} |-> f[y]]
With(f, x, v) == [y \in DOMAIN f \cup {x} |-> IF y = x THEN v ELSE f[y]]

IsAssigned(j, u) == u \in DOMAIN assigned[j]

\* A row of the assignment table that belongs to a job that may still run.
LiveOwner(u, except) == \E k \in Jobs \ {except} : jobs[k] \in Live /\ IsAssigned(k, u)

\* The producer owned the unit in the epoch: it proposed it, or was assigned it.
OwnedAt(j, u, epoch) ==
  \/ units[u].by = j /\ epoch = 0
  \/ IsAssigned(j, u) /\ assigned[j][u].epoch = epoch

\* A conclusive result of the present epoch's owner, whom no live job has replaced.
Covered(u) ==
  \E r \in results : /\ r.unit = u /\ ~ r.followUp
                     /\ r.epoch = units[u].epoch
                     /\ OwnedAt(r.job, u, units[u].epoch)
                     /\ ~ LiveOwner(u, r.job)

NeedsWork(u) ==
  /\ units[u].status = "open"
  /\ u \notin DOMAIN holds
  /\ \A j \in Jobs : jobs[j] \in Live => ~ IsAssigned(j, u)
  /\ ~ Covered(u)

BatchOf(j) == {b \in DOMAIN batches : batches[b].job = j}

\* The hold is in the batch that was admitted to j, at the position j was given.
HeldFor(j, u) ==
  LET b == holds[u].batch
  IN  /\ b # NoBatch /\ batches[b].state = "admitted" /\ batches[b].job = j
      /\ IsAssigned(j, u)
      /\ assigned[j][u].pos = holds[u].pos /\ assigned[j][u].epoch = units[u].epoch

\* What is left of the batch decides when it is complete.
Completed(table, rows) ==
  [b \in DOMAIN table |->
     IF table[b].state = "admitted" /\ \A u \in DOMAIN rows : rows[u].batch # b
     THEN [table[b] EXCEPT !.state = "complete"] ELSE table[b]]

(***************************************************************************)
(* Claims                                                                   *)
(***************************************************************************)
Init ==
  /\ jobs = [j \in Jobs |-> IF j = Boot THEN "leased" ELSE "absent"]
  /\ units = [u \in UnitIds |-> [status |-> "absent", epoch |-> 0, by |-> None]]
  /\ assigned = [j \in Jobs |-> <<>>]
  /\ results = {}
  /\ holds = <<>>
  /\ batches = <<>>

GenerationActive == jobs[Boot] = "succeeded"

RankIn(u, S) == Cardinality({v \in S : v < u})

\* The first units in need of work, up to the policy's number.
Selection == {u \in UnitIds : NeedsWork(u) /\ RankIn(u, {v \in UnitIds : NeedsWork(v)}) < UNITS_PER_JOB}

\* Every assignment moves the units to the next epoch and is recorded under it.
Assign(j, S, pos) ==
  /\ units' = [u \in UnitIds |-> IF u \in S THEN [units[u] EXCEPT !.status = "open", !.epoch = @ + 1]
                                            ELSE units[u]]
  /\ assigned' = [assigned EXCEPT ![j] = [u \in S |-> [pos |-> pos[u], epoch |-> units[u].epoch + 1, done |-> FALSE]]]

\* A new survey of ordinary units.  It is not created while another such survey is queued.
ClaimOrdinary(j) ==
  /\ jobs[j] = "absent"
  /\ GenerationActive
  /\ \A k \in Jobs : jobs[k] = "queued" => BatchOf(k) # {}
  /\ Selection # {}
  /\ Assign(j, Selection, [u \in Selection |-> RankIn(u, Selection)])
  /\ jobs' = [jobs EXCEPT ![j] = "leased"]
  /\ UNCHANGED <<results, holds, batches>>

\* The epoch in which the producer of a batch handed the unit over: the one of its own
\* evidence, or the one it was assigned and left untouched.
HandoffEpoch(p, u) == IF holds[u].job = p THEN holds[u].epoch ELSE assigned[p][u].epoch

HandedOver(p, u) == holds[u].job = p \/ (IsAssigned(p, u) /\ ~ assigned[p][u].done)

\* The evidence behind a hold still stands and nobody works on the unit.
SourceValid(u, epoch) ==
  /\ units[u].epoch = epoch
  /\ units[u].status \in {"open", "deferred"}
  /\ [unit |-> u, job |-> holds[u].job, epoch |-> holds[u].epoch, followUp |-> TRUE] \in results
  /\ OwnedAt(holds[u].job, u, holds[u].epoch)
  /\ ~ \E j \in Jobs : jobs[j] \in Live /\ IsAssigned(j, u)

Members(b) == {u \in DOMAIN holds : holds[u].batch = b}

\* A pending batch is taken whole or not at all.
Admissible(b) ==
  /\ batches[b].state = "pending"
  /\ batches[b].class = "source"
  /\ Cardinality(Members(b)) = batches[b].count
  /\ {holds[u].pos : u \in Members(b)} = 0..(batches[b].count - 1)
  /\ jobs[batches[b].producer] = "succeeded"
  /\ \A u \in Members(b) : /\ holds[u].class = "source" /\ ~ holds[u].blocked
                           /\ HandedOver(batches[b].producer, u)
                           /\ SourceValid(u, HandoffEpoch(batches[b].producer, u))

ClaimBatch(j, b) ==
  /\ jobs[j] = "absent"
  /\ GenerationActive
  /\ Admissible(b)
  /\ batches' = [batches EXCEPT ![b].state = "admitted", ![b].job = j]
  /\ Assign(j, Members(b), [u \in Members(b) |-> holds[u].pos])
  /\ jobs' = [jobs EXCEPT ![j] = "leased"]
  /\ UNCHANGED <<results, holds>>

\* A retry keeps the rows it was given.
ClaimQueued(j) ==
  /\ jobs[j] = "queued"
  /\ jobs' = [jobs EXCEPT ![j] = "leased"]
  /\ UNCHANGED <<units, assigned, results, holds, batches>>

(***************************************************************************)
(* The survey                                                               *)
(***************************************************************************)
SubmitReviewUnit(j, u) ==
  /\ jobs[j] = "leased"
  /\ units[u].status = "absent" /\ \A v \in UnitIds : v < u => units[v].status # "absent"
  /\ units' = [units EXCEPT ![u] = [status |-> "open", epoch |-> 0, by |-> j]]
  /\ UNCHANGED <<jobs, assigned, results, holds, batches>>

\* Who may report on a unit now.
MayReport(j, u) ==
  /\ units[u].status = "open"
  /\ IF j = Boot THEN units[u].by = j ELSE IsAssigned(j, u) /\ assigned[j][u].epoch = units[u].epoch
  /\ u \in DOMAIN holds => HeldFor(j, u)
  /\ ~ LiveOwner(u, j)
  /\ ~ Covered(u)
  /\ \A r \in results : r.unit = u => r.job # j

Reported(j, u) == IF IsAssigned(j, u) THEN [assigned EXCEPT ![j][u].done = TRUE] ELSE assigned

ResultOf(j, u, followUp) == [unit |-> u, job |-> j, epoch |-> units[u].epoch, followUp |-> followUp]

\* A conclusive result releases the hold.
SubmitConclusive(j, u) ==
  /\ jobs[j] = "leased"
  /\ MayReport(j, u)
  /\ results' = results \cup {ResultOf(j, u, FALSE)}
  /\ holds' = Without(holds, u)
  /\ assigned' = Reported(j, u)
  /\ batches' = Completed(batches, holds')
  /\ UNCHANGED <<jobs, units>>

\* A follow-up takes the unit out of the batch it came from and holds it for this job.
SubmitFollowUp(j, u, class) ==
  /\ jobs[j] = "leased"
  /\ MayReport(j, u)
  /\ results' = results \cup {ResultOf(j, u, TRUE)}
  /\ holds' = With(holds, u, [job |-> j, epoch |-> units[u].epoch, class |-> class, batch |-> NoBatch,
                              pos |-> 0, blocked |-> class = "other"])
  /\ assigned' = Reported(j, u)
  /\ batches' = Completed(batches, holds')
  /\ UNCHANGED <<jobs, units>>

(***************************************************************************)
(* The survey's receipt                                                     *)
(***************************************************************************)
\* Every result of the job is current and agrees with the unit's hold.
ProducerValid(j) ==
  \A r \in results : r.job = j =>
    /\ r.epoch = units[r.unit].epoch
    /\ units[r.unit].status \in {"open", "deferred"}
    /\ ~ LiveOwner(r.unit, j)
    /\ IF j = Boot THEN OwnedAt(j, r.unit, r.epoch) ELSE IsAssigned(j, r.unit)
    /\ IF r.followUp
       THEN r.unit \in DOMAIN holds /\ holds[r.unit].job = j /\ holds[r.unit].epoch = r.epoch
       ELSE r.unit \notin DOMAIN holds

\* The rows of an admitted batch: the untouched ones are still held in it, in place.
IncomingExact(j) ==
  \A b \in BatchOf(j) :
    /\ batches[b].state \in {"admitted", "complete"}
    /\ Cardinality(DOMAIN assigned[j]) = batches[b].count
    /\ \A u \in DOMAIN assigned[j] :
         LET held == u \in DOMAIN holds /\ holds[u].batch = b
         IN  IF assigned[j][u].done THEN ~ held ELSE held /\ holds[u].pos = assigned[j][u].pos

\* Fault: what the job left untouched is not frozen.
OwnFollowUps(j) == {u \in DOMAIN holds : holds[u].job = j /\ holds[u].batch = NoBatch}

\* What the receipt freezes: this job's follow-ups and the rest of its batch.
ToFreeze(j) ==
  {u \in DOMAIN holds : \/ holds[u].job = j /\ holds[u].batch = NoBatch
                        \/ \E b \in BatchOf(j) : batches[b].state = "admitted" /\ holds[u].batch = b}

\* When the rows are frozen the job has succeeded, so it is no live owner any more.
Freezable(j, u) ==
  /\ HandedOver(j, u)
  /\ units[u].epoch = HandoffEpoch(j, u)
  /\ units[u].status \in {"open", "deferred"}
  /\ [unit |-> u, job |-> holds[u].job, epoch |-> holds[u].epoch, followUp |-> TRUE] \in results
  /\ OwnedAt(holds[u].job, u, holds[u].epoch)
  /\ ~ LiveOwner(u, j)

Finalizable(j) == ProducerValid(j) /\ IncomingExact(j) /\ \A u \in ToFreeze(j) : Freezable(j, u)

\* The order of the frozen units: as they were assigned, else by id.
Before(j, u, v) ==
  LET key(w) == IF IsAssigned(j, w) THEN assigned[j][w].pos ELSE w
  IN  key(u) < key(v) \/ (key(u) = key(v) /\ u < v)

FrozenRank(j, u) ==
  Cardinality({v \in ToFreeze(j) : holds[v].class = holds[u].class /\ Before(j, v, u)})

ChunksOf(j, class) ==
  LET n == Cardinality({u \in ToFreeze(j) : holds[u].class = class})
  IN  (n + UNITS_PER_JOB - 1) \div UNITS_PER_JOB

\* New batches: those of source analysis first, each of at most UNITS_PER_JOB units.
NewBatch(j, u) ==
  Len(batches) + 1 + FrozenRank(j, u) \div UNITS_PER_JOB
    + (IF holds[u].class = "source" THEN 0 ELSE ChunksOf(j, "source"))

FrozenHolds(j) ==
  [u \in DOMAIN holds |->
     IF u \in ToFreeze(j)
     THEN [holds[u] EXCEPT !.batch = NewBatch(j, u), !.pos = FrozenRank(j, u) % UNITS_PER_JOB]
     ELSE holds[u]]

Frozen(j, b) ==
  LET class == IF b - Len(batches) <= ChunksOf(j, "source") THEN "source" ELSE "other"
  IN  [producer |-> j, job |-> None, class |-> class,
       state |-> IF class = "source" THEN "pending" ELSE "blocked",
       count |-> Cardinality({u \in ToFreeze(j) : NewBatch(j, u) = b})]

Finalize(j) ==
  LET old == Len(batches)
      n == ChunksOf(j, "source") + ChunksOf(j, "other")
  IN  /\ jobs[j] = "leased"
      /\ Finalizable(j)
      /\ jobs' = [jobs EXCEPT ![j] = "succeeded"]
      /\ holds' = FrozenHolds(j)
      /\ batches' = Completed([b \in 1..(old + n) |-> IF b <= old THEN batches[b] ELSE Frozen(j, b)], holds')
      /\ UNCHANGED <<units, assigned, results>>

(***************************************************************************)
(* Failed attempts                                                          *)
(***************************************************************************)
Retry(j) ==
  /\ jobs[j] = "leased"
  /\ jobs' = [jobs EXCEPT ![j] = "queued"]
  /\ UNCHANGED <<units, assigned, results, holds, batches>>

\* The last attempt failed, or the job was cancelled: holds and batches it made or was
\* given are blocked, its untouched units deferred.
End(j) ==
  LET mine(u) == holds[u].job = j \/ holds[u].batch \in BatchOf(j)
  IN  /\ jobs[j] \in Live
      /\ jobs' = [jobs EXCEPT ![j] = "ended"]
      /\ holds' = [u \in DOMAIN holds |-> IF mine(u) THEN [holds[u] EXCEPT !.blocked = TRUE] ELSE holds[u]]
      /\ batches' = [b \in DOMAIN batches |->
           IF j \in {batches[b].job, batches[b].producer} /\ batches[b].state \in {"pending", "admitted"}
           THEN [batches[b] EXCEPT !.state = "blocked"] ELSE batches[b]]
      /\ units' = [u \in UnitIds |->
           IF units[u].status = "open"
              /\ \/ IsAssigned(j, u) /\ ~ assigned[j][u].done /\ assigned[j][u].epoch = units[u].epoch
                 \/ units[u].by = j /\ units[u].epoch = 0 /\ \A r \in results : r.unit # u
           THEN [units[u] EXCEPT !.status = "deferred"] ELSE units[u]]
      /\ UNCHANGED <<assigned, results>>

(***************************************************************************)
(* Quarantine.  A claim or a tick that finds a source it cannot deliver     *)
(* holds it.                                                                *)
(***************************************************************************)
\* A queued survey: only what was admitted to it is blocked or deferred; the follow-ups it
\* reported stay as they are.
HoldQueued(j) ==
  /\ jobs[j] = "queued"
  /\ jobs' = [jobs EXCEPT ![j] = "held"]
  /\ holds' = [u \in DOMAIN holds |->
       IF holds[u].batch \in BatchOf(j) THEN [holds[u] EXCEPT !.blocked = TRUE] ELSE holds[u]]
  /\ batches' = [b \in DOMAIN batches |->
       IF batches[b].job = j /\ batches[b].state = "admitted"
       THEN [batches[b] EXCEPT !.state = "blocked"] ELSE batches[b]]
  /\ units' = [u \in UnitIds |->
       IF /\ units[u].status = "open"
          /\ IsAssigned(j, u) /\ ~ assigned[j][u].done /\ assigned[j][u].epoch = units[u].epoch
       THEN [units[u] EXCEPT !.status = "deferred"] ELSE units[u]]
  /\ UNCHANGED <<assigned, results>>

HoldBatch(b) ==
  /\ batches[b].state = "pending"
  /\ batches' = [batches EXCEPT ![b].state = "blocked"]
  /\ holds' = [u \in DOMAIN holds |->
       IF holds[u].batch = b THEN [holds[u] EXCEPT !.blocked = TRUE] ELSE holds[u]]
  /\ UNCHANGED <<jobs, units, assigned, results>>

Defer(S) ==
  /\ S # {}
  /\ units' = [u \in UnitIds |-> IF u \in S THEN [units[u] EXCEPT !.status = "deferred"] ELSE units[u]]
  /\ UNCHANGED <<jobs, assigned, results, holds, batches>>

\* The tick holds a unit, the claim all that an ordinary survey would choose from.
HoldUnits ==
  /\ GenerationActive
  /\ \/ \E u \in UnitIds \ DOMAIN holds :
          units[u].status = "open" /\ ~ LiveOwner(u, None) /\ Defer({u})
     \/ Defer({u \in UnitIds : NeedsWork(u)})

Next ==
  \/ \E b \in DOMAIN batches : HoldBatch(b)
  \/ HoldUnits
  \/ \E j \in Jobs :
       \/ ClaimOrdinary(j)
       \/ \E b \in DOMAIN batches : ClaimBatch(j, b)
       \/ ClaimQueued(j)
       \/ Finalize(j)
       \/ Retry(j)
       \/ End(j)
       \/ HoldQueued(j)
       \/ \E u \in UnitIds :
            \/ SubmitReviewUnit(j, u)
            \/ SubmitConclusive(j, u)
            \/ \E class \in Classes : SubmitFollowUp(j, u, class)

Spec == Init /\ [][Next]_vars

(***************************************************************************)
(* Properties                                                               *)
(***************************************************************************)
\* Every variable holds what its table may hold.
TypeOK ==
  /\ jobs \in [Jobs -> {"absent", "succeeded", "ended", "held"} \cup Live]
  /\ units \in [UnitIds -> [status : {"absent", "open", "deferred"}, epoch : Nat, by : Jobs \cup {None}]]
  /\ DOMAIN assigned = Jobs
  /\ \A j \in Jobs : /\ DOMAIN assigned[j] \subseteq UnitIds
                     /\ assigned[j] \in [DOMAIN assigned[j] -> [pos : Nat, epoch : Nat, done : BOOLEAN]]
  /\ results \subseteq [unit : UnitIds, job : Jobs, epoch : Nat, followUp : BOOLEAN]
  /\ DOMAIN holds \subseteq UnitIds
  /\ holds \in [DOMAIN holds -> [job : Jobs, epoch : Nat, class : Classes, batch : Nat, pos : Nat,
                                 blocked : BOOLEAN]]
  /\ batches \in Seq([producer : Jobs, job : Jobs \cup {None}, class : Classes, count : Nat \ {0},
                      state : {"pending", "admitted", "blocked", "complete"}])

\* A job that still owes a result on an assigned unit may submit it when it runs: no
\* claim, follow-up, receipt or failure of another job takes the unit away (survey_unit).
OwnersMayReport ==
  \A j \in Jobs : \A u \in DOMAIN assigned[j] :
    jobs[j] \in Live /\ ~ assigned[j][u].done => MayReport(j, u)

\* A running survey can always deliver its receipt: the checks of validate_producer and
\* of freeze_survey_batches_raw reject no state that the operations lead to.
ReceiptAccepted == \A j \in Jobs : jobs[j] = "leased" => Finalizable(j)

\* A batch that waits can be admitted as it was frozen: no member left it, was blocked or
\* was given to another job in the meantime (pending_members).
PendingIsExact == \A b \in DOMAIN batches : batches[b].state = "pending" => Admissible(b)

\* Somebody answers for every unit: it is covered, a job may take it or owes a result on
\* it, it is held by a running survey or in a batch that waits or runs, or it is marked
\* blocked or deferred.  The one exception are the follow-ups of a survey that was
\* quarantined between two attempts: their holds carry no mark (admission_quarantine.rs hold).
NothingLost ==
  \A u \in UnitIds : units[u].status = "open" =>
    \/ Covered(u)
    \/ NeedsWork(u)
    \/ LiveOwner(u, None)
    \/ u \notin DOMAIN holds /\ jobs[Boot] \in Live /\ units[u].by = Boot
    \/ /\ u \in DOMAIN holds
       /\ \/ holds[u].blocked
          \/ holds[u].batch = NoBatch /\ jobs[holds[u].job] \in Live \cup {"held"}
          \/ holds[u].batch # NoBatch /\ batches[holds[u].batch].state \in {"pending", "blocked"}

\* Through failures, follow-ups, deferrals and compacted batches, somebody answers for
\* every unit, and who does can report it (unit_holds.rs).
UnitsAnswered ==
  /\ TypeOK /\ OwnersMayReport /\ ReceiptAccepted /\ PendingIsExact /\ NothingLost

\* What one step keeps of CoverageKept.
CoverageKeptStep ==
  \A u \in UnitIds : Covered(u) => Covered(u)'

\* Coverage is never lost: no later claim, failure or receipt turns a covered unit into
\* one without current evidence (UNIT_COVERED).
CoverageKept == [][CoverageKeptStep]_vars
=============================================================================
