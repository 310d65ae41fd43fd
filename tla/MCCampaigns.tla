---------------------------- MODULE MCCampaigns -----------------------------
(***************************************************************************)
(* The review campaigns for TLC: the admission and settling of their work,   *)
(* the generations they pin, the survey units, verdicts and leads they       *)
(* leave, the inventory, the order of the claims and their delivery.  Each   *)
(* module keeps the part of the state it is about, and they have none in     *)
(* common: a behaviour runs one of them, `part`, while the others stay as    *)
(* they begin, and the states of a run are the sum of the components'        *)
(* states.  A component with two questions has an instance for each.         *)
(***************************************************************************)
EXTENDS Campaign, TLC

CONSTANTS
  Parts,              \* the components a configuration runs
  Campaigns, Gens, Commits, Contracts,
  SurveyJobs, NUnits, UNITS_PER_JOB,
  Promoted, Legacy, VerifyJobs, Dispatchers, MaxSequence, ApprovalModes,
  boot,               \* the bootstrap
  x1, x2, x3, y1, y2, z1, z2   \* interchangeable rows

VARIABLES
  part,
  campaigns, gens, contract,
  unit_jobs, units, assigned, results, holds, batches,
  findings, intents, verdict_jobs, verdicts, receipts, active, approval, sending, prepared, told,
  lead_jobs, leads, observations, lead_intents, lead_findings, checkpoints, lead_receipts,
  lead_told,
  inventory_jobs, manifest, rows, profile, baseline, dispositions,
  rank_now, work, rank_spent, burst, recent, passed, borrowed,
  condition, present, delivery_rows, lock, draft, polls, cursor, walk, charged, faults

generationVars == <<campaigns, gens, contract>>
unitVars == <<unit_jobs, units, assigned, results, holds, batches>>
verdictVars == <<findings, intents, verdict_jobs, verdicts, receipts, active, approval, sending,
                 prepared, told>>
leadVars == <<lead_jobs, leads, observations, lead_intents, lead_findings, checkpoints,
              lead_receipts, lead_told>>
inventoryVars == <<inventory_jobs, manifest, rows, profile, baseline, dispositions>>
rankVars == <<rank_now, work, rank_spent, burst, recent, passed, borrowed>>
deliveryVars == <<condition, present, delivery_rows, lock, draft, polls, cursor, walk, charged,
                  faults>>

-----------------------------------------------------------------------------
\* In the run three campaigns, two commits and two contracts of the server.
Lineage == INSTANCE Generations

\* In the run three units in batches of two, a bootstrap and two surveys after it.
Coverage == INSTANCE SurveyUnits WITH Jobs <- SurveyJobs, Boot <- boot, jobs <- unit_jobs

\* In the run two promoted findings and one of an ordinary scan, three verify jobs: one
\* finding may be continued once while the other is decided.
Verification == INSTANCE CampaignVerdicts WITH Jobs <- VerifyJobs, jobs <- verdict_jobs

\* A survey that may be retried and drilldowns that report siblings.
Evidence == INSTANCE LeadEvidence WITH
  Surveys <- {boot}, Drilldowns <- {"d", "e"}, Identities <- {y1, y2}, Bodies <- {"b"},
  Keys <- {z1, z2}, MAX_ATTEMPTS <- 2, MAX_LEADS_PER_SURVEY <- 2,
  MAX_SIBLING_LEADS_PER_DRILLDOWN <- 0, QUERY_LIMIT <- 0, MaxSequence <- 0,
  jobs <- lead_jobs, intents <- lead_intents, findings <- lead_findings,
  receipts <- lead_receipts, told <- lead_told

\* Two drilldowns that decide two leads, the candidates they asked for among them.
Decisions == INSTANCE LeadEvidence WITH
  Surveys <- {boot}, Drilldowns <- {"d", "e"}, Identities <- {y1, y2}, Bodies <- {"b"},
  Keys <- {x3}, MAX_ATTEMPTS <- 1, MAX_LEADS_PER_SURVEY <- 1,
  MAX_SIBLING_LEADS_PER_DRILLDOWN <- 1, QUERY_LIMIT <- 1, MaxSequence <- 1,
  jobs <- lead_jobs, intents <- lead_intents, findings <- lead_findings,
  receipts <- lead_receipts, told <- lead_told

\* Two surveys whose units refer to one path.
Mapping == INSTANCE Inventory WITH
  Preparers <- {boot}, Surveys <- 1 .. 2, Paths <- {1, 2}, Blobs <- {"b"}, Hidden <- {2},
  Profiles <- {"f"}, Units <- 1 .. 2, Keys <- {"k"}, Refs <- [u \in 1 .. 2 |-> {1}],
  UnitsOf <- [j \in {boot} \cup 1 .. 2 |-> IF j = boot THEN 1 .. 2 ELSE {j}],
  MAX_ENTRIES <- 2, MAX_OPERATIONS <- 1,
  jobs <- inventory_jobs, active <- baseline, checkpoints <- dispositions

\* Two bootstraps that upload one manifest.
Uploading == INSTANCE Inventory WITH
  Preparers <- {y1, y2}, Surveys <- {}, Paths <- {1, 2}, Blobs <- {"b", "c"}, Hidden <- {2},
  Profiles <- {"f", "g"}, Units <- {}, Keys <- {}, Refs <- [u \in {} |-> {}], UnitsOf <- [j \in {y1, y2} |-> {}],
  MAX_ENTRIES <- 2, MAX_OPERATIONS <- 2,
  jobs <- inventory_jobs, active <- baseline, checkpoints <- dispositions

Source(repo, kind, band, origin) ==
  [repo |-> repo, kind |-> kind, band |-> band, origin |-> origin, legacy |-> kind = "scan"]

ReserveSources ==
  << Source("r", "survey", 0, None), Source("r", "drilldown", 0, None),
     Source("r", "verify", 1, 2), Source("s", "scan", 2, None) >>

AllReviews == {"survey", "drilldown", "verify"}

\* The slot a verification may claim, with retries, an aging clock and a legacy scan.
Reserve == INSTANCE ClaimRanking WITH
  NWork <- 4,
  Info <- ReserveSources,
  Repos <- {"r", "s"}, Workers <- {y1, y2}, Reviews <- [w \in {y1, y2} |-> AllReviews],
  Verifiers <- {}, REPO_CAP <- 2, TOTAL_CAP <- 3, SURVEY_CAP <- 1,
  DRILLDOWN_CAP <- 2, VERIFY_CAP <- 1, VERIFY_RESERVED <- 1, BURST <- 1, AGING_CAP <- 1,
  MAX_JOBS <- 3, URGENT_RESERVE <- 1, VERIFICATION_RESERVE <- 1, MAX_ATTEMPTS <- 2, MAX_NOW <- 1,
  now <- rank_now, spent <- rank_spent

TurnSources ==
  << Source("r", "survey", 2, None), Source("r", "drilldown", 1, None),
     Source("s", "survey", 1, None), Source("s", "drilldown", 0, None) >>

\* Two repositories whose surveys wait behind work of a higher band, and a worker that takes
\* drilldowns only.
Turns == INSTANCE ClaimRanking WITH
  NWork <- 4,
  Info <- TurnSources,
  Repos <- {"r", "s"}, Workers <- {"w", "d"}, Reviews <- [w |-> AllReviews, d |-> {"drilldown"}],
  Verifiers <- {}, REPO_CAP <- 2, TOTAL_CAP <- 3, SURVEY_CAP <- 1,
  DRILLDOWN_CAP <- 2, VERIFY_CAP <- 1, VERIFY_RESERVED <- 0, BURST <- 1, AGING_CAP <- 1,
  MAX_JOBS <- 3, URGENT_RESERVE <- 0, VERIFICATION_RESERVE <- 0, MAX_ATTEMPTS <- 1, MAX_NOW <- 0,
  now <- rank_now, spent <- rank_spent

\* A single source and three units, more sick ones than one poll or one tick repairs, and
\* two units that are too large together.
Quarantine == INSTANCE ClaimDelivery WITH
  Singles <- {1}, Units <- 2 .. 3, Polls <- {"poll"}, MAX_REPAIRS <- 2, UNITS_PER_JOB <- 2,
  PAGE <- 2, TICK_REPAIRS <- 1, MaxFaults <- 1, rows <- delivery_rows

\* The same instance, under the fairness its eventualities need.
Delivery == INSTANCE ClaimDelivery WITH
  Singles <- {1}, Units <- 2 .. 3, Polls <- {"poll"}, MAX_REPAIRS <- 2, UNITS_PER_JOB <- 2,
  PAGE <- 2, TICK_REPAIRS <- 1, MaxFaults <- 1, rows <- delivery_rows

ASSUME /\ Lineage!ConstantsOK /\ Coverage!ConstantsOK /\ Verification!ConstantsOK
       /\ Evidence!ConstantsOK /\ Decisions!ConstantsOK /\ Mapping!ConstantsOK
       /\ Uploading!ConstantsOK /\ Reserve!ConstantsOK /\ Turns!ConstantsOK
       /\ Quarantine!ConstantsOK /\ Delivery!ConstantsOK

-----------------------------------------------------------------------------
\* Where a component may begin in several ways, the ones that do not run begin in one.
RunInit ==
  /\ part \in Parts
  /\ Init /\ Lineage!Init /\ Coverage!Init /\ Verification!Init
  /\ IF part = "decisions" THEN Decisions!Init ELSE Evidence!Init
  /\ IF part = "uploading" THEN Uploading!Init ELSE Mapping!Init
  /\ IF part = "turns" THEN Turns!Init ELSE Reserve!Init
  /\ IF part = "quarantine" THEN Quarantine!Init ELSE Delivery!Init
  /\ "lineage" \notin Parts => contract = z1
  /\ part # "verdicts" => approval
  /\ part \notin {"quarantine", "holding", "delivery"} => \A s \in 1 .. 3 : condition[s] = "sound"

\* All components but p stay as they are.
Others(p) ==
  /\ UNCHANGED part
  /\ p # "work" => UNCHANGED vars
  /\ p # "lineage" => UNCHANGED generationVars
  /\ p # "units" => UNCHANGED unitVars
  /\ p # "verdicts" => UNCHANGED verdictVars
  /\ p # "leads" => UNCHANGED leadVars
  /\ p # "inventory" => UNCHANGED inventoryVars
  /\ p # "ranking" => UNCHANGED rankVars
  /\ p # "delivery" => UNCHANGED deliveryVars

RunNext ==
  \/ part = "work" /\ Next /\ Others("work")
  \/ part = "lineage" /\ Lineage!Next /\ Others("lineage")
  \/ part = "units" /\ Coverage!Next /\ Others("units")
  \/ part = "verdicts" /\ Verification!Next /\ Others("verdicts")
  \/ part = "evidence" /\ Evidence!Next /\ Others("leads")
  \/ part = "decisions" /\ Decisions!Next /\ Others("leads")
  \/ part = "mapping" /\ Mapping!Next /\ Others("inventory")
  \/ part = "uploading" /\ Uploading!Next /\ Others("inventory")
  \/ part = "reserve" /\ Reserve!Next /\ Others("ranking")
  \/ part = "turns" /\ Turns!Next /\ Others("ranking")
  \/ part = "quarantine" /\ Quarantine!Next /\ Others("delivery")
  \/ part \in {"holding", "delivery"} /\ Delivery!Next /\ Others("delivery")

runVars == <<part, vars, generationVars, unitVars, verdictVars, leadVars, inventoryVars, rankVars,
             deliveryVars>>

\* Work that is all done or out of attempts leaves nothing to do.
Rest ==
  /\ part \in {"work", "units", "evidence", "decisions", "mapping", "uploading", "reserve", "turns"}
  /\ UNCHANGED runVars

RunSpec == RunInit /\ [][RunNext \/ Rest]_runVars

\* The fairness of each component, for as long as it is the one that runs.  Nobody polls
\* in "holding": there the background task is alone.
Fairness ==
  /\ WF_vars(part = "work" /\ Tick) /\ WF_vars(part = "work" /\ Advance)
  /\ \A j \in Jobs : WF_vars(part = "work" /\ Reap(j))
  /\ SF_deliveryVars(part \in {"holding", "delivery"} /\ Delivery!Tick)
  /\ WF_deliveryVars(part \in {"holding", "delivery"} /\ Delivery!Claim("poll"))
  /\ WF_deliveryVars(part = "delivery" /\ Delivery!OpenPoll("poll"))
  /\ SF_deliveryVars(part = "delivery" /\ Delivery!Begin("poll"))

RunFairSpec == RunSpec /\ Fairness

-----------------------------------------------------------------------------
(***************************************************************************)
(* What the runs check, beside the properties of Campaign.  Each is stated,  *)
(* with the code it is about, in the component's module.                    *)
(***************************************************************************)
\* SurveyUnits: somebody answers for every unit, and can report it.
UnitsAnswered == part = "units" => Coverage!UnitsAnswered

\* CampaignVerdicts: a verdict settles its finding once and is answered the same again.
VerdictsSettle == part = "verdicts" => Verification!VerdictsSettle

\* SurveyUnits: coverage is never lost.
CoverageKept == [][Coverage!CoverageKeptStep]_unitVars

\* CampaignVerdicts: a settled finding is never unsettled.
SettledStays == [][Verification!SettledStaysStep]_verdictVars

\* What is settled stays settled: admitted work leaves by its receipt, its failure or its
\* campaign's end, a unit that was covered stays covered, and a verdict stands.
SettledWorkStays == WorkSettles /\ CoverageKept /\ SettledStays

\* Generations: one lineage, whoever opens, pins and finishes.
LineageSound == part = "lineage" => Lineage!LineageSound

\* LeadEvidence: a repeated checkpoint gets its first answer, a job's rows stay within
\* its limit over its attempts, one identity is drilled down by one job at a time, no
\* lead is forgotten, and a decision a worker was told stands.
EvidenceSound ==
  /\ part = "evidence" => /\ Evidence!TypeOK /\ Evidence!AnswersAgree
                          /\ Evidence!EvidenceBounded /\ Evidence!OneDrilldown
  /\ part = "decisions" => Decisions!LeadsAccounted /\ Decisions!DecisionStands

\* Inventory: surveys that share a path do not overwrite each other unseen, an entry has
\* units exactly when it is mapped, and a sealed manifest is the listing declared for it.
InventorySound ==
  /\ part = "mapping" => Mapping!TypeOK /\ Mapping!NoLostUpdate /\ Mapping!MappingsMatch
  /\ part = "uploading" => Uploading!SealedIsDeclared

\* ClaimRanking and ClaimDelivery: the first candidate is one the budget can pay for, a
\* survey is passed over a bounded number of times, what ends up leased is what a worker
\* got in full, a failure is charged to its cause, and a poll holds no more than its repairs.
ClaimsSound ==
  /\ part = "reserve" => Reserve!TypeOK /\ Reserve!NoBarrenClaim
  /\ part = "turns" => Turns!SurveyWaitBounded
  /\ part = "quarantine" => /\ Quarantine!TypeOK /\ Quarantine!LeasedIsDelivered
                            /\ Quarantine!BlameIsExact /\ Quarantine!RepairsBounded

\* Generations: only what is sealed becomes the baseline, and what is retired stays so.
GenerationSteps == [][Lineage!GenerationStepsStep]_generationVars

\* Inventory: what was accepted is never taken back.
AcceptedStands == [][part = "uploading" => Uploading!AcceptedStandsStep]_inventoryVars

\* ClaimRanking: a slot that is free for a waiting verification stays free for it.
ReserveKept == [][part = "reserve" => Reserve!ReserveKeptStep]_rankVars

\* ClaimDelivery: a complete walk has found every sick source that waited.
WalkIsThorough == [][part = "quarantine" => Quarantine!WalkIsThoroughStep]_deliveryVars

\* No step of an admission takes back what an earlier one granted: the baseline, an
\* accepted manifest, the verification's slot, and the walk's place in the queue.
GrantsStand == GenerationSteps /\ AcceptedStands /\ ReserveKept /\ WalkIsThorough

\* ClaimDelivery: sources that cannot be delivered do not keep the others back.
SoundWorkGetsOut == (part = "delivery" /\ Delivery!Deliverable # {})
                      ~> (delivery_rows.taken # {} \/ Delivery!Deliverable = {})

\* Though no worker ever acts, a campaign and its leases end and a sick source is held;
\* and with workers that poll, the sources that can be delivered are.
CampaignsEnd == CampaignEnds /\ Delivery!SickAreHeld /\ SoundWorkGetsOut

\* Rows, keys and identities are interchangeable.
KeySymmetry == Permutations({y1, y2}) \cup Permutations({z1, z2})
Symmetry == Permutations({x1, x2, x3}) \cup Permutations({y1, y2})
=============================================================================
