------------------------ MODULE CampaignParts_proofs ------------------------
(***************************************************************************)
(* What a campaign rests on, for every value of the constants: its verdicts *)
(* (CampaignVerdicts, which MCCampaigns instantiates as Verification), the  *)
(* lineage of a repository's generations (Generations, as Lineage) and the  *)
(* review units of its surveys (SurveyUnits, as Coverage).                  *)
(***************************************************************************)
EXTENDS MCCampaigns, SequenceTheorems, FiniteSetTheorems, TLAPS

(***************************************************************************)
(* The verdicts                                                             *)
(***************************************************************************)
\* The instance counts as this module does.
LEMMA SameVerdictCount ==
  ASSUME NEW S
  PROVE  /\ Verification!IsFiniteSet(S) <=> IsFiniteSet(S)
         /\ Verification!Cardinality(S) = Cardinality(S)
BY DEF Verification!IsFiniteSet, IsFiniteSet, Verification!Cardinality, Cardinality

(***************************************************************************)
(* The inductive invariant                                                  *)
(***************************************************************************)
FindingStates == {"none", "validating", "awaiting_approval", "confirmed", "dismissed", "reported"}
IntentRow == [state : {"none", "pending", "admitted", "blocked", "complete"},
              sequence : 0 .. MaxSequence + 1, job : VerifyJobs \cup {None}]
VerifyRow == [state : {"none", "queued", "leased", "succeeded", "failed", "cancelled"},
           attempts : 0 .. MAX_ATTEMPTS, target : Promoted \cup {None}]
VerdictRow == [finding : Promoted, job : VerifyJobs, verdict : Verification!Verdicts]

\* A job that is queued has an attempt left, one that is leased has used one, and work that
\* can be continued has a continuation left.
WithinLimits ==
  /\ \A j \in VerifyJobs : /\ verdict_jobs[j].state = "queued" => verdict_jobs[j].attempts < MAX_ATTEMPTS
                     /\ verdict_jobs[j].state = "leased" => verdict_jobs[j].attempts >= 1
  /\ \A f \in Promoted : intents[f].state \in {"pending", "admitted"} => intents[f].sequence <= MaxSequence

\* A job verifies a promoted finding, and an admitted intent has its job.
JobsTargeted == \A j \in VerifyJobs : verdict_jobs[j].state # "none" => verdict_jobs[j].target \in Promoted

AdmittedLives ==
  \A f \in Promoted : intents[f].state = "admitted" =>
    /\ intents[f].job \in VerifyJobs
    /\ verdict_jobs[intents[f].job].state \in {"queued", "leased"}
    /\ verdict_jobs[intents[f].job].target = f

\* A finding that waits for its verdict has an intent that is not finished.
Awaited ==
  \A f \in Promoted : findings[f] = "validating" => intents[f].state \in {"pending", "admitted", "blocked"}

\* A sealed receipt is the last thing its job did.
Sealed ==
  /\ Verification!SealedAnswers
  /\ \A r \in receipts : verdict_jobs[r.job].state = "succeeded"

\* What SettledByVerdict says, without counting.
OneVerdict == \A f \in Promoted : \A v, w \in Verification!Conclusive(f) : v = w

VerdictAgrees ==
  \A f \in Promoted :
    /\ findings[f] \in {"none", "validating"} <=> Verification!Conclusive(f) = {}
    /\ findings[f] \in {"awaiting_approval", "confirmed", "reported"} =>
         \E v \in Verification!Conclusive(f) : v.verdict = "confirmed"

\* Only what was let out has been prepared, and that once.
PreparedLast ==
  \A f \in Verification!AllFindings :
    /\ prepared[f] <= 1
    /\ findings[f] \notin {"confirmed", "reported"} => prepared[f] = 0

VerdictInv ==
  /\ Verification!TypeOK /\ WithinLimits /\ JobsTargeted /\ AdmittedLives /\ Awaited /\ Sealed /\ OneVerdict
  /\ VerdictAgrees /\ PreparedLast

\* A set with one element or none counts as such.
LEMMA AtMostOne ==
  ASSUME NEW S, \A v, w \in S : v = w
  PROVE  Cardinality(S) <= 1
<1>1. CASE S = {}
  BY <1>1, FS_EmptySet
<1>2. CASE S # {}
  <2>1. PICK x : S = {x}
    BY <1>2
  <2> QED
    BY <2>1, FS_Singleton
<1> QED
  BY <1>1, <1>2

\* The invariant implies what the run checks.
LEMMA VerdictImplied == VerdictInv => Verification!VerdictsSettle
<1> SUFFICES ASSUME VerdictInv
             PROVE  Verification!VerdictsSettle
  OBVIOUS
<1>1. Verification!SettledByVerdict
  BY SameVerdictCount, AtMostOne DEF VerdictInv, OneVerdict, VerdictAgrees,
       Verification!SettledByVerdict
<1>2. Verification!NoVerificationLost
  BY DEF VerdictInv, Awaited, AdmittedLives, Verification!NoVerificationLost
<1>3. Verification!PreparedOnce
  BY DEF VerdictInv, PreparedLast, Verification!PreparedOnce
<1> QED
  BY <1>1, <1>2, <1>3 DEF VerdictInv, Sealed, Verification!VerdictsSettle

(***************************************************************************)
(* What every action has to reach, and what is enough for it                *)
(***************************************************************************)
StepKeeps == VerdictInv' /\ Verification!SettledStaysStep

\* The rest of the table is untouched.
NothingSaid ==
  /\ verdicts' = verdicts /\ receipts' = receipts /\ approval' \in BOOLEAN
  /\ told' = told

\* A job that succeeded is not written again.
SucceededStay == \A j \in VerifyJobs : verdict_jobs[j].state = "succeeded" => verdict_jobs'[j] = verdict_jobs[j]

\* A step of the queue: no finding moves and nothing is said to a worker.
LEMMA WorkKeeps ==
  ASSUME VerdictInv, NothingSaid, SucceededStay, findings' = findings, prepared' = prepared,
         sending' = sending, active' \in BOOLEAN,
         verdict_jobs' \in [VerifyJobs -> VerifyRow], intents' \in [Promoted -> IntentRow],
         WithinLimits', JobsTargeted', AdmittedLives',
         \A f \in Promoted : intents[f].state \in {"pending", "admitted", "blocked"} =>
                               intents'[f].state \in {"pending", "admitted", "blocked"}
  PROVE  StepKeeps
<1> USE DEF VerdictInv
<1>1. Verification!TypeOK'
  BY DEF Verification!TypeOK, NothingSaid, VerifyRow, IntentRow
<1>2. Awaited'
  BY DEF Awaited
<1>3. Sealed'
  <2>1. \A r \in receipts : r.job \in VerifyJobs /\ verdict_jobs'[r.job] = verdict_jobs[r.job]
    BY DEF Verification!TypeOK, Verification!Receipt, Sealed, SucceededStay
  <2> QED
    BY <2>1 DEF Sealed, Verification!SealedAnswers, NothingSaid
<1>4. OneVerdict' /\ VerdictAgrees'
  BY DEF OneVerdict, VerdictAgrees, Verification!Conclusive, NothingSaid
<1>5. PreparedLast' /\ Verification!SettledStaysStep
  BY DEF PreparedLast, Verification!SettledStaysStep
<1> QED
  BY <1>1, <1>2, <1>3, <1>4, <1>5 DEF StepKeeps

\* How a finding may move without anything being said to a worker: a new one starts to wait,
\* a legacy one is given up, and a promoted one goes on from where its verdict has put it.
Moves(f) ==
  \/ findings'[f] = findings[f] /\ prepared'[f] = prepared[f]
  \/ /\ findings[f] = "none" /\ findings'[f] = "validating" /\ prepared'[f] = prepared[f]
     /\ f \in Promoted => intents'[f].state = "pending"
  \/ f \notin Promoted /\ findings[f] = "validating" /\ findings'[f] = "dismissed" /\ prepared'[f] = prepared[f]
  \/ findings[f] = "awaiting_approval" /\ findings'[f] = "dismissed" /\ prepared'[f] = prepared[f]
  \/ /\ findings[f] = "awaiting_approval" /\ findings'[f] = "confirmed"
     /\ prepared'[f] \in {prepared[f], prepared[f] + 1}
  \/ findings[f] = "confirmed" /\ findings'[f] = "reported" /\ prepared'[f] = prepared[f]

\* A step that moves findings and prepares reports, and does no more.
LEMMA MovesKeep ==
  ASSUME Verification!ConstantsOK, VerdictInv, NothingSaid, verdict_jobs' = verdict_jobs, active' = active,
         findings' \in [Verification!AllFindings -> FindingStates], prepared' \in [Verification!AllFindings -> Nat],
         sending' \in [Dispatchers -> Verification!AllFindings \cup {None}],
         intents' \in [Promoted -> IntentRow],
         \A f \in Verification!AllFindings : Moves(f),
         \A f \in Promoted : \/ intents'[f] = intents[f]
                             \/ intents'[f].state = "pending" /\ intents'[f].sequence = 0
  PROVE  StepKeeps
<1> USE DEF VerdictInv
<1>1. Verification!TypeOK'
  BY DEF Verification!TypeOK, NothingSaid, FindingStates, IntentRow
<1>2. WithinLimits' /\ JobsTargeted' /\ AdmittedLives'
  BY DEF WithinLimits, JobsTargeted, AdmittedLives, Verification!ConstantsOK
<1>3. Awaited'
  BY DEF Awaited, Moves, Verification!AllFindings
<1>4. Sealed'
  BY DEF Sealed, Verification!SealedAnswers, NothingSaid
<1>5. OneVerdict' /\ VerdictAgrees'
  <2>1. \A f \in Promoted : Verification!Conclusive(f)' = Verification!Conclusive(f)
    BY DEF Verification!Conclusive, NothingSaid
  <2>2. OneVerdict'
    BY <2>1 DEF OneVerdict
  <2>3. ASSUME NEW f \in Promoted
        PROVE  /\ findings[f] \in {"none", "validating"} <=> findings'[f] \in {"none", "validating"}
               /\ findings'[f] \in {"awaiting_approval", "confirmed", "reported"} =>
                    findings[f] \in {"awaiting_approval", "confirmed", "reported"}
    BY DEF Moves, Verification!AllFindings
  <2> QED
    BY <2>1, <2>2, <2>3 DEF VerdictAgrees
<1>6. PreparedLast'
  <2> SUFFICES ASSUME NEW f \in Verification!AllFindings
               PROVE  /\ prepared'[f] <= 1
                      /\ findings'[f] \notin {"confirmed", "reported"} => prepared'[f] = 0
    BY DEF PreparedLast
  <2>1. /\ prepared[f] \in Nat /\ prepared[f] <= 1
        /\ findings[f] \notin {"confirmed", "reported"} => prepared[f] = 0
    BY DEF PreparedLast, Verification!TypeOK
  <2> QED
    BY <2>1 DEF Moves
<1>7. Verification!SettledStaysStep
  BY DEF Verification!SettledStaysStep, Moves
<1> QED
  BY <1>1, <1>2, <1>3, <1>4, <1>5, <1>6, <1>7 DEF StepKeeps

(***************************************************************************)
(* The queue                                                                *)
(***************************************************************************)
\* One job's row is written.
LEMMA AdmitStep ==
  ASSUME Verification!ConstantsOK, VerdictInv, NEW j \in VerifyJobs, NEW f \in Promoted, Verification!Admit(j, f)
  PROVE  StepKeeps
<1>1. /\ verdict_jobs \in [VerifyJobs -> VerifyRow] /\ intents \in [Promoted -> IntentRow] /\ active' \in BOOLEAN
      /\ approval' \in BOOLEAN
  BY DEF VerdictInv, Verification!TypeOK, VerifyRow, IntentRow, Verification!Admit
<1>2. PICK row \in VerifyRow : /\ row = [state |-> "leased", attempts |-> 1, target |-> f]
                            /\ row.state = "leased" /\ row.attempts = 1 /\ row.target = f
  <2>1. PICK r : r = [state |-> "leased", attempts |-> 1, target |-> f]
    OBVIOUS
  <2>2. 1 \in 0 .. MAX_ATTEMPTS
    BY DEF Verification!ConstantsOK
  <2>3. r \in VerifyRow /\ r.state = "leased" /\ r.attempts = 1 /\ r.target = f
    BY <2>1, <2>2 DEF VerifyRow
  <2> QED
    BY <2>1, <2>3
<1>3. /\ verdict_jobs[j].state = "none" /\ intents[f].state = "pending"
      /\ verdict_jobs' = [verdict_jobs EXCEPT ![j] = row]
      /\ intents' = [intents EXCEPT ![f].state = "admitted", ![f].job = j]
      /\ findings' = findings /\ prepared' = prepared /\ sending' = sending
  BY <1>2 DEF Verification!Admit
<1>4. /\ verdict_jobs' \in [VerifyJobs -> VerifyRow] /\ verdict_jobs'[j] = row
      /\ \A k \in VerifyJobs : k # j => verdict_jobs'[k] = verdict_jobs[k]
  BY <1>1, <1>3
<1>5. /\ intents' \in [Promoted -> IntentRow]
      /\ intents'[f].state = "admitted" /\ intents'[f].job = j /\ intents'[f].sequence = intents[f].sequence
      /\ \A g \in Promoted : g # f => intents'[g] = intents[g]
  BY <1>1, <1>3 DEF IntentRow
<1>6. WithinLimits' /\ JobsTargeted'
  BY <1>2, <1>3, <1>4, <1>5 DEF VerdictInv, WithinLimits, JobsTargeted
<1>7. AdmittedLives'
  BY <1>2, <1>3, <1>4, <1>5 DEF VerdictInv, AdmittedLives
<1>8. NothingSaid /\ SucceededStay
  BY <1>1, <1>3, <1>4 DEF NothingSaid, SucceededStay, Verification!Admit
<1> QED
  BY <1>1, <1>3, <1>4, <1>5, <1>6, <1>7, <1>8, WorkKeeps

\* A job that was queued starts its next attempt.
LEMMA ReclaimStep ==
  ASSUME Verification!ConstantsOK, VerdictInv, NEW j \in VerifyJobs, Verification!Reclaim(j)
  PROVE  StepKeeps
<1>1. /\ verdict_jobs \in [VerifyJobs -> VerifyRow] /\ intents \in [Promoted -> IntentRow] /\ active' \in BOOLEAN
      /\ approval' \in BOOLEAN
  BY DEF VerdictInv, Verification!TypeOK, VerifyRow, IntentRow, Verification!Reclaim
<1>2. verdict_jobs[j].state = "queued" /\ verdict_jobs[j].attempts < MAX_ATTEMPTS /\ MAX_ATTEMPTS \in Nat
      /\ verdict_jobs[j].attempts \in Nat
  BY <1>1 DEF Verification!Reclaim, VerdictInv, WithinLimits, Verification!ConstantsOK, VerifyRow
<1>3. PICK row \in VerifyRow : /\ row = [verdict_jobs[j] EXCEPT !.state = "leased", !.attempts = @ + 1]
                            /\ row.state = "leased" /\ row.attempts >= 1 /\ row.target = verdict_jobs[j].target
  <2>1. verdict_jobs[j].attempts + 1 \in 0 .. MAX_ATTEMPTS /\ verdict_jobs[j].attempts + 1 >= 1
    BY <1>2
  <2>2. PICK r : r = [verdict_jobs[j] EXCEPT !.state = "leased", !.attempts = @ + 1]
    OBVIOUS
  <2>3. r \in VerifyRow /\ r.state = "leased" /\ r.attempts >= 1 /\ r.target = verdict_jobs[j].target
    BY <1>1, <2>1, <2>2 DEF VerifyRow
  <2> QED
    BY <2>2, <2>3
<1>4. /\ verdict_jobs' = [verdict_jobs EXCEPT ![j] = row] /\ intents' = intents
      /\ findings' = findings /\ prepared' = prepared /\ sending' = sending
  BY <1>1, <1>3 DEF Verification!Reclaim, VerifyRow
<1>5. /\ verdict_jobs' \in [VerifyJobs -> VerifyRow] /\ verdict_jobs'[j] = row
      /\ \A k \in VerifyJobs : k # j => verdict_jobs'[k] = verdict_jobs[k]
  BY <1>1, <1>4
<1>6. WithinLimits' /\ JobsTargeted'
  BY <1>2, <1>3, <1>4, <1>5 DEF VerdictInv, WithinLimits, JobsTargeted
<1>7. AdmittedLives'
  BY <1>2, <1>3, <1>4, <1>5 DEF VerdictInv, AdmittedLives
<1>8. NothingSaid /\ SucceededStay
  BY <1>1, <1>2, <1>4, <1>5 DEF NothingSaid, SucceededStay, Verification!Reclaim
<1> QED
  BY <1>1, <1>4, <1>5, <1>6, <1>7, <1>8, WorkKeeps

\* A job is queued again with its work, or ends without a receipt and its work is blocked.
LEMMA JobLeaves ==
  ASSUME Verification!ConstantsOK, VerdictInv, NEW j \in VerifyJobs, Verification!RetryOrFail(j) \/ Verification!CancelJob(j)
  PROVE  StepKeeps
<1>1. /\ verdict_jobs \in [VerifyJobs -> VerifyRow] /\ intents \in [Promoted -> IntentRow] /\ active' \in BOOLEAN
      /\ approval' \in BOOLEAN
  BY DEF VerdictInv, Verification!TypeOK, VerifyRow, IntentRow, Verification!RetryOrFail,
       Verification!CancelJob
<1>2. PICK s \in {"queued", "failed", "cancelled"} :
        /\ verdict_jobs' = [verdict_jobs EXCEPT ![j].state = s]
        /\ s = "queued" => verdict_jobs[j].attempts < MAX_ATTEMPTS /\ intents' = intents
        /\ s # "queued" => intents' = Verification!BlockJobWork(j)
  BY DEF Verification!RetryOrFail, Verification!CancelJob
<1>3. /\ verdict_jobs[j].state \in {"queued", "leased"} /\ findings' = findings /\ prepared' = prepared
      /\ sending' = sending /\ NothingSaid
  BY <1>1 DEF Verification!RetryOrFail, Verification!CancelJob, NothingSaid
<1>4. /\ verdict_jobs' \in [VerifyJobs -> VerifyRow] /\ verdict_jobs'[j].state = s
      /\ verdict_jobs'[j].attempts = verdict_jobs[j].attempts /\ verdict_jobs'[j].target = verdict_jobs[j].target
      /\ \A k \in VerifyJobs : k # j => verdict_jobs'[k] = verdict_jobs[k]
  BY <1>1, <1>2 DEF VerifyRow
<1>5. ASSUME NEW f \in Promoted
      PROVE  /\ intents'[f] \in IntentRow /\ intents'[f].sequence = intents[f].sequence
             /\ intents'[f].job = intents[f].job
             /\ \/ intents'[f] = intents[f] /\ (s # "queued" => ~ (intents[f].state = "admitted" /\ intents[f].job = j))
                \/ intents[f].state = "admitted" /\ intents[f].job = j /\ intents'[f].state = "blocked" /\ s # "queued"
  <2>1. intents[f] \in IntentRow
    BY <1>1
  <2>2. CASE s = "queued"
    BY <1>2, <2>1, <2>2
  <2>3. CASE s # "queued"
    <3>1. intents'[f] = IF intents[f].state = "admitted" /\ intents[f].job = j
                        THEN [intents[f] EXCEPT !.state = "blocked"] ELSE intents[f]
      BY <1>2, <2>3 DEF Verification!BlockJobWork
    <3> QED
      BY <2>1, <2>3, <3>1 DEF IntentRow
  <2> QED
    BY <2>2, <2>3
<1>6. intents' \in [Promoted -> IntentRow]
  <2>1. CASE s = "queued"
    BY <1>1, <1>2, <2>1
  <2>2. CASE s # "queued"
    BY <1>2, <1>5, <2>2 DEF Verification!BlockJobWork
  <2> QED
    BY <2>1, <2>2
<1>7. WithinLimits' /\ JobsTargeted'
  <2>1. JobsTargeted'
    BY <1>3, <1>4 DEF VerdictInv, JobsTargeted
  <2>2. \A k \in VerifyJobs : /\ verdict_jobs'[k].state = "queued" => verdict_jobs'[k].attempts < MAX_ATTEMPTS
                        /\ verdict_jobs'[k].state = "leased" => verdict_jobs'[k].attempts >= 1
    BY <1>2, <1>4 DEF VerdictInv, WithinLimits
  <2>3. \A f \in Promoted : intents'[f].state \in {"pending", "admitted"} => intents'[f].sequence <= MaxSequence
    BY <1>5 DEF VerdictInv, WithinLimits
  <2> QED
    BY <2>1, <2>2, <2>3 DEF WithinLimits
<1>8. AdmittedLives'
  <2> SUFFICES ASSUME NEW f \in Promoted, intents'[f].state = "admitted"
               PROVE  /\ intents'[f].job \in VerifyJobs
                      /\ verdict_jobs'[intents'[f].job].state \in {"queued", "leased"}
                      /\ verdict_jobs'[intents'[f].job].target = f
    BY DEF AdmittedLives
  <2>1. intents'[f] = intents[f] /\ (s # "queued" => intents[f].job # j)
    BY <1>5
  <2>2. /\ intents[f].job \in VerifyJobs /\ verdict_jobs[intents[f].job].state \in {"queued", "leased"}
        /\ verdict_jobs[intents[f].job].target = f
    BY <2>1 DEF VerdictInv, AdmittedLives
  <2> QED
    BY <1>4, <2>1, <2>2
<1>9. SucceededStay
  BY <1>3, <1>4 DEF SucceededStay
<1>10. \A f \in Promoted : intents[f].state \in {"pending", "admitted", "blocked"} =>
                             intents'[f].state \in {"pending", "admitted", "blocked"}
  BY <1>5
<1> QED
  BY <1>1, <1>3, <1>4, <1>6, <1>7, <1>8, <1>9, <1>10, WorkKeeps

\* The campaign is closed: what waits is blocked, whoever has it.
LEMMA CloseStep ==
  ASSUME Verification!ConstantsOK, VerdictInv, Verification!CloseCampaign
  PROVE  StepKeeps
<1>1. /\ verdict_jobs \in [VerifyJobs -> VerifyRow] /\ intents \in [Promoted -> IntentRow] /\ active' \in BOOLEAN
      /\ approval' \in BOOLEAN
  BY DEF VerdictInv, Verification!TypeOK, VerifyRow, IntentRow, Verification!CloseCampaign
<1>2. ASSUME NEW j \in VerifyJobs
      PROVE  /\ verdict_jobs'[j] \in VerifyRow /\ verdict_jobs'[j].attempts = verdict_jobs[j].attempts
             /\ verdict_jobs'[j].target = verdict_jobs[j].target /\ verdict_jobs'[j].state # "queued"
             /\ verdict_jobs'[j] = verdict_jobs[j] \/ (verdict_jobs[j].state = "queued" /\ verdict_jobs'[j].state = "cancelled")
  <2>1. verdict_jobs[j] \in VerifyRow
    BY <1>1
  <2>2. verdict_jobs'[j] = IF verdict_jobs[j].state = "queued" THEN [verdict_jobs[j] EXCEPT !.state = "cancelled"] ELSE verdict_jobs[j]
    BY DEF Verification!CloseCampaign
  <2> QED
    BY <2>1, <2>2 DEF VerifyRow
<1>3. ASSUME NEW f \in Promoted
      PROVE  /\ intents'[f] \in IntentRow /\ intents'[f].state \notin {"pending", "admitted"}
             /\ intents[f].state \in {"pending", "admitted", "blocked"} => intents'[f].state = "blocked"
  <2>1. intents[f] \in IntentRow
    BY <1>1
  <2>2. intents'[f] = IF intents[f].state \in {"pending", "admitted"}
                      THEN [intents[f] EXCEPT !.state = "blocked"] ELSE intents[f]
    BY DEF Verification!CloseCampaign
  <2> QED
    BY <2>1, <2>2 DEF IntentRow
<1>4. verdict_jobs' \in [VerifyJobs -> VerifyRow] /\ intents' \in [Promoted -> IntentRow]
  BY <1>2, <1>3 DEF Verification!CloseCampaign
<1>5. WithinLimits' /\ JobsTargeted' /\ AdmittedLives'
  BY <1>2, <1>3 DEF VerdictInv, WithinLimits, JobsTargeted, AdmittedLives
<1>6. /\ NothingSaid /\ SucceededStay /\ findings' = findings /\ prepared' = prepared
      /\ sending' = sending
  BY <1>1, <1>2 DEF NothingSaid, SucceededStay, Verification!CloseCampaign
<1>7. \A f \in Promoted : intents[f].state \in {"pending", "admitted", "blocked"} =>
                            intents'[f].state \in {"pending", "admitted", "blocked"}
  BY <1>3
<1> QED
  BY <1>1, <1>4, <1>5, <1>6, <1>7, WorkKeeps

(***************************************************************************)
(* Findings, the operator and the delivery                                  *)
(***************************************************************************)
\* The row types the following steps start from.
LEMMA Rows ==
  ASSUME Verification!ConstantsOK, VerdictInv
  PROVE  /\ findings \in [Verification!AllFindings -> FindingStates] /\ prepared \in [Verification!AllFindings -> Nat]
         /\ sending \in [Dispatchers -> Verification!AllFindings \cup {None}] /\ intents \in [Promoted -> IntentRow]
         /\ approval \in BOOLEAN /\ None \notin Verification!AllFindings /\ Promoted \subseteq Verification!AllFindings
BY DEF VerdictInv, Verification!TypeOK, FindingStates, IntentRow, Verification!ConstantsOK,
     Verification!AllFindings

\* A finding is promoted or submitted.
LEMMA NewFinding ==
  ASSUME Verification!ConstantsOK, VerdictInv,
         (\E f \in Promoted : Verification!Promote(f)) \/ (\E f \in Legacy : Verification!SubmitLegacy(f))
  PROVE  StepKeeps
<1>1. PICK g \in Verification!AllFindings :
        /\ findings[g] = "none" /\ findings' = [findings EXCEPT ![g] = "validating"]
        /\ \/ g \in Promoted /\ intents' = [intents EXCEPT ![g] = [state |-> "pending", sequence |-> 0, job |-> None]]
           \/ g \notin Promoted /\ intents' = intents
  BY DEF Verification!Promote, Verification!SubmitLegacy, Verification!AllFindings,
       Verification!ConstantsOK
<1>2. UNCHANGED <<verdict_jobs, verdicts, receipts, active, approval, sending, prepared, told>>
  BY DEF Verification!Promote, Verification!SubmitLegacy
<1>3. findings' \in [Verification!AllFindings -> FindingStates] /\ \A f \in Verification!AllFindings : Moves(f)
  <2>1. /\ findings' \in [Verification!AllFindings -> FindingStates] /\ findings'[g] = "validating"
        /\ \A f \in Verification!AllFindings : f # g => findings'[f] = findings[f]
    BY <1>1, Rows DEF FindingStates
  <2>2. g \in Promoted => intents'[g].state = "pending"
    BY <1>1, Rows
  <2> QED
    BY <1>1, <1>2, <2>1, <2>2 DEF Moves
<1>4. /\ intents' \in [Promoted -> IntentRow]
      /\ \A f \in Promoted : \/ intents'[f] = intents[f]
                             \/ intents'[f].state = "pending" /\ intents'[f].sequence = 0
  <2>1. [state |-> "pending", sequence |-> 0, job |-> None] \in IntentRow
    BY DEF IntentRow, Verification!ConstantsOK
  <2> QED
    BY <1>1, <2>1, Rows
<1> QED
  BY <1>2, <1>3, <1>4, Rows, MovesKeep DEF NothingSaid

\* The operator's decisions, the reaper of stale verifications and the delivery's receipt.
LEMMA FindingMoves ==
  ASSUME Verification!ConstantsOK, VerdictInv,
         \/ \E f \in Verification!AllFindings : Verification!ReapStaleValidating(f) \/ Verification!Reject(f)
         \/ \E d \in Dispatchers, f \in Verification!AllFindings : Verification!Approve(d, f)
         \/ \E d \in Dispatchers : Verification!Deliver(d)
  PROVE  StepKeeps
<1>1. UNCHANGED <<verdict_jobs, verdicts, receipts, active, approval, intents, told>>
  BY DEF Verification!ReapStaleValidating, Verification!Reject, Verification!Approve,
       Verification!Deliver
<1>2. ASSUME NEW g \in Verification!AllFindings, NEW s \in FindingStates, findings' = [findings EXCEPT ![g] = s],
             Moves(g), \A f \in Verification!AllFindings : f # g => prepared'[f] = prepared[f],
             prepared' \in [Verification!AllFindings -> Nat], sending' \in [Dispatchers -> Verification!AllFindings \cup {None}]
      PROVE  StepKeeps
  <2>1. findings' \in [Verification!AllFindings -> FindingStates] /\ \A f \in Verification!AllFindings : Moves(f)
    BY <1>2, Rows DEF Moves
  <2> QED
    BY <1>1, <1>2, <2>1, Rows, MovesKeep DEF NothingSaid
<1>3. CASE \E f \in Verification!AllFindings : Verification!ReapStaleValidating(f) \/ Verification!Reject(f)
  <2>1. PICK f \in Verification!AllFindings : Verification!ReapStaleValidating(f) \/ Verification!Reject(f)
    BY <1>3
  <2>2. /\ findings' = [findings EXCEPT ![f] = "dismissed"] /\ prepared' = prepared /\ sending' = sending
        /\ (f \notin Promoted /\ findings[f] = "validating") \/ findings[f] = "awaiting_approval"
    BY <2>1 DEF Verification!ReapStaleValidating, Verification!Reject
  <2>3. Moves(f)
    BY <2>2, Rows DEF Moves
  <2> QED
    BY <1>2, <2>2, <2>3, Rows DEF FindingStates
<1>4. CASE \E d \in Dispatchers, f \in Verification!AllFindings : Verification!Approve(d, f)
  <2>1. PICK d \in Dispatchers, f \in Verification!AllFindings : Verification!Approve(d, f)
    BY <1>4
  <2>2. findings' = [findings EXCEPT ![f] = "confirmed"] /\ findings[f] = "awaiting_approval"
    BY <2>1 DEF Verification!Approve
  <2>3. /\ prepared' \in [Verification!AllFindings -> Nat] /\ sending' \in [Dispatchers -> Verification!AllFindings \cup {None}]
        /\ prepared'[f] \in {prepared[f], prepared[f] + 1}
        /\ \A g \in Verification!AllFindings : g # f => prepared'[g] = prepared[g]
    BY <2>1, Rows DEF Verification!Approve, Verification!Prepare
  <2>4. Moves(f)
    BY <2>2, <2>3, Rows DEF Moves
  <2> QED
    BY <1>2, <2>2, <2>3, <2>4 DEF FindingStates
<1>5. CASE \E d \in Dispatchers : Verification!Deliver(d)
  <2>1. PICK d \in Dispatchers : Verification!Deliver(d)
    BY <1>5
  <2>2. PICK f \in Verification!AllFindings : f = sending[d]
    BY <2>1, Rows DEF Verification!Deliver
  <2>3. prepared' = prepared /\ sending' \in [Dispatchers -> Verification!AllFindings \cup {None}]
    BY <2>1, Rows DEF Verification!Deliver
  <2>4. CASE findings[f] = "confirmed"
    <3>1. findings' = [findings EXCEPT ![f] = "reported"]
      BY <2>1, <2>2, <2>4 DEF Verification!Deliver
    <3>2. Moves(f)
      BY <2>3, <2>4, <3>1, Rows DEF Moves
    <3> QED
      BY <1>2, <2>3, <3>1, <3>2, Rows DEF FindingStates
  <2>5. CASE findings[f] # "confirmed"
    <3>1. findings' = [findings EXCEPT ![f] = findings[f]] /\ findings' = findings
      BY <2>1, <2>2, <2>5, Rows DEF Verification!Deliver
    <3>2. Moves(f)
      BY <2>3, <3>1 DEF Moves
    <3> QED
      BY <1>2, <2>3, <3>1, <3>2, Rows
  <2> QED
    BY <2>4, <2>5
<1> QED
  BY <1>3, <1>4, <1>5

\* A report is selected or lost, and settings change: no finding moves.
LEMMA DeliverySteps ==
  ASSUME Verification!ConstantsOK, VerdictInv,
         \/ \E d \in Dispatchers, f \in Verification!AllFindings : Verification!RetryReport(d, f)
         \/ \E d \in Dispatchers : Verification!DeliveryFails(d)
         \/ Verification!SetApproval \/ Verification!Restart
  PROVE  StepKeeps
<1>1. UNCHANGED <<findings, intents, verdict_jobs, verdicts, receipts, active, prepared, told>>
  BY DEF Verification!RetryReport, Verification!DeliveryFails, Verification!SetApproval,
       Verification!Restart
<1>2. approval' \in BOOLEAN /\ sending' \in [Dispatchers -> Verification!AllFindings \cup {None}]
  BY Rows DEF Verification!RetryReport, Verification!DeliveryFails, Verification!SetApproval,
       Verification!Restart, Verification!ConstantsOK
<1>3. \A f \in Verification!AllFindings : Moves(f)
  BY <1>1 DEF Moves
<1> QED
  BY <1>1, <1>2, <1>3, Rows, MovesKeep DEF NothingSaid

\* The sealed receipt is shown again.
LEMMA ReplayStep ==
  ASSUME Verification!ConstantsOK, VerdictInv, NEW r \in receipts, NEW d, Verification!Replay(d, r)
  PROVE  StepKeeps
<1> USE DEF VerdictInv
<1>1. /\ UNCHANGED <<findings, intents, verdict_jobs, verdicts, receipts, active, approval, sending, prepared>>
      /\ told' = told \cup {r}
  BY DEF Verification!Replay
<1>2. Verification!TypeOK' /\ WithinLimits' /\ JobsTargeted' /\ AdmittedLives' /\ Awaited'
  BY <1>1 DEF Verification!TypeOK, WithinLimits, JobsTargeted, AdmittedLives, Awaited
<1>3. Sealed' /\ OneVerdict' /\ VerdictAgrees' /\ PreparedLast' /\ Verification!SettledStaysStep
  BY <1>1 DEF Sealed, Verification!SealedAnswers, OneVerdict, VerdictAgrees,
       Verification!Conclusive, PreparedLast, Verification!SettledStaysStep
<1> QED
  BY <1>2, <1>3 DEF StepKeeps

(***************************************************************************)
(* The verdict                                                              *)
(***************************************************************************)
\* What the roll-up makes of a finding that waits and of its first conclusive verdict.
LEMMA RollsUp ==
  ASSUME VerdictInv, NEW f \in Promoted, findings[f] = "validating", NEW j \in VerifyJobs, NEW v \in Verification!Verdicts,
         NEW new, new = verdicts \cup {[finding |-> f, job |-> j, verdict |-> v]}
  PROVE  Verification!RollUp(f, new) = CASE v = "dismissed" -> "dismissed"
                            [] v = "confirmed" -> IF approval THEN "awaiting_approval" ELSE "confirmed"
                            [] OTHER -> "validating"
<1>1. Verification!Conclusive(f) = {}
  BY DEF VerdictInv, VerdictAgrees
<1>2. \A w \in verdicts : w.finding = f => w.verdict \notin {"dismissed", "confirmed"}
  BY <1>1 DEF Verification!Conclusive
<1>3. PICK row : row = [finding |-> f, job |-> j, verdict |-> v]
  OBVIOUS
<1>4. row.finding = f /\ row.verdict = v /\ new = verdicts \cup {row}
  BY <1>3
<1>5. (\E w \in new : w.finding = f /\ w.verdict = "dismissed") <=> v = "dismissed"
  BY <1>2, <1>4
<1>6. (\E w \in new : w.finding = f /\ w.verdict = "confirmed") <=> v = "confirmed"
  BY <1>2, <1>4
<1> QED
  BY <1>5, <1>6 DEF Verification!RollUp, Verification!Verdicts

\* A verdict is accepted: everything it settles is settled in one transaction.
LEMMA FinalizeStep ==
  ASSUME Verification!ConstantsOK, VerdictInv, NEW d \in Dispatchers, NEW j \in VerifyJobs, NEW payload \in Verification!Payloads,
         Verification!Finalize(d, j, payload)
  PROVE  StepKeeps
<1> USE DEF VerdictInv
<1>1. PICK f \in Promoted : f = verdict_jobs[j].target
  BY DEF Verification!Finalize, Verification!Deciding, JobsTargeted
<1>2. PICK v \in Verification!Verdicts : v = payload.verdict
  BY DEF Verification!Payloads
<1>3. PICK row \in VerdictRow : row = [finding |-> f, job |-> j, verdict |-> v]
  BY DEF VerdictRow
<1>4. PICK s : s = Verification!RollUp(f, verdicts \cup {row})
  OBVIOUS
<1>5. /\ active /\ verdict_jobs[j].state = "leased" /\ findings[f] = "validating"
      /\ intents[f].state = "admitted" /\ intents[f].job = j
  BY <1>1 DEF Verification!Finalize, Verification!Deciding
<1>6. /\ verdicts' = verdicts \cup {row}
      /\ findings' = [findings EXCEPT ![f] = s]
      /\ verdict_jobs' = [verdict_jobs EXCEPT ![j].state = "succeeded"]
      /\ intents' = Verification!AfterVerdict(f, payload)
      /\ payload.class # "source_analysis_remaining" \/ intents[f].sequence < MaxSequence
      /\ Verification!Prepare(d, f, s = "confirmed")
      /\ UNCHANGED <<active, approval>>
  BY <1>1, <1>2, <1>3, <1>4 DEF Verification!Finalize
<1>7. s = CASE v = "dismissed" -> "dismissed"
            [] v = "confirmed" -> IF approval THEN "awaiting_approval" ELSE "confirmed"
            [] OTHER -> "validating"
  BY <1>3, <1>4, <1>5, RollsUp
<1>8. /\ s \in {"dismissed", "awaiting_approval", "confirmed", "validating"}
      /\ (s = "validating") <=> (v = "inconclusive")
      /\ s \in {"awaiting_approval", "confirmed"} => v = "confirmed"
  BY <1>7 DEF Verification!Verdicts
<1>9. PICK receipt \in Verification!Receipt :
        /\ receipt = [job |-> j, attempt |-> verdict_jobs[j].attempts, payload |-> payload, state |-> s]
        /\ receipts' = receipts \cup {receipt} /\ told' = told \cup {receipt}
        /\ receipt.job = j /\ receipt.payload = payload
  <2>1. verdict_jobs[j].attempts \in 1 .. MAX_ATTEMPTS
    BY <1>5 DEF Verification!TypeOK, WithinLimits, Verification!ConstantsOK
  <2>2. [job |-> j, attempt |-> verdict_jobs[j].attempts, payload |-> payload, state |-> s] \in Verification!Receipt
    BY <1>8, <2>1 DEF Verification!Receipt
  <2> QED
    BY <1>1, <1>2, <1>3, <1>4, <2>2 DEF Verification!Finalize
<1>10. /\ verdict_jobs \in [VerifyJobs -> VerifyRow] /\ findings \in [Verification!AllFindings -> FindingStates] /\ f \in Verification!AllFindings
       /\ intents \in [Promoted -> IntentRow]
  BY DEF Verification!TypeOK, VerifyRow, FindingStates, IntentRow, Verification!AllFindings
<1>11. /\ verdict_jobs' \in [VerifyJobs -> VerifyRow] /\ verdict_jobs'[j].state = "succeeded" /\ verdict_jobs'[j].target = f
       /\ \A k \in VerifyJobs : k # j => verdict_jobs'[k] = verdict_jobs[k]
  BY <1>1, <1>6, <1>10 DEF VerifyRow
<1>12. /\ findings' \in [Verification!AllFindings -> FindingStates] /\ findings'[f] = s
       /\ \A g \in Verification!AllFindings : g # f => findings'[g] = findings[g]
  BY <1>6, <1>8, <1>10 DEF FindingStates
<1>13. PICK after \in IntentRow :
         /\ intents' = [intents EXCEPT ![f] = after]
         /\ after.state \notin {"none", "admitted"}
         /\ after.state = "pending" => after.sequence <= MaxSequence
         /\ v = "inconclusive" => after.state \in {"pending", "blocked"}
  <2>0. intents[f] \in IntentRow /\ MaxSequence \in Nat /\ intents[f].sequence <= MaxSequence
    BY <1>5, <1>10 DEF Verification!ConstantsOK, WithinLimits
  <2>1. CASE v # "inconclusive"
    <3>1. intents' = [intents EXCEPT ![f] = [intents[f] EXCEPT !.state = "complete"]]
      BY <1>2, <1>6, <2>1 DEF Verification!AfterVerdict
    <3>2. /\ [intents[f] EXCEPT !.state = "complete"] \in IntentRow
          /\ [intents[f] EXCEPT !.state = "complete"].state = "complete"
      BY <2>0 DEF IntentRow
    <3> QED
      BY <2>1, <3>1, <3>2
  <2>2. CASE v = "inconclusive"
    <3>1. PICK st \in {"pending", "blocked"} :
            /\ st = IF payload.class = "source_analysis_remaining" THEN "pending" ELSE "blocked"
            /\ intents' = [intents EXCEPT ![f] = [state |-> st, sequence |-> intents[f].sequence + 1, job |-> None]]
      BY <1>2, <1>6, <2>2 DEF Verification!AfterVerdict
    <3>2. /\ intents[f].sequence + 1 \in 0 .. MaxSequence + 1
          /\ st = "pending" => intents[f].sequence + 1 <= MaxSequence
      BY <1>6, <2>0, <3>1 DEF IntentRow
    <3>3. PICK n \in 0 .. MaxSequence + 1 : n = intents[f].sequence + 1
      BY <3>2
    <3>4. [state |-> st, sequence |-> n, job |-> None] \in IntentRow
      BY DEF IntentRow
    <3> QED
      BY <2>2, <3>1, <3>2, <3>3, <3>4
  <2> QED
    BY <2>1, <2>2
<1>14. /\ intents' \in [Promoted -> IntentRow] /\ intents'[f] = after
       /\ \A g \in Promoted : g # f => intents'[g] = intents[g]
  BY <1>10, <1>13
<1>15. /\ prepared' \in [Verification!AllFindings -> Nat] /\ sending' \in [Dispatchers -> Verification!AllFindings \cup {None}]
       /\ \A g \in Verification!AllFindings : g # f => prepared'[g] = prepared[g]
       /\ prepared'[f] = prepared[f] \/ (s = "confirmed" /\ prepared'[f] = prepared[f] + 1)
  BY <1>6, <1>10, Rows DEF Verification!Prepare
<1>16. Verification!TypeOK'
  <2>1. verdicts' \subseteq VerdictRow /\ receipts' \subseteq Verification!Receipt /\ told' \subseteq Verification!Receipt
    BY <1>6, <1>9 DEF Verification!TypeOK, VerdictRow
  <2> QED
    BY <1>6, <1>11, <1>12, <1>14, <1>15, <2>1 DEF Verification!TypeOK, VerifyRow, FindingStates,
         IntentRow, VerdictRow
<1>17. WithinLimits' /\ JobsTargeted'
  BY <1>11, <1>13, <1>14 DEF WithinLimits, JobsTargeted
<1>18. AdmittedLives'
  BY <1>5, <1>11, <1>13, <1>14 DEF AdmittedLives
<1>19. Awaited'
  BY <1>8, <1>10, <1>12, <1>13, <1>14 DEF Awaited, Verification!AllFindings
<1>20. Sealed'
  <2>1. \A r \in receipts : r.job \in VerifyJobs /\ r.job # j /\ verdict_jobs'[r.job] = verdict_jobs[r.job]
    BY <1>5, <1>11 DEF Sealed, Verification!TypeOK, Verification!Receipt
  <2>2. \A r \in receipts' : verdict_jobs'[r.job].state = "succeeded"
    BY <1>9, <1>11, <2>1 DEF Sealed
  <2>3. \A r, q \in receipts' : r.job = q.job => r = q
    BY <1>9, <2>1 DEF Sealed, Verification!SealedAnswers
  <2>4. ASSUME NEW r \in receipts'
        PROVE  [finding |-> verdict_jobs'[r.job].target, job |-> r.job, verdict |-> r.payload.verdict] \in verdicts'
    <3>1. CASE r \in receipts
      BY <1>6, <2>1, <3>1 DEF Sealed, Verification!SealedAnswers
    <3>2. CASE r = receipt
      BY <1>2, <1>3, <1>6, <1>9, <1>11, <3>2
    <3> QED
      BY <1>9, <3>1, <3>2
  <2>5. told' \subseteq receipts'
    BY <1>9 DEF Sealed, Verification!SealedAnswers
  <2> QED
    BY <2>2, <2>3, <2>4, <2>5 DEF Sealed, Verification!SealedAnswers
<1>21. /\ Verification!Conclusive(f)' = IF v = "inconclusive" THEN {} ELSE {row}
       /\ \A g \in Promoted : g # f => Verification!Conclusive(g)' = Verification!Conclusive(g)
       /\ row.verdict = v
  <2>1. row.finding = f /\ row.verdict = v
    BY <1>3
  <2>2. Verification!Conclusive(f) = {}
    BY <1>5 DEF VerdictAgrees
  <2> QED
    BY <1>6, <2>1, <2>2 DEF Verification!Conclusive
<1>22. OneVerdict'
  BY <1>21 DEF OneVerdict
<1>23. VerdictAgrees'
  <2> SUFFICES ASSUME NEW g \in Promoted
               PROVE  /\ findings'[g] \in {"none", "validating"} <=> Verification!Conclusive(g)' = {}
                      /\ findings'[g] \in {"awaiting_approval", "confirmed", "reported"} =>
                           \E x \in Verification!Conclusive(g)' : x.verdict = "confirmed"
    BY DEF VerdictAgrees
  <2>1. CASE g = f
    BY <1>8, <1>12, <1>21, <2>1
  <2>2. CASE g # f
    BY <1>10, <1>12, <1>21, <2>2 DEF VerdictAgrees, Verification!AllFindings
  <2> QED
    BY <2>1, <2>2
<1>24. PreparedLast'
  <2> SUFFICES ASSUME NEW g \in Verification!AllFindings
               PROVE  /\ prepared'[g] <= 1
                      /\ findings'[g] \notin {"confirmed", "reported"} => prepared'[g] = 0
    BY DEF PreparedLast
  <2>1. CASE g = f
    <3>1. prepared[f] = 0
      BY <1>5, <1>10 DEF PreparedLast
    <3> QED
      BY <1>12, <1>15, <2>1, <3>1
  <2>2. CASE g # f
    BY <1>12, <1>15, <2>2 DEF PreparedLast
  <2> QED
    BY <2>1, <2>2
<1>25. Verification!SettledStaysStep
  BY <1>5, <1>12 DEF Verification!SettledStaysStep
<1> QED
  BY <1>16, <1>17, <1>18, <1>19, <1>20, <1>22, <1>23, <1>24, <1>25 DEF StepKeeps

(***************************************************************************)
(* The theorems                                                             *)
(***************************************************************************)
\* Nothing waits and nothing was said.
LEMMA VerdictInitial == Verification!ConstantsOK /\ Verification!Init => VerdictInv
<1> SUFFICES ASSUME Verification!ConstantsOK, Verification!Init
             PROVE  VerdictInv
  OBVIOUS
<1>1. Verification!TypeOK
  <2>1. /\ Verification!NoIntent \in IntentRow
        /\ [state |-> "none", attempts |-> 0, target |-> None] \in VerifyRow
    BY DEF Verification!NoIntent, IntentRow, VerifyRow, Verification!ConstantsOK
  <2> QED
    BY <2>1 DEF Verification!Init, Verification!TypeOK, IntentRow, VerifyRow,
         Verification!ConstantsOK
<1>2. /\ \A f \in Verification!AllFindings : findings[f] = "none" /\ prepared[f] = 0
      /\ \A f \in Promoted : intents[f].state = "none" /\ f \in Verification!AllFindings
      /\ \A j \in VerifyJobs : verdict_jobs[j].state = "none"
      /\ verdicts = {} /\ receipts = {} /\ told = {}
  BY DEF Verification!Init, Verification!NoIntent, Verification!AllFindings
<1>3. WithinLimits /\ JobsTargeted /\ AdmittedLives /\ Awaited
  BY <1>2 DEF WithinLimits, JobsTargeted, AdmittedLives, Awaited
<1>4. Sealed /\ OneVerdict /\ VerdictAgrees /\ PreparedLast
  BY <1>2 DEF Sealed, Verification!SealedAnswers, OneVerdict, VerdictAgrees,
       Verification!Conclusive, PreparedLast
<1> QED
  BY <1>1, <1>3, <1>4 DEF VerdictInv

\* Every action keeps the invariant and unsettles nothing.
LEMMA VerdictStep ==
  ASSUME Verification!ConstantsOK, VerdictInv, Verification!Next
  PROVE  StepKeeps
<1>1. CASE (\E f \in Promoted : Verification!Promote(f)) \/ (\E f \in Legacy : Verification!SubmitLegacy(f))
  BY <1>1, NewFinding
<1>2. CASE \E j \in VerifyJobs, f \in Promoted : Verification!Admit(j, f)
  BY <1>2, AdmitStep
<1>3. CASE \E j \in VerifyJobs : Verification!Reclaim(j) \/ Verification!RetryOrFail(j) \/ Verification!CancelJob(j)
  BY <1>3, ReclaimStep, JobLeaves
<1>4. CASE Verification!CloseCampaign
  BY <1>4, CloseStep
<1>5. CASE \E d \in Dispatchers, j \in VerifyJobs, payload \in Verification!Payloads : Verification!Finalize(d, j, payload)
  BY <1>5, FinalizeStep
<1>6. CASE \E d \in Dispatchers, receipt \in receipts : Verification!Replay(d, receipt)
  BY <1>6, ReplayStep
<1>7. CASE \/ \E f \in Verification!AllFindings : Verification!ReapStaleValidating(f) \/ Verification!Reject(f)
           \/ \E d \in Dispatchers, f \in Verification!AllFindings : Verification!Approve(d, f)
           \/ \E d \in Dispatchers : Verification!Deliver(d)
  BY <1>7, FindingMoves
<1>8. CASE \/ \E d \in Dispatchers, f \in Verification!AllFindings : Verification!RetryReport(d, f)
           \/ \E d \in Dispatchers : Verification!DeliveryFails(d)
           \/ Verification!SetApproval \/ Verification!Restart
  BY <1>8, DeliverySteps
<1> QED
  BY <1>1, <1>2, <1>3, <1>4, <1>5, <1>6, <1>7, <1>8 DEF Verification!Next

\* The invariant along every behaviour.
LEMMA VerdictAlways ==
  ASSUME Verification!ConstantsOK
  PROVE  Verification!Spec => []VerdictInv
<1>1. VerdictInv /\ [Verification!Next]_(Verification!vars) => VerdictInv'
  <2> SUFFICES ASSUME VerdictInv, [Verification!Next]_(Verification!vars)
               PROVE  VerdictInv'
    OBVIOUS
  <2>1. CASE Verification!Next
    BY <2>1, VerdictStep DEF StepKeeps
  <2>2. CASE UNCHANGED Verification!vars
    <3>1. UNCHANGED <<findings, intents, verdict_jobs, verdicts, receipts, active, approval, sending, prepared, told>>
      BY <2>2 DEF Verification!vars
    <3>2. Verification!TypeOK' /\ WithinLimits' /\ JobsTargeted' /\ AdmittedLives' /\ Awaited'
      BY <3>1 DEF VerdictInv, Verification!TypeOK, WithinLimits, JobsTargeted, AdmittedLives,
           Awaited
    <3>3. Sealed' /\ OneVerdict' /\ VerdictAgrees' /\ PreparedLast'
      BY <3>1 DEF VerdictInv, Sealed, Verification!SealedAnswers, OneVerdict, VerdictAgrees,
           Verification!Conclusive, PreparedLast
    <3> QED
      BY <3>2, <3>3 DEF VerdictInv
  <2> QED
    BY <2>1, <2>2
<1> QED
  BY <1>1, VerdictInitial, PTL DEF Verification!Spec

\* A promoted finding is settled by one conclusive verdict and by nothing else, no finding waits
\* for a verdict nobody works on, a repeated request gets the sealed answer, and the server
\* prepares a report once (verification.rs, review_intents.rs, terminal.rs).
THEOREM VerdictsAreSettled == Verification!ConstantsOK => (Verification!Spec => []Verification!VerdictsSettle)
<1> SUFFICES ASSUME Verification!ConstantsOK
             PROVE  Verification!Spec => []Verification!VerdictsSettle
  OBVIOUS
<1> QED
  BY VerdictAlways, VerdictImplied, PTL

\* A dismissed finding stays dismissed and a reported one reported, and nothing takes a
\* confirmed one back, whatever requests, reapers and restarts come in between (findings.rs).
THEOREM SettledStaysSettled == Verification!ConstantsOK => (Verification!Spec => Verification!SettledStays)
<1> SUFFICES ASSUME Verification!ConstantsOK
             PROVE  Verification!Spec => Verification!SettledStays
  OBVIOUS
<1>1. VerdictInv /\ [Verification!Next]_(Verification!vars) => [Verification!SettledStaysStep]_(Verification!vars)
  BY VerdictStep DEF StepKeeps
<1> QED
  BY <1>1, VerdictAlways, PTL DEF Verification!Spec, Verification!SettledStays

(***************************************************************************)
(* The lineage of the generations                                           *)
(***************************************************************************)
\* The instance counts as this module does.
LEMMA SameLineageCount ==
  ASSUME NEW S
  PROVE  Lineage!Cardinality(S) = Cardinality(S)
BY DEF Lineage!IsFiniteSet, IsFiniteSet, Lineage!Cardinality, Cardinality

(***************************************************************************)
(* The inductive invariant                                                  *)
(***************************************************************************)
CampaignRow == [state : {"absent", "active", "finished", "cancelled"},
                recipe : {"bootstrap", "incremental"}, gen : Gens \cup {None},
                job : {"absent", "queued", "leased", "ended"}, prepared : BOOLEAN]
GenRow == [state : {"absent", "building", "active", "retired"}, commit : Commits \cup {None},
           contract : Contracts \cup {None}, pred : Gens \cup {None},
           sealed : Campaigns \cup {None}, followUp : BOOLEAN]

\* A generation that was not made yet has nothing noted on it.
Unmade == \A g \in Gens : gens[g].state = "absent" => ~ gens[g].followUp /\ gens[g].sealed = None

OneActiveGen == \A g, h \in Lineage!ActiveGens : g = h

\* Whatever is being built is built on the baseline, and on none while there is none.
Based == \A g \in Gens : gens[g].state = "building" => gens[g].pred = Lineage!Baseline

\* Two generations that are built before there is a baseline are one.
OneBootstrap ==
  \A g, h \in Gens : gens[g].state = "building" /\ gens[h].state = "building"
                     /\ gens[g].pred = None /\ gens[h].pred = None => g = h

\* Only a bootstrap's manifest is sealed, so that only a bootstrap can be activated.
SealedBootstrap == \A g \in Gens : gens[g].sealed # None => gens[g].pred = None

GensInv ==
  /\ gens \in [Gens -> GenRow]
  /\ Unmade /\ OneActiveGen /\ Based /\ OneBootstrap /\ SealedBootstrap /\ Lineage!OneSuccessorPerCommit

OneCampaign == \A c, d \in Lineage!ActiveCampaigns : c = d

PinsHeld ==
  \A c \in Lineage!ActiveCampaigns :
    campaigns[c].gen # None => gens[campaigns[c].gen].state \in {"building", "active"}

\* An attempt that confirmed its checkout has a generation.
PreparedPinned == \A c \in Campaigns : campaigns[c].prepared => campaigns[c].gen \in Gens

CampaignsInv ==
  /\ campaigns \in [Campaigns -> CampaignRow] /\ contract \in Contracts
  /\ OneCampaign /\ PinsHeld /\ PreparedPinned

LineageInv == GensInv /\ CampaignsInv

\* There is nothing to choose from a set with one element.
LEMMA Choice ==
  ASSUME NEW S, NEW b, S = {b}
  PROVE  (CHOOSE g \in S : TRUE) = b
BY Zenon

\* The baseline is the active generation, if there is one.
LEMMA BaselineFacts ==
  ASSUME Lineage!ConstantsOK, GensInv
  PROVE  \/ Lineage!Baseline = None /\ Lineage!ActiveGens = {}
         \/ Lineage!Baseline \in Gens /\ Lineage!Baseline # None /\ Lineage!ActiveGens = {Lineage!Baseline}
<1>1. CASE Lineage!ActiveGens = {}
  BY <1>1 DEF Lineage!Baseline
<1>2. CASE Lineage!ActiveGens # {}
  <2>1. PICK b : Lineage!ActiveGens = {b}
    <3>1. PICK x : x \in Lineage!ActiveGens
      BY <1>2
    <3>2. Lineage!ActiveGens = {x}
      BY <3>1 DEF GensInv, OneActiveGen
    <3> QED
      BY <3>2
  <2>2. Lineage!Baseline = b
    BY <2>1, Choice DEF Lineage!Baseline
  <2>3. b \in Gens /\ b # None
    BY <2>1 DEF Lineage!ActiveGens, Lineage!ConstantsOK
  <2> QED
    BY <2>1, <2>2, <2>3
<1> QED
  BY <1>1, <1>2

\* The invariant implies what the run checks.
LEMMA LineageImplied == Lineage!ConstantsOK /\ LineageInv => Lineage!LineageSound
<1> SUFFICES ASSUME Lineage!ConstantsOK, LineageInv
             PROVE  Lineage!LineageSound
  OBVIOUS
<1>1. Lineage!TypeOK
  BY DEF LineageInv, GensInv, CampaignsInv, Lineage!TypeOK, CampaignRow, GenRow
<1>2. Lineage!PinnedIsKept
  <2>1. \A c \in Lineage!ActiveCampaigns : campaigns[c].gen \in Gens \cup {None}
    BY DEF LineageInv, CampaignsInv, CampaignRow, Lineage!ActiveCampaigns
  <2> QED
    BY <2>1 DEF LineageInv, GensInv, CampaignsInv, Lineage!PinnedIsKept, PinsHeld, Based
<1>3. Lineage!OneBaseline
  <2>1. Cardinality(Lineage!ActiveGens) <= 1
    BY AtMostOne DEF LineageInv, GensInv, OneActiveGen
  <2>2. Cardinality({g \in Gens : gens[g].state = "building" /\ gens[g].pred = None}) <= 1
    BY AtMostOne DEF LineageInv, GensInv, OneBootstrap
  <2> QED
    BY SameLineageCount, <2>1, <2>2 DEF Lineage!OneBaseline
<1> QED
  BY <1>1, <1>2, <1>3 DEF LineageInv, GensInv, Lineage!LineageSound

\* The repository starts without campaigns and generations.
LEMMA LineageInitial == Lineage!ConstantsOK /\ Lineage!Init => LineageInv
<1> SUFFICES ASSUME Lineage!ConstantsOK, Lineage!Init
             PROVE  LineageInv
  OBVIOUS
<1>1. Lineage!NoGen \in GenRow /\ Lineage!NoCampaign \in CampaignRow
  BY DEF Lineage!NoGen, Lineage!NoCampaign, GenRow, CampaignRow
<1>2. /\ gens \in [Gens -> GenRow] /\ campaigns \in [Campaigns -> CampaignRow]
      /\ \A g \in Gens : gens[g] = Lineage!NoGen
      /\ \A c \in Campaigns : campaigns[c] = Lineage!NoCampaign
  BY <1>1 DEF Lineage!Init
<1>3. /\ \A g \in Gens : gens[g].state = "absent" /\ ~ gens[g].followUp /\ gens[g].sealed = None
      /\ \A c \in Campaigns : campaigns[c].state = "absent"
  BY <1>2 DEF Lineage!NoGen, Lineage!NoCampaign
<1>4. Lineage!ActiveGens = {} /\ Lineage!ActiveCampaigns = {}
  BY <1>3 DEF Lineage!ActiveGens, Lineage!ActiveCampaigns
<1>5. GensInv
  BY <1>2, <1>3, <1>4
     DEF GensInv, Unmade, OneActiveGen, Based, OneBootstrap, SealedBootstrap,
          Lineage!OneSuccessorPerCommit
<1>6. CampaignsInv
  BY <1>2, <1>4 DEF Lineage!Init, CampaignsInv, OneCampaign, PinsHeld, PreparedPinned,
       Lineage!NoCampaign
<1> QED
  BY <1>5, <1>6 DEF LineageInv

(***************************************************************************)
(* What a step may do to the generations                                    *)
(***************************************************************************)
GensKeep == GensInv' /\ Lineage!GenerationStepsStep

\* Requests and seals are noted on generations that stay what they are.
Noted ==
  /\ gens' \in [Gens -> GenRow]
  /\ \A h \in Gens :
       /\ gens'[h].state = gens[h].state /\ gens'[h].commit = gens[h].commit
       /\ gens'[h].contract = gens[h].contract /\ gens'[h].pred = gens[h].pred
       /\ gens[h].followUp => gens'[h].followUp
       /\ gens[h].state = "absent" => gens'[h] = gens[h]
       /\ gens'[h].sealed # None => gens'[h].sealed = gens[h].sealed \/ gens[h].pred = None

\* Such a step keeps the lineage.
LEMMA NotedKeeps ==
  ASSUME GensInv, Noted
  PROVE  GensKeep /\ Lineage!ActiveGens' = Lineage!ActiveGens
<1>1. Lineage!ActiveGens' = Lineage!ActiveGens
  BY DEF Noted, Lineage!ActiveGens
<1>2. PICK b : b = Lineage!Baseline
  OBVIOUS
<1>3. Lineage!Baseline' = b
  BY <1>1, <1>2 DEF Lineage!Baseline
<1>4. Unmade' /\ OneActiveGen' /\ SealedBootstrap'
  BY <1>1 DEF GensInv, Noted, Unmade, OneActiveGen, SealedBootstrap
<1>5. Based'
  BY <1>2, <1>3 DEF GensInv, Noted, Based
<1>6. OneBootstrap'
  BY DEF GensInv, Noted, OneBootstrap
<1>7. Lineage!OneSuccessorPerCommit'
  <2> SUFFICES ASSUME NEW g \in Gens, NEW h \in Gens,
                      gens'[g].state = "building", gens'[g].pred # None,
                      gens'[h].state = "building", gens'[h].pred = gens'[g].pred,
                      gens'[h].commit = gens'[g].commit, gens'[h].contract = gens'[g].contract,
                      gens'[g].commit # gens'[gens'[g].pred].commit
               PROVE  g = h
    BY DEF Lineage!OneSuccessorPerCommit
  <2>1. gens'[g].pred = gens[g].pred /\ gens[g].pred \in Gens
    BY DEF GensInv, Noted, GenRow
  <2> QED
    BY <2>1 DEF GensInv, Noted, Lineage!OneSuccessorPerCommit
<1>8. Lineage!GenerationStepsStep
  BY DEF GensInv, Noted, Lineage!GenerationStepsStep
<1> QED
  BY <1>1, <1>4, <1>5, <1>6, <1>7, <1>8 DEF GensKeep, GensInv, Noted

\* A generation is made on the baseline; before there is one it supersedes the others.
Born(g, sha) ==
  /\ gens' \in [Gens -> GenRow] /\ gens[g].state = "absent"
  /\ gens'[g].state = "building" /\ gens'[g].commit = sha /\ gens'[g].contract = contract
  /\ gens'[g].pred = Lineage!Baseline /\ gens'[g].sealed = None
  /\ \A h \in Gens \ {g} :
       gens'[h] = IF Lineage!Baseline = None /\ gens[h].state = "building"
                  THEN [gens[h] EXCEPT !.state = "retired"] ELSE gens[h]

\* A generation nobody could join is made: the lineage has one more, and no other baseline.
LEMMA BornKeeps ==
  ASSUME Lineage!ConstantsOK, GensInv, NEW g \in Gens, NEW sha, Born(g, sha), Lineage!Existing(sha) = {}
  PROVE  GensKeep /\ Lineage!ActiveGens' = Lineage!ActiveGens
<1> USE DEF GensInv
<1>1. ASSUME NEW h \in Gens, h # g
      PROVE  /\ gens'[h].commit = gens[h].commit /\ gens'[h].contract = gens[h].contract
             /\ gens'[h].pred = gens[h].pred /\ gens'[h].sealed = gens[h].sealed
             /\ gens'[h].followUp = gens[h].followUp
             /\ gens[h].state # "building" => gens'[h].state = gens[h].state
             /\ gens[h].state = "building" =>
                  gens'[h].state = IF Lineage!Baseline = None THEN "retired" ELSE "building"
  <2>1. gens[h] \in GenRow
    OBVIOUS
  <2> QED
    BY <1>1, <2>1 DEF Born, GenRow
<1>2. Lineage!ActiveGens' = Lineage!ActiveGens
  <2>1. \A h \in Gens : gens'[h].state = "active" <=> gens[h].state = "active"
    BY <1>1 DEF Born
  <2> QED
    BY <2>1 DEF Lineage!ActiveGens
<1>3. PICK b : b = Lineage!Baseline
  OBVIOUS
<1>4. Lineage!Baseline' = b
  BY <1>2, <1>3 DEF Lineage!Baseline
<1>5. (b = None /\ Lineage!ActiveGens = {}) \/ (b \in Gens /\ b # None /\ Lineage!ActiveGens = {b})
  BY <1>3, BaselineFacts
<1>6. Unmade' /\ OneActiveGen' /\ SealedBootstrap'
  BY <1>1, <1>2 DEF Born, Unmade, OneActiveGen, SealedBootstrap
<1>7. Based'
  BY <1>1, <1>3, <1>4 DEF Born, Based
<1>8. OneBootstrap'
  BY <1>1, <1>3, <1>5 DEF Born, OneBootstrap, Based
<1>9. ASSUME NEW h \in Gens, h # g, gens'[h].state = "building", b # None,
             gens'[h].commit = sha, gens'[h].contract = contract, sha # gens[b].commit
      PROVE  FALSE
  <2>1. gens[h].state = "building" /\ gens[h].commit = sha /\ gens[h].contract = contract
    BY <1>1, <1>3, <1>9
  <2>2. gens[h].pred = b
    BY <1>3, <2>1 DEF Based
  <2>3. h \in Lineage!Existing(sha)
    BY <1>3, <1>9, <2>1, <2>2 DEF Lineage!Existing
  <2> QED
    BY <2>3
<1>10. Lineage!OneSuccessorPerCommit'
  <2> SUFFICES ASSUME NEW i \in Gens, NEW h \in Gens, i # h,
                      gens'[i].state = "building", gens'[i].pred # None,
                      gens'[h].state = "building", gens'[h].pred = gens'[i].pred,
                      gens'[h].commit = gens'[i].commit, gens'[h].contract = gens'[i].contract,
                      gens'[i].commit # gens'[gens'[i].pred].commit
               PROVE  FALSE
    BY DEF Lineage!OneSuccessorPerCommit
  <2>1. gens'[i].pred = b /\ gens'[h].pred = b
    BY <1>4, <1>7 DEF Based
  <2>2. b \in Gens /\ gens[b].state = "active" /\ b # None
    BY <1>5, <2>1 DEF Lineage!ActiveGens
  <2>3. b # g /\ gens'[b].commit = gens[b].commit
    BY <1>1, <2>2 DEF Born
  <2>4. CASE i # g /\ h # g
    <3>1. /\ gens[i].state = "building" /\ gens[h].state = "building"
          /\ gens[i].pred = b /\ gens[h].pred = b
          /\ gens[h].commit = gens[i].commit /\ gens[h].contract = gens[i].contract
          /\ gens[i].commit # gens[b].commit
      BY <1>1, <1>3, <2>1, <2>2, <2>3, <2>4
    <3> QED
      BY <2>2, <3>1 DEF Lineage!OneSuccessorPerCommit
  <2>5. CASE i = g
    BY <1>9, <2>1, <2>2, <2>3, <2>5 DEF Born
  <2>6. CASE h = g
    BY <1>9, <2>1, <2>2, <2>3, <2>6 DEF Born
  <2> QED
    BY <2>4, <2>5, <2>6
<1>11. Lineage!GenerationStepsStep
  BY <1>1 DEF Born, Unmade, Lineage!GenerationStepsStep
<1> QED
  BY <1>2, <1>6, <1>7, <1>8, <1>10, <1>11 DEF GensKeep, Born

\* A sealed generation becomes the baseline: there was none before.
Activated(g) ==
  /\ gens[g].state = "building" /\ gens[g].pred = Lineage!Baseline /\ gens[g].sealed # None
  /\ gens' = [h \in Gens |-> IF h = g THEN [gens[h] EXCEPT !.state = "active"]
                             ELSE IF h = Lineage!Baseline THEN [gens[h] EXCEPT !.state = "retired"]
                             ELSE gens[h]]

\* Only the repository's first bootstrap is activated, and then nothing else is being built.
LEMMA ActivatedKeeps ==
  ASSUME Lineage!ConstantsOK, GensInv, NEW g \in Gens, Activated(g)
  PROVE  GensKeep /\ (\A h \in Gens : h # g => gens'[h] = gens[h]) /\ gens'[g].state = "active"
<1> USE DEF GensInv
<1>1. Lineage!Baseline = None /\ Lineage!ActiveGens = {}
  BY BaselineFacts DEF Activated, SealedBootstrap
<1>2. gens' = [gens EXCEPT ![g].state = "active"]
  BY <1>1 DEF Activated, Lineage!ConstantsOK
<1>3. /\ gens' \in [Gens -> GenRow] /\ gens'[g].state = "active"
      /\ \A h \in Gens : h # g => gens'[h] = gens[h]
      /\ gens'[g].commit = gens[g].commit /\ gens'[g].pred = None
      /\ gens'[g].sealed = gens[g].sealed /\ gens'[g].followUp = gens[g].followUp
  BY <1>1, <1>2 DEF GenRow, Activated
<1>4. \A h \in Gens : h # g => gens[h].state # "active" /\ gens[h].state # "building"
  BY <1>1 DEF Lineage!ActiveGens, Activated, Based, OneBootstrap
<1>5. Lineage!ActiveGens' = {g}
  BY <1>3, <1>4 DEF Lineage!ActiveGens
<1>6. \A h \in Gens : gens'[h].state # "building"
  BY <1>3, <1>4
<1>7. Unmade' /\ OneActiveGen' /\ SealedBootstrap'
  BY <1>3, <1>5 DEF Unmade, OneActiveGen, SealedBootstrap
<1>8. Based' /\ OneBootstrap' /\ Lineage!OneSuccessorPerCommit'
  BY <1>6 DEF Based, OneBootstrap, Lineage!OneSuccessorPerCommit
<1>9. Lineage!GenerationStepsStep
  BY <1>3, <1>4 DEF Activated, Lineage!GenerationStepsStep
<1> QED
  BY <1>3, <1>7, <1>8, <1>9 DEF GensKeep

(***************************************************************************)
(* What a step may do to the campaigns                                      *)
(***************************************************************************)
Reviewed == {"building", "active"}

\* One campaign's row is written: it is the one that runs, or it does not begin to run, and
\* the generations of the campaigns that run are still reviewed.
LEMMA RowKeeps ==
  ASSUME CampaignsInv, NEW c \in Campaigns, NEW row \in CampaignRow,
         campaigns' = [campaigns EXCEPT ![c] = row], contract' = contract,
         row.state = "active" => Lineage!ActiveCampaigns \subseteq {c},
         row.prepared => row.gen \in Gens,
         row.state = "active" /\ row.gen # None => gens'[row.gen].state \in Reviewed,
         \A d \in Lineage!ActiveCampaigns : d # c /\ campaigns[d].gen # None =>
                                    gens'[campaigns[d].gen].state \in Reviewed
  PROVE  CampaignsInv'
<1> USE DEF CampaignsInv
<1>1. /\ campaigns' \in [Campaigns -> CampaignRow] /\ campaigns'[c] = row
      /\ \A d \in Campaigns : d # c => campaigns'[d] = campaigns[d]
  OBVIOUS
<1>2. \A d \in Lineage!ActiveCampaigns' : d \in Campaigns /\ (d = c \/ d \in Lineage!ActiveCampaigns)
  BY <1>1 DEF Lineage!ActiveCampaigns
<1>3. OneCampaign'
  BY <1>1, <1>2 DEF OneCampaign, Lineage!ActiveCampaigns
<1>4. PinsHeld'
  BY <1>1, <1>2 DEF PinsHeld, Lineage!ActiveCampaigns, Reviewed
<1>5. PreparedPinned'
  BY <1>1 DEF PreparedPinned
<1> QED
  BY <1>1, <1>3, <1>4, <1>5

LineageKeeps == LineageInv' /\ Lineage!GenerationStepsStep

\* A step that writes one campaign's row and no generation.
LEMMA CampaignOnly ==
  ASSUME LineageInv, gens' = gens, contract' = contract, NEW c \in Campaigns, NEW row \in CampaignRow,
         campaigns' = [campaigns EXCEPT ![c] = row],
         row.state = "active" => Lineage!ActiveCampaigns \subseteq {c},
         row.prepared => row.gen \in Gens,
         row.state = "active" /\ row.gen # None =>
           campaigns[c].state = "active" /\ row.gen = campaigns[c].gen
  PROVE  LineageKeeps
<1>1. Noted /\ GensInv /\ CampaignsInv
  BY DEF LineageInv, GensInv, Noted
<1>2. GensKeep
  BY <1>1, NotedKeeps
<1>3. \A d \in Lineage!ActiveCampaigns : campaigns[d].gen # None => gens'[campaigns[d].gen].state \in Reviewed
  BY <1>1 DEF CampaignsInv, PinsHeld, Reviewed
<1>4. CampaignsInv'
  BY <1>1, <1>3, RowKeeps DEF Lineage!ActiveCampaigns
<1> QED
  BY <1>2, <1>4 DEF GensKeep, LineageInv, LineageKeeps

\* A follow-up may be noted on a generation; the table says the same otherwise.
LEMMA Marked ==
  ASSUME NEW t \in [Gens -> GenRow], NEW g \in Gens, NEW u, u = t \/ u = [t EXCEPT ![g].followUp = TRUE]
  PROVE  /\ u \in [Gens -> GenRow] /\ \A h \in Gens \ {g} : u[h] = t[h]
         /\ u[g].state = t[g].state /\ u[g].commit = t[g].commit /\ u[g].contract = t[g].contract
         /\ u[g].pred = t[g].pred /\ u[g].sealed = t[g].sealed
         /\ t[g].followUp => u[g].followUp
<1>1. CASE u = t
  BY <1>1
<1>2. CASE u = [t EXCEPT ![g].followUp = TRUE]
  <2>1. t[g] \in GenRow
    OBVIOUS
  <2>2. PICK row : row = [t[g] EXCEPT !.followUp = TRUE]
    OBVIOUS
  <2>3. /\ row \in GenRow /\ row.state = t[g].state /\ row.commit = t[g].commit
        /\ row.contract = t[g].contract /\ row.pred = t[g].pred /\ row.sealed = t[g].sealed
        /\ row.followUp = TRUE
    BY <2>1, <2>2 DEF GenRow
  <2>4. u = [t EXCEPT ![g] = row]
    BY <1>2, <2>2
  <2> QED
    BY <2>3, <2>4
<1> QED
  BY <1>1, <1>2

\* A campaign pins a generation that is there, or a new one.
LEMMA PinKeeps ==
  ASSUME Lineage!ConstantsOK, LineageInv, NEW c \in Campaigns, NEW g \in Gens, NEW sha \in Commits,
         NEW row \in CampaignRow, campaigns' = [campaigns EXCEPT ![c] = row], contract' = contract,
         Lineage!ActiveCampaigns \subseteq {c}, row.gen = g, Lineage!Pinnable(g, sha),
         gens' = Lineage!Pinned(g, sha) \/ gens' = [Lineage!Pinned(g, sha) EXCEPT ![g].followUp = TRUE]
  PROVE  LineageKeeps
<1>1. GensInv /\ CampaignsInv /\ gens \in [Gens -> GenRow] /\ contract \in Contracts
  BY DEF LineageInv, GensInv, CampaignsInv
<1>2. Lineage!Baseline = None \/ (Lineage!Baseline \in Gens /\ gens[Lineage!Baseline].state = "active")
  BY <1>1, BaselineFacts DEF Lineage!ActiveGens
<1>3. GensKeep /\ gens'[g].state \in Reviewed
  <2>1. CASE Lineage!Existing(sha) # {}
    <3>1. gens[g].state \in Reviewed
      BY <1>2, <2>1 DEF Lineage!Pinnable, Lineage!Existing, Reviewed
    <3>2. gens' = gens \/ gens' = [gens EXCEPT ![g].followUp = TRUE]
      BY <2>1 DEF Lineage!Pinned
    <3>3. /\ gens' \in [Gens -> GenRow] /\ \A h \in Gens \ {g} : gens'[h] = gens[h]
          /\ gens'[g].state = gens[g].state /\ gens'[g].commit = gens[g].commit
          /\ gens'[g].contract = gens[g].contract /\ gens'[g].pred = gens[g].pred
          /\ gens'[g].sealed = gens[g].sealed
          /\ gens[g].followUp => gens'[g].followUp
      BY <1>1, <3>2, Marked
    <3>4. Noted
      BY <3>1, <3>3 DEF Noted, Reviewed
    <3> QED
      BY <1>1, <3>1, <3>3, <3>4, NotedKeeps
  <2>2. CASE Lineage!Existing(sha) = {}
    <3>1. PICK made : made = Lineage!Created(g, sha)
      OBVIOUS
    <3>2. PICK new : new = [Lineage!NoGen EXCEPT !.state = "building", !.commit = sha, !.contract = contract,
                                         !.pred = Lineage!Baseline]
      OBVIOUS
    <3>3. /\ new \in GenRow /\ new.state = "building" /\ new.commit = sha /\ new.contract = contract
          /\ new.pred = Lineage!Baseline /\ new.sealed = None
      BY <1>1, <1>2, <3>2 DEF Lineage!NoGen, GenRow
    <3>4. /\ made \in [Gens -> GenRow] /\ made[g] = new
          /\ \A h \in Gens \ {g} :
               made[h] = IF Lineage!Baseline = None /\ gens[h].state = "building"
                         THEN [gens[h] EXCEPT !.state = "retired"] ELSE gens[h]
      BY <1>1, <3>1, <3>2, <3>3 DEF Lineage!Created, GenRow
    <3>5. gens' = made \/ gens' = [made EXCEPT ![g].followUp = TRUE]
      BY <2>2, <3>1 DEF Lineage!Pinned
    <3>6. /\ gens' \in [Gens -> GenRow] /\ gens'[g].state = "building" /\ gens'[g].commit = sha
          /\ gens'[g].contract = contract /\ gens'[g].pred = Lineage!Baseline /\ gens'[g].sealed = None
          /\ \A h \in Gens \ {g} : gens'[h] = made[h]
      BY <3>3, <3>4, <3>5, Marked
    <3>7. Born(g, sha)
      BY <2>2, <3>4, <3>6 DEF Born, Lineage!Pinnable, Lineage!IsNewRow
    <3> QED
      BY <1>1, <2>2, <3>6, <3>7, BornKeeps DEF Reviewed
  <2> QED
    BY <2>1, <2>2
<1>4. CampaignsInv'
  BY <1>1, <1>3, RowKeeps
<1> QED
  BY <1>3, <1>4 DEF GensKeep, LineageInv, LineageKeeps

(***************************************************************************)
(* The actions                                                              *)
(***************************************************************************)
\* A new campaign has no generation yet and runs if a recipe serves the request.
LEMMA OpenedRow ==
  ASSUME NEW supported
  PROVE  /\ Lineage!Opened(supported) \in CampaignRow /\ Lineage!Opened(supported).gen = None
         /\ Lineage!Opened(supported).prepared = FALSE
BY DEF Lineage!Opened, Lineage!NoCampaign, CampaignRow

\* A campaign is opened on a branch, or refused.
LEMMA OpenStep ==
  ASSUME LineageInv, NEW c \in Campaigns, NEW full, NEW sha, Lineage!Open(c, full, sha)
  PROVE  LineageKeeps
<1>1. PICK row : row = Lineage!Opened(Lineage!Supported(full, sha))
  OBVIOUS
<1>2. row \in CampaignRow /\ row.gen = None /\ row.prepared = FALSE
  BY <1>1, OpenedRow
<1>3. /\ campaigns' = [campaigns EXCEPT ![c] = row] /\ gens' = gens /\ contract' = contract
      /\ Lineage!ActiveCampaigns = {}
  BY <1>1 DEF Lineage!Open
<1> QED
  BY <1>2, <1>3, CampaignOnly

\* A campaign is opened on a commit.
LEMMA OpenPinnedStep ==
  ASSUME Lineage!ConstantsOK, LineageInv, NEW c \in Campaigns, NEW full, NEW g \in Gens, NEW sha \in Commits,
         Lineage!OpenPinned(c, full, g, sha)
  PROVE  LineageKeeps
<1>1. PICK row : row = [Lineage!Opened(TRUE) EXCEPT !.gen = g]
  OBVIOUS
<1>2. row \in CampaignRow /\ row.gen = g
  BY <1>1, OpenedRow DEF CampaignRow
<1>3. /\ campaigns' = [campaigns EXCEPT ![c] = row] /\ gens' = Lineage!Pinned(g, sha) /\ contract' = contract
      /\ Lineage!ActiveCampaigns \subseteq {c} /\ Lineage!Pinnable(g, sha)
  BY <1>1 DEF Lineage!OpenPinned
<1> QED
  BY <1>2, <1>3, PinKeeps

\* The first checkout pins the commit.
LEMMA PinFirstStep ==
  ASSUME Lineage!ConstantsOK, LineageInv, NEW c \in Campaigns, NEW g \in Gens, NEW sha \in Commits,
         Lineage!PinFirst(c, g, sha)
  PROVE  LineageKeeps
<1>1. PICK after : after = Lineage!Pinned(g, sha)
  OBVIOUS
<1>2. PICK s \in BOOLEAN : s <=> (after[g].state = "building" /\ after[g].pred # None)
  BY Zenon
<1>3. /\ Lineage!Current(c) /\ Lineage!Pinnable(g, sha) /\ contract' = contract
      /\ campaigns' = [campaigns EXCEPT ![c].gen = g, ![c].prepared = ~ s,
                                        ![c].job = IF s THEN "ended" ELSE @,
                                        ![c].state = IF s THEN "finished" ELSE @]
      /\ gens' = IF s THEN [after EXCEPT ![g].followUp = TRUE] ELSE after
  BY <1>1, <1>2 DEF Lineage!PinFirst
<1>4. campaigns \in [Campaigns -> CampaignRow] /\ Lineage!ActiveCampaigns \subseteq {c}
  BY <1>3 DEF LineageInv, CampaignsInv, OneCampaign, Lineage!Current, Lineage!ActiveCampaigns
<1>5. PICK row : row = [campaigns[c] EXCEPT !.gen = g, !.prepared = ~ s,
                                            !.job = IF s THEN "ended" ELSE @,
                                            !.state = IF s THEN "finished" ELSE @]
  OBVIOUS
<1>6. row \in CampaignRow /\ row.gen = g
  BY <1>4, <1>5 DEF CampaignRow
<1>7. campaigns' = [campaigns EXCEPT ![c] = row]
  BY <1>3, <1>4, <1>5
<1>8. gens' = Lineage!Pinned(g, sha) \/ gens' = [Lineage!Pinned(g, sha) EXCEPT ![g].followUp = TRUE]
  BY <1>1, <1>3
<1> QED
  BY <1>3, <1>4, <1>6, <1>7, <1>8, PinKeeps

\* The preparation job moves, or the campaign ends.
LEMMA WorkStep ==
  ASSUME LineageInv, NEW c \in Campaigns,
         Lineage!PinAgain(c) \/ Lineage!Lease(c) \/ Lineage!AttemptEnds(c) \/ Lineage!Cancel(c) \/ Lineage!Finish(c)
  PROVE  LineageKeeps
<1>1. /\ campaigns \in [Campaigns -> CampaignRow] /\ campaigns[c] \in CampaignRow
      /\ campaigns[c].prepared => campaigns[c].gen \in Gens
      /\ campaigns[c].state = "active" => Lineage!ActiveCampaigns \subseteq {c}
  BY DEF LineageInv, CampaignsInv, OneCampaign, PreparedPinned, Lineage!ActiveCampaigns
<1>2. \E row \in CampaignRow :
        /\ campaigns' = [campaigns EXCEPT ![c] = row] /\ row.gen = campaigns[c].gen
        /\ row.prepared => row.gen \in Gens
        /\ row.state = "active" => campaigns[c].state = "active"
  <2>1. CASE Lineage!PinAgain(c)
    <3>1. PICK row : row = [campaigns[c] EXCEPT !.prepared = TRUE]
      OBVIOUS
    <3>2. row \in CampaignRow /\ row.gen = campaigns[c].gen /\ row.state = campaigns[c].state
      BY <1>1, <3>1 DEF CampaignRow
    <3>3. campaigns' = [campaigns EXCEPT ![c] = row] /\ row.gen \in Gens
      BY <1>1, <2>1, <3>1, <3>2 DEF Lineage!PinAgain, CampaignRow
    <3> QED
      BY <3>2, <3>3
  <2>2. CASE Lineage!Lease(c)
    <3>1. PICK row : row = [campaigns[c] EXCEPT !.job = "leased"]
      OBVIOUS
    <3>2. /\ row \in CampaignRow /\ row.gen = campaigns[c].gen /\ row.state = campaigns[c].state
          /\ row.prepared = campaigns[c].prepared
      BY <1>1, <3>1 DEF CampaignRow
    <3>3. campaigns' = [campaigns EXCEPT ![c] = row]
      BY <1>1, <2>2, <3>1 DEF Lineage!Lease
    <3> QED
      BY <1>1, <3>2, <3>3
  <2>3. CASE Lineage!AttemptEnds(c)
    <3>1. PICK state \in {"queued", "ended"} :
            campaigns' = [campaigns EXCEPT ![c].job = state, ![c].prepared = FALSE]
      BY <2>3 DEF Lineage!AttemptEnds
    <3>2. PICK row : row = [campaigns[c] EXCEPT !.job = state, !.prepared = FALSE]
      OBVIOUS
    <3>3. /\ row \in CampaignRow /\ row.gen = campaigns[c].gen /\ row.state = campaigns[c].state
          /\ row.prepared = FALSE
      BY <1>1, <3>2 DEF CampaignRow
    <3>4. campaigns' = [campaigns EXCEPT ![c] = row]
      BY <1>1, <3>1, <3>2
    <3> QED
      BY <3>3, <3>4
  <2>4. CASE Lineage!Cancel(c)
    <3>1. PICK row : row = [campaigns[c] EXCEPT !.state = "cancelled",
                                                !.job = IF @ = "queued" THEN "ended" ELSE @]
      OBVIOUS
    <3>2. /\ row \in CampaignRow /\ row.gen = campaigns[c].gen /\ row.state = "cancelled"
          /\ row.prepared = campaigns[c].prepared
      BY <1>1, <3>1 DEF CampaignRow
    <3>3. campaigns' = [campaigns EXCEPT ![c] = row]
      BY <1>1, <2>4, <3>1 DEF Lineage!Cancel
    <3> QED
      BY <1>1, <3>2, <3>3
  <2>5. CASE Lineage!Finish(c)
    <3>1. PICK row : row = [campaigns[c] EXCEPT !.state = "finished"]
      OBVIOUS
    <3>2. /\ row \in CampaignRow /\ row.gen = campaigns[c].gen /\ row.state = "finished"
          /\ row.prepared = campaigns[c].prepared
      BY <1>1, <3>1 DEF CampaignRow
    <3>3. campaigns' = [campaigns EXCEPT ![c] = row]
      BY <1>1, <2>5, <3>1 DEF Lineage!Finish
    <3> QED
      BY <1>1, <3>2, <3>3
  <2> QED
    BY <2>1, <2>2, <2>3, <2>4, <2>5
<1>3. PICK row \in CampaignRow :
        /\ campaigns' = [campaigns EXCEPT ![c] = row] /\ row.gen = campaigns[c].gen
        /\ row.prepared => row.gen \in Gens
        /\ row.state = "active" => campaigns[c].state = "active"
  BY <1>2
<1>4. gens' = gens /\ contract' = contract
  BY DEF Lineage!PinAgain, Lineage!Lease, Lineage!AttemptEnds, Lineage!Cancel, Lineage!Finish
<1> QED
  BY <1>1, <1>3, <1>4, CampaignOnly

\* A request is noted on the generation under review, or its manifest is sealed.
LEMMA NoteStep ==
  ASSUME Lineage!ConstantsOK, LineageInv, Lineage!OpenCoalesced \/ \E c \in Campaigns : Lineage!Seal(c)
  PROVE  LineageKeeps
<1>1. /\ gens \in [Gens -> GenRow] /\ campaigns \in [Campaigns -> CampaignRow]
      /\ GensInv /\ CampaignsInv
  BY DEF LineageInv, GensInv, CampaignsInv
<1>2. campaigns' = campaigns /\ contract' = contract
  BY DEF Lineage!OpenCoalesced, Lineage!Seal
<1>3. Noted
  <2>1. CASE Lineage!OpenCoalesced
    <3>1. PICK g \in Gens : gens[g].state \in Reviewed /\ gens' = [gens EXCEPT ![g].followUp = TRUE]
      BY <1>1, <2>1 DEF Lineage!OpenCoalesced, Lineage!ActiveCampaigns, CampaignRow, Reviewed
    <3>2. gens[g] \in GenRow
      BY <1>1
    <3> QED
      BY <1>1, <3>1, <3>2 DEF Noted, GenRow, Reviewed
  <2>2. CASE \E c \in Campaigns : Lineage!Seal(c)
    <3>1. PICK c \in Campaigns : Lineage!Seal(c)
      BY <2>2
    <3>2. PICK g : g = campaigns[c].gen
      OBVIOUS
    <3>3. g \in Gens
      BY <1>1, <3>1, <3>2 DEF Lineage!Seal, CampaignsInv, PreparedPinned
    <3>4. gens[g].state = "building" /\ gens[g].pred = None /\ gens' = [gens EXCEPT ![g].sealed = c]
      BY <3>1, <3>2 DEF Lineage!Seal
    <3>5. gens[g] \in GenRow
      BY <1>1, <3>3
    <3> QED
      BY <1>1, <3>3, <3>4, <3>5 DEF Noted, GenRow
  <2> QED
    BY <2>1, <2>2
<1>4. GensKeep
  BY <1>1, <1>3, NotedKeeps
<1>5. CampaignsInv'
  <2>1. \A c \in Lineage!ActiveCampaigns : campaigns[c].gen # None => campaigns[c].gen \in Gens
    BY <1>1 DEF Lineage!ActiveCampaigns, CampaignRow
  <2> QED
    BY <1>1, <1>2, <1>3, <2>1
       DEF CampaignsInv, OneCampaign, PinsHeld, PreparedPinned, Lineage!ActiveCampaigns, Noted
<1> QED
  BY <1>4, <1>5 DEF GensKeep, LineageInv, LineageKeeps

\* The survey's receipt activates a bootstrap, or confirms the baseline.
LEMMA FinishStep ==
  ASSUME Lineage!ConstantsOK, LineageInv, NEW c \in Campaigns, Lineage!Finalize(c)
  PROVE  LineageKeeps
<1>1. /\ gens \in [Gens -> GenRow] /\ campaigns \in [Campaigns -> CampaignRow]
      /\ GensInv /\ CampaignsInv
  BY DEF LineageInv, GensInv, CampaignsInv
<1>2. PICK g : g = campaigns[c].gen
  OBVIOUS
<1>3. g \in Gens /\ c # None /\ Lineage!ActiveCampaigns = {c}
  BY <1>1, <1>2 DEF Lineage!Finalize, CampaignsInv, PreparedPinned, OneCampaign,
       Lineage!ActiveCampaigns, Lineage!Current, Lineage!ConstantsOK
<1>4. GensKeep /\ gens'[g].state = "active"
  <2>1. CASE gens[g].state = "building"
    <3>1. Activated(g)
      BY <1>2, <1>3, <2>1 DEF Lineage!Finalize, Activated
    <3> QED
      BY <1>1, <1>3, <3>1, ActivatedKeeps
  <2>2. CASE gens[g].state # "building"
    <3>1. gens[g].state = "active"
      BY <1>2, <2>2 DEF Lineage!Finalize
    <3>2. [gens[g] EXCEPT !.state = "active"] = gens[g]
      BY <1>1, <1>3, <3>1 DEF GenRow
    <3>3. gens' = gens
      BY <1>1, <1>2, <1>3, <2>2, <3>2 DEF Lineage!Finalize
    <3>4. Noted
      BY <1>1, <3>3 DEF Noted
    <3> QED
      BY <1>1, <3>1, <3>3, <3>4, NotedKeeps
  <2> QED
    BY <2>1, <2>2
<1>5. PICK row : row = [campaigns[c] EXCEPT !.job = "ended", !.prepared = FALSE]
  OBVIOUS
<1>6. row \in CampaignRow /\ row.gen = g /\ row.prepared = FALSE
  BY <1>1, <1>2, <1>5 DEF CampaignRow
<1>7. campaigns' = [campaigns EXCEPT ![c] = row] /\ contract' = contract
  BY <1>1, <1>5 DEF Lineage!Finalize
<1>8. CampaignsInv'
  BY <1>1, <1>3, <1>4, <1>6, <1>7, RowKeeps DEF Reviewed
<1> QED
  BY <1>4, <1>8 DEF GensKeep, LineageInv, LineageKeeps

\* Another server, or nothing at all.
LEMMA UpgradeStep ==
  ASSUME LineageInv, Lineage!Upgrade \/ UNCHANGED Lineage!vars
  PROVE  LineageKeeps
<1>1. gens' = gens /\ campaigns' = campaigns /\ contract' \in Contracts
  BY DEF Lineage!Upgrade, Lineage!vars, LineageInv, CampaignsInv
<1>2. Noted /\ GensInv
  BY <1>1 DEF LineageInv, GensInv, Noted
<1>3. GensKeep
  BY <1>2, NotedKeeps
<1>4. CampaignsInv'
  BY <1>1 DEF LineageInv, CampaignsInv, OneCampaign, PinsHeld, PreparedPinned,
       Lineage!ActiveCampaigns
<1> QED
  BY <1>3, <1>4 DEF GensKeep, LineageInv, LineageKeeps

\* Every step keeps the lineage.
LEMMA LineageStep ==
  ASSUME Lineage!ConstantsOK, LineageInv, [Lineage!Next]_(Lineage!vars)
  PROVE  LineageKeeps
<1>1. CASE Lineage!OpenCoalesced \/ \E c \in Campaigns : Lineage!Seal(c)
  BY <1>1, NoteStep
<1>2. CASE \E c \in Campaigns, full \in BOOLEAN, sha \in Commits \cup {None} : Lineage!Open(c, full, sha)
  BY <1>2, OpenStep
<1>3. CASE \E c \in Campaigns, g \in Gens, sha \in Commits : Lineage!PinFirst(c, g, sha)
  BY <1>3, PinFirstStep
<1>4. CASE \E c \in Campaigns, g \in Gens, sha \in Commits, full \in BOOLEAN : Lineage!OpenPinned(c, full, g, sha)
  BY <1>4, OpenPinnedStep
<1>5. CASE \E c \in Campaigns : Lineage!PinAgain(c) \/ Lineage!Lease(c) \/ Lineage!AttemptEnds(c) \/ Lineage!Cancel(c) \/ Lineage!Finish(c)
  BY <1>5, WorkStep
<1>6. CASE \E c \in Campaigns : Lineage!Finalize(c)
  BY <1>6, FinishStep
<1>7. CASE Lineage!Upgrade \/ UNCHANGED Lineage!vars
  BY <1>7, UpgradeStep
<1> QED
  BY <1>1, <1>2, <1>3, <1>4, <1>5, <1>6, <1>7 DEF Lineage!Next

\* The invariant along every behaviour.
LEMMA LineageAlways ==
  ASSUME Lineage!ConstantsOK
  PROVE  Lineage!Spec => []LineageInv
<1>1. LineageInv /\ [Lineage!Next]_(Lineage!vars) => LineageInv'
  BY LineageStep DEF LineageKeeps
<1> QED
  BY <1>1, LineageInitial, PTL DEF Lineage!Spec

\* Whatever campaigns open, coalesce, pin, fail, are cancelled and finish beside each other, a
\* repository has one baseline and one bootstrap, a commit one successor per contract, and a
\* running campaign keeps the generation it pinned (generations.rs, campaigns.rs).
THEOREM LineageIsSound == Lineage!ConstantsOK => (Lineage!Spec => []Lineage!LineageSound)
<1> SUFFICES ASSUME Lineage!ConstantsOK
             PROVE  Lineage!Spec => []Lineage!LineageSound
  OBVIOUS
<1> QED
  BY LineageAlways, LineageImplied, PTL

\* Only a sealed bootstrap becomes the baseline, a retired generation stays retired, and a
\* follow-up that was noted stays noted (generations.rs).
THEOREM GenerationsAdvance == Lineage!ConstantsOK => (Lineage!Spec => Lineage!GenerationSteps)
<1> SUFFICES ASSUME Lineage!ConstantsOK
             PROVE  Lineage!Spec => Lineage!GenerationSteps
  OBVIOUS
<1>1. LineageInv /\ [Lineage!Next]_(Lineage!vars) => [Lineage!GenerationStepsStep]_(Lineage!vars)
  BY LineageStep DEF LineageKeeps
<1> QED
  BY <1>1, LineageAlways, PTL DEF Lineage!Spec, Lineage!GenerationSteps

(***************************************************************************)
(* The review units of the surveys                                          *)
(***************************************************************************)
\* The instance counts as this module does.
LEMMA SameUnitCount ==
  ASSUME NEW S
  PROVE  /\ Coverage!IsFiniteSet(S) <=> IsFiniteSet(S)
         /\ Coverage!Cardinality(S) = Cardinality(S)
BY DEF Coverage!IsFiniteSet, IsFiniteSet, Coverage!Cardinality, Cardinality

\* A job that was not created yet has left no trace.
UnitFresh ==
  \A j \in SurveyJobs : unit_jobs[j] = "absent" => /\ DOMAIN assigned[j] = {}
                                                   /\ \A r \in results : r.job # j
                                                   /\ \A b \in DOMAIN batches : batches[b].job # j

\* The bootstrap is assigned nothing, and until it has succeeded there is no other survey.
BootFirst ==
  /\ unit_jobs[boot] # "absent" /\ DOMAIN assigned[boot] = {}
  /\ \A b \in DOMAIN batches : batches[b].job # boot
  /\ unit_jobs[boot] # "succeeded" => /\ \A j \in SurveyJobs \ {boot} : unit_jobs[j] = "absent"
                                      /\ \A u \in Coverage!UnitIds : units[u].epoch = 0

\* An epoch of a unit has one owner.
Epochs ==
  /\ \A j \in SurveyJobs : \A u \in DOMAIN assigned[j] : assigned[j][u].epoch \in 1..units[u].epoch
  /\ \A j, k \in SurveyJobs : \A u \in DOMAIN assigned[j] \cap DOMAIN assigned[k] :
       j # k => assigned[j][u].epoch # assigned[k][u].epoch
  /\ \A u \in Coverage!UnitIds : units[u].status = "absent" => /\ units[u].epoch = 0
                                                               /\ \A r \in results : r.unit # u

\* A job that may still run owns its units now; one it has not reported is free, or held in
\* the batch the job was given.
LiveOwns ==
  \A j \in SurveyJobs : unit_jobs[j] \in Coverage!Live => \A u \in DOMAIN assigned[j] :
    /\ assigned[j][u].epoch = units[u].epoch /\ units[u].status = "open"
    /\ u \in DOMAIN holds /\ ~ assigned[j][u].done =>
         /\ holds[u].batch \in DOMAIN batches
         /\ batches[holds[u].batch].state = "admitted" /\ batches[holds[u].batch].job = j

\* A result is of the epoch its job owned the unit in, the bootstrap's of the first; a job
\* has one on a unit.
ResultsOwned ==
  /\ \A r \in results : IF r.job = boot THEN r.epoch = 0 /\ units[r.unit].by = boot
                        ELSE /\ r.unit \in DOMAIN assigned[r.job]
                             /\ assigned[r.job][r.unit].done
                             /\ assigned[r.job][r.unit].epoch = r.epoch
  /\ \A r, s \in results : r.job = s.job /\ r.unit = s.unit => r = s

\* While its job may run, a follow-up is the unit's hold, and a conclusive result left none.
LiveReports ==
  \A r \in results : unit_jobs[r.job] \in Coverage!Live =>
    /\ r.followUp => r.unit \in DOMAIN holds /\ holds[r.unit].job = r.job
    /\ ~ r.followUp => r.unit \notin DOMAIN holds

FollowUpOf(u) == [unit |-> u, job |-> holds[u].job, epoch |-> holds[u].epoch, followUp |-> TRUE]

\* A hold outside all batches waits for its job's receipt, or is blocked.
Unbatched(u) ==
  /\ holds[u].epoch = units[u].epoch
  /\ unit_jobs[holds[u].job] # "succeeded"
  /\ unit_jobs[holds[u].job] = "ended" => holds[u].blocked
  /\ unit_jobs[holds[u].job] \in Coverage!Live => (holds[u].blocked <=> holds[u].class = "other")

\* A hold in a batch that was admitted waits for the batch's job, which has not reported it.
Batched(u) ==
  /\ holds[u].batch \in DOMAIN batches
  /\ unit_jobs[holds[u].job] = "succeeded"
  /\ batches[holds[u].batch].state # "complete"
  /\ batches[holds[u].batch].state = "admitted" =>
       LET j == batches[holds[u].batch].job
       IN  /\ u \in DOMAIN assigned[j] /\ ~ assigned[j][u].done
           /\ assigned[j][u].pos = holds[u].pos
           /\ holds[u].class = "source" /\ ~ holds[u].blocked

HoldsStand ==
  \A u \in DOMAIN holds : /\ FollowUpOf(u) \in results
                          /\ holds[u].batch = Coverage!NoBatch => Unbatched(u)
                          /\ holds[u].batch # Coverage!NoBatch => Batched(u)

BatchesStand ==
  \A b \in DOMAIN batches :
    /\ unit_jobs[batches[b].producer] = "succeeded"
    /\ batches[b].state = "pending" => batches[b].job = None /\ Coverage!Admissible(b)
    /\ batches[b].state = "admitted" => batches[b].job \in SurveyJobs /\ unit_jobs[batches[b].job] \in Coverage!Live

Incoming == \A j \in SurveyJobs : unit_jobs[j] \in Coverage!Live => Coverage!IncomingExact(j)

UnitInv ==
  /\ Coverage!TypeOK /\ UnitFresh /\ BootFirst /\ Epochs /\ LiveOwns /\ ResultsOwned /\ LiveReports
  /\ HoldsStand /\ BatchesStand /\ Incoming

(***************************************************************************)
(* What follows from the invariant                                          *)
(***************************************************************************)
UnitRow == [status : {"absent", "open", "deferred"}, epoch : Nat, by : SurveyJobs \cup {None}]
AssignedRow == [pos : Nat, epoch : Nat, done : BOOLEAN]
ResultRow == [unit : Coverage!UnitIds, job : SurveyJobs, epoch : Nat, followUp : BOOLEAN]
HoldRow == [job : SurveyJobs, epoch : Nat, class : Coverage!Classes, batch : Nat, pos : Nat, blocked : BOOLEAN]
BatchRow == [producer : SurveyJobs, job : SurveyJobs \cup {None}, class : Coverage!Classes, count : Nat \ {0},
             state : {"pending", "admitted", "blocked", "complete"}]

\* The types, entry by entry.
LEMMA UnitTypes ==
  ASSUME Coverage!TypeOK
  PROVE  /\ \A j \in SurveyJobs : unit_jobs[j] \in {"absent", "succeeded", "ended", "held", "queued", "leased"}
         /\ \A u \in Coverage!UnitIds : units[u] \in UnitRow
         /\ DOMAIN assigned = SurveyJobs
         /\ \A j \in SurveyJobs : DOMAIN assigned[j] \subseteq Coverage!UnitIds
         /\ \A j \in SurveyJobs : \A u \in DOMAIN assigned[j] : assigned[j][u] \in AssignedRow
         /\ results \subseteq ResultRow
         /\ DOMAIN holds \subseteq Coverage!UnitIds
         /\ \A u \in DOMAIN holds : holds[u] \in HoldRow
         /\ Len(batches) \in Nat /\ DOMAIN batches = 1..Len(batches)
         /\ \A b \in DOMAIN batches : batches[b] \in BatchRow
<1>1. batches \in Seq(BatchRow)
  BY DEF Coverage!TypeOK, BatchRow
<1>2. Len(batches) \in Nat /\ DOMAIN batches = 1..Len(batches)
  BY <1>1
<1>3. \A b \in DOMAIN batches : batches[b] \in BatchRow
  BY <1>1
<1>4. \A u \in Coverage!UnitIds : units[u] \in UnitRow
  BY DEF Coverage!TypeOK, UnitRow
<1>5. \A j \in SurveyJobs : \A u \in DOMAIN assigned[j] : assigned[j][u] \in AssignedRow
  BY DEF Coverage!TypeOK, AssignedRow
<1>6. \A u \in DOMAIN holds : holds[u] \in HoldRow
  BY DEF Coverage!TypeOK, HoldRow
<1>7. results \subseteq ResultRow
  BY DEF Coverage!TypeOK, ResultRow
<1> QED
  BY <1>2, <1>3, <1>4, <1>5, <1>6, <1>7 DEF Coverage!TypeOK, Coverage!Live

\* The types, put together.
LEMMA UnitTyped ==
  ASSUME unit_jobs \in [SurveyJobs -> {"absent", "succeeded", "ended", "held"} \cup Coverage!Live],
         units \in [Coverage!UnitIds -> UnitRow],
         DOMAIN assigned = SurveyJobs,
         \A j \in SurveyJobs : /\ DOMAIN assigned[j] \subseteq Coverage!UnitIds
                               /\ assigned[j] \in [DOMAIN assigned[j] -> AssignedRow],
         results \subseteq ResultRow,
         DOMAIN holds \subseteq Coverage!UnitIds, holds \in [DOMAIN holds -> HoldRow],
         batches \in Seq(BatchRow)
  PROVE  Coverage!TypeOK
BY DEF Coverage!TypeOK, UnitRow, AssignedRow, ResultRow, HoldRow, BatchRow

\* The owner of a unit that may still run is the only one.
LEMMA OneOwner ==
  ASSUME Coverage!TypeOK, Epochs, LiveOwns, NEW j \in SurveyJobs, NEW u \in DOMAIN assigned[j], unit_jobs[j] \in Coverage!Live
  PROVE  ~ Coverage!LiveOwner(u, j)
BY DEF Coverage!LiveOwner, Coverage!IsAssigned, Epochs, LiveOwns

\* Whoever has a result on a unit, or holds it, owned it then.
LEMMA ResultOwned ==
  ASSUME Coverage!TypeOK, ResultsOwned, NEW r \in results
  PROVE  Coverage!OwnedAt(r.job, r.unit, r.epoch)
BY DEF ResultsOwned, Coverage!OwnedAt, Coverage!IsAssigned

\* A running job that has a result is the unit's only owner that may run.
LEMMA ReporterAlone ==
  ASSUME Coverage!ConstantsOK, UnitInv, NEW r \in results, unit_jobs[r.job] \in Coverage!Live
  PROVE  ~ Coverage!LiveOwner(r.unit, r.job) /\ r.epoch = units[r.unit].epoch /\ units[r.unit].status # "absent"
<1>1. r \in ResultRow
  BY UnitTypes DEF UnitInv
<1>2. CASE r.job = boot
  BY <1>1, <1>2 DEF UnitInv, BootFirst, UnitFresh, Epochs, ResultsOwned, Coverage!LiveOwner,
       Coverage!IsAssigned, Coverage!Live, ResultRow
<1>3. CASE r.job # boot
  BY <1>1, <1>3, OneOwner DEF UnitInv, Epochs, ResultsOwned, LiveOwns, ResultRow
<1> QED
  BY <1>2, <1>3

\* The owner of an open unit may report it.
LEMMA ReportOpen ==
  ASSUME Coverage!ConstantsOK, UnitInv
  PROVE  Coverage!OwnersMayReport
<1> SUFFICES ASSUME NEW j \in SurveyJobs, NEW u \in DOMAIN assigned[j], unit_jobs[j] \in Coverage!Live, ~ assigned[j][u].done
             PROVE  Coverage!MayReport(j, u)
  BY DEF Coverage!OwnersMayReport
<1>1. j # boot
  BY DEF UnitInv, BootFirst
<1>2. units[u].status = "open" /\ assigned[j][u].epoch = units[u].epoch
  BY DEF UnitInv, LiveOwns
<1>3. ~ Coverage!LiveOwner(u, j)
  BY OneOwner DEF UnitInv
<1>4. \A r \in results : r.unit = u => r.job # j
  BY <1>1 DEF UnitInv, ResultsOwned
<1>5. ~ Coverage!Covered(u)
  BY <1>4 DEF Coverage!Covered, Coverage!LiveOwner, Coverage!IsAssigned, UnitInv, Coverage!TypeOK
<1>6. u \in DOMAIN holds => Coverage!HeldFor(j, u)
  <2> SUFFICES ASSUME u \in DOMAIN holds
               PROVE  Coverage!HeldFor(j, u)
    OBVIOUS
  <2>1. /\ holds[u].batch \in DOMAIN batches /\ DOMAIN batches = 1..Len(batches) /\ Len(batches) \in Nat
        /\ batches[holds[u].batch].state = "admitted" /\ batches[holds[u].batch].job = j
    BY UnitTypes DEF UnitInv, LiveOwns
  <2>2. holds[u].batch # Coverage!NoBatch
    BY <2>1 DEF Coverage!NoBatch
  <2>3. assigned[j][u].pos = holds[u].pos
    BY <2>1, <2>2 DEF UnitInv, HoldsStand, Batched
  <2> QED
    BY <2>1, <2>2, <2>3, <1>2 DEF Coverage!HeldFor, Coverage!IsAssigned
<1> QED
  BY <1>1, <1>2, <1>3, <1>4, <1>5, <1>6 DEF Coverage!MayReport, Coverage!IsAssigned

\* No check of its receipt can refuse a job that runs.
LEMMA Deliverable ==
  ASSUME Coverage!ConstantsOK, UnitInv, NEW j \in SurveyJobs, unit_jobs[j] \in Coverage!Live
  PROVE  Coverage!Finalizable(j)
<1>1. Coverage!ProducerValid(j)
  <2> SUFFICES ASSUME NEW r \in results, r.job = j
               PROVE  /\ r.epoch = units[r.unit].epoch
                      /\ units[r.unit].status \in {"open", "deferred"}
                      /\ ~ Coverage!LiveOwner(r.unit, j)
                      /\ IF j = boot THEN Coverage!OwnedAt(j, r.unit, r.epoch) ELSE Coverage!IsAssigned(j, r.unit)
                      /\ IF r.followUp
                         THEN r.unit \in DOMAIN holds /\ holds[r.unit].job = j /\ holds[r.unit].epoch = r.epoch
                         ELSE r.unit \notin DOMAIN holds
    BY DEF Coverage!ProducerValid
  <2>1. r \in ResultRow /\ units[r.unit] \in UnitRow
    BY UnitTypes DEF UnitInv, ResultRow
  <2>2. /\ r.epoch = units[r.unit].epoch /\ ~ Coverage!LiveOwner(r.unit, j)
        /\ units[r.unit].status \in {"open", "deferred"}
    BY <2>1, ReporterAlone DEF UnitRow
  <2>3. IF j = boot THEN Coverage!OwnedAt(j, r.unit, r.epoch) ELSE Coverage!IsAssigned(j, r.unit)
    BY ResultOwned DEF UnitInv, ResultsOwned, Coverage!IsAssigned
  <2>4. CASE r.followUp
    <3>1. r.unit \in DOMAIN holds /\ holds[r.unit].job = j
      BY <2>4 DEF UnitInv, LiveReports
    <3>2. FollowUpOf(r.unit) \in results
      BY <3>1 DEF UnitInv, HoldsStand
    <3>3. FollowUpOf(r.unit) = r
      BY <3>1, <3>2 DEF FollowUpOf, UnitInv, ResultsOwned
    <3> QED
      BY <2>2, <2>3, <2>4, <3>1, <3>3 DEF FollowUpOf
  <2>5. CASE ~ r.followUp
    BY <2>2, <2>3, <2>5 DEF UnitInv, LiveReports
  <2> QED
    BY <2>4, <2>5
<1>2. Coverage!IncomingExact(j)
  BY DEF UnitInv, Incoming
<1>3. ASSUME NEW u \in Coverage!ToFreeze(j)
      PROVE  Coverage!Freezable(j, u)
  <2>1. u \in DOMAIN holds /\ holds[u] \in HoldRow /\ u \in Coverage!UnitIds /\ FollowUpOf(u) \in results
        /\ units[u] \in UnitRow
    BY UnitTypes DEF UnitInv, HoldsStand, Coverage!ToFreeze
  <2>2. Coverage!OwnedAt(holds[u].job, u, holds[u].epoch)
    BY <2>1, ResultOwned DEF FollowUpOf, UnitInv
  <2>3. units[u].status \in {"open", "deferred"}
    BY <2>1 DEF UnitInv, Epochs, FollowUpOf, UnitRow
  <2>4. CASE holds[u].job = j /\ holds[u].batch = Coverage!NoBatch
    <3>1. ~ Coverage!LiveOwner(u, j)
      BY <2>1, <2>4, ReporterAlone DEF FollowUpOf
    <3>2. units[u].epoch = holds[u].epoch
      BY <2>1, <2>4 DEF UnitInv, HoldsStand, Unbatched
    <3> QED
      BY <2>1, <2>2, <2>3, <2>4, <3>1, <3>2 DEF Coverage!Freezable, Coverage!HandedOver,
           Coverage!HandoffEpoch, FollowUpOf
  <2>5. CASE ~ (holds[u].job = j /\ holds[u].batch = Coverage!NoBatch)
    <3>1. /\ holds[u].batch \in DOMAIN batches /\ DOMAIN batches = 1..Len(batches) /\ Len(batches) \in Nat
          /\ batches[holds[u].batch].state = "admitted" /\ batches[holds[u].batch].job = j
      BY <2>5, UnitTypes DEF UnitInv, Coverage!ToFreeze, Coverage!BatchOf
    <3>2. holds[u].batch # Coverage!NoBatch
      BY <3>1 DEF Coverage!NoBatch
    <3>3. /\ u \in DOMAIN assigned[j] /\ ~ assigned[j][u].done
          /\ unit_jobs[holds[u].job] = "succeeded"
      BY <2>1, <3>1, <3>2 DEF UnitInv, HoldsStand, Batched
    <3>4. holds[u].job # j
      BY <3>3 DEF Coverage!Live
    <3>5. ~ Coverage!LiveOwner(u, j) /\ units[u].epoch = assigned[j][u].epoch
      BY <3>3, OneOwner DEF UnitInv, LiveOwns
    <3> QED
      BY <2>1, <2>2, <2>3, <3>3, <3>4, <3>5 DEF Coverage!Freezable, Coverage!HandedOver,
           Coverage!HandoffEpoch, FollowUpOf, Coverage!IsAssigned
  <2> QED
    BY <2>4, <2>5
<1> QED
  BY <1>1, <1>2, <1>3 DEF Coverage!Finalizable

\* Every open unit is answered for.
LEMMA UnitsKept ==
  ASSUME Coverage!ConstantsOK, UnitInv
  PROVE  Coverage!NothingLost
<1> SUFFICES ASSUME NEW u \in Coverage!UnitIds, units[u].status = "open"
             PROVE  \/ Coverage!Covered(u) \/ Coverage!NeedsWork(u) \/ Coverage!LiveOwner(u, None)
                    \/ /\ u \in DOMAIN holds
                       /\ \/ holds[u].blocked
                          \/ holds[u].batch = Coverage!NoBatch /\ unit_jobs[holds[u].job] \in Coverage!Live \cup {"held"}
                          \/ holds[u].batch # Coverage!NoBatch /\ batches[holds[u].batch].state \in {"pending", "blocked"}
  BY DEF Coverage!NothingLost
<1>1. CASE u \notin DOMAIN holds
  BY <1>1 DEF Coverage!NeedsWork, Coverage!LiveOwner, Coverage!ConstantsOK
<1>2. CASE u \in DOMAIN holds /\ holds[u].batch = Coverage!NoBatch
  <2>1. Unbatched(u) /\ FollowUpOf(u) \in results /\ holds[u] \in HoldRow
    BY <1>2, UnitTypes DEF UnitInv, HoldsStand
  <2>2. unit_jobs[holds[u].job] # "absent"
    BY <2>1 DEF UnitInv, UnitFresh, FollowUpOf, HoldRow
  <2>3. unit_jobs[holds[u].job] \in {"absent", "succeeded", "ended", "held", "queued", "leased"}
    BY <2>1, UnitTypes DEF UnitInv, HoldRow
  <2> QED
    BY <1>2, <2>1, <2>2, <2>3 DEF Unbatched, Coverage!Live
<1>3. CASE u \in DOMAIN holds /\ holds[u].batch # Coverage!NoBatch
  <2>1. Batched(u)
    BY <1>3 DEF UnitInv, HoldsStand
  <2>2. batches[holds[u].batch] \in BatchRow
    BY <2>1, UnitTypes DEF UnitInv, Batched
  <2>3. CASE batches[holds[u].batch].state = "admitted"
    BY <2>1, <2>3 DEF Batched, Coverage!LiveOwner, Coverage!IsAssigned, UnitInv, BatchesStand,
         Coverage!ConstantsOK
  <2> QED
    BY <1>3, <2>1, <2>2, <2>3 DEF Batched, BatchRow
<1> QED
  BY <1>1, <1>2, <1>3

\* The invariant says what the property says.
LEMMA UnitsImplied == Coverage!ConstantsOK /\ UnitInv => Coverage!UnitsAnswered
<1> SUFFICES ASSUME Coverage!ConstantsOK, UnitInv
             PROVE  Coverage!UnitsAnswered
  OBVIOUS
<1>1. Coverage!ReceiptAccepted
  BY Deliverable DEF Coverage!ReceiptAccepted, Coverage!Live
<1>2. Coverage!PendingIsExact
  BY DEF Coverage!PendingIsExact, UnitInv, BatchesStand
<1> QED
  BY <1>1, <1>2, ReportOpen, UnitsKept DEF Coverage!UnitsAnswered, UnitInv

(***************************************************************************)
(* The steps                                                                *)
(***************************************************************************)
LEMMA UnitsBegin == Coverage!ConstantsOK /\ Coverage!Init => UnitInv
<1> SUFFICES ASSUME Coverage!ConstantsOK, Coverage!Init
             PROVE  UnitInv
  OBVIOUS
<1>1. batches \in Seq(BatchRow) /\ DOMAIN batches = {}
  BY DEF Coverage!Init
<1>2. \A j \in SurveyJobs : DOMAIN assigned[j] = {} /\ assigned[j] \in [DOMAIN assigned[j] -> AssignedRow]
  BY DEF Coverage!Init
<1>3. DOMAIN holds = {} /\ holds \in [DOMAIN holds -> HoldRow]
  BY DEF Coverage!Init
<1>4. Coverage!TypeOK
  <2>1. unit_jobs \in [SurveyJobs -> {"absent", "succeeded", "ended", "held"} \cup Coverage!Live]
    BY DEF Coverage!Init, Coverage!Live
  <2>2. units \in [Coverage!UnitIds -> UnitRow]
    BY DEF Coverage!Init, UnitRow
  <2>3. DOMAIN assigned = SurveyJobs /\ results \subseteq ResultRow
    BY DEF Coverage!Init
  <2> QED
    BY <1>1, <1>2, <1>3, <2>1, <2>2, <2>3, UnitTyped
<1>5. UnitFresh /\ BootFirst
  BY <1>1, <1>2 DEF Coverage!Init, UnitFresh, BootFirst, Coverage!ConstantsOK
<1>6. Epochs /\ LiveOwns /\ ResultsOwned /\ LiveReports
  BY <1>2 DEF Coverage!Init, Epochs, LiveOwns, ResultsOwned, LiveReports
<1>7. HoldsStand /\ BatchesStand /\ Incoming
  BY <1>1, <1>3 DEF HoldsStand, BatchesStand, Incoming, Coverage!IncomingExact, Coverage!BatchOf
<1> QED
  BY <1>4, <1>5, <1>6, <1>7 DEF UnitInv

\* A batch that waits goes on to be admissible while its remaining, its producer and the owners
\* of its units do not change.
LEMMA AdmissibleStays ==
  ASSUME Coverage!TypeOK, BatchesStand, HoldsStand,
         NEW b \in DOMAIN batches, batches[b].state = "pending", batches'[b] = batches[b],
         Coverage!Members(b)' = Coverage!Members(b),
         \A u \in Coverage!Members(b) : holds'[u] = holds[u] /\ units'[u] = units[u],
         results \subseteq results',
         \A k \in SurveyJobs : unit_jobs[k] = "succeeded" => unit_jobs'[k] = "succeeded" /\ assigned'[k] = assigned[k],
         \A k \in SurveyJobs : \A u \in Coverage!Members(b) :
           unit_jobs'[k] \in Coverage!Live /\ u \in DOMAIN assigned'[k] => unit_jobs[k] \in Coverage!Live /\ u \in DOMAIN assigned[k]
  PROVE  Coverage!Admissible(b)'
<1>1. Coverage!Admissible(b) /\ batches[b] \in BatchRow /\ unit_jobs[batches[b].producer] = "succeeded"
  BY UnitTypes DEF BatchesStand
<1>2. PICK p \in SurveyJobs : p = batches[b].producer
  BY <1>1 DEF BatchRow
<1>3. assigned'[p] = assigned[p] /\ unit_jobs'[p] = "succeeded"
  BY <1>1, <1>2
<1>4. ASSUME NEW u \in Coverage!Members(b)
      PROVE  /\ Coverage!HandedOver(p, u)'
             /\ Coverage!SourceValid(u, Coverage!HandoffEpoch(p, u))'
             /\ holds'[u].class = "source" /\ ~ holds'[u].blocked
  <2>1. /\ u \in DOMAIN holds /\ holds[u] \in HoldRow /\ holds[u].batch = b
        /\ Coverage!HandedOver(p, u) /\ Coverage!SourceValid(u, Coverage!HandoffEpoch(p, u))
        /\ holds[u].class = "source" /\ ~ holds[u].blocked
    BY <1>1, <1>2, UnitTypes DEF Coverage!Members, Coverage!Admissible
  <2>2. b # Coverage!NoBatch
    BY UnitTypes DEF Coverage!NoBatch
  <2>3. assigned'[holds[u].job] = assigned[holds[u].job]
    BY <2>1, <2>2 DEF HoldsStand, Batched, HoldRow
  <2>4. Coverage!HandedOver(p, u)'
    BY <1>3, <2>1 DEF Coverage!HandedOver, Coverage!IsAssigned
  <2>5. Coverage!SourceValid(u, Coverage!HandoffEpoch(p, u))'
    <3>1. PICK h \in SurveyJobs : h = holds[u].job
      BY <2>1 DEF HoldRow
    <3>2. PICK e : e = Coverage!HandoffEpoch(p, u)
      OBVIOUS
    <3>3. Coverage!HandoffEpoch(p, u)' = e
      BY <1>3, <3>2 DEF Coverage!HandoffEpoch
    <3>4. PICK x : x = holds[u].epoch
      OBVIOUS
    <3>5. Coverage!OwnedAt(h, u, x)'
      BY <2>1, <2>3, <3>1, <3>4 DEF Coverage!SourceValid, Coverage!OwnedAt, Coverage!IsAssigned
    <3>6. Coverage!SourceValid(u, e)'
      BY <2>1, <3>1, <3>2, <3>4, <3>5 DEF Coverage!SourceValid, Coverage!IsAssigned
    <3> QED
      BY <3>3, <3>6
  <2> QED
    BY <2>1, <2>4, <2>5
<1> QED
  BY <1>1, <1>2, <1>3, <1>4 DEF Coverage!Admissible

\* A job that is leased again or waits for its next attempt goes on to own what it owned.
LEMMA MoveKeeps ==
  ASSUME Coverage!ConstantsOK, UnitInv, NEW j \in SurveyJobs, unit_jobs[j] \in Coverage!Live, NEW s \in Coverage!Live,
         unit_jobs' = [unit_jobs EXCEPT ![j] = s], UNCHANGED <<units, assigned, results, holds, batches>>
  PROVE  UnitInv'
<1>1. \A k \in SurveyJobs : /\ unit_jobs'[k] \in Coverage!Live <=> unit_jobs[k] \in Coverage!Live
                            /\ \A x \in {"absent", "succeeded", "ended", "held"} : unit_jobs'[k] = x <=> unit_jobs[k] = x
  BY DEF Coverage!Live, UnitInv, Coverage!TypeOK
<1>2. Coverage!TypeOK'
  BY DEF UnitInv, Coverage!TypeOK, Coverage!Live
<1>3. UnitFresh' /\ BootFirst'
  BY <1>1 DEF UnitInv, UnitFresh, BootFirst, Coverage!ConstantsOK
<1>4. Epochs' /\ LiveOwns' /\ ResultsOwned'
  BY <1>1 DEF UnitInv, Epochs, LiveOwns, ResultsOwned
<1>5. LiveReports'
  BY <1>1, UnitTypes DEF UnitInv, LiveReports, ResultRow
<1>6. HoldsStand'
  <2> SUFFICES ASSUME NEW u \in DOMAIN holds
               PROVE  /\ FollowUpOf(u)' \in results'
                      /\ (holds[u].batch = Coverage!NoBatch => Unbatched(u))'
                      /\ (holds[u].batch # Coverage!NoBatch => Batched(u))'
    BY DEF HoldsStand
  <2>1. holds[u].job \in SurveyJobs
    BY UnitTypes DEF UnitInv, HoldRow
  <2> QED
    BY <1>1, <2>1 DEF UnitInv, HoldsStand, FollowUpOf, Unbatched, Batched
<1>7. BatchesStand'
  <2> SUFFICES ASSUME NEW b \in DOMAIN batches
               PROVE  /\ unit_jobs'[batches[b].producer] = "succeeded"
                      /\ batches[b].state = "pending" => batches[b].job = None /\ Coverage!Admissible(b)'
                      /\ batches[b].state = "admitted" => batches[b].job \in SurveyJobs /\ unit_jobs'[batches[b].job] \in Coverage!Live
    BY DEF BatchesStand
  <2>1. batches[b].producer \in SurveyJobs
    BY UnitTypes DEF UnitInv, BatchRow
  <2>2. batches[b].state = "pending" => Coverage!Admissible(b)'
    BY <1>1, AdmissibleStays DEF UnitInv, Coverage!Members
  <2> QED
    BY <1>1, <2>1, <2>2 DEF UnitInv, BatchesStand
<1>8. Incoming'
  BY <1>1 DEF UnitInv, Incoming, Coverage!IncomingExact, Coverage!BatchOf
<1> QED
  BY <1>2, <1>3, <1>4, <1>5, <1>6, <1>7, <1>8 DEF UnitInv

\* A new unit has nobody's result and no owner.
LEMMA NewUnitKeeps ==
  ASSUME Coverage!ConstantsOK, UnitInv, NEW j \in SurveyJobs, NEW u \in Coverage!UnitIds, Coverage!SubmitReviewUnit(j, u)
  PROVE  UnitInv'
<1> USE DEF Coverage!SubmitReviewUnit
<1>1. /\ units' = [units EXCEPT ![u] = [status |-> "open", epoch |-> 0, by |-> j]]
      /\ \A v \in Coverage!UnitIds : v # u => units'[v] = units[v]
      /\ units'[u] = [status |-> "open", epoch |-> 0, by |-> j]
  BY DEF UnitInv, Coverage!TypeOK
<1>2. /\ units[u].epoch = 0 /\ \A r \in results : r.unit # u
      /\ \A k \in SurveyJobs : u \notin DOMAIN assigned[k]
      /\ u \notin DOMAIN holds
  <2>1. units[u].epoch = 0 /\ \A r \in results : r.unit # u
    BY DEF UnitInv, Epochs
  <2>2. \A k \in SurveyJobs : u \notin DOMAIN assigned[k]
    BY <2>1 DEF UnitInv, Epochs
  <2>3. u \notin DOMAIN holds
    BY <2>1 DEF UnitInv, HoldsStand, FollowUpOf
  <2> QED
    BY <2>1, <2>2, <2>3
<1>3. Coverage!TypeOK'
  <2>1. units' \in [Coverage!UnitIds -> UnitRow]
    BY <1>1 DEF UnitInv, Coverage!TypeOK, UnitRow
  <2> QED
    BY <2>1 DEF UnitInv, Coverage!TypeOK, UnitRow
<1>4. UnitFresh' /\ BootFirst'
  BY <1>1, <1>2 DEF UnitInv, UnitFresh, BootFirst
<1>5. Epochs' /\ LiveOwns'
  BY <1>1, <1>2, UnitTypes DEF UnitInv, Epochs, LiveOwns
<1>6. ResultsOwned' /\ LiveReports'
  BY <1>1, <1>2, UnitTypes DEF UnitInv, ResultsOwned, LiveReports, ResultRow
<1>7. HoldsStand'
  BY <1>1, <1>2, UnitTypes DEF UnitInv, HoldsStand, FollowUpOf, Unbatched, Batched
<1>8. BatchesStand'
  <2> SUFFICES ASSUME NEW b \in DOMAIN batches, batches[b].state = "pending"
               PROVE  Coverage!Admissible(b)'
    BY DEF UnitInv, BatchesStand
  <2>1. \A v \in Coverage!Members(b) : units'[v] = units[v]
    BY <1>1, <1>2, UnitTypes DEF UnitInv, Coverage!Members
  <2> QED
    BY <2>1, AdmissibleStays DEF UnitInv, Coverage!Members
<1>9. Incoming'
  BY DEF UnitInv, Incoming, Coverage!IncomingExact, Coverage!BatchOf
<1> QED
  BY <1>3, <1>4, <1>5, <1>6, <1>7, <1>8, <1>9 DEF UnitInv

\* A batch that is completed has nothing left; nothing else of the table changes.
LEMMA CompletedRows ==
  ASSUME NEW n \in Nat, NEW table \in [1..n -> BatchRow], NEW remaining
  PROVE  /\ Coverage!Completed(table, remaining) \in Seq(BatchRow) /\ DOMAIN Coverage!Completed(table, remaining) = 1..n
         /\ \A b \in 1..n :
              \/ /\ Coverage!Completed(table, remaining)[b] = table[b]
                 /\ table[b].state = "admitted" => \E u \in DOMAIN remaining : remaining[u].batch = b
              \/ /\ table[b].state = "admitted" /\ \A u \in DOMAIN remaining : remaining[u].batch # b
                 /\ Coverage!Completed(table, remaining)[b] = [table[b] EXCEPT !.state = "complete"]
<1>1. \A b \in 1..n : [table[b] EXCEPT !.state = "complete"] \in BatchRow
  BY DEF BatchRow
<1>2. Coverage!Completed(table, remaining) \in [1..n -> BatchRow]
  BY <1>1 DEF Coverage!Completed
<1>3. Coverage!Completed(table, remaining) \in Seq(BatchRow)
  BY <1>2
<1>4. ASSUME NEW b \in 1..n
      PROVE  \/ /\ Coverage!Completed(table, remaining)[b] = table[b]
                /\ table[b].state = "admitted" => \E u \in DOMAIN remaining : remaining[u].batch = b
             \/ /\ table[b].state = "admitted" /\ \A u \in DOMAIN remaining : remaining[u].batch # b
                /\ Coverage!Completed(table, remaining)[b] = [table[b] EXCEPT !.state = "complete"]
  BY DEF Coverage!Completed
<1> QED
  BY <1>2, <1>3, <1>4

\* A report changes the unit's hold, the reporter's row and, if it was the last of its batch,
\* the batch's state.
LEMMA ReportKeeps ==
  ASSUME Coverage!ConstantsOK, UnitInv, NEW j \in SurveyJobs, NEW u \in Coverage!UnitIds, NEW f \in BOOLEAN, NEW class \in Coverage!Classes,
         unit_jobs[j] = "leased", Coverage!MayReport(j, u),
         results' = results \cup {Coverage!ResultOf(j, u, f)},
         holds' = IF f THEN Coverage!With(holds, u, [job |-> j, epoch |-> units[u].epoch, class |-> class,
                                            batch |-> Coverage!NoBatch, pos |-> 0, blocked |-> class = "other"])
                  ELSE Coverage!Without(holds, u),
         assigned' = Coverage!Reported(j, u), batches' = Coverage!Completed(batches, holds'), UNCHANGED <<unit_jobs, units>>
  PROVE  UnitInv'
<1> DEFINE new == [unit |-> u, job |-> j, epoch |-> units[u].epoch, followUp |-> f]
           held == [job |-> j, epoch |-> units[u].epoch, class |-> class,
                    batch |-> Coverage!NoBatch, pos |-> 0, blocked |-> class = "other"]
<1>1. /\ results' = results \cup {new} /\ new \in ResultRow
      /\ units[u] \in UnitRow /\ units[u].status = "open" /\ unit_jobs[j] \in Coverage!Live
      /\ \A r \in results : r.unit = u => r.job # j
  BY UnitTypes DEF UnitInv, Coverage!ResultOf, Coverage!MayReport, ResultRow, UnitRow, Coverage!Live
<1>2. /\ DOMAIN holds' \subseteq Coverage!UnitIds
      /\ \A v : v # u => (v \in DOMAIN holds' <=> v \in DOMAIN holds)
      /\ \A v \in DOMAIN holds : v # u => holds'[v] = holds[v]
      /\ f => u \in DOMAIN holds' /\ holds'[u] = held
      /\ ~ f => u \notin DOMAIN holds'
  BY UnitTypes DEF UnitInv, Coverage!With, Coverage!Without
<1>3. /\ DOMAIN assigned' = SurveyJobs
      /\ \A k \in SurveyJobs : DOMAIN assigned'[k] = DOMAIN assigned[k]
      /\ \A k \in SurveyJobs : k # j => assigned'[k] = assigned[k]
      /\ \A v \in DOMAIN assigned[j] : v # u => assigned'[j][v] = assigned[j][v]
      /\ u \in DOMAIN assigned[j] => assigned'[j][u] = [assigned[j][u] EXCEPT !.done = TRUE]
  BY UnitTypes DEF UnitInv, Coverage!Reported, Coverage!IsAssigned
<1>4. \A k \in SurveyJobs : \A v \in DOMAIN assigned[k] :
        /\ assigned[k][v] \in AssignedRow /\ assigned'[k][v] \in AssignedRow
        /\ assigned'[k][v].epoch = assigned[k][v].epoch /\ assigned'[k][v].pos = assigned[k][v].pos
        /\ assigned[k][v].done => assigned'[k][v].done
        /\ k = j /\ v = u => assigned'[k][v].done
        /\ ~ (k = j /\ v = u) => assigned'[k][v] = assigned[k][v]
  <2> SUFFICES ASSUME NEW k \in SurveyJobs, NEW v \in DOMAIN assigned[k]
               PROVE  /\ assigned[k][v] \in AssignedRow /\ assigned'[k][v] \in AssignedRow
                      /\ assigned'[k][v].epoch = assigned[k][v].epoch /\ assigned'[k][v].pos = assigned[k][v].pos
                      /\ assigned[k][v].done => assigned'[k][v].done
                      /\ k = j /\ v = u => assigned'[k][v].done
                      /\ ~ (k = j /\ v = u) => assigned'[k][v] = assigned[k][v]
    OBVIOUS
  <2>1. assigned[k][v] \in AssignedRow
    BY UnitTypes DEF UnitInv
  <2>2. CASE k = j /\ v = u
    BY <1>3, <2>1, <2>2 DEF AssignedRow
  <2>3. CASE ~ (k = j /\ v = u)
    <3>1. assigned'[k][v] = assigned[k][v]
      BY <1>3, <2>3
    <3> QED
      BY <2>1, <2>3, <3>1
  <2> QED
    BY <2>2, <2>3
<1>5. /\ batches' \in Seq(BatchRow) /\ DOMAIN batches' = DOMAIN batches
      /\ \A b \in DOMAIN batches :
           \/ batches'[b] = batches[b] /\ (batches[b].state = "admitted" => \E v \in DOMAIN holds' : holds'[v].batch = b)
           \/ /\ batches[b].state = "admitted" /\ \A v \in DOMAIN holds' : holds'[v].batch # b
              /\ batches'[b] = [batches[b] EXCEPT !.state = "complete"]
  <2>1. Len(batches) \in Nat /\ batches \in [1..Len(batches) -> BatchRow] /\ DOMAIN batches = 1..Len(batches)
    <3>1. batches \in Seq(BatchRow)
      BY DEF UnitInv, Coverage!TypeOK, BatchRow
    <3> QED
      BY <3>1
  <2>2. \A remaining : /\ Coverage!Completed(batches, remaining) \in Seq(BatchRow)
                       /\ DOMAIN Coverage!Completed(batches, remaining) = 1..Len(batches)
                       /\ \A b \in 1..Len(batches) :
                            \/ /\ Coverage!Completed(batches, remaining)[b] = batches[b]
                               /\ batches[b].state = "admitted" => \E v \in DOMAIN remaining : remaining[v].batch = b
                            \/ /\ batches[b].state = "admitted" /\ \A v \in DOMAIN remaining : remaining[v].batch # b
                               /\ Coverage!Completed(batches, remaining)[b] = [batches[b] EXCEPT !.state = "complete"]
    BY <2>1, CompletedRows
  <2> QED
    BY <2>1, <2>2
<1>6. \A b \in DOMAIN batches : /\ batches[b] \in BatchRow
                                /\ batches'[b].job = batches[b].job /\ batches'[b].producer = batches[b].producer
                                /\ batches'[b].count = batches[b].count
                                /\ batches'[b].state = batches[b].state \/ (batches[b].state = "admitted" /\ batches'[b].state = "complete")
  <2> SUFFICES ASSUME NEW b \in DOMAIN batches
               PROVE  /\ batches[b] \in BatchRow
                      /\ batches'[b].job = batches[b].job /\ batches'[b].producer = batches[b].producer
                      /\ batches'[b].count = batches[b].count
                      /\ batches'[b].state = batches[b].state \/ (batches[b].state = "admitted" /\ batches'[b].state = "complete")
    OBVIOUS
  <2>1. batches[b] \in BatchRow
    BY UnitTypes DEF UnitInv
  <2>2. CASE batches'[b] = batches[b]
    BY <2>1, <2>2
  <2>3. CASE batches[b].state = "admitted" /\ batches'[b] = [batches[b] EXCEPT !.state = "complete"]
    BY <2>1, <2>3 DEF BatchRow
  <2> QED
    BY <1>5, <2>2, <2>3
<1>7. \A k \in SurveyJobs : k # j /\ unit_jobs[k] \in Coverage!Live => u \notin DOMAIN assigned[k]
  BY DEF Coverage!MayReport, Coverage!LiveOwner, Coverage!IsAssigned
<1>8. IF j = boot THEN units[u].by = boot /\ units[u].epoch = 0 /\ \A k \in SurveyJobs : DOMAIN assigned[k] = {}
      ELSE u \in DOMAIN assigned[j] /\ assigned[j][u].epoch = units[u].epoch
  BY DEF Coverage!MayReport, Coverage!IsAssigned, UnitInv, BootFirst, UnitFresh
<1>9. u \in DOMAIN holds => /\ holds[u].batch # Coverage!NoBatch /\ holds[u].batch \in DOMAIN batches
                            /\ batches[holds[u].batch].state = "admitted" /\ batches[holds[u].batch].job = j
  BY DEF Coverage!MayReport, Coverage!HeldFor, UnitInv, HoldsStand, Batched
<1>20. /\ held.job = j /\ held.epoch = units[u].epoch /\ held.class = class /\ held.batch = Coverage!NoBatch
       /\ held.blocked <=> class = "other"
  OBVIOUS
<1>21. f => new = [unit |-> u, job |-> j, epoch |-> units[u].epoch, followUp |-> TRUE]
  OBVIOUS
<1> HIDE DEF new, held
<1>10. Coverage!TypeOK'
  <2>1. holds' \in [DOMAIN holds' -> HoldRow]
    <3>1. held \in HoldRow
      BY <1>1 DEF held, HoldRow, UnitRow, Coverage!NoBatch
    <3>2. \A v \in DOMAIN holds' : holds'[v] \in HoldRow
      BY <1>2, <3>1, UnitTypes DEF UnitInv
    <3>3. holds' = [v \in DOMAIN holds' |-> holds'[v]]
      BY DEF Coverage!With, Coverage!Without
    <3> QED
      BY <3>2, <3>3
  <2>2. \A k \in SurveyJobs : /\ DOMAIN assigned'[k] \subseteq Coverage!UnitIds
                              /\ assigned'[k] \in [DOMAIN assigned'[k] -> AssignedRow]
    <3> SUFFICES ASSUME NEW k \in SurveyJobs
                 PROVE  /\ DOMAIN assigned'[k] \subseteq Coverage!UnitIds
                        /\ assigned'[k] \in [DOMAIN assigned'[k] -> AssignedRow]
      OBVIOUS
    <3>1. assigned[k] \in [DOMAIN assigned[k] -> AssignedRow]
      BY DEF UnitInv, Coverage!TypeOK, AssignedRow
    <3>2. assigned'[k] = [v \in DOMAIN assigned'[k] |-> assigned'[k][v]]
      BY <3>1 DEF Coverage!Reported, UnitInv, Coverage!TypeOK
    <3> QED
      BY <1>3, <1>4, <3>2, UnitTypes DEF UnitInv
  <2>3. results' \subseteq ResultRow
    BY <1>1, UnitTypes DEF UnitInv
  <2>4. unit_jobs' \in [SurveyJobs -> {"absent", "succeeded", "ended", "held"} \cup Coverage!Live] /\ units' \in [Coverage!UnitIds -> UnitRow]
    BY DEF UnitInv, Coverage!TypeOK, UnitRow
  <2> QED
    BY <1>2, <1>3, <1>5, <2>1, <2>2, <2>3, <2>4 DEF Coverage!TypeOK, UnitRow, AssignedRow,
         ResultRow, HoldRow, BatchRow
<1>11. UnitFresh'
  <2>1. new.job = j
    BY DEF new
  <2> QED
    BY <1>1, <1>3, <1>5, <1>6, <2>1 DEF UnitInv, UnitFresh
<1>12. BootFirst'
  BY <1>3, <1>5, <1>6 DEF UnitInv, BootFirst, Coverage!ConstantsOK
<1>13. Epochs'
  <2>1. new.unit = u
    BY DEF new
  <2> QED
    BY <1>1, <1>3, <1>4, <2>1 DEF UnitInv, Epochs
<1>14. LiveOwns'
  <2> SUFFICES ASSUME NEW k \in SurveyJobs, unit_jobs[k] \in Coverage!Live, NEW v \in DOMAIN assigned[k]
               PROVE  /\ assigned'[k][v].epoch = units[v].epoch /\ units[v].status = "open"
                      /\ v \in DOMAIN holds' /\ ~ assigned'[k][v].done =>
                           /\ holds'[v].batch \in DOMAIN batches'
                           /\ batches'[holds'[v].batch].state = "admitted" /\ batches'[holds'[v].batch].job = k
    BY <1>3 DEF LiveOwns
  <2>1. assigned'[k][v].epoch = units[v].epoch /\ units[v].status = "open"
    BY <1>4 DEF UnitInv, LiveOwns
  <2>2. ASSUME v \in DOMAIN holds', ~ assigned'[k][v].done
        PROVE  /\ holds'[v].batch \in DOMAIN batches'
               /\ batches'[holds'[v].batch].state = "admitted" /\ batches'[holds'[v].batch].job = k
    <3>1. v # u
      BY <1>3, <1>4, <1>7, <2>2 DEF AssignedRow
    <3>2. v \in DOMAIN holds /\ holds'[v] = holds[v] /\ ~ assigned[k][v].done
      BY <1>2, <1>4, <2>2, <3>1
    <3>3. /\ holds[v].batch \in DOMAIN batches
          /\ batches[holds[v].batch].state = "admitted" /\ batches[holds[v].batch].job = k
      BY <3>2 DEF UnitInv, LiveOwns
    <3>4. PICK b \in DOMAIN batches : b = holds[v].batch
      BY <3>3
    <3>5. batches'[b] = batches[b]
      BY <1>5, <2>2, <3>2, <3>4
    <3> QED
      BY <1>5, <3>2, <3>3, <3>4, <3>5
  <2> QED
    BY <2>1, <2>2
<1>15. ResultsOwned'
  <2>1. new.unit = u /\ new.job = j /\ new.epoch = units[u].epoch
    BY DEF new
  <2>2. ASSUME NEW r \in results'
        PROVE  IF r.job = boot THEN r.epoch = 0 /\ units[r.unit].by = boot
               ELSE /\ r.unit \in DOMAIN assigned'[r.job]
                    /\ assigned'[r.job][r.unit].done
                    /\ assigned'[r.job][r.unit].epoch = r.epoch
    <3>1. CASE r \in results
      <4>1. r.job \in SurveyJobs
        BY <3>1, UnitTypes DEF UnitInv, ResultRow
      <4> QED
        BY <1>3, <1>4, <3>1, <4>1 DEF UnitInv, ResultsOwned
    <3>2. CASE r = new
      BY <1>3, <1>4, <1>8, <2>1, <3>2, UnitTypes DEF UnitInv, AssignedRow
    <3> QED
      BY <1>1, <3>1, <3>2
  <2>3. \A r, s \in results' : r.job = s.job /\ r.unit = s.unit => r = s
    BY <1>1, <2>1 DEF UnitInv, ResultsOwned
  <2> QED
    BY <2>2, <2>3 DEF ResultsOwned
<1>16. LiveReports'
  <2> SUFFICES ASSUME NEW r \in results', unit_jobs[r.job] \in Coverage!Live
               PROVE  /\ r.followUp => r.unit \in DOMAIN holds' /\ holds'[r.unit].job = r.job
                      /\ ~ r.followUp => r.unit \notin DOMAIN holds'
    BY DEF LiveReports
  <2>1. CASE r = new
    BY <1>2, <2>1 DEF new, held
  <2>2. CASE r \in results /\ r.unit # u
    BY <1>2, <2>2 DEF UnitInv, LiveReports
  <2>3. ASSUME r \in results, r.unit = u
        PROVE  FALSE
    <3>1. r.job # j /\ r.job \in SurveyJobs
      BY <1>1, <2>3, UnitTypes DEF UnitInv, ResultRow
    <3>2. r.job # boot
      BY <3>1 DEF UnitInv, BootFirst, Coverage!Live
    <3> QED
      BY <1>7, <2>3, <3>1, <3>2 DEF UnitInv, ResultsOwned
  <2> QED
    BY <1>1, <2>1, <2>2, <2>3
<1>17. HoldsStand'
  <2> SUFFICES ASSUME NEW v \in DOMAIN holds'
               PROVE  /\ FollowUpOf(v)' \in results'
                      /\ (holds[v].batch = Coverage!NoBatch => Unbatched(v))'
                      /\ (holds[v].batch # Coverage!NoBatch => Batched(v))'
    BY DEF HoldsStand
  <2>1. CASE v = u
    <3>1. f /\ holds'[u] = held
      BY <1>2, <2>1
    <3>2. FollowUpOf(v)' = new
      BY <1>20, <1>21, <2>1, <3>1 DEF FollowUpOf
    <3>3. Unbatched(v)' /\ holds'[v].batch = Coverage!NoBatch
      BY <1>20, <2>1, <3>1 DEF Unbatched
    <3> QED
      BY <1>1, <3>2, <3>3
  <2>2. CASE v # u
    <3>1. v \in DOMAIN holds /\ holds'[v] = holds[v]
      BY <1>2, <2>2
    <3>2. FollowUpOf(v)' \in results'
      BY <1>1, <3>1 DEF UnitInv, HoldsStand, FollowUpOf
    <3>3. holds[v].batch = Coverage!NoBatch => Unbatched(v)'
      BY <3>1 DEF UnitInv, HoldsStand, Unbatched
    <3>4. ASSUME holds[v].batch # Coverage!NoBatch
          PROVE  Batched(v)'
      <4>1. Batched(v)
        BY <3>1, <3>4 DEF UnitInv, HoldsStand
      <4>2. PICK b \in DOMAIN batches : b = holds[v].batch
        BY <4>1 DEF Batched
      <4>3. batches'[b] = batches[b]
        BY <1>5, <3>1, <4>2
      <4>4. batches[b].state = "admitted" => batches[b].job \in SurveyJobs
        BY DEF UnitInv, BatchesStand
      <4>5. batches[b].state = "admitted" => LET k == batches[b].job
                                             IN  /\ v \in DOMAIN assigned'[k] /\ ~ assigned'[k][v].done
                                                 /\ assigned'[k][v].pos = holds[v].pos
        BY <1>3, <1>4, <2>2, <4>1, <4>2, <4>4 DEF Batched
      <4> QED
        <5>1. /\ holds'[v].batch = b /\ b \in DOMAIN batches' /\ unit_jobs'[holds'[v].job] = "succeeded"
              /\ batches'[b].state # "complete"
          BY <1>5, <3>1, <4>1, <4>2, <4>3 DEF Batched
        <5>2. ASSUME batches'[b].state = "admitted"
              PROVE  /\ v \in DOMAIN assigned'[batches'[b].job] /\ ~ assigned'[batches'[b].job][v].done
                     /\ assigned'[batches'[b].job][v].pos = holds'[v].pos
                     /\ holds'[v].class = "source" /\ ~ holds'[v].blocked
          BY <3>1, <4>1, <4>2, <4>3, <4>5, <5>2 DEF Batched
        <5> QED
          BY <5>1, <5>2 DEF Batched
    <3> QED
      BY <3>1, <3>2, <3>3, <3>4
  <2> QED
    BY <2>1, <2>2
<1>18. BatchesStand'
  <2> SUFFICES ASSUME NEW b \in DOMAIN batches
               PROVE  /\ unit_jobs[batches'[b].producer] = "succeeded"
                      /\ batches'[b].state = "pending" => batches'[b].job = None /\ Coverage!Admissible(b)'
                      /\ batches'[b].state = "admitted" => batches'[b].job \in SurveyJobs /\ unit_jobs[batches'[b].job] \in Coverage!Live
    BY <1>5 DEF BatchesStand
  <2>1. ASSUME batches'[b].state = "pending"
        PROVE  Coverage!Admissible(b)'
    <3>1. batches'[b] = batches[b] /\ batches[b].state = "pending"
      BY <1>5, <1>6, <2>1
    <3>2. u \notin Coverage!Members(b) /\ u \notin Coverage!Members(b)'
      BY <1>2, <1>9, <3>1, UnitTypes DEF Coverage!Members, held, Coverage!NoBatch, UnitInv
    <3>3. \A v : v \in Coverage!Members(b)' <=> v \in Coverage!Members(b)
      BY <1>2, <3>2 DEF Coverage!Members
    <3>4. \A v \in Coverage!Members(b) : holds'[v] = holds[v]
      BY <1>2, <3>2 DEF Coverage!Members
    <3>5. \A k \in SurveyJobs : unit_jobs[k] = "succeeded" => assigned'[k] = assigned[k]
      BY <1>3
    <3>6. Coverage!Members(b)' = Coverage!Members(b) /\ results \subseteq results'
      BY <1>1, <3>3
    <3> QED
      BY <1>3, <3>1, <3>4, <3>5, <3>6, AdmissibleStays DEF UnitInv
  <2> QED
    BY <1>6, <2>1 DEF UnitInv, BatchesStand
<1>19. Incoming'
  <2> SUFFICES ASSUME NEW k \in SurveyJobs, unit_jobs[k] \in Coverage!Live, NEW b \in DOMAIN batches, batches[b].job = k
               PROVE  /\ batches'[b].state \in {"admitted", "complete"}
                      /\ Cardinality(DOMAIN assigned'[k]) = batches'[b].count
                      /\ \A v \in DOMAIN assigned'[k] :
                           LET in == v \in DOMAIN holds' /\ holds'[v].batch = b
                           IN  IF assigned'[k][v].done THEN ~ in ELSE in /\ holds'[v].pos = assigned'[k][v].pos
    BY SameUnitCount, <1>5, <1>6 DEF Incoming, Coverage!IncomingExact, Coverage!BatchOf
  <2>1. Coverage!IncomingExact(k) /\ b \in Coverage!BatchOf(k)
    BY DEF UnitInv, Incoming, Coverage!BatchOf
  <2>2. /\ batches'[b].state \in {"admitted", "complete"}
        /\ Cardinality(DOMAIN assigned'[k]) = batches'[b].count
    BY SameUnitCount, <1>3, <1>6, <2>1 DEF Coverage!IncomingExact
  <2>3. ASSUME NEW v \in DOMAIN assigned[k]
        PROVE  LET in == v \in DOMAIN holds' /\ holds'[v].batch = b
               IN  IF assigned'[k][v].done THEN ~ in ELSE in /\ holds'[v].pos = assigned'[k][v].pos
    <3>1. CASE v = u
      <4>1. k = j /\ assigned'[k][v].done
        BY <1>3, <1>4, <1>7, <3>1 DEF AssignedRow
      <4>2. b # Coverage!NoBatch
        BY UnitTypes DEF Coverage!NoBatch, UnitInv
      <4> QED
        BY <1>2, <3>1, <4>1, <4>2 DEF held
    <3>2. CASE v # u
      BY <1>2, <1>4, <2>1, <3>2 DEF Coverage!IncomingExact
    <3> QED
      BY <3>1, <3>2
  <2> QED
    BY <1>3, <2>2, <2>3
<1> QED
  BY <1>10, <1>11, <1>12, <1>13, <1>14, <1>15, <1>16, <1>17, <1>18, <1>19 DEF UnitInv

\* A claim of units nobody works on, free ones or the members of the batches B (none or one).
Claimed(j, S, pos, B) ==
  /\ pos \in [S -> Nat] /\ B \subseteq DOMAIN batches
  /\ unit_jobs[j] = "absent" /\ Coverage!GenerationActive /\ unit_jobs' = [unit_jobs EXCEPT ![j] = "leased"]
  /\ Coverage!Assign(j, S, pos)
  /\ \A u \in S : /\ units[u].status # "absent"
                  /\ \A k \in SurveyJobs : unit_jobs[k] \in Coverage!Live => u \notin DOMAIN assigned[k]
                  /\ u \in DOMAIN holds => holds[u].batch \in B
  /\ \A b \in B : /\ batches[b].state = "pending" /\ Coverage!Members(b) = S /\ batches[b].count = Cardinality(S)
                  /\ \A u \in S : pos[u] = holds[u].pos
  /\ batches' = [b \in DOMAIN batches |->
                   IF b \in B THEN [batches[b] EXCEPT !.state = "admitted", !.job = j] ELSE batches[b]]

\* A claim that assigns units under new epochs keeps the invariant.
LEMMA UnitClaimKeeps ==
  ASSUME Coverage!ConstantsOK, UnitInv, NEW j \in SurveyJobs, NEW S \in SUBSET Coverage!UnitIds, NEW pos, NEW B,
         Claimed(j, S, pos, B), UNCHANGED <<results, holds>>
  PROVE  UnitInv'
<1>1. /\ unit_jobs'[j] = "leased" /\ unit_jobs'[j] \in Coverage!Live /\ \A k \in SurveyJobs : k # j => unit_jobs'[k] = unit_jobs[k]
      /\ j # boot /\ unit_jobs[boot] = "succeeded" /\ unit_jobs[j] = "absent"
  BY DEF Claimed, UnitInv, Coverage!TypeOK, Coverage!GenerationActive, Coverage!ConstantsOK,
       Coverage!Live
<1>2. /\ \A u \in S : units'[u] = [units[u] EXCEPT !.status = "open", !.epoch = @ + 1]
      /\ \A u \in Coverage!UnitIds : u \notin S => units'[u] = units[u]
  BY DEF Claimed, Coverage!Assign
<1>3. \A u \in Coverage!UnitIds : /\ units[u] \in UnitRow /\ units'[u] \in UnitRow /\ units'[u].by = units[u].by
                                  /\ u \in S => units'[u].epoch = units[u].epoch + 1 /\ units'[u].status = "open"
                                  /\ units'[u].epoch >= units[u].epoch
  <2> SUFFICES ASSUME NEW u \in Coverage!UnitIds
               PROVE  /\ units[u] \in UnitRow /\ units'[u] \in UnitRow /\ units'[u].by = units[u].by
                      /\ u \in S => units'[u].epoch = units[u].epoch + 1 /\ units'[u].status = "open"
                      /\ units'[u].epoch >= units[u].epoch
    OBVIOUS
  <2>1. units[u] \in UnitRow
    BY UnitTypes DEF UnitInv
  <2>2. CASE u \in S
    <3>1. units'[u] = [units[u] EXCEPT !.status = "open", !.epoch = @ + 1]
      BY <1>2, <2>2
    <3>2. units'[u] = [status |-> "open", epoch |-> units[u].epoch + 1, by |-> units[u].by]
      BY <2>1, <3>1 DEF UnitRow
    <3>3. units[u].epoch \in Nat /\ units[u].by \in SurveyJobs \cup {None}
      BY <2>1 DEF UnitRow
    <3> QED
      BY <2>1, <3>2, <3>3 DEF UnitRow
  <2>3. CASE u \notin S
    <3>1. units'[u] = units[u] /\ units[u].epoch \in Nat
      BY <1>2, <2>1, <2>3 DEF UnitRow
    <3> QED
      BY <2>1, <2>3, <3>1
  <2> QED
    BY <2>2, <2>3
<1>4. /\ DOMAIN assigned' = SurveyJobs
      /\ \A k \in SurveyJobs : k # j => assigned'[k] = assigned[k]
      /\ assigned'[j] = [u \in S |-> [pos |-> pos[u], epoch |-> units[u].epoch + 1, done |-> FALSE]]
      /\ DOMAIN assigned'[j] = S
  BY DEF Claimed, Coverage!Assign, UnitInv, Coverage!TypeOK
<1>20. /\ \A u \in S : /\ units[u].status # "absent" /\ pos[u] \in Nat
                       /\ \A k \in SurveyJobs : unit_jobs[k] \in Coverage!Live => u \notin DOMAIN assigned[k]
                       /\ u \in DOMAIN holds => holds[u].batch \in B
       /\ B \subseteq DOMAIN batches
       /\ \A b \in B : /\ batches[b].state = "pending" /\ Coverage!Members(b) = S /\ batches[b].count = Cardinality(S)
                       /\ \A u \in S : pos[u] = holds[u].pos
  BY DEF Claimed
<1>5. \A u \in S : /\ assigned'[j][u] \in AssignedRow
                   /\ assigned'[j][u].pos = pos[u] /\ assigned'[j][u].epoch = units'[u].epoch
                   /\ ~ assigned'[j][u].done
  BY <1>3, <1>4, <1>20 DEF AssignedRow, UnitRow
<1>6. /\ DOMAIN batches' = DOMAIN batches
      /\ \A b \in DOMAIN batches : b \notin B => batches'[b] = batches[b]
      /\ \A b \in B : /\ batches'[b].state = "admitted" /\ batches'[b].job = j
                      /\ batches'[b].producer = batches[b].producer /\ batches'[b].count = batches[b].count
      /\ \A b \in DOMAIN batches : batches[b] \in BatchRow /\ batches'[b] \in BatchRow
  <2>1. \A b \in DOMAIN batches : batches[b] \in BatchRow
    BY UnitTypes DEF UnitInv
  <2>2. DOMAIN batches' = DOMAIN batches
    BY DEF Claimed
  <2>3. \A b \in DOMAIN batches : b \notin B => batches'[b] = batches[b]
    BY DEF Claimed
  <2>4. \A b \in B : batches'[b] = [batches[b] EXCEPT !.state = "admitted", !.job = j]
    BY <1>20 DEF Claimed
  <2>5. \A b \in B : /\ batches'[b].state = "admitted" /\ batches'[b].job = j
                     /\ batches'[b].producer = batches[b].producer /\ batches'[b].count = batches[b].count
                     /\ batches'[b] \in BatchRow
    <3> SUFFICES ASSUME NEW b \in B
                 PROVE  /\ batches'[b].state = "admitted" /\ batches'[b].job = j
                        /\ batches'[b].producer = batches[b].producer /\ batches'[b].count = batches[b].count
                        /\ batches'[b] \in BatchRow
      OBVIOUS
    <3>1. batches[b] \in BatchRow /\ batches'[b] = [batches[b] EXCEPT !.state = "admitted", !.job = j]
      BY <1>20, <2>1, <2>4
    <3> QED
      BY <3>1 DEF BatchRow
  <2> QED
    BY <2>1, <2>2, <2>3, <2>5
<1>7. \A k \in SurveyJobs : /\ unit_jobs'[k] \in Coverage!Live /\ k # j => unit_jobs[k] \in Coverage!Live
                            /\ unit_jobs[k] \in {"succeeded", "ended", "held"} \cup Coverage!Live => k # j
  BY <1>1 DEF Claimed, Coverage!Live
<1>8. \A r \in results : r \in ResultRow /\ r.job # j
  BY UnitTypes DEF Claimed, UnitInv, UnitFresh
<1>9. \A u \in DOMAIN holds : holds[u] \in HoldRow /\ u \in Coverage!UnitIds /\ holds[u].job # j /\ holds[u].job \in SurveyJobs
  <2> SUFFICES ASSUME NEW u \in DOMAIN holds
               PROVE  holds[u] \in HoldRow /\ u \in Coverage!UnitIds /\ holds[u].job # j /\ holds[u].job \in SurveyJobs
    OBVIOUS
  <2>1. holds[u] \in HoldRow /\ u \in Coverage!UnitIds /\ FollowUpOf(u) \in results
    BY UnitTypes DEF UnitInv, HoldsStand
  <2> QED
    BY <1>8, <2>1 DEF FollowUpOf, HoldRow
<1>10. Coverage!TypeOK'
  <2>1. unit_jobs' \in [SurveyJobs -> {"absent", "succeeded", "ended", "held"} \cup Coverage!Live]
    BY DEF Claimed, UnitInv, Coverage!TypeOK, Coverage!Live
  <2>2. units' \in [Coverage!UnitIds -> UnitRow]
    <3>1. units' = [u \in Coverage!UnitIds |-> units'[u]]
      BY DEF Claimed, Coverage!Assign
    <3> QED
      BY <1>3, <3>1
  <2>3. \A k \in SurveyJobs : /\ DOMAIN assigned'[k] \subseteq Coverage!UnitIds
                              /\ assigned'[k] \in [DOMAIN assigned'[k] -> AssignedRow]
    <3> SUFFICES ASSUME NEW k \in SurveyJobs
                 PROVE  /\ DOMAIN assigned'[k] \subseteq Coverage!UnitIds
                        /\ assigned'[k] \in [DOMAIN assigned'[k] -> AssignedRow]
      OBVIOUS
    <3>1. CASE k = j
      BY <1>4, <1>5, <3>1
    <3>2. CASE k # j
      BY <1>4, <3>2 DEF UnitInv, Coverage!TypeOK, AssignedRow
    <3> QED
      BY <3>1, <3>2
  <2>4. batches' \in Seq(BatchRow)
    <3>1. Len(batches) \in Nat /\ DOMAIN batches = 1..Len(batches)
      BY UnitTypes DEF UnitInv
    <3>2. batches' = [b \in DOMAIN batches |-> batches'[b]]
      BY DEF Claimed
    <3>3. batches' \in [1..Len(batches) -> BatchRow]
      BY <1>6, <3>1, <3>2
    <3> QED
      BY <3>1, <3>3
  <2> QED
    BY <1>4, <2>1, <2>2, <2>3, <2>4 DEF UnitInv, Coverage!TypeOK, UnitRow, AssignedRow, ResultRow,
         HoldRow, BatchRow
<1>11. UnitFresh'
  BY <1>1, <1>4, <1>6 DEF UnitInv, UnitFresh
<1>12. BootFirst'
  BY <1>1, <1>4, <1>6 DEF UnitInv, BootFirst, Coverage!ConstantsOK
<1>13. Epochs'
  <2>1. ASSUME NEW k \in SurveyJobs, NEW u \in DOMAIN assigned'[k]
        PROVE  assigned'[k][u].epoch \in 1..units'[u].epoch
    <3>1. CASE k = j
      BY <1>3, <1>4, <1>5, <2>1, <3>1 DEF UnitRow
    <3>2. CASE k # j
      <4>1. u \in DOMAIN assigned[k] /\ u \in Coverage!UnitIds /\ assigned'[k] = assigned[k]
        BY <1>4, <2>1, <3>2, UnitTypes DEF UnitInv
      <4>2. assigned[k][u].epoch \in 1..units[u].epoch
        BY <4>1 DEF UnitInv, Epochs
      <4> QED
        BY <1>3, <4>1, <4>2 DEF UnitRow
    <3> QED
      BY <3>1, <3>2
  <2>2. ASSUME NEW k \in SurveyJobs, k # j, NEW u \in S, u \in DOMAIN assigned'[k]
        PROVE  assigned'[k][u].epoch # assigned'[j][u].epoch
    <3>1. assigned[k][u].epoch \in 1..units[u].epoch /\ assigned'[k] = assigned[k]
      BY <1>4, <2>2 DEF UnitInv, Epochs
    <3> QED
      BY <1>3, <1>5, <3>1 DEF UnitRow
  <2>3. \A k, l \in SurveyJobs : \A u \in DOMAIN assigned'[k] \cap DOMAIN assigned'[l] :
          k # l => assigned'[k][u].epoch # assigned'[l][u].epoch
    <3> SUFFICES ASSUME NEW k \in SurveyJobs, NEW l \in SurveyJobs, k # l,
                        NEW u \in DOMAIN assigned'[k] \cap DOMAIN assigned'[l]
                 PROVE  assigned'[k][u].epoch # assigned'[l][u].epoch
      OBVIOUS
    <3>1. CASE k = j
      BY <1>4, <2>2, <3>1
    <3>2. CASE l = j
      BY <1>4, <2>2, <3>2
    <3>3. CASE k # j /\ l # j
      BY <1>4, <3>3 DEF UnitInv, Epochs
    <3> QED
      BY <3>1, <3>2, <3>3
  <2>4. ASSUME NEW u \in Coverage!UnitIds, units'[u].status = "absent"
        PROVE  units'[u].epoch = 0 /\ \A r \in results' : r.unit # u
    <3>1. u \notin S
      BY <1>3, <2>4
    <3> QED
      BY <1>2, <2>4, <3>1 DEF UnitInv, Epochs
  <2> QED
    BY <2>1, <2>3, <2>4 DEF Epochs
<1>14. LiveOwns'
  <2> SUFFICES ASSUME NEW k \in SurveyJobs, unit_jobs'[k] \in Coverage!Live, NEW u \in DOMAIN assigned'[k]
               PROVE  /\ assigned'[k][u].epoch = units'[u].epoch /\ units'[u].status = "open"
                      /\ u \in DOMAIN holds /\ ~ assigned'[k][u].done =>
                           /\ holds[u].batch \in DOMAIN batches'
                           /\ batches'[holds[u].batch].state = "admitted" /\ batches'[holds[u].batch].job = k
    BY DEF LiveOwns
  <2>1. CASE k = j
    BY <1>3, <1>4, <1>5, <1>6, <1>20, <2>1
  <2>2. CASE k # j
    <3>1. unit_jobs[k] \in Coverage!Live /\ u \in DOMAIN assigned[k] /\ assigned'[k] = assigned[k] /\ u \in Coverage!UnitIds /\ u \notin S
      BY <1>4, <1>7, <1>20, <2>2, UnitTypes DEF UnitInv
    <3>2. assigned[k][u].epoch = units[u].epoch /\ units[u].status = "open"
      BY <3>1 DEF UnitInv, LiveOwns
    <3>3. ASSUME u \in DOMAIN holds, ~ assigned[k][u].done
          PROVE  /\ holds[u].batch \in DOMAIN batches'
                 /\ batches'[holds[u].batch].state = "admitted" /\ batches'[holds[u].batch].job = k
      <4>1. /\ holds[u].batch \in DOMAIN batches
            /\ batches[holds[u].batch].state = "admitted" /\ batches[holds[u].batch].job = k
        BY <3>1, <3>3 DEF UnitInv, LiveOwns
      <4> QED
        BY <1>6, <1>20, <4>1
    <3> QED
      BY <1>2, <3>1, <3>2, <3>3
  <2> QED
    BY <2>1, <2>2
<1>15. ResultsOwned'
  BY <1>3, <1>4, <1>8 DEF UnitInv, ResultsOwned, ResultRow
<1>16. LiveReports'
  BY <1>1, <1>8 DEF UnitInv, LiveReports, ResultRow
<1>17. HoldsStand'
  <2> SUFFICES ASSUME NEW u \in DOMAIN holds
               PROVE  /\ FollowUpOf(u)' \in results'
                      /\ (holds[u].batch = Coverage!NoBatch => Unbatched(u))'
                      /\ (holds[u].batch # Coverage!NoBatch => Batched(u))'
    BY DEF HoldsStand
  <2>1. FollowUpOf(u)' \in results'
    BY DEF UnitInv, HoldsStand, FollowUpOf
  <2>2. unit_jobs'[holds[u].job] = unit_jobs[holds[u].job]
    BY <1>1, <1>9
  <2>3. ASSUME holds[u].batch = Coverage!NoBatch
        PROVE  Unbatched(u)'
    <3>1. u \notin S
      BY <1>20, <2>3, UnitTypes DEF UnitInv, Coverage!NoBatch
    <3>2. units'[u] = units[u] /\ Unbatched(u)
      BY <1>2, <1>9, <2>3, <3>1 DEF UnitInv, HoldsStand
    <3> QED
      BY <2>2, <3>2 DEF Unbatched
  <2>4. ASSUME holds[u].batch # Coverage!NoBatch
        PROVE  Batched(u)'
    <3>1. Batched(u)
      BY <2>4 DEF UnitInv, HoldsStand
    <3>2. PICK b \in DOMAIN batches : b = holds[u].batch
      BY <3>1 DEF Batched
    <3>3. CASE b \in B
      <4>1. u \in S /\ Coverage!Admissible(b)
        BY <1>20, <3>2, <3>3 DEF Coverage!Members, UnitInv, BatchesStand
      <4>2. holds[u].class = "source" /\ ~ holds[u].blocked
        BY <3>2, <4>1 DEF Coverage!Admissible, Coverage!Members
      <4>3. u \in DOMAIN assigned'[j] /\ ~ assigned'[j][u].done /\ assigned'[j][u].pos = holds[u].pos
        BY <1>4, <1>5, <1>20, <3>3, <4>1
      <4>4. batches'[b].state = "admitted" /\ batches'[b].job = j /\ b \in DOMAIN batches'
        BY <1>6, <3>3
      <4> QED
        BY <2>2, <3>1, <3>2, <4>2, <4>3, <4>4 DEF Batched
    <3>4. CASE b \notin B
      <4>1. batches'[b] = batches[b] /\ b \in DOMAIN batches'
        BY <1>6, <3>4
      <4>2. batches[b].state = "admitted" => assigned'[batches[b].job] = assigned[batches[b].job]
        BY <1>4, <1>7 DEF UnitInv, BatchesStand
      <4> QED
        BY <2>2, <3>1, <3>2, <4>1, <4>2 DEF Batched
    <3> QED
      BY <3>3, <3>4
  <2> QED
    BY <2>1, <2>3, <2>4
<1>18. BatchesStand'
  <2> SUFFICES ASSUME NEW b \in DOMAIN batches
               PROVE  /\ unit_jobs'[batches'[b].producer] = "succeeded"
                      /\ batches'[b].state = "pending" => batches'[b].job = None /\ Coverage!Admissible(b)'
                      /\ batches'[b].state = "admitted" => batches'[b].job \in SurveyJobs /\ unit_jobs'[batches'[b].job] \in Coverage!Live
    BY <1>6 DEF BatchesStand
  <2>1. unit_jobs'[batches'[b].producer] = "succeeded"
    BY <1>1, <1>6 DEF UnitInv, BatchesStand, BatchRow
  <2>2. CASE b \in B
    BY <1>1, <1>6, <2>1, <2>2
  <2>3. CASE b \notin B
    <3>1. batches'[b] = batches[b]
      BY <1>6, <2>3
    <3>2. ASSUME batches[b].state = "pending"
          PROVE  Coverage!Admissible(b)'
      <4>1. Coverage!Members(b)' = Coverage!Members(b)
        BY DEF Coverage!Members
      <4>2. \A u \in Coverage!Members(b) : u \notin S /\ u \in Coverage!UnitIds
        BY <1>9, <1>20, <2>3 DEF Coverage!Members
      <4>3. \A u \in Coverage!Members(b) : units'[u] = units[u]
        BY <1>2, <4>2
      <4>4. \A k \in SurveyJobs : unit_jobs[k] = "succeeded" => unit_jobs'[k] = "succeeded" /\ assigned'[k] = assigned[k]
        BY <1>1, <1>4
      <4>5. \A k \in SurveyJobs : \A u \in Coverage!Members(b) :
              unit_jobs'[k] \in Coverage!Live /\ u \in DOMAIN assigned'[k] => unit_jobs[k] \in Coverage!Live /\ u \in DOMAIN assigned[k]
        BY <1>4, <1>7, <4>2
      <4> QED
        BY <3>1, <3>2, <4>1, <4>3, <4>4, <4>5, AdmissibleStays DEF UnitInv
    <3>3. batches[b].state = "admitted" => batches[b].job \in SurveyJobs /\ unit_jobs'[batches[b].job] \in Coverage!Live
      BY <1>1, <1>7 DEF UnitInv, BatchesStand
    <3> QED
      BY <2>1, <3>1, <3>2, <3>3 DEF UnitInv, BatchesStand
  <2> QED
    BY <2>2, <2>3
<1>19. Incoming'
  <2> SUFFICES ASSUME NEW k \in SurveyJobs, unit_jobs'[k] \in Coverage!Live, NEW b \in DOMAIN batches, batches'[b].job = k
               PROVE  /\ batches'[b].state \in {"admitted", "complete"}
                      /\ Cardinality(DOMAIN assigned'[k]) = batches'[b].count
                      /\ \A v \in DOMAIN assigned'[k] :
                           LET in == v \in DOMAIN holds /\ holds[v].batch = b
                           IN  IF assigned'[k][v].done THEN ~ in ELSE in /\ holds[v].pos = assigned'[k][v].pos
    BY SameUnitCount, <1>6 DEF Incoming, Coverage!IncomingExact, Coverage!BatchOf
  <2>1. CASE k = j
    <3>1. b \in B
      BY <1>1, <1>6, <2>1 DEF UnitInv, UnitFresh
    <3>2. \A v \in S : v \in DOMAIN holds /\ holds[v].batch = b /\ pos[v] = holds[v].pos
      BY <1>20, <3>1 DEF Coverage!Members
    <3> QED
      BY <1>4, <1>5, <1>6, <1>20, <2>1, <3>1, <3>2
  <2>2. CASE k # j
    <3>1. b \notin B /\ batches'[b] = batches[b] /\ unit_jobs[k] \in Coverage!Live /\ assigned'[k] = assigned[k]
      BY <1>4, <1>6, <1>7, <1>20, <2>2
    <3> QED
      BY SameUnitCount, <3>1 DEF UnitInv, Incoming, Coverage!IncomingExact, Coverage!BatchOf
  <2> QED
    BY <2>1, <2>2
<1> QED
  BY <1>10, <1>11, <1>12, <1>13, <1>14, <1>15, <1>16, <1>17, <1>18, <1>19 DEF UnitInv

\* An ordinary survey is claimed.
LEMMA OrdinaryKeeps ==
  ASSUME Coverage!ConstantsOK, UnitInv, NEW j \in SurveyJobs, Coverage!ClaimOrdinary(j)
  PROVE  UnitInv'
<1>1. PICK S \in SUBSET Coverage!UnitIds : S = Coverage!Selection
  BY DEF Coverage!Selection
<1>2. \A u \in S : Coverage!RankIn(u, S) \in Nat
  <2>1. IsFiniteSet(Coverage!UnitIds)
    BY FS_Interval DEF Coverage!UnitIds, Coverage!ConstantsOK
  <2> SUFFICES ASSUME NEW u \in S
               PROVE  Coverage!RankIn(u, S) \in Nat
    OBVIOUS
  <2>2. {v \in S : v < u} \in SUBSET Coverage!UnitIds
    OBVIOUS
  <2> QED
    BY SameUnitCount, <2>1, <2>2, FS_Subset, FS_CardinalityType DEF Coverage!RankIn
<1>3. PICK pos \in [S -> Nat] : pos = [u \in S |-> Coverage!RankIn(u, S)]
  BY <1>2
<1>4. Coverage!Assign(j, S, pos) /\ UNCHANGED <<results, holds>>
  BY <1>1, <1>3 DEF Coverage!ClaimOrdinary
<1>5. batches' = [b \in DOMAIN batches |->
                    IF b \in {} THEN [batches[b] EXCEPT !.state = "admitted", !.job = j] ELSE batches[b]]
  <2>1. batches' = batches /\ batches \in Seq(BatchRow)
    BY DEF Coverage!ClaimOrdinary, UnitInv, Coverage!TypeOK, BatchRow
  <2> QED
    BY <2>1
<1>6. \A u \in S : /\ units[u].status # "absent"
                   /\ \A k \in SurveyJobs : unit_jobs[k] \in Coverage!Live => u \notin DOMAIN assigned[k]
                   /\ u \notin DOMAIN holds
  BY <1>1 DEF Coverage!Selection, Coverage!NeedsWork, Coverage!IsAssigned
<1>7. Claimed(j, S, pos, {})
  BY <1>4, <1>5, <1>6 DEF Claimed, Coverage!ClaimOrdinary
<1> QED
  BY <1>4, <1>7, UnitClaimKeeps

\* A batch that waits is admitted to a job.
LEMMA BatchKeeps ==
  ASSUME Coverage!ConstantsOK, UnitInv, NEW j \in SurveyJobs, NEW b \in DOMAIN batches, Coverage!ClaimBatch(j, b)
  PROVE  UnitInv'
<1>1. PICK S \in SUBSET Coverage!UnitIds : S = Coverage!Members(b)
  BY UnitTypes DEF Coverage!Members, UnitInv
<1>2. \A u \in S : u \in DOMAIN holds /\ holds[u] \in HoldRow /\ holds[u].batch = b
  BY <1>1, UnitTypes DEF Coverage!Members, UnitInv
<1>3. PICK pos \in [S -> Nat] : pos = [u \in S |-> holds[u].pos]
  BY <1>2 DEF HoldRow
<1>4. Coverage!Assign(j, S, pos) /\ UNCHANGED <<results, holds>>
  BY <1>1, <1>3 DEF Coverage!ClaimBatch
<1>5. batches' = [c \in DOMAIN batches |->
                    IF c \in {b} THEN [batches[c] EXCEPT !.state = "admitted", !.job = j] ELSE batches[c]]
  <2>1. batches \in Seq(BatchRow) /\ batches' = [batches EXCEPT ![b].state = "admitted", ![b].job = j]
    BY DEF Coverage!ClaimBatch, UnitInv, Coverage!TypeOK, BatchRow
  <2>2. batches[b] \in BatchRow
    BY <2>1
  <2> QED
    BY <2>1, <2>2 DEF BatchRow
<1>6. Coverage!Admissible(b)
  BY DEF Coverage!ClaimBatch
<1>7. \A u \in S : /\ units[u].status # "absent"
                   /\ \A k \in SurveyJobs : unit_jobs[k] \in Coverage!Live => u \notin DOMAIN assigned[k]
  BY <1>1, <1>6 DEF Coverage!Admissible, Coverage!SourceValid, Coverage!IsAssigned
<1>8. /\ batches[b].state = "pending" /\ batches[b].count = Cardinality(S)
      /\ \A u \in S : pos[u] = holds[u].pos
  BY SameUnitCount, <1>1, <1>3, <1>6 DEF Coverage!Admissible
<1>9. Claimed(j, S, pos, {b})
  BY <1>1, <1>2, <1>4, <1>5, <1>7, <1>8 DEF Claimed, Coverage!ClaimBatch
<1> QED
  BY <1>4, <1>9, UnitClaimKeeps

\* A job stops: what it held and was given is blocked (H), what it leaves deferred (D).
Stopped(j, s, H, D) ==
  /\ unit_jobs[j] \in Coverage!Live /\ unit_jobs' = [unit_jobs EXCEPT ![j] = s] /\ assigned' = assigned /\ results' = results
  /\ \A u \in H : holds[u].job = j \/ holds[u].batch \in Coverage!BatchOf(j)
  /\ s = "ended" => \A u \in DOMAIN holds : holds[u].job = j => u \in H
  /\ holds' = [u \in DOMAIN holds |-> IF u \in H THEN [holds[u] EXCEPT !.blocked = TRUE] ELSE holds[u]]
  /\ batches' = [b \in DOMAIN batches |->
       IF batches[b].job = j /\ batches[b].state \in {"pending", "admitted"}
       THEN [batches[b] EXCEPT !.state = "blocked"] ELSE batches[b]]
  /\ \A u \in D : /\ units[u].status = "open"
                  /\ \/ u \in DOMAIN assigned[j]
                     \/ units[u].epoch = 0 /\ \A r \in results : r.unit # u
  /\ units' = [u \in Coverage!UnitIds |-> IF u \in D THEN [units[u] EXCEPT !.status = "deferred"] ELSE units[u]]

\* A job that ends without its receipt, or is quarantined, blocks or defers what it had.
LEMMA StopKeeps ==
  ASSUME Coverage!ConstantsOK, UnitInv, NEW j \in SurveyJobs, NEW s \in {"ended", "held"},
         NEW H \in SUBSET DOMAIN holds, NEW D \in SUBSET Coverage!UnitIds,
         Stopped(j, s, H, D)
  PROVE  UnitInv'
<1>1. /\ unit_jobs'[j] = s /\ unit_jobs'[j] \notin Coverage!Live /\ unit_jobs[j] \in Coverage!Live
      /\ \A k \in SurveyJobs : k # j => unit_jobs'[k] = unit_jobs[k]
      /\ assigned' = assigned /\ results' = results
  BY DEF Stopped, UnitInv, Coverage!TypeOK, Coverage!Live
<1>2. \A k \in SurveyJobs : /\ unit_jobs'[k] \in Coverage!Live => k # j /\ unit_jobs[k] \in Coverage!Live
                            /\ unit_jobs[k] \in {"absent", "succeeded"} => k # j /\ unit_jobs'[k] = unit_jobs[k]
  BY <1>1 DEF Coverage!Live
<1>3. /\ DOMAIN holds' = DOMAIN holds
      /\ \A u \in DOMAIN holds : /\ holds[u] \in HoldRow /\ u \in Coverage!UnitIds
                                 /\ holds'[u] = [holds[u] EXCEPT !.blocked = TRUE] \/ holds'[u] = holds[u]
                                 /\ s = "ended" /\ holds[u].job = j => holds'[u] = [holds[u] EXCEPT !.blocked = TRUE]
                                 /\ holds[u].job # j /\ holds[u].batch \notin Coverage!BatchOf(j) => holds'[u] = holds[u]
  BY UnitTypes DEF UnitInv, Stopped
<1>4. \A u \in DOMAIN holds : /\ holds'[u] \in HoldRow /\ holds'[u].job = holds[u].job
                              /\ holds'[u].epoch = holds[u].epoch /\ holds'[u].class = holds[u].class
                              /\ holds'[u].batch = holds[u].batch /\ holds'[u].pos = holds[u].pos
                              /\ holds[u].blocked => holds'[u].blocked
                              /\ s = "ended" /\ holds[u].job = j => holds'[u].blocked
  <2> SUFFICES ASSUME NEW u \in DOMAIN holds
               PROVE  /\ holds'[u] \in HoldRow /\ holds'[u].job = holds[u].job
                      /\ holds'[u].epoch = holds[u].epoch /\ holds'[u].class = holds[u].class
                      /\ holds'[u].batch = holds[u].batch /\ holds'[u].pos = holds[u].pos
                      /\ holds[u].blocked => holds'[u].blocked
                      /\ s = "ended" /\ holds[u].job = j => holds'[u].blocked
    OBVIOUS
  <2>1. holds[u] \in HoldRow
    BY <1>3
  <2>2. CASE holds'[u] = [holds[u] EXCEPT !.blocked = TRUE]
    BY <2>1, <2>2 DEF HoldRow
  <2>3. CASE holds'[u] = holds[u] /\ ~ (s = "ended" /\ holds[u].job = j)
    BY <2>1, <2>3
  <2> QED
    BY <1>3, <2>2, <2>3
<1>5. /\ DOMAIN batches' = DOMAIN batches /\ batches' = [b \in DOMAIN batches |-> batches'[b]]
      /\ \A b \in DOMAIN batches :
           /\ batches[b] \in BatchRow /\ batches'[b] \in BatchRow
           /\ batches[b].job # j => batches'[b] = batches[b]
           /\ batches'[b].job = batches[b].job /\ batches'[b].producer = batches[b].producer
           /\ batches[b].job = j => batches'[b].state \notin {"pending", "admitted"}
           /\ batches[b].state # "complete" => batches'[b].state # "complete"
  <2>2. ASSUME NEW b \in DOMAIN batches
        PROVE  /\ batches[b] \in BatchRow /\ batches'[b] \in BatchRow
               /\ batches[b].job # j => batches'[b] = batches[b]
               /\ batches'[b].job = batches[b].job /\ batches'[b].producer = batches[b].producer
               /\ batches[b].job = j => batches'[b].state \notin {"pending", "admitted"}
               /\ batches[b].state # "complete" => batches'[b].state # "complete"
    <3>1. batches[b] \in BatchRow
      BY UnitTypes DEF UnitInv
    <3>3. batches'[b] = IF batches[b].job = j /\ batches[b].state \in {"pending", "admitted"}
                        THEN [batches[b] EXCEPT !.state = "blocked"] ELSE batches[b]
      BY DEF Stopped
    <3> QED
      BY <3>1, <3>3 DEF BatchRow
  <2> QED
    BY <2>2 DEF Stopped
<1>6. \A u \in Coverage!UnitIds :
        /\ units[u] \in UnitRow /\ units'[u] \in UnitRow
        /\ units'[u].epoch = units[u].epoch /\ units'[u].by = units[u].by
        /\ units'[u].status = "absent" => units[u].status = "absent"
        /\ units'[u] # units[u] => \/ u \in DOMAIN assigned[j]
                                   \/ units[u].epoch = 0 /\ \A r \in results : r.unit # u
  <2> SUFFICES ASSUME NEW u \in Coverage!UnitIds
               PROVE  /\ units[u] \in UnitRow /\ units'[u] \in UnitRow
                      /\ units'[u].epoch = units[u].epoch /\ units'[u].by = units[u].by
                      /\ units'[u].status = "absent" => units[u].status = "absent"
                      /\ units'[u] # units[u] => \/ u \in DOMAIN assigned[j]
                                                 \/ units[u].epoch = 0 /\ \A r \in results : r.unit # u
    OBVIOUS
  <2>2. units[u] \in UnitRow
    BY UnitTypes DEF UnitInv
  <2>3. CASE units'[u] = units[u]
    BY <2>2, <2>3
  <2>4. CASE units'[u] = [units[u] EXCEPT !.status = "deferred"] /\ units'[u] # units[u]
    <3>1. u \in DOMAIN assigned[j] \/ (units[u].epoch = 0 /\ \A r \in results : r.unit # u)
      BY <2>4 DEF Stopped
    <3> QED
      BY <2>2, <2>4, <3>1 DEF UnitRow
  <2> QED
    BY <2>3, <2>4 DEF Stopped
<1>7. \A k \in SurveyJobs : unit_jobs'[k] \in Coverage!Live => \A u \in DOMAIN assigned[k] : units'[u] = units[u] /\ u \in Coverage!UnitIds
  <2> SUFFICES ASSUME NEW k \in SurveyJobs, unit_jobs'[k] \in Coverage!Live, NEW u \in DOMAIN assigned[k]
               PROVE  units'[u] = units[u] /\ u \in Coverage!UnitIds
    OBVIOUS
  <2>1. unit_jobs[k] \in Coverage!Live /\ k # j /\ u \in Coverage!UnitIds /\ units[u] \in UnitRow
    BY <1>2, <1>6, UnitTypes DEF UnitInv
  <2>2. u \notin DOMAIN assigned[j]
    BY <1>1, <2>1, OneOwner DEF UnitInv, Coverage!LiveOwner, Coverage!IsAssigned
  <2>3. units[u].epoch # 0
    BY <2>1 DEF UnitInv, Epochs, UnitRow
  <2> QED
    BY <1>6, <2>1, <2>2, <2>3
<1>8. Coverage!TypeOK'
  <2>1. unit_jobs' \in [SurveyJobs -> {"absent", "succeeded", "ended", "held"} \cup Coverage!Live]
    BY DEF UnitInv, Coverage!TypeOK, Stopped
  <2>2. units' \in [Coverage!UnitIds -> UnitRow]
    <3>1. units' = [u \in Coverage!UnitIds |-> units'[u]]
      BY DEF Stopped
    <3> QED
      BY <1>6, <3>1
  <2>3. holds' \in [DOMAIN holds' -> HoldRow]
    <3>1. holds' = [u \in DOMAIN holds |-> holds'[u]]
      BY DEF Stopped
    <3> QED
      BY <1>3, <1>4, <3>1
  <2>4. batches' \in Seq(BatchRow)
    <3>1. Len(batches) \in Nat /\ DOMAIN batches = 1..Len(batches)
      BY UnitTypes DEF UnitInv
    <3>2. batches' \in [1..Len(batches) -> BatchRow]
      BY <1>5, <3>1
    <3> QED
      BY <3>1, <3>2
  <2> QED
    BY <1>1, <1>3, <2>1, <2>2, <2>3, <2>4 DEF UnitInv, Coverage!TypeOK, UnitRow, HoldRow, BatchRow
<1>9. UnitFresh'
  BY <1>1, <1>2, <1>5 DEF UnitInv, UnitFresh
<1>10. BootFirst'
  BY <1>1, <1>2, <1>5, <1>6 DEF UnitInv, BootFirst, Coverage!ConstantsOK
<1>11. Epochs'
  BY <1>1, <1>6, UnitTypes DEF UnitInv, Epochs
<1>12. LiveOwns'
  <2> SUFFICES ASSUME NEW k \in SurveyJobs, unit_jobs'[k] \in Coverage!Live, NEW u \in DOMAIN assigned[k]
               PROVE  /\ assigned[k][u].epoch = units'[u].epoch /\ units'[u].status = "open"
                      /\ u \in DOMAIN holds /\ ~ assigned[k][u].done =>
                           /\ holds'[u].batch \in DOMAIN batches'
                           /\ batches'[holds'[u].batch].state = "admitted" /\ batches'[holds'[u].batch].job = k
    BY <1>1, <1>3 DEF LiveOwns
  <2>1. unit_jobs[k] \in Coverage!Live /\ k # j /\ units'[u] = units[u]
    BY <1>2, <1>7
  <2>2. ASSUME u \in DOMAIN holds, ~ assigned[k][u].done
        PROVE  /\ holds'[u].batch \in DOMAIN batches'
               /\ batches'[holds'[u].batch].state = "admitted" /\ batches'[holds'[u].batch].job = k
    <3>1. /\ holds[u].batch \in DOMAIN batches
          /\ batches[holds[u].batch].state = "admitted" /\ batches[holds[u].batch].job = k
      BY <2>1, <2>2 DEF UnitInv, LiveOwns
    <3>2. PICK b \in DOMAIN batches : b = holds[u].batch
      BY <3>1
    <3>3. batches'[b] = batches[b] /\ holds'[u].batch = b
      BY <1>4, <1>5, <2>1, <2>2, <3>1, <3>2
    <3> QED
      BY <1>5, <3>1, <3>2, <3>3
  <2> QED
    BY <2>1, <2>2 DEF UnitInv, LiveOwns
<1>13. ResultsOwned'
  BY <1>1, <1>6, UnitTypes DEF UnitInv, ResultsOwned, ResultRow
<1>14. LiveReports'
  BY <1>1, <1>2, <1>3, <1>4, UnitTypes DEF UnitInv, LiveReports, ResultRow
<1>15. HoldsStand'
  <2> SUFFICES ASSUME NEW u \in DOMAIN holds
               PROVE  /\ FollowUpOf(u)' \in results'
                      /\ (holds[u].batch = Coverage!NoBatch => Unbatched(u))'
                      /\ (holds[u].batch # Coverage!NoBatch => Batched(u))'
    BY <1>3 DEF HoldsStand
  <2>1. /\ FollowUpOf(u)' \in results' /\ holds[u].job \in SurveyJobs /\ u \in Coverage!UnitIds /\ holds'[u].batch = holds[u].batch
        /\ holds'[u].job = holds[u].job
    BY <1>1, <1>3, <1>4 DEF UnitInv, HoldsStand, FollowUpOf, HoldRow
  <2>2. ASSUME holds[u].batch = Coverage!NoBatch
        PROVE  Unbatched(u)'
    <3>1. Unbatched(u)
      BY <2>2 DEF UnitInv, HoldsStand
    <3>2. CASE holds[u].job = j
      <4>1. holds'[u].epoch = units'[u].epoch
        BY <1>4, <1>6, <2>1, <3>1 DEF Unbatched
      <4> QED
        BY <1>1, <1>4, <2>1, <3>2, <4>1 DEF Unbatched
    <3>3. CASE holds[u].job # j
      <4>1. holds[u].batch \notin Coverage!BatchOf(j)
        BY <2>2, UnitTypes DEF Coverage!BatchOf, Coverage!NoBatch, UnitInv
      <4>2. holds'[u] = holds[u] /\ unit_jobs'[holds[u].job] = unit_jobs[holds[u].job]
        BY <1>1, <1>3, <2>1, <3>3, <4>1
      <4> QED
        BY <1>6, <2>1, <3>1, <4>2 DEF Unbatched
    <3> QED
      BY <3>2, <3>3
  <2>3. ASSUME holds[u].batch # Coverage!NoBatch
        PROVE  Batched(u)'
    <3>1. Batched(u)
      BY <2>3 DEF UnitInv, HoldsStand
    <3>2. PICK b \in DOMAIN batches : b = holds[u].batch
      BY <3>1 DEF Batched
    <3>3. /\ holds'[u].batch = b /\ b \in DOMAIN batches' /\ batches'[b].state # "complete"
          /\ unit_jobs'[holds'[u].job] = "succeeded" /\ holds[u].job # j
      BY <1>2, <1>5, <2>1, <3>1, <3>2 DEF Batched
    <3>4. ASSUME batches'[b].state = "admitted"
          PROVE  /\ u \in DOMAIN assigned'[batches'[b].job] /\ ~ assigned'[batches'[b].job][u].done
                 /\ assigned'[batches'[b].job][u].pos = holds'[u].pos
                 /\ holds'[u].class = "source" /\ ~ holds'[u].blocked
      <4>1. batches[b].job # j /\ batches'[b] = batches[b]
        BY <1>5, <3>4
      <4>2. holds'[u] = holds[u]
        BY <1>3, <3>2, <3>3, <4>1 DEF Coverage!BatchOf
      <4> QED
        BY <1>1, <3>1, <3>2, <3>4, <4>1, <4>2 DEF Batched
    <3> QED
      BY <3>3, <3>4 DEF Batched
  <2> QED
    BY <2>1, <2>2, <2>3
<1>16. BatchesStand'
  <2> SUFFICES ASSUME NEW b \in DOMAIN batches
               PROVE  /\ unit_jobs'[batches'[b].producer] = "succeeded"
                      /\ batches'[b].state = "pending" => batches'[b].job = None /\ Coverage!Admissible(b)'
                      /\ batches'[b].state = "admitted" => batches'[b].job \in SurveyJobs /\ unit_jobs'[batches'[b].job] \in Coverage!Live
    BY <1>5 DEF BatchesStand
  <2>1. unit_jobs'[batches'[b].producer] = "succeeded"
    BY <1>2, <1>5 DEF UnitInv, BatchesStand, BatchRow
  <2>2. batches'[b].state = "admitted" => batches'[b].job \in SurveyJobs /\ unit_jobs'[batches'[b].job] \in Coverage!Live
    BY <1>1, <1>5 DEF UnitInv, BatchesStand
  <2>3. ASSUME batches'[b].state = "pending"
        PROVE  batches'[b].job = None /\ Coverage!Admissible(b)'
    <3>1. batches'[b] = batches[b] /\ batches[b].job = None /\ Coverage!Admissible(b) /\ batches[b].state = "pending"
      BY <1>5, <2>3 DEF UnitInv, BatchesStand
    <3>2. b # Coverage!NoBatch /\ b \notin Coverage!BatchOf(j)
      BY <1>5, <2>3, UnitTypes DEF UnitInv, Coverage!NoBatch, Coverage!BatchOf
    <3>3. ASSUME NEW u \in Coverage!Members(b)
          PROVE  holds'[u] = holds[u] /\ units'[u] = units[u]
      <4>1. u \in DOMAIN holds /\ holds[u].batch = b /\ FollowUpOf(u) \in results /\ u \in Coverage!UnitIds
        BY <1>3 DEF Coverage!Members, UnitInv, HoldsStand
      <4>2. holds[u].job # j
        BY <1>1, <3>2, <4>1 DEF UnitInv, HoldsStand, Batched, Coverage!Live
      <4>3. u \notin DOMAIN assigned[j]
        BY <1>1, <3>1 DEF Coverage!Admissible, Coverage!SourceValid, Coverage!IsAssigned
      <4>4. ~ \A r \in results : r.unit # u
        BY <4>1 DEF FollowUpOf
      <4> QED
        BY <1>3, <1>6, <3>2, <4>1, <4>2, <4>3, <4>4
    <3>4. Coverage!Members(b)' = Coverage!Members(b)
      BY <1>3, <1>4 DEF Coverage!Members
    <3>5. \A k \in SurveyJobs : unit_jobs[k] = "succeeded" => unit_jobs'[k] = "succeeded" /\ assigned'[k] = assigned[k]
      BY <1>1, <1>2
    <3>6. \A k \in SurveyJobs : \A u \in Coverage!Members(b) :
            unit_jobs'[k] \in Coverage!Live /\ u \in DOMAIN assigned'[k] => unit_jobs[k] \in Coverage!Live /\ u \in DOMAIN assigned[k]
      BY <1>1, <1>2
    <3>7. Coverage!Admissible(b)'
      BY <1>1, <3>1, <3>3, <3>4, <3>5, <3>6, AdmissibleStays DEF UnitInv
    <3> QED
      BY <3>1, <3>7
  <2> QED
    BY <2>1, <2>2, <2>3
<1>17. Incoming'
  <2> SUFFICES ASSUME NEW k \in SurveyJobs, unit_jobs'[k] \in Coverage!Live, NEW b \in DOMAIN batches, batches[b].job = k
               PROVE  /\ batches'[b].state \in {"admitted", "complete"}
                      /\ Cardinality(DOMAIN assigned[k]) = batches'[b].count
                      /\ \A v \in DOMAIN assigned[k] :
                           LET in == v \in DOMAIN holds' /\ holds'[v].batch = b
                           IN  IF assigned[k][v].done THEN ~ in ELSE in /\ holds'[v].pos = assigned[k][v].pos
    BY SameUnitCount, <1>1, <1>5 DEF Incoming, Coverage!IncomingExact, Coverage!BatchOf
  <2>1. unit_jobs[k] \in Coverage!Live /\ batches'[b] = batches[b] /\ b \in Coverage!BatchOf(k)
    BY <1>2, <1>5 DEF Coverage!BatchOf
  <2>2. Coverage!IncomingExact(k)
    BY <2>1 DEF UnitInv, Incoming
  <2> QED
    BY SameUnitCount, <1>3, <1>4, <2>1, <2>2 DEF Coverage!IncomingExact
<1> QED
  BY <1>8, <1>9, <1>10, <1>11, <1>12, <1>13, <1>14, <1>15, <1>16, <1>17 DEF UnitInv

\* A job whose last attempt failed, or that was cancelled.
LEMMA EndKeeps ==
  ASSUME Coverage!ConstantsOK, UnitInv, NEW j \in SurveyJobs, Coverage!End(j)
  PROVE  UnitInv'
<1> DEFINE H == {u \in DOMAIN holds : holds[u].job = j \/ holds[u].batch \in Coverage!BatchOf(j)}
           D == {u \in Coverage!UnitIds :
                   units[u].status = "open"
                   /\ \/ Coverage!IsAssigned(j, u) /\ ~ assigned[j][u].done /\ assigned[j][u].epoch = units[u].epoch
                      \/ units[u].by = j /\ units[u].epoch = 0 /\ \A r \in results : r.unit # u}
<1>1. holds' = [u \in DOMAIN holds |-> IF u \in H THEN [holds[u] EXCEPT !.blocked = TRUE] ELSE holds[u]]
  BY DEF Coverage!End
<1>2. batches' = [b \in DOMAIN batches |->
           IF batches[b].job = j /\ batches[b].state \in {"pending", "admitted"}
           THEN [batches[b] EXCEPT !.state = "blocked"] ELSE batches[b]]
  <2>1. \A b \in DOMAIN batches : batches[b].producer # j
    BY DEF Coverage!End, UnitInv, BatchesStand, Coverage!Live
  <2> QED
    BY <2>1 DEF Coverage!End
<1>3. units' = [u \in Coverage!UnitIds |-> IF u \in D THEN [units[u] EXCEPT !.status = "deferred"] ELSE units[u]]
  BY DEF Coverage!End
<1>4. \A u \in D : /\ units[u].status = "open"
                   /\ \/ u \in DOMAIN assigned[j]
                      \/ units[u].epoch = 0 /\ \A r \in results : r.unit # u
  BY DEF Coverage!IsAssigned
<1>5. /\ H \in SUBSET DOMAIN holds /\ D \in SUBSET Coverage!UnitIds
      /\ \A u \in H : holds[u].job = j \/ holds[u].batch \in Coverage!BatchOf(j)
      /\ \A u \in DOMAIN holds : holds[u].job = j => u \in H
  OBVIOUS
<1>6. /\ unit_jobs[j] \in Coverage!Live /\ unit_jobs' = [unit_jobs EXCEPT ![j] = "ended"]
      /\ assigned' = assigned /\ results' = results
  BY DEF Coverage!End
<1> HIDE DEF H, D
<1>7. Stopped(j, "ended", H, D)
  BY <1>1, <1>2, <1>3, <1>4, <1>5, <1>6 DEF Stopped
<1> QED
  BY <1>5, <1>7, StopKeeps

\* A batch that is quarantined waits no more; its members are blocked.
LEMMA HoldBatchKeeps ==
  ASSUME Coverage!ConstantsOK, UnitInv, NEW c \in DOMAIN batches, Coverage!HoldBatch(c)
  PROVE  UnitInv'
<1>1. /\ unit_jobs' = unit_jobs /\ units' = units /\ assigned' = assigned /\ results' = results
      /\ batches[c].state = "pending" /\ batches[c].job = None /\ batches[c] \in BatchRow
      /\ c # Coverage!NoBatch /\ None \notin SurveyJobs
  BY UnitTypes DEF Coverage!HoldBatch, UnitInv, BatchesStand, Coverage!NoBatch, Coverage!ConstantsOK
<1>2. /\ DOMAIN batches' = DOMAIN batches /\ batches' = [b \in DOMAIN batches |-> batches'[b]]
      /\ batches'[c] = [batches[c] EXCEPT !.state = "blocked"]
      /\ \A b \in DOMAIN batches : b # c => batches'[b] = batches[b]
  BY DEF Coverage!HoldBatch
<1>3. \A b \in DOMAIN batches :
        /\ batches'[b] \in BatchRow /\ batches'[b].job = batches[b].job
        /\ batches'[b].producer = batches[b].producer /\ batches'[b].count = batches[b].count
        /\ batches'[b].state \in {"pending", "admitted"} => b # c /\ batches'[b] = batches[b]
        /\ batches[b].state # "complete" => batches'[b].state # "complete"
        /\ batches[b].job # None => b # c
  <2> SUFFICES ASSUME NEW b \in DOMAIN batches
               PROVE  /\ batches'[b] \in BatchRow /\ batches'[b].job = batches[b].job
                      /\ batches'[b].producer = batches[b].producer /\ batches'[b].count = batches[b].count
                      /\ batches'[b].state \in {"pending", "admitted"} => b # c /\ batches'[b] = batches[b]
                      /\ batches[b].state # "complete" => batches'[b].state # "complete"
                      /\ batches[b].job # None => b # c
    OBVIOUS
  <2>1. CASE b = c
    BY <1>1, <1>2, <2>1 DEF BatchRow
  <2>2. CASE b # c
    <3>1. batches[b] \in BatchRow /\ batches'[b] = batches[b]
      BY <1>2, <2>2, UnitTypes DEF UnitInv
    <3> QED
      BY <2>2, <3>1
  <2> QED
    BY <2>1, <2>2
<1>4. /\ DOMAIN holds' = DOMAIN holds /\ holds' = [u \in DOMAIN holds |-> holds'[u]]
      /\ \A u \in DOMAIN holds : /\ holds[u] \in HoldRow
                                 /\ holds[u].batch = c => holds'[u] = [holds[u] EXCEPT !.blocked = TRUE]
                                 /\ holds[u].batch # c => holds'[u] = holds[u]
  BY UnitTypes DEF Coverage!HoldBatch, UnitInv
<1>5. \A u \in DOMAIN holds : /\ holds'[u] \in HoldRow /\ holds'[u].job = holds[u].job
                              /\ holds'[u].epoch = holds[u].epoch /\ holds'[u].class = holds[u].class
                              /\ holds'[u].batch = holds[u].batch /\ holds'[u].pos = holds[u].pos
  <2> SUFFICES ASSUME NEW u \in DOMAIN holds
               PROVE  /\ holds'[u] \in HoldRow /\ holds'[u].job = holds[u].job
                      /\ holds'[u].epoch = holds[u].epoch /\ holds'[u].class = holds[u].class
                      /\ holds'[u].batch = holds[u].batch /\ holds'[u].pos = holds[u].pos
    OBVIOUS
  <2>1. CASE holds[u].batch = c
    BY <1>4, <2>1 DEF HoldRow
  <2> QED
    BY <1>4, <2>1
<1>6. Coverage!TypeOK'
  <2>1. holds' \in [DOMAIN holds' -> HoldRow] /\ DOMAIN holds' \subseteq Coverage!UnitIds
    BY <1>4, <1>5, UnitTypes DEF UnitInv
  <2>2. batches' \in Seq(BatchRow)
    <3>1. Len(batches) \in Nat /\ DOMAIN batches = 1..Len(batches)
      BY UnitTypes DEF UnitInv
    <3>2. batches' \in [1..Len(batches) -> BatchRow]
      BY <1>2, <1>3, <3>1
    <3> QED
      BY <3>1, <3>2
  <2> QED
    BY <1>1, <2>1, <2>2 DEF UnitInv, Coverage!TypeOK, HoldRow, BatchRow
<1>7. UnitFresh' /\ BootFirst'
  BY <1>1, <1>2, <1>3 DEF UnitInv, UnitFresh, BootFirst
<1>8. Epochs' /\ ResultsOwned'
  BY <1>1 DEF UnitInv, Epochs, ResultsOwned
<1>9. LiveOwns'
  <2> SUFFICES ASSUME NEW k \in SurveyJobs, unit_jobs[k] \in Coverage!Live, NEW u \in DOMAIN assigned[k]
               PROVE  /\ assigned[k][u].epoch = units[u].epoch /\ units[u].status = "open"
                      /\ u \in DOMAIN holds /\ ~ assigned[k][u].done =>
                           /\ holds'[u].batch \in DOMAIN batches'
                           /\ batches'[holds'[u].batch].state = "admitted" /\ batches'[holds'[u].batch].job = k
    BY <1>1, <1>4 DEF LiveOwns
  <2>1. ASSUME u \in DOMAIN holds, ~ assigned[k][u].done
        PROVE  /\ holds'[u].batch \in DOMAIN batches'
               /\ batches'[holds'[u].batch].state = "admitted" /\ batches'[holds'[u].batch].job = k
    <3>1. /\ holds[u].batch \in DOMAIN batches
          /\ batches[holds[u].batch].state = "admitted" /\ batches[holds[u].batch].job = k
      BY <2>1 DEF UnitInv, LiveOwns
    <3>2. PICK b \in DOMAIN batches : b = holds[u].batch
      BY <3>1
    <3>3. b # c /\ batches'[b] = batches[b] /\ holds'[u].batch = b
      BY <1>1, <1>2, <1>5, <2>1, <3>1, <3>2
    <3> QED
      BY <1>2, <3>1, <3>2, <3>3
  <2> QED
    BY <2>1 DEF UnitInv, LiveOwns
<1>10. LiveReports'
  BY <1>1, <1>4, <1>5 DEF UnitInv, LiveReports
<1>11. HoldsStand'
  <2> SUFFICES ASSUME NEW u \in DOMAIN holds
               PROVE  /\ FollowUpOf(u)' \in results'
                      /\ (holds[u].batch = Coverage!NoBatch => Unbatched(u))'
                      /\ (holds[u].batch # Coverage!NoBatch => Batched(u))'
    BY <1>4 DEF HoldsStand
  <2>1. /\ FollowUpOf(u)' \in results' /\ holds'[u].batch = holds[u].batch /\ holds'[u].job = holds[u].job
    BY <1>1, <1>5 DEF UnitInv, HoldsStand, FollowUpOf
  <2>2. ASSUME holds[u].batch = Coverage!NoBatch
        PROVE  Unbatched(u)'
    <3>1. Unbatched(u) /\ holds'[u] = holds[u]
      BY <1>1, <1>4, <2>2 DEF UnitInv, HoldsStand
    <3> QED
      BY <1>1, <3>1 DEF Unbatched
  <2>3. ASSUME holds[u].batch # Coverage!NoBatch
        PROVE  Batched(u)'
    <3>1. Batched(u)
      BY <2>3 DEF UnitInv, HoldsStand
    <3>2. PICK b \in DOMAIN batches : b = holds[u].batch
      BY <3>1 DEF Batched
    <3>3. /\ holds'[u].batch = b /\ b \in DOMAIN batches' /\ batches'[b].state # "complete"
          /\ unit_jobs'[holds'[u].job] = "succeeded"
      BY <1>1, <1>2, <1>3, <2>1, <3>1, <3>2 DEF Batched
    <3>4. ASSUME batches'[b].state = "admitted"
          PROVE  /\ u \in DOMAIN assigned'[batches'[b].job] /\ ~ assigned'[batches'[b].job][u].done
                 /\ assigned'[batches'[b].job][u].pos = holds'[u].pos
                 /\ holds'[u].class = "source" /\ ~ holds'[u].blocked
      <4>1. b # c /\ batches'[b] = batches[b]
        BY <1>3, <3>4
      <4>2. holds'[u] = holds[u]
        BY <1>4, <3>2, <4>1
      <4> QED
        BY <1>1, <3>1, <3>2, <3>4, <4>1, <4>2 DEF Batched
    <3> QED
      BY <3>3, <3>4 DEF Batched
  <2> QED
    BY <2>1, <2>2, <2>3
<1>12. BatchesStand'
  <2> SUFFICES ASSUME NEW b \in DOMAIN batches
               PROVE  /\ unit_jobs'[batches'[b].producer] = "succeeded"
                      /\ batches'[b].state = "pending" => batches'[b].job = None /\ Coverage!Admissible(b)'
                      /\ batches'[b].state = "admitted" => batches'[b].job \in SurveyJobs /\ unit_jobs'[batches'[b].job] \in Coverage!Live
    BY <1>2 DEF BatchesStand
  <2>1. unit_jobs'[batches'[b].producer] = "succeeded"
    BY <1>1, <1>3 DEF UnitInv, BatchesStand
  <2>2. batches'[b].state = "admitted" => batches'[b].job \in SurveyJobs /\ unit_jobs'[batches'[b].job] \in Coverage!Live
    BY <1>1, <1>3 DEF UnitInv, BatchesStand
  <2>3. ASSUME batches'[b].state = "pending"
        PROVE  batches'[b].job = None /\ Coverage!Admissible(b)'
    <3>1. b # c /\ batches'[b] = batches[b] /\ batches[b].job = None /\ batches[b].state = "pending"
      BY <1>3, <2>3 DEF UnitInv, BatchesStand
    <3>2. \A u \in Coverage!Members(b) : holds'[u] = holds[u] /\ units'[u] = units[u]
      BY <1>1, <1>4, <3>1 DEF Coverage!Members
    <3>3. Coverage!Members(b)' = Coverage!Members(b)
      BY <1>4, <1>5 DEF Coverage!Members
    <3>4. Coverage!Admissible(b)'
      BY <1>1, <3>1, <3>2, <3>3, AdmissibleStays DEF UnitInv
    <3> QED
      BY <3>1, <3>4
  <2> QED
    BY <2>1, <2>2, <2>3
<1>13. Incoming'
  <2> SUFFICES ASSUME NEW k \in SurveyJobs, unit_jobs'[k] \in Coverage!Live, NEW b \in DOMAIN batches, batches[b].job = k
               PROVE  /\ batches'[b].state \in {"admitted", "complete"}
                      /\ Cardinality(DOMAIN assigned[k]) = batches'[b].count
                      /\ \A v \in DOMAIN assigned[k] :
                           LET in == v \in DOMAIN holds' /\ holds'[v].batch = b
                           IN  IF assigned[k][v].done THEN ~ in ELSE in /\ holds'[v].pos = assigned[k][v].pos
    BY SameUnitCount, <1>1, <1>2, <1>3 DEF Incoming, Coverage!IncomingExact, Coverage!BatchOf
  <2>1. unit_jobs[k] \in Coverage!Live /\ batches'[b] = batches[b] /\ b \in Coverage!BatchOf(k)
    BY <1>1, <1>2 DEF Coverage!BatchOf
  <2>2. Coverage!IncomingExact(k)
    BY <2>1 DEF UnitInv, Incoming
  <2> QED
    BY SameUnitCount, <1>4, <1>5, <2>1, <2>2 DEF Coverage!IncomingExact
<1> QED
  BY <1>6, <1>7, <1>8, <1>9, <1>10, <1>11, <1>12, <1>13 DEF UnitInv

\* Units that are quarantined are deferred; nobody holds them or is to report them.
LEMMA HoldUnitsKeeps ==
  ASSUME Coverage!ConstantsOK, UnitInv, Coverage!HoldUnits
  PROVE  UnitInv'
<1>1. PICK D \in SUBSET Coverage!UnitIds :
        /\ Coverage!Defer(D)
        /\ \A u \in D : /\ units[u].status = "open" /\ u \notin DOMAIN holds
                        /\ \A k \in SurveyJobs : unit_jobs[k] \in Coverage!Live => u \notin DOMAIN assigned[k]
  <2>1. CASE Coverage!Defer({u \in Coverage!UnitIds : Coverage!NeedsWork(u)})
    BY <2>1 DEF Coverage!NeedsWork, Coverage!IsAssigned
  <2>2. CASE \E u \in Coverage!UnitIds \ DOMAIN holds :
               units[u].status = "open" /\ ~ Coverage!LiveOwner(u, None) /\ Coverage!Defer({u})
    BY <2>2 DEF Coverage!LiveOwner, Coverage!IsAssigned, Coverage!ConstantsOK
  <2> QED
    BY <2>1, <2>2 DEF Coverage!HoldUnits
<1>2. /\ unit_jobs' = unit_jobs /\ assigned' = assigned /\ results' = results /\ holds' = holds
      /\ batches' = batches
      /\ units' = [u \in Coverage!UnitIds |-> IF u \in D THEN [units[u] EXCEPT !.status = "deferred"] ELSE units[u]]
  BY <1>1 DEF Coverage!Defer
<1>3. \A u \in Coverage!UnitIds :
        /\ units[u] \in UnitRow /\ units'[u] \in UnitRow
        /\ units'[u].epoch = units[u].epoch /\ units'[u].by = units[u].by
        /\ units'[u].status = "absent" => units[u].status = "absent"
        /\ u \notin D => units'[u] = units[u]
  <2> SUFFICES ASSUME NEW u \in Coverage!UnitIds
               PROVE  /\ units[u] \in UnitRow /\ units'[u] \in UnitRow
                      /\ units'[u].epoch = units[u].epoch /\ units'[u].by = units[u].by
                      /\ units'[u].status = "absent" => units[u].status = "absent"
                      /\ u \notin D => units'[u] = units[u]
    OBVIOUS
  <2>1. units[u] \in UnitRow
    BY UnitTypes DEF UnitInv
  <2>2. CASE u \in D
    BY <1>2, <2>1, <2>2 DEF UnitRow
  <2>3. CASE u \notin D
    BY <1>2, <2>1, <2>3
  <2> QED
    BY <2>2, <2>3
<1>4. Coverage!TypeOK'
  <2>1. units' \in [Coverage!UnitIds -> UnitRow]
    BY <1>2, <1>3
  <2> QED
    BY <1>2, <2>1 DEF UnitInv, Coverage!TypeOK, UnitRow
<1>5. UnitFresh' /\ BootFirst' /\ LiveReports'
  BY <1>2, <1>3 DEF UnitInv, UnitFresh, BootFirst, LiveReports
<1>6. Epochs' /\ ResultsOwned'
  BY <1>2, <1>3, UnitTypes DEF UnitInv, Epochs, ResultsOwned, ResultRow
<1>7. LiveOwns'
  <2>1. \A k \in SurveyJobs : unit_jobs[k] \in Coverage!Live => \A u \in DOMAIN assigned[k] : units'[u] = units[u]
    BY <1>1, <1>3, UnitTypes DEF UnitInv
  <2>2. LiveOwns
    BY DEF UnitInv
  <2> SUFFICES ASSUME NEW k \in SurveyJobs, unit_jobs[k] \in Coverage!Live, NEW u \in DOMAIN assigned[k]
               PROVE  /\ assigned[k][u].epoch = units'[u].epoch /\ units'[u].status = "open"
                      /\ u \in DOMAIN holds /\ ~ assigned[k][u].done =>
                           /\ holds[u].batch \in DOMAIN batches
                           /\ batches[holds[u].batch].state = "admitted" /\ batches[holds[u].batch].job = k
    BY <1>2 DEF LiveOwns
  <2>3. units'[u] = units[u]
    BY <2>1
  <2> QED
    BY <2>2, <2>3 DEF LiveOwns
<1>8. \A u \in DOMAIN holds : units'[u] = units[u]
  BY <1>1, <1>3, UnitTypes DEF UnitInv
<1>9. HoldsStand'
  BY <1>2, <1>8 DEF UnitInv, HoldsStand, FollowUpOf, Unbatched, Batched
<1>10. BatchesStand'
  <2>1. ASSUME NEW b \in DOMAIN batches, batches[b].state = "pending"
        PROVE  Coverage!Admissible(b)'
    <3>1. \A u \in Coverage!Members(b) : holds'[u] = holds[u] /\ units'[u] = units[u]
      BY <1>2, <1>8 DEF Coverage!Members
    <3>2. Coverage!Members(b)' = Coverage!Members(b)
      BY <1>2 DEF Coverage!Members
    <3> QED
      BY <1>2, <2>1, <3>1, <3>2, AdmissibleStays DEF UnitInv
  <2> QED
    BY <1>2, <2>1 DEF UnitInv, BatchesStand
<1>11. Incoming'
  BY <1>2 DEF UnitInv, Incoming, Coverage!IncomingExact, Coverage!BatchOf
<1> QED
  BY <1>4, <1>5, <1>6, <1>7, <1>9, <1>10, <1>11 DEF UnitInv

\* A queued survey that is quarantined.
LEMMA HoldQueuedKeeps ==
  ASSUME Coverage!ConstantsOK, UnitInv, NEW j \in SurveyJobs, Coverage!HoldQueued(j)
  PROVE  UnitInv'
<1> DEFINE H == {u \in DOMAIN holds : holds[u].batch \in Coverage!BatchOf(j)}
           D == {u \in Coverage!UnitIds :
                   /\ units[u].status = "open"
                   /\ Coverage!IsAssigned(j, u) /\ ~ assigned[j][u].done /\ assigned[j][u].epoch = units[u].epoch}
<1>1. holds' = [u \in DOMAIN holds |-> IF u \in H THEN [holds[u] EXCEPT !.blocked = TRUE] ELSE holds[u]]
  BY DEF Coverage!HoldQueued
<1>2. batches' = [b \in DOMAIN batches |->
           IF batches[b].job = j /\ batches[b].state \in {"pending", "admitted"}
           THEN [batches[b] EXCEPT !.state = "blocked"] ELSE batches[b]]
  <2>1. \A b \in DOMAIN batches : batches[b].state = "pending" => batches[b].job # j
    BY DEF UnitInv, BatchesStand, Coverage!ConstantsOK
  <2> QED
    BY <2>1 DEF Coverage!HoldQueued
<1>3. units' = [u \in Coverage!UnitIds |-> IF u \in D THEN [units[u] EXCEPT !.status = "deferred"] ELSE units[u]]
  BY DEF Coverage!HoldQueued
<1>4. \A u \in D : units[u].status = "open" /\ u \in DOMAIN assigned[j]
  BY DEF Coverage!IsAssigned
<1>5. /\ H \in SUBSET DOMAIN holds /\ D \in SUBSET Coverage!UnitIds
      /\ \A u \in H : holds[u].job = j \/ holds[u].batch \in Coverage!BatchOf(j)
  OBVIOUS
<1>6. /\ unit_jobs[j] \in Coverage!Live /\ unit_jobs' = [unit_jobs EXCEPT ![j] = "held"]
      /\ assigned' = assigned /\ results' = results
  BY DEF Coverage!HoldQueued, Coverage!Live
<1> HIDE DEF H, D
<1>7. Stopped(j, "held", H, D)
  BY <1>1, <1>2, <1>3, <1>4, <1>5, <1>6 DEF Stopped
<1> QED
  BY <1>5, <1>7, StopKeeps

(***************************************************************************)
(* The batches of a receipt                                                 *)
(***************************************************************************)
StrictOrder(S, R) ==
  /\ \A u \in S : <<u, u>> \notin R
  /\ \A u, v \in S : u # v => <<u, v>> \in R \/ <<v, u>> \in R
  /\ \A u, v, w \in S : <<u, v>> \in R /\ <<v, w>> \in R => <<u, w>> \in R

\* How many elements come before each.
RanksOf(S, R) == [u \in S |-> Cardinality({v \in S : <<v, u>> \in R})]

\* The ranks go from 0 up without a gap.
WithoutGap(S, rank) ==
  /\ Cardinality(S) \in Nat
  /\ rank \in [S -> 0..(Cardinality(S) - 1)]
  /\ \A u, v \in S : rank[u] = rank[v] => u = v
  /\ \A i \in 0..(Cardinality(S) - 1) : \E u \in S : rank[u] = i

\* The elements of the chunk c, of n ranks.
ChunkOf(S, rank, n, c) == {u \in S : rank[u] \div n = c}

\* Ranks in a strict order of a finite set have no gap.
LEMMA RanksFill ==
  ASSUME NEW S, IsFiniteSet(S), NEW R, StrictOrder(S, R)
  PROVE  WithoutGap(S, RanksOf(S, R))
<1> USE DEF StrictOrder, RanksOf
<1> DEFINE rank == RanksOf(S, R)
           Low(u) == {v \in S : <<v, u>> \in R}
           n == Cardinality(S)
<1>1. n \in Nat
  BY FS_CardinalityType
<1>2. \A u \in S : /\ Low(u) \in SUBSET (S \ {u}) /\ Low(u) \in SUBSET S
                   /\ rank[u] = Cardinality(Low(u)) /\ u \notin Low(u)
  OBVIOUS
<1>3. \A u \in S : rank[u] \in 0..(n - 1)
  <2> SUFFICES ASSUME NEW u \in S
               PROVE  rank[u] \in 0..(n - 1)
    OBVIOUS
  <2>1. IsFiniteSet(S \ {u}) /\ Cardinality(S \ {u}) = n - 1
    BY FS_RemoveElement
  <2>2. Low(u) \in SUBSET (S \ {u}) /\ rank[u] = Cardinality(Low(u))
    BY <1>2
  <2>3. IsFiniteSet(Low(u)) /\ Cardinality(Low(u)) <= Cardinality(S \ {u})
    BY <2>1, <2>2, FS_Subset
  <2>4. Cardinality(Low(u)) \in Nat
    BY <2>3, FS_CardinalityType
  <2> HIDE DEF Low
  <2> QED
    BY <1>1, <2>1, <2>2, <2>3, <2>4
<1>4. \A u, v \in S : <<u, v>> \in R => rank[u] < rank[v]
  <2> SUFFICES ASSUME NEW u \in S, NEW v \in S, <<u, v>> \in R
               PROVE  rank[u] < rank[v]
    OBVIOUS
  <2>1. Low(u) \in SUBSET Low(v) /\ u \in Low(v) /\ u \notin Low(u)
    OBVIOUS
  <2>2. IsFiniteSet(Low(v)) /\ rank[u] = Cardinality(Low(u)) /\ rank[v] = Cardinality(Low(v))
    BY <1>2, FS_Subset
  <2> HIDE DEF Low
  <2>3. Cardinality(Low(u)) <= Cardinality(Low(v)) /\ Cardinality(Low(u)) # Cardinality(Low(v))
    BY <2>1, <2>2, FS_Subset
  <2>4. rank[u] \in 0..(n - 1) /\ rank[v] \in 0..(n - 1)
    BY <1>3
  <2> QED
    BY <1>1, <2>2, <2>3, <2>4
<1>5. \A u, v \in S : rank[u] = rank[v] => u = v
  <2> SUFFICES ASSUME NEW u \in S, NEW v \in S, rank[u] = rank[v], u # v
               PROVE  FALSE
    OBVIOUS
  <2>1. rank[u] \in 0..(n - 1) /\ rank[v] \in 0..(n - 1)
    BY <1>3
  <2>2. rank[u] < rank[v] \/ rank[v] < rank[u]
    BY <1>4
  <2> QED
    BY <1>1, <2>1, <2>2
<1>6. rank \in [S -> 0..(n - 1)]
  BY <1>3
<1>7. IsFiniteSet(0..(n - 1)) /\ Cardinality(0..(n - 1)) = n
  <2>1. 0 \in Int /\ n - 1 \in Int
    BY <1>1
  <2> HIDE DEF n
  <2> QED
    BY <1>1, <2>1, FS_Interval
<1>8. rank \in Injection(S, 0..(n - 1))
  BY <1>5, <1>6 DEF Injection, IsInjective
<1>9. rank \in Surjection(S, 0..(n - 1))
  BY <1>7, <1>8, FS_Injection
<1>10. \A i \in 0..(n - 1) : \E u \in S : rank[u] = i
  BY <1>9 DEF Surjection
<1> QED
  BY <1>1, <1>5, <1>6, <1>10 DEF WithoutGap

\* Ranks divided by n.
LEMMA Quotient ==
  ASSUME NEW r \in Nat, NEW n \in Nat \ {0}, NEW c \in Nat
  PROVE  /\ r \div n \in Nat /\ r % n \in Nat
         /\ (r \div n = c) <=> (c * n <= r /\ r < c * n + n)
         /\ r \div n = c => r % n = r - c * n
OBVIOUS

\* The number of chunks: a chunk is one of them just when its first rank is taken.
LEMMA Chunks ==
  ASSUME NEW m \in Nat, NEW n \in Nat \ {0}, NEW c \in Nat
  PROVE  /\ (m + n - 1) \div n \in Nat
         /\ (c < (m + n - 1) \div n) <=> (c * n < m)
OBVIOUS

\* Cut into chunks of n, the ranks of a chunk begin at 0 and have no gap.
LEMMA ChunkFilled ==
  ASSUME NEW S, IsFiniteSet(S), NEW rank, WithoutGap(S, rank),
         NEW n \in Nat \ {0}, NEW c \in Nat, c < (Cardinality(S) + n - 1) \div n,
         NEW C, C = ChunkOf(S, rank, n, c)
  PROVE  /\ Cardinality(C) \in Nat \ {0}
         /\ {rank[u] % n : u \in C} = 0..(Cardinality(C) - 1)
<1> DEFINE all == Cardinality(S)
           m == IF all - c * n < n THEN all - c * n ELSE n
           f == [u \in C |-> rank[u] % n]
<1> USE DEF WithoutGap, ChunkOf
<1>1. all \in Nat
  BY FS_CardinalityType
<1>2. c * n \in Nat /\ c * n < all
  <2>1. PICK a \in Nat : a = all
    BY <1>1
  <2>2. (c < (a + n - 1) \div n) <=> (c * n < a)
    BY Chunks, Zenon
  <2> QED
    BY <2>1, <2>2
<1>3. m \in Nat \ {0} /\ c * n + m <= all /\ m <= n
  BY <1>1, <1>2
<1>4. \A u \in C : u \in S /\ rank[u] \in Nat /\ rank[u] < all /\ c * n <= rank[u]
                   /\ rank[u] < c * n + n /\ rank[u] % n = rank[u] - c * n
  <2> SUFFICES ASSUME NEW u \in C
               PROVE  u \in S /\ rank[u] \in Nat /\ rank[u] < all /\ c * n <= rank[u]
                      /\ rank[u] < c * n + n /\ rank[u] % n = rank[u] - c * n
    OBVIOUS
  <2>1. u \in S /\ rank[u] \in Nat /\ rank[u] < all /\ rank[u] \div n = c
    BY <1>1
  <2>2. PICK r \in Nat : r = rank[u]
    BY <2>1
  <2>3. /\ (r \div n = c) <=> (c * n <= r /\ r < c * n + n)
        /\ r \div n = c => r % n = r - c * n
    BY Quotient, Zenon
  <2> QED
    BY <2>1, <2>2, <2>3
<1>5. f \in [C -> 0..(m - 1)]
  <2> SUFFICES ASSUME NEW u \in C
               PROVE  rank[u] % n \in 0..(m - 1)
    OBVIOUS
  <2> QED
    BY <1>1, <1>2, <1>3, <1>4
<1>6. \A u, v \in C : f[u] = f[v] => u = v
  <2> SUFFICES ASSUME NEW u \in C, NEW v \in C, rank[u] % n = rank[v] % n
               PROVE  u = v
    OBVIOUS
  <2>1. rank[u] = rank[v]
    BY <1>2, <1>4
  <2> QED
    BY <1>4, <2>1
<1>7. \A i \in 0..(m - 1) : \E u \in C : f[u] = i
  <2> SUFFICES ASSUME NEW i \in 0..(m - 1)
               PROVE  \E u \in C : rank[u] % n = i
    OBVIOUS
  <2>1. c * n + i \in 0..(all - 1) /\ c * n + i \in Nat /\ i < n /\ i \in Nat
    BY <1>1, <1>2, <1>3
  <2>2. PICK u \in S : rank[u] = c * n + i
    BY <2>1
  <2>3. rank[u] \div n = c /\ rank[u] % n = i
    <3>1. PICK r \in Nat : r = c * n + i
      BY <2>1
    <3>2. /\ (r \div n = c) <=> (c * n <= r /\ r < c * n + n)
          /\ r \div n = c => r % n = r - c * n
      BY Quotient, Zenon
    <3>3. c * n <= r /\ r < c * n + n /\ r - c * n = i
      BY <1>2, <2>1, <3>1
    <3> QED
      BY <2>2, <3>1, <3>2, <3>3
  <2> QED
    BY <2>3
<1> HIDE DEF f, m
<1>8. IsFiniteSet(0..(m - 1)) /\ Cardinality(0..(m - 1)) = m
  <2>1. PICK k \in Nat \ {0} : k = m
    BY <1>3
  <2>2. 0 \in Int /\ k - 1 \in Int /\ ~ 0 > k - 1 /\ (k - 1) - 0 + 1 = k
    OBVIOUS
  <2>3. IsFiniteSet(0..(k - 1)) /\ Cardinality(0..(k - 1)) = k
    BY <2>2, FS_Interval
  <2> QED
    BY <2>1, <2>3
<1>9. f \in Injection(C, 0..(m - 1)) /\ f \in Surjection(C, 0..(m - 1))
  BY <1>5, <1>6, <1>7 DEF Injection, IsInjective, Surjection
<1>10. Cardinality(C) = m
  <2>1. Cardinality(C) = Cardinality(0..(m - 1)) <=> f \in Surjection(C, 0..(m - 1))
    BY <1>8, <1>9, FS_Injection
  <2> QED
    BY <1>8, <1>9, <2>1
<1>11. {rank[u] % n : u \in C} = 0..(m - 1)
  <2>1. \A u \in C : f[u] = rank[u] % n /\ f[u] \in 0..(m - 1)
    BY <1>5 DEF f
  <2> QED
    BY <1>7, <2>1
<1> QED
  BY <1>3, <1>10, <1>11

\* The frozen units of a class, in their order.
OfClass(j, class) == {u \in Coverage!ToFreeze(j) : holds[u].class = class}
ClassChunk(j, class, c) == {u \in OfClass(j, class) : Coverage!FrozenRank(j, u) \div UNITS_PER_JOB = c}
Places(j, C) == {Coverage!FrozenRank(j, u) % UNITS_PER_JOB : u \in C}
PlaceOf(j, w) == IF Coverage!IsAssigned(j, w) THEN assigned[j][w].pos ELSE w

\* The units of a class fill the class's batches from the first, in order.
LEMMA ClassBatches ==
  ASSUME Coverage!ConstantsOK, Coverage!TypeOK, NEW j \in SurveyJobs, NEW class
  PROVE  /\ Coverage!ChunksOf(j, class) \in Nat
         /\ \A u \in OfClass(j, class) :
              /\ Coverage!FrozenRank(j, u) \in Nat /\ Coverage!FrozenRank(j, u) % UNITS_PER_JOB \in Nat
              /\ Coverage!FrozenRank(j, u) \div UNITS_PER_JOB \in 0..(Coverage!ChunksOf(j, class) - 1)
         /\ \A c \in 0..(Coverage!ChunksOf(j, class) - 1) :
              LET C == ClassChunk(j, class, c)
              IN  /\ Cardinality(C) \in Nat \ {0}
                  /\ Places(j, C) = 0..(Cardinality(C) - 1)
<1> DEFINE S == OfClass(j, class)
           R == {p \in S \X S : Coverage!Before(j, p[1], p[2])}
           rank == RanksOf(S, R)
           n == UNITS_PER_JOB
<1>1. S \subseteq Coverage!UnitIds /\ \A u \in S : PlaceOf(j, u) \in Nat /\ u \in Nat
  <2> SUFFICES ASSUME NEW u \in S
               PROVE  u \in Coverage!UnitIds /\ PlaceOf(j, u) \in Nat /\ u \in Nat
    OBVIOUS
  <2>1. u \in Coverage!UnitIds /\ u \in Nat
    BY UnitTypes DEF OfClass, Coverage!ToFreeze, Coverage!UnitIds
  <2>2. Coverage!IsAssigned(j, u) => assigned[j][u].pos \in Nat
    BY UnitTypes DEF Coverage!IsAssigned, AssignedRow
  <2> QED
    BY <2>1, <2>2 DEF PlaceOf
<1>2. IsFiniteSet(S)
  <2>1. IsFiniteSet(Coverage!UnitIds)
    BY FS_Interval DEF Coverage!ConstantsOK, Coverage!UnitIds
  <2> QED
    BY <1>1, <2>1, FS_Subset
<1>3. \A u, v \in S : <<u, v>> \in R <=> PlaceOf(j, u) < PlaceOf(j, v) \/ (PlaceOf(j, u) = PlaceOf(j, v) /\ u < v)
  BY DEF Coverage!Before, PlaceOf
<1>4. \A u \in S : <<u, u>> \notin R
  BY <1>1, <1>3
<1>5. \A u, v \in S : u # v => <<u, v>> \in R \/ <<v, u>> \in R
  BY <1>1, <1>3
<1>6. \A u, v, w \in S : <<u, v>> \in R /\ <<v, w>> \in R => <<u, w>> \in R
  <2> SUFFICES ASSUME NEW u \in S, NEW v \in S, NEW w \in S, <<u, v>> \in R, <<v, w>> \in R
               PROVE  <<u, w>> \in R
    OBVIOUS
  <2> QED
    BY <1>1, <1>3
<1>7. \A u \in S : rank[u] = Coverage!FrozenRank(j, u)
  <2> SUFFICES ASSUME NEW u \in S
               PROVE  rank[u] = Coverage!FrozenRank(j, u)
    OBVIOUS
  <2>1. {v \in S : <<v, u>> \in R} = {v \in Coverage!ToFreeze(j) : holds[v].class = holds[u].class /\ Coverage!Before(j, v, u)}
    BY DEF OfClass
  <2> QED
    BY SameUnitCount, <2>1 DEF Coverage!FrozenRank, RanksOf
<1>8. PICK f : f = rank
  OBVIOUS
<1>9. Cardinality(S) \in Nat /\ f \in [S -> 0..(Cardinality(S) - 1)] /\ WithoutGap(S, f)
  <2>1. StrictOrder(S, R)
    BY <1>4, <1>5, <1>6 DEF StrictOrder
  <2> HIDE DEF S, R
  <2>2. WithoutGap(S, f)
    BY <1>2, <1>8, <2>1, RanksFill
  <2> QED
    BY <2>2 DEF WithoutGap
<1>10. \A u \in S : f[u] = Coverage!FrozenRank(j, u)
  BY <1>7, <1>8
<1>11. Coverage!ChunksOf(j, class) = (Cardinality(S) + n - 1) \div n /\ n \in Nat \ {0}
  BY SameUnitCount DEF Coverage!ChunksOf, OfClass, Coverage!ConstantsOK
<1> HIDE DEF S, R, n, rank
<1>12. Coverage!ChunksOf(j, class) \in Nat
  BY <1>9, <1>11, Chunks
<1>13. ASSUME NEW u \in S
       PROVE  /\ Coverage!FrozenRank(j, u) \in Nat /\ Coverage!FrozenRank(j, u) % n \in Nat
              /\ Coverage!FrozenRank(j, u) \div n \in 0..(Coverage!ChunksOf(j, class) - 1)
  <2>1. Coverage!FrozenRank(j, u) \in Nat /\ Coverage!FrozenRank(j, u) < Cardinality(S)
    BY <1>9, <1>10
  <2>2. PICK r \in Nat : r = Coverage!FrozenRank(j, u)
    BY <2>1
  <2>3. r \div n \in Nat /\ r % n \in Nat /\ (r \div n) * n <= r
    BY <1>11
  <2>4. (r \div n) * n < Cardinality(S)
    BY <1>9, <1>11, <2>1, <2>2, <2>3
  <2>5. r \div n < Coverage!ChunksOf(j, class)
    <3>1. PICK q \in Nat, m \in Nat : q = r \div n /\ m = Cardinality(S)
      BY <1>9, <2>3
    <3>2. (q < (m + n - 1) \div n) <=> (q * n < m)
      BY <1>11, Chunks, Zenon
    <3> QED
      BY <1>11, <2>4, <3>1, <3>2
  <2> QED
    BY <1>12, <2>1, <2>2, <2>3, <2>5
<1>14. ASSUME NEW c \in 0..(Coverage!ChunksOf(j, class) - 1), NEW C, C = ClassChunk(j, class, c)
       PROVE  Cardinality(C) \in Nat \ {0} /\ Places(j, C) = 0..(Cardinality(C) - 1)
  <2>1. c \in Nat /\ c < (Cardinality(S) + n - 1) \div n
    BY <1>11, <1>12
  <2>2. C = ChunkOf(S, f, n, c)
    BY <1>10, <1>14 DEF ClassChunk, ChunkOf, S, n
  <2>3. Cardinality(C) \in Nat \ {0} /\ {f[u] % n : u \in C} = 0..(Cardinality(C) - 1)
    BY <1>2, <1>9, <1>11, <2>1, <2>2, ChunkFilled
  <2>4. {f[u] % n : u \in C} = Places(j, C)
    BY <1>10, <2>2 DEF Places, ChunkOf, n
  <2> QED
    BY <2>3, <2>4
<1> QED
  BY <1>12, <1>13, <1>14 DEF S, n

\* Where a batch is among those after the first x and the next y.
LEMMA Offset ==
  ASSUME NEW x \in Nat, NEW y \in Nat, NEW z \in Nat, NEW b \in (x + y + 1)..(x + y + z)
  PROVE  \E c \in 0..(z - 1) : b = x + 1 + c + y
<1>1. b - x - 1 - y \in 0..(z - 1) /\ b = x + 1 + (b - x - 1 - y) + y
  OBVIOUS
<1> QED
  BY <1>1

\* Numbers handed out before and behind y are different.
LEMMA Apart ==
  ASSUME NEW x \in Nat, NEW y \in Nat, NEW q \in 0..(y - 1), NEW c \in Nat
  PROVE  x + 1 + q # x + 1 + c + y
OBVIOUS

\* The units a receipt freezes into the batch.
FrozenIn(j, b) == {u \in Coverage!ToFreeze(j) : Coverage!NewBatch(j, u) = b}

\* The new batches: first those of source analysis, none empty, the places of each without a
\* gap.
LEMMA FrozenBatches ==
  ASSUME Coverage!ConstantsOK, Coverage!TypeOK, NEW j \in SurveyJobs, NEW old, old = Len(batches),
         NEW cs, cs = Coverage!ChunksOf(j, "source"), NEW co, co = Coverage!ChunksOf(j, "other")
  PROVE  /\ old \in Nat /\ cs \in Nat /\ co \in Nat
         /\ \A u \in Coverage!ToFreeze(j) :
              /\ Coverage!NewBatch(j, u) \in (old + 1)..(old + cs + co)
              /\ Coverage!FrozenRank(j, u) % UNITS_PER_JOB \in Nat
              /\ holds[u].class = "source" <=> Coverage!NewBatch(j, u) - old <= cs
         /\ \A b \in (old + 1)..(old + cs + co) : Cardinality(FrozenIn(j, b)) \in Nat \ {0}
         /\ \A b \in (old + 1)..(old + cs) :
              Places(j, FrozenIn(j, b)) = 0..(Cardinality(FrozenIn(j, b)) - 1)
<1> DEFINE n == UNITS_PER_JOB
<1>1. old \in Nat /\ n \in Nat \ {0}
  BY UnitTypes DEF Coverage!ConstantsOK
<1>2. cs \in Nat /\ co \in Nat
  BY ClassBatches
<1>3. \A u \in Coverage!ToFreeze(j) : holds[u].class = "source" \/ holds[u].class = "other"
  BY UnitTypes DEF Coverage!ToFreeze, HoldRow, Coverage!Classes
<1>4. ASSUME NEW u \in Coverage!ToFreeze(j), holds[u].class = "source"
      PROVE  /\ Coverage!FrozenRank(j, u) % n \in Nat /\ Coverage!FrozenRank(j, u) \div n \in 0..(cs - 1)
             /\ Coverage!NewBatch(j, u) = old + 1 + Coverage!FrozenRank(j, u) \div n
  <2>1. u \in OfClass(j, "source")
    BY <1>4 DEF OfClass
  <2>2. Coverage!FrozenRank(j, u) % n \in Nat /\ Coverage!FrozenRank(j, u) \div n \in 0..(cs - 1)
    BY <2>1, ClassBatches
  <2> QED
    BY <1>1, <1>4, <2>2 DEF Coverage!NewBatch
<1>5. ASSUME NEW u \in Coverage!ToFreeze(j), holds[u].class = "other"
      PROVE  /\ Coverage!FrozenRank(j, u) % n \in Nat /\ Coverage!FrozenRank(j, u) \div n \in 0..(co - 1)
             /\ Coverage!NewBatch(j, u) = old + 1 + Coverage!FrozenRank(j, u) \div n + cs
  <2>1. u \in OfClass(j, "other")
    BY <1>5 DEF OfClass
  <2>2. Coverage!FrozenRank(j, u) % n \in Nat /\ Coverage!FrozenRank(j, u) \div n \in 0..(co - 1)
    BY <2>1, ClassBatches
  <2> QED
    BY <1>1, <1>5, <2>2 DEF Coverage!NewBatch
<1> HIDE DEF n
<1>6. ASSUME NEW u \in Coverage!ToFreeze(j)
      PROVE  /\ Coverage!NewBatch(j, u) \in (old + 1)..(old + cs + co)
             /\ Coverage!FrozenRank(j, u) % n \in Nat
             /\ holds[u].class = "source" <=> Coverage!NewBatch(j, u) - old <= cs
  <2>1. CASE holds[u].class = "source"
    BY <1>1, <1>2, <1>4, <2>1
  <2>2. CASE holds[u].class = "other"
    BY <1>1, <1>2, <1>5, <2>2
  <2> QED
    BY <1>3, <2>1, <2>2
<1>7. ASSUME NEW b \in (old + 1)..(old + cs)
      PROVE  /\ Cardinality(FrozenIn(j, b)) \in Nat \ {0}
             /\ Places(j, FrozenIn(j, b)) = 0..(Cardinality(FrozenIn(j, b)) - 1)
  <2>1. PICK c \in 0..(cs - 1) : b = old + 1 + c
    <3>1. b - old - 1 \in 0..(cs - 1) /\ b = old + 1 + (b - old - 1)
      BY <1>1, <1>2
    <3> QED
      BY <3>1
  <2>2. ASSUME NEW u \in Coverage!ToFreeze(j)
        PROVE  Coverage!NewBatch(j, u) = b <=> holds[u].class = "source" /\ Coverage!FrozenRank(j, u) \div n = c
    <3>1. CASE holds[u].class = "source"
      <4>1. PICK q \in 0..(cs - 1) : q = Coverage!FrozenRank(j, u) \div n /\ Coverage!NewBatch(j, u) = old + 1 + q
        BY <1>4, <3>1
      <4>2. old + 1 + q = old + 1 + c <=> q = c
        BY <1>1, <1>2
      <4> QED
        BY <2>1, <3>1, <4>1, <4>2
    <3>2. CASE holds[u].class = "other"
      <4>1. PICK q \in 0..(co - 1) : q = Coverage!FrozenRank(j, u) \div n /\ Coverage!NewBatch(j, u) = old + 1 + q + cs
        BY <1>5, <3>2
      <4>2. Coverage!NewBatch(j, u) # b
        <5>1. old \in Nat /\ cs \in Nat /\ q \in Nat /\ c \in 0..(cs - 1)
          BY <1>1, <1>2
        <5>2. old + 1 + c # old + 1 + q + cs
          BY ONLY <5>1, Apart
        <5> QED
          BY <2>1, <4>1, <5>2
      <4> QED
        BY <3>2, <4>2
    <3> QED
      BY <1>3, <3>1, <3>2
  <2>3. FrozenIn(j, b) = ClassChunk(j, "source", c)
    BY <2>2 DEF FrozenIn, OfClass, ClassChunk, n
  <2> QED
    BY <2>1, <2>3, ClassBatches DEF n
<1>8. ASSUME NEW b \in (old + cs + 1)..(old + cs + co)
      PROVE  Cardinality(FrozenIn(j, b)) \in Nat \ {0}
  <2>1. PICK c \in 0..(co - 1) : b = old + 1 + c + cs
    <3>1. old \in Nat /\ cs \in Nat /\ co \in Nat /\ b \in (old + cs + 1)..(old + cs + co)
      BY <1>1, <1>2
    <3> QED
      BY ONLY <3>1, Offset
  <2>2. ASSUME NEW u \in Coverage!ToFreeze(j)
        PROVE  Coverage!NewBatch(j, u) = b <=> holds[u].class = "other" /\ Coverage!FrozenRank(j, u) \div n = c
    <3>1. CASE holds[u].class = "source"
      <4>1. PICK q \in 0..(cs - 1) : q = Coverage!FrozenRank(j, u) \div n /\ Coverage!NewBatch(j, u) = old + 1 + q
        BY <1>4, <3>1
      <4>2. Coverage!NewBatch(j, u) # b
        <5>1. old \in Nat /\ cs \in Nat /\ c \in Nat /\ q \in 0..(cs - 1)
          BY <1>1, <1>2
        <5>2. old + 1 + q # old + 1 + c + cs
          BY ONLY <5>1, Apart
        <5> QED
          BY <2>1, <4>1, <5>2
      <4> QED
        BY <3>1, <4>2
    <3>2. CASE holds[u].class = "other"
      <4>1. PICK q \in 0..(co - 1) : q = Coverage!FrozenRank(j, u) \div n /\ Coverage!NewBatch(j, u) = old + 1 + q + cs
        BY <1>5, <3>2
      <4>2. old + 1 + q + cs = old + 1 + c + cs <=> q = c
        <5>1. old \in Nat /\ cs \in Nat /\ q \in Nat /\ c \in Nat
          BY <1>1, <1>2
        <5> QED
          BY ONLY <5>1
      <4> QED
        BY <2>1, <3>2, <4>1, <4>2
    <3> QED
      BY <1>3, <3>1, <3>2
  <2>3. FrozenIn(j, b) = ClassChunk(j, "other", c)
    BY <2>2 DEF FrozenIn, OfClass, ClassChunk, n
  <2> QED
    BY <2>1, <2>3, ClassBatches DEF n
<1>9. \A b \in (old + 1)..(old + cs + co) : b \in (old + 1)..(old + cs) \/ b \in (old + cs + 1)..(old + cs + co)
  BY <1>1, <1>2
<1> QED
  BY <1>1, <1>2, <1>6, <1>7, <1>8, <1>9 DEF n

\* A receipt freezes what its job held and left, and completes the batch the job was given.
LEMMA FinalizeKeeps ==
  ASSUME Coverage!ConstantsOK, UnitInv, NEW j \in SurveyJobs, Coverage!Finalize(j)
  PROVE  UnitInv'
<1>1. PICK old, cs, co : old = Len(batches) /\ cs = Coverage!ChunksOf(j, "source") /\ co = Coverage!ChunksOf(j, "other")
  OBVIOUS
<1>2. PICK F : F = Coverage!ToFreeze(j)
  OBVIOUS
<1>3. /\ old \in Nat /\ cs \in Nat /\ co \in Nat
      /\ \A u \in F : /\ Coverage!NewBatch(j, u) \in (old + 1)..(old + cs + co)
                      /\ Coverage!FrozenRank(j, u) % UNITS_PER_JOB \in Nat
                      /\ holds[u].class = "source" <=> Coverage!NewBatch(j, u) - old <= cs
      /\ \A b \in (old + 1)..(old + cs + co) : Cardinality(FrozenIn(j, b)) \in Nat \ {0}
      /\ \A b \in (old + 1)..(old + cs) :
           Places(j, FrozenIn(j, b)) = 0..(Cardinality(FrozenIn(j, b)) - 1)
  BY <1>1, <1>2, FrozenBatches DEF UnitInv
<1>4. /\ unit_jobs'[j] = "succeeded" /\ unit_jobs'[j] \notin Coverage!Live /\ unit_jobs[j] = "leased" /\ unit_jobs[j] \in Coverage!Live
      /\ \A k \in SurveyJobs : k # j => unit_jobs'[k] = unit_jobs[k]
      /\ assigned' = assigned /\ results' = results /\ units' = units
  BY DEF Coverage!Finalize, UnitInv, Coverage!TypeOK, Coverage!Live
<1>5. \A k \in SurveyJobs : /\ unit_jobs'[k] \in Coverage!Live => k # j /\ unit_jobs[k] \in Coverage!Live
                            /\ unit_jobs[k] \in {"absent", "succeeded"} => k # j /\ unit_jobs'[k] = unit_jobs[k]
                            /\ unit_jobs'[k] = "absent" => k # j /\ unit_jobs[k] = "absent"
  BY <1>4 DEF Coverage!Live
<1>6. /\ DOMAIN holds' = DOMAIN holds /\ F \subseteq DOMAIN holds
      /\ \A u \in DOMAIN holds : holds[u] \in HoldRow /\ u \in Coverage!UnitIds
      /\ \A u \in F : holds'[u] = [holds[u] EXCEPT !.batch = Coverage!NewBatch(j, u), !.pos = Coverage!FrozenRank(j, u) % UNITS_PER_JOB]
      /\ \A u \in DOMAIN holds \ F : holds'[u] = holds[u]
  <2>1. holds' = [u \in DOMAIN holds |->
                    IF u \in F
                    THEN [holds[u] EXCEPT !.batch = Coverage!NewBatch(j, u), !.pos = Coverage!FrozenRank(j, u) % UNITS_PER_JOB]
                    ELSE holds[u]]
    BY <1>2 DEF Coverage!Finalize, Coverage!FrozenHolds
  <2>2. F \subseteq DOMAIN holds
    BY <1>2 DEF Coverage!ToFreeze
  <2> QED
    BY <2>1, <2>2, UnitTypes DEF UnitInv
<1>7. \A u \in DOMAIN holds : /\ holds'[u] \in HoldRow /\ holds'[u].job = holds[u].job
                              /\ holds'[u].epoch = holds[u].epoch /\ holds'[u].class = holds[u].class
                              /\ holds'[u].blocked = holds[u].blocked
  <2> SUFFICES ASSUME NEW u \in DOMAIN holds
               PROVE  /\ holds'[u] \in HoldRow /\ holds'[u].job = holds[u].job
                      /\ holds'[u].epoch = holds[u].epoch /\ holds'[u].class = holds[u].class
                      /\ holds'[u].blocked = holds[u].blocked
    OBVIOUS
  <2>1. CASE u \notin F
    BY <1>6, <2>1
  <2>2. CASE u \in F
    <3>1. Coverage!NewBatch(j, u) \in Nat /\ Coverage!FrozenRank(j, u) % UNITS_PER_JOB \in Nat /\ holds[u] \in HoldRow
      <4>1. Coverage!NewBatch(j, u) \in (old + 1)..(old + cs + co) /\ Coverage!FrozenRank(j, u) % UNITS_PER_JOB \in Nat
        BY <1>3, <2>2
      <4>2. \A b \in (old + 1)..(old + cs + co) : b \in Nat
        BY <1>3
      <4> QED
        BY <1>6, <4>1, <4>2
    <3> QED
      BY <1>6, <2>2, <3>1 DEF HoldRow
  <2> QED
    BY <2>1, <2>2
<1>8. \A u \in F : /\ holds'[u].batch = Coverage!NewBatch(j, u) /\ holds'[u].pos = Coverage!FrozenRank(j, u) % UNITS_PER_JOB
                   /\ holds'[u].batch > old /\ holds'[u].batch \in (old + 1)..(old + cs + co)
                   /\ holds'[u].batch # Coverage!NoBatch
  <2> SUFFICES ASSUME NEW u \in F
               PROVE  /\ holds'[u].batch = Coverage!NewBatch(j, u) /\ holds'[u].pos = Coverage!FrozenRank(j, u) % UNITS_PER_JOB
                      /\ holds'[u].batch > old /\ holds'[u].batch \in (old + 1)..(old + cs + co)
                      /\ holds'[u].batch # Coverage!NoBatch
    OBVIOUS
  <2>1. holds'[u].batch = Coverage!NewBatch(j, u) /\ holds'[u].pos = Coverage!FrozenRank(j, u) % UNITS_PER_JOB
    <3>1. PICK x, y : x = Coverage!NewBatch(j, u) /\ y = Coverage!FrozenRank(j, u) % UNITS_PER_JOB
      OBVIOUS
    <3>2. holds[u] \in HoldRow /\ holds'[u] = [holds[u] EXCEPT !.batch = x, !.pos = y]
      BY <1>6, <3>1
    <3>3. holds'[u].batch = x /\ holds'[u].pos = y
      BY <3>2 DEF HoldRow
    <3> QED
      BY <3>1, <3>3
  <2> QED
    BY <1>3, <2>1 DEF Coverage!NoBatch
<1>9. /\ DOMAIN batches = 1..old /\ \A b \in 1..old : batches[b] \in BatchRow /\ b # Coverage!NoBatch
  BY <1>1, <1>3, UnitTypes DEF UnitInv, Coverage!NoBatch
<1>10. \A b \in (old + 1)..(old + cs + co) :
         /\ Coverage!Frozen(j, b) \in BatchRow
         /\ Coverage!Frozen(j, b).producer = j /\ Coverage!Frozen(j, b).job = None
         /\ Coverage!Frozen(j, b).count = Cardinality(FrozenIn(j, b))
         /\ Coverage!Frozen(j, b).state \in {"pending", "blocked"}
         /\ Coverage!Frozen(j, b).state = "pending" => b - old <= cs /\ Coverage!Frozen(j, b).class = "source"
  <2> SUFFICES ASSUME NEW b \in (old + 1)..(old + cs + co)
               PROVE  /\ Coverage!Frozen(j, b) \in BatchRow
                      /\ Coverage!Frozen(j, b).producer = j /\ Coverage!Frozen(j, b).job = None
                      /\ Coverage!Frozen(j, b).count = Cardinality(FrozenIn(j, b))
                      /\ Coverage!Frozen(j, b).state \in {"pending", "blocked"}
                      /\ Coverage!Frozen(j, b).state = "pending" => b - old <= cs /\ Coverage!Frozen(j, b).class = "source"
    OBVIOUS
  <2>1. PICK c \in Coverage!Classes : c = IF b - old <= cs THEN "source" ELSE "other"
    BY DEF Coverage!Classes
  <2>2. Coverage!Frozen(j, b) = [producer |-> j, job |-> None, class |-> c,
                        state |-> IF c = "source" THEN "pending" ELSE "blocked", count |-> Cardinality(FrozenIn(j, b))]
    BY SameUnitCount, <1>1, <2>1 DEF Coverage!Frozen, FrozenIn
  <2>3. Cardinality(FrozenIn(j, b)) \in Nat \ {0}
    BY <1>3
  <2> QED
    BY <2>1, <2>2, <2>3 DEF BatchRow
<1>11. /\ batches' \in Seq(BatchRow) /\ DOMAIN batches' = 1..(old + cs + co)
       /\ \A b \in 1..old : \/ /\ batches'[b] = batches[b]
                               /\ batches[b].state = "admitted" => \E u \in DOMAIN holds' : holds'[u].batch = b
                            \/ /\ batches[b].state = "admitted" /\ \A u \in DOMAIN holds' : holds'[u].batch # b
                               /\ batches'[b] = [batches[b] EXCEPT !.state = "complete"]
       /\ \A b \in (old + 1)..(old + cs + co) : batches'[b] = Coverage!Frozen(j, b)
  <2>1. PICK n \in Nat : n = old + cs + co
    BY <1>3
  <2>2. PICK table : table = [b \in 1..n |-> IF b <= old THEN batches[b] ELSE Coverage!Frozen(j, b)]
    OBVIOUS
  <2>3. batches' = Coverage!Completed(table, holds')
    <3>1. old + cs + co = old + (cs + co)
      BY <1>3
    <3> QED
      BY <1>1, <2>1, <2>2, <3>1 DEF Coverage!Finalize
  <2>4. /\ \A b \in 1..old : b \in 1..n /\ table[b] = batches[b]
        /\ \A b \in (old + 1)..n : b \in 1..n /\ table[b] = Coverage!Frozen(j, b)
        /\ \A b \in 1..n : b \in 1..old \/ b \in (old + 1)..n
    BY <1>3, <2>1, <2>2
  <2>5. table \in [1..n -> BatchRow]
    BY <1>9, <1>10, <2>1, <2>2, <2>4
  <2>6. /\ batches' \in Seq(BatchRow) /\ DOMAIN batches' = 1..n
        /\ \A b \in 1..n :
             \/ /\ batches'[b] = table[b]
                /\ table[b].state = "admitted" => \E u \in DOMAIN holds' : holds'[u].batch = b
             \/ /\ table[b].state = "admitted" /\ \A u \in DOMAIN holds' : holds'[u].batch # b
                /\ batches'[b] = [table[b] EXCEPT !.state = "complete"]
    BY <2>3, <2>5, CompletedRows
  <2>7. \A b \in (old + 1)..n : table[b].state # "admitted"
    BY <1>10, <2>1, <2>4
  <2> QED
    BY <2>1, <2>4, <2>6, <2>7
<1>12. \A b \in 1..old : /\ b \in DOMAIN batches' /\ batches'[b].job = batches[b].job
                         /\ batches'[b].producer = batches[b].producer /\ batches'[b].count = batches[b].count
                         /\ batches'[b].state # "complete" => batches'[b] = batches[b]
                         /\ batches'[b].state \in {batches[b].state, "complete"}
                         /\ batches'[b].state = "complete" /\ batches[b].state # "complete" =>
                              batches[b].state = "admitted" /\ \A u \in DOMAIN holds' : holds'[u].batch # b
  <2> SUFFICES ASSUME NEW b \in 1..old
               PROVE  /\ b \in DOMAIN batches' /\ batches'[b].job = batches[b].job
                      /\ batches'[b].producer = batches[b].producer /\ batches'[b].count = batches[b].count
                      /\ batches'[b].state # "complete" => batches'[b] = batches[b]
                      /\ batches'[b].state \in {batches[b].state, "complete"}
                      /\ batches'[b].state = "complete" /\ batches[b].state # "complete" =>
                           batches[b].state = "admitted" /\ \A u \in DOMAIN holds' : holds'[u].batch # b
    OBVIOUS
  <2>1. b \in DOMAIN batches' /\ batches[b] \in BatchRow
    BY <1>3, <1>9, <1>11
  <2>2. CASE batches'[b] = batches[b]
    BY <2>1, <2>2
  <2>3. CASE /\ batches[b].state = "admitted" /\ \A u \in DOMAIN holds' : holds'[u].batch # b
             /\ batches'[b] = [batches[b] EXCEPT !.state = "complete"]
    BY <2>1, <2>3 DEF BatchRow
  <2> QED
    BY <1>11, <2>2, <2>3
\* Who is frozen.
<1>13. /\ \A u \in DOMAIN holds : holds[u].job = j /\ holds[u].batch = Coverage!NoBatch => u \in F
       /\ \A u \in DOMAIN holds : holds[u].batch \in 1..old =>
            (u \in F <=> batches[holds[u].batch].state = "admitted" /\ batches[holds[u].batch].job = j)
       /\ \A u \in F : (holds[u].job = j /\ holds[u].batch = Coverage!NoBatch) \/ holds[u].batch \in 1..old
  BY <1>2, <1>9 DEF Coverage!ToFreeze, Coverage!BatchOf
<1>14. \A b \in 1..old : batches'[b].state = "admitted" => batches'[b] = batches[b] /\ batches[b].job # j
  <2> SUFFICES ASSUME NEW b \in 1..old, batches'[b].state = "admitted"
               PROVE  batches'[b] = batches[b] /\ batches[b].job # j
    OBVIOUS
  <2>1. batches'[b] = batches[b]
    BY <1>12
  <2>2. PICK u \in DOMAIN holds : holds'[u].batch = b
    <3>1. batches[b].state = "admitted" /\ batches'[b].state # "complete"
      BY <2>1
    <3>2. \E u \in DOMAIN holds' : holds'[u].batch = b
      <4>1. [batches[b] EXCEPT !.state = "complete"].state = "complete"
        BY <1>9 DEF BatchRow
      <4> QED
        BY <1>11, <3>1, <4>1
    <3>3. DOMAIN holds' = DOMAIN holds
      BY <1>6
    <3> QED
      BY <3>2, <3>3
  <2>3. u \notin F
    BY <1>3, <1>8, <2>2
  <2> QED
    BY <1>6, <1>13, <2>1, <2>2, <2>3
<1>15. Coverage!TypeOK'
  <2>1. unit_jobs' \in [SurveyJobs -> {"absent", "succeeded", "ended", "held"} \cup Coverage!Live]
    BY DEF Coverage!Finalize, UnitInv, Coverage!TypeOK
  <2>2. holds' \in [DOMAIN holds' -> HoldRow]
    <3>1. holds' = [u \in DOMAIN holds |-> holds'[u]]
      BY DEF Coverage!Finalize, Coverage!FrozenHolds
    <3> QED
      BY <1>6, <1>7, <3>1
  <2> QED
    BY <1>4, <1>6, <1>11, <2>1, <2>2 DEF UnitInv, Coverage!TypeOK, HoldRow, BatchRow
<1>16. \A b \in DOMAIN batches' : b \in 1..old \/ b \in (old + 1)..(old + cs + co)
  BY <1>3, <1>11
<1>17. UnitFresh'
  BY <1>4, <1>5, <1>9, <1>10, <1>11, <1>12, <1>16 DEF UnitInv, UnitFresh, Coverage!ConstantsOK
<1>18. BootFirst'
  BY <1>4, <1>5, <1>9, <1>10, <1>11, <1>12, <1>16 DEF UnitInv, BootFirst, Coverage!ConstantsOK
<1>19. Epochs'
  BY <1>4 DEF UnitInv, Epochs
<1>20. LiveOwns'
  <2>3. assigned' = assigned /\ units' = units /\ DOMAIN holds' = DOMAIN holds
    BY <1>4, <1>6
  <2> SUFFICES ASSUME NEW k \in SurveyJobs, unit_jobs'[k] \in Coverage!Live, NEW u \in DOMAIN assigned[k]
               PROVE  /\ assigned[k][u].epoch = units[u].epoch /\ units[u].status = "open"
                      /\ u \in DOMAIN holds /\ ~ assigned[k][u].done =>
                           /\ holds'[u].batch \in DOMAIN batches'
                           /\ batches'[holds'[u].batch].state = "admitted" /\ batches'[holds'[u].batch].job = k
    BY <2>3 DEF LiveOwns
  <2>1. unit_jobs[k] \in Coverage!Live /\ k # j
    BY <1>5
  <2>2. ASSUME u \in DOMAIN holds, ~ assigned[k][u].done
        PROVE  /\ holds'[u].batch \in DOMAIN batches'
               /\ batches'[holds'[u].batch].state = "admitted" /\ batches'[holds'[u].batch].job = k
    <3>1. PICK b \in 1..old : b = holds[u].batch /\ batches[b].state = "admitted" /\ batches[b].job = k
      BY <1>9, <2>1, <2>2 DEF UnitInv, LiveOwns
    <3>2. u \notin F
      BY <1>9, <1>13, <2>1, <2>2, <3>1
    <3>3. holds'[u].batch = b
      BY <1>6, <2>2, <3>1, <3>2
    <3>4. batches'[b] = batches[b]
      BY <1>6, <1>11, <2>2, <3>3
    <3> QED
      BY <1>12, <3>1, <3>3, <3>4
  <2> QED
    BY <2>1, <2>2 DEF UnitInv, LiveOwns
<1>21. ResultsOwned'
  BY <1>4 DEF UnitInv, ResultsOwned
<1>22. LiveReports'
  BY <1>4, <1>5, <1>6, <1>7, UnitTypes DEF UnitInv, LiveReports, ResultRow
<1>23. HoldsStand'
  <2> SUFFICES ASSUME NEW u \in DOMAIN holds
               PROVE  /\ FollowUpOf(u)' \in results'
                      /\ (holds[u].batch = Coverage!NoBatch => Unbatched(u))'
                      /\ (holds[u].batch # Coverage!NoBatch => Batched(u))'
    BY <1>6 DEF HoldsStand
  <2>1. /\ FollowUpOf(u)' \in results' /\ holds[u].job \in SurveyJobs /\ u \in Coverage!UnitIds /\ holds'[u].job = holds[u].job
    BY <1>4, <1>6, <1>7 DEF UnitInv, HoldsStand, FollowUpOf, HoldRow
  <2>2. CASE u \in F
    <3>1. unit_jobs'[holds[u].job] = "succeeded"
      <4>1. CASE holds[u].job = j
        BY <1>4, <4>1
      <4>2. CASE holds[u].job # j
        BY <1>5, <1>9, <1>13, <2>1, <2>2, <4>2 DEF UnitInv, HoldsStand, Batched
      <4> QED
        BY <4>1, <4>2
    <3>2. PICK b \in (old + 1)..(old + cs + co) : b = holds'[u].batch /\ b # Coverage!NoBatch
      BY <1>8, <2>2
    <3>3. batches'[b].state \in {"pending", "blocked"} /\ b \in DOMAIN batches'
      BY <1>3, <1>10, <1>11
    <3> QED
      BY <2>1, <3>1, <3>2, <3>3 DEF Batched
  <2>3. CASE u \notin F
    <3>1. holds'[u] = holds[u]
      BY <1>6, <2>3
    <3>2. ASSUME holds[u].batch = Coverage!NoBatch
          PROVE  Unbatched(u)'
      <4>1. Unbatched(u) /\ holds[u].job # j
        BY <1>13, <2>3, <3>2 DEF UnitInv, HoldsStand
      <4> QED
        BY <1>4, <2>1, <3>1, <4>1 DEF Unbatched
    <3>3. ASSUME holds[u].batch # Coverage!NoBatch
          PROVE  Batched(u)'
      <4>1. Batched(u)
        BY <3>3 DEF UnitInv, HoldsStand
      <4>2. PICK b \in 1..old : b = holds[u].batch
        BY <1>9, <4>1 DEF Batched
      <4>3. batches'[b] = batches[b] /\ b \in DOMAIN batches' /\ unit_jobs'[holds[u].job] = "succeeded"
        BY <1>5, <1>6, <1>11, <1>12, <2>1, <3>1, <4>1, <4>2 DEF Batched
      <4> QED
        BY <1>4, <2>1, <3>1, <4>1, <4>2, <4>3 DEF Batched
    <3> QED
      BY <2>1, <3>1, <3>2, <3>3
  <2> QED
    BY <2>2, <2>3

<1>24. BatchesStand'
  <2> SUFFICES ASSUME NEW b \in DOMAIN batches'
               PROVE  /\ unit_jobs'[batches'[b].producer] = "succeeded"
                      /\ batches'[b].state = "pending" => batches'[b].job = None /\ Coverage!Admissible(b)'
                      /\ batches'[b].state = "admitted" => batches'[b].job \in SurveyJobs /\ unit_jobs'[batches'[b].job] \in Coverage!Live
    BY DEF BatchesStand
  <2>1. CASE b \in 1..old
    <3>1. unit_jobs'[batches'[b].producer] = "succeeded"
      BY <1>5, <1>9, <1>12, <2>1 DEF UnitInv, BatchesStand, BatchRow
    <3>2. batches'[b].state = "admitted" => batches'[b].job \in SurveyJobs /\ unit_jobs'[batches'[b].job] \in Coverage!Live
      BY <1>4, <1>9, <1>14, <2>1 DEF UnitInv, BatchesStand
    <3>3. ASSUME batches'[b].state = "pending"
          PROVE  batches'[b].job = None /\ Coverage!Admissible(b)'
      <4>1. batches'[b] = batches[b] /\ batches[b].job = None /\ batches[b].state = "pending" /\ b \in DOMAIN batches
        BY <1>9, <1>12, <2>1, <3>3 DEF UnitInv, BatchesStand
      <4>2. \A u \in DOMAIN holds : holds[u].batch = b => u \notin F
        BY <1>9, <1>13, <2>1, <4>1
      <4>3. Coverage!Members(b)' = Coverage!Members(b)
        <5>1. ASSUME NEW u \in DOMAIN holds
              PROVE  holds'[u].batch = b <=> holds[u].batch = b
          <6>1. CASE u \in F
            BY <1>3, <1>8, <2>1, <4>2, <6>1
          <6>2. CASE u \notin F
            BY <1>6, <6>2
          <6> QED
            BY <6>1, <6>2
        <5>2. DOMAIN holds' = DOMAIN holds
          BY <1>6
        <5> QED
          BY <5>1, <5>2 DEF Coverage!Members
      <4>4. \A u \in Coverage!Members(b) : holds'[u] = holds[u] /\ units'[u] = units[u]
        BY <1>4, <1>6, <4>2 DEF Coverage!Members
      <4>5. \A k \in SurveyJobs : unit_jobs[k] = "succeeded" => unit_jobs'[k] = "succeeded" /\ assigned'[k] = assigned[k]
        BY <1>4, <1>5
      <4>6. \A k \in SurveyJobs : \A u \in Coverage!Members(b) :
              unit_jobs'[k] \in Coverage!Live /\ u \in DOMAIN assigned'[k] => unit_jobs[k] \in Coverage!Live /\ u \in DOMAIN assigned[k]
        BY <1>4, <1>5
      <4>7. Coverage!Admissible(b)'
        BY <1>4, <4>1, <4>3, <4>4, <4>5, <4>6, AdmissibleStays DEF UnitInv
      <4> QED
        BY <4>1, <4>7
    <3> QED
      BY <3>1, <3>2, <3>3
  <2>2. CASE b \in (old + 1)..(old + cs + co)
    <3>1. /\ batches'[b].producer = j /\ batches'[b].job = None /\ batches'[b].state \in {"pending", "blocked"}
          /\ batches'[b].count = Cardinality(FrozenIn(j, b))
          /\ batches'[b].state = "pending" => b - old <= cs /\ batches'[b].class = "source"
      BY <1>10, <1>11, <2>2
    <3>2. ASSUME batches'[b].state = "pending"
          PROVE  Coverage!Admissible(b)'
      <4>1. b \in (old + 1)..(old + cs)
        BY <1>3, <2>2, <3>1, <3>2
      <4>2. Coverage!Members(b)' = FrozenIn(j, b)
        <5>1. ASSUME NEW u \in DOMAIN holds
              PROVE  holds'[u].batch = b <=> u \in F /\ Coverage!NewBatch(j, u) = b
          <6>1. CASE u \in F
            BY <1>8, <6>1
          <6>2. CASE u \notin F
            <7>1. holds'[u].batch = holds[u].batch
              BY <1>6, <6>2
            <7>2. holds[u].batch = Coverage!NoBatch \/ holds[u].batch \in 1..old
              BY <1>9 DEF UnitInv, HoldsStand, Batched
            <7> QED
              BY <1>3, <2>2, <6>2, <7>1, <7>2 DEF Coverage!NoBatch
          <6> QED
            BY <6>1, <6>2
        <5> QED
          BY <1>2, <1>6, <5>1 DEF Coverage!Members, FrozenIn
      <4>3. {holds'[u].pos : u \in FrozenIn(j, b)} = 0..(Cardinality(FrozenIn(j, b)) - 1)
        <5>1. {holds'[u].pos : u \in FrozenIn(j, b)} = Places(j, FrozenIn(j, b))
          BY <1>2, <1>8 DEF FrozenIn, Places
        <5> QED
          BY <1>3, <4>1, <5>1
      <4>4. ASSUME NEW u \in FrozenIn(j, b)
            PROVE  /\ holds'[u].class = "source" /\ ~ holds'[u].blocked
                   /\ Coverage!HandedOver(j, u)' /\ Coverage!SourceValid(u, Coverage!HandoffEpoch(j, u))'
        <5>1. /\ u \in F /\ u \in DOMAIN holds /\ holds[u] \in HoldRow /\ Coverage!NewBatch(j, u) = b
              /\ holds[u].class = "source" /\ Coverage!Freezable(j, u)
          <6>1. u \in F /\ Coverage!NewBatch(j, u) = b
            BY <1>2 DEF FrozenIn
          <6>2. Coverage!Freezable(j, u)
            BY <1>2, <6>1 DEF Coverage!Finalize, Coverage!Finalizable
          <6> QED
            BY <1>3, <1>6, <3>1, <3>2, <6>1, <6>2
        <5>2. ~ holds[u].blocked
          <6>1. CASE holds[u].job = j /\ holds[u].batch = Coverage!NoBatch
            BY <1>4, <5>1, <6>1 DEF UnitInv, HoldsStand, Unbatched
          <6>2. CASE holds[u].batch \in 1..old
            BY <1>9, <1>13, <5>1, <6>2 DEF UnitInv, HoldsStand, Batched
          <6> QED
            BY <1>13, <5>1, <6>1, <6>2
        <5>3. Coverage!HandedOver(j, u)'
          BY <1>4, <1>7, <5>1 DEF Coverage!Freezable, Coverage!HandedOver, Coverage!IsAssigned
        <5>4. Coverage!SourceValid(u, Coverage!HandoffEpoch(j, u))'
          <6>1. PICK h, x, e : h \in SurveyJobs /\ h = holds[u].job /\ x = holds[u].epoch /\ e = Coverage!HandoffEpoch(j, u)
            BY <5>1 DEF HoldRow
          <6>2. Coverage!HandoffEpoch(j, u)' = e /\ holds'[u].job = h /\ holds'[u].epoch = x
            BY <1>4, <1>7, <5>1, <6>1 DEF Coverage!HandoffEpoch
          <6>3. Coverage!OwnedAt(h, u, x)'
            BY <1>4, <5>1, <6>1 DEF Coverage!Freezable, Coverage!OwnedAt, Coverage!IsAssigned
          <6>4. ~ \E k \in SurveyJobs : unit_jobs'[k] \in Coverage!Live /\ Coverage!IsAssigned(k, u)'
            BY <1>4, <1>5, <5>1 DEF Coverage!Freezable, Coverage!LiveOwner, Coverage!IsAssigned
          <6>5. Coverage!SourceValid(u, e)'
            BY <1>4, <5>1, <6>1, <6>2, <6>3, <6>4 DEF Coverage!Freezable, Coverage!SourceValid
          <6> QED
            BY <6>2, <6>5
        <5> QED
          BY <1>7, <5>1, <5>2, <5>3, <5>4
      <4> QED
        BY SameUnitCount, <1>4, <3>1, <3>2, <4>2, <4>3, <4>4 DEF Coverage!Admissible
    <3> QED
      BY <1>4, <3>1, <3>2
  <2> QED
    BY <1>16, <2>1, <2>2
<1>25. Incoming'
  <2> SUFFICES ASSUME NEW k \in SurveyJobs, unit_jobs'[k] \in Coverage!Live, NEW b \in DOMAIN batches', batches'[b].job = k
               PROVE  /\ batches'[b].state \in {"admitted", "complete"}
                      /\ Cardinality(DOMAIN assigned[k]) = batches'[b].count
                      /\ \A v \in DOMAIN assigned[k] :
                           LET in == v \in DOMAIN holds' /\ holds'[v].batch = b
                           IN  IF assigned[k][v].done THEN ~ in ELSE in /\ holds'[v].pos = assigned[k][v].pos
    BY SameUnitCount, <1>4 DEF Incoming, Coverage!IncomingExact, Coverage!BatchOf
  <2>1. b \in 1..old
    BY <1>10, <1>11, <1>16 DEF Coverage!ConstantsOK
  <2>2. unit_jobs[k] \in Coverage!Live /\ k # j /\ b \in Coverage!BatchOf(k)
    BY <1>5, <1>9, <1>12, <2>1 DEF Coverage!BatchOf
  <2>3. Coverage!IncomingExact(k)
    BY <2>2 DEF UnitInv, Incoming
  <2>4. ASSUME NEW v \in DOMAIN holds
        PROVE  /\ holds'[v].batch = b <=> holds[v].batch = b
               /\ holds[v].batch = b => holds'[v] = holds[v]
    <3>1. CASE v \in F
      <4>1. holds'[v].batch # b
        BY <1>3, <1>8, <2>1, <3>1
      <4>2. holds[v].batch # b
        BY <1>9, <1>12, <1>13, <2>1, <2>2, <3>1
      <4> QED
        BY <4>1, <4>2
    <3>2. CASE v \notin F
      BY <1>6, <3>2
    <3> QED
      BY <3>1, <3>2
  <2>5. /\ batches[b].state \in {"admitted", "complete"} /\ Cardinality(DOMAIN assigned[k]) = batches[b].count
        /\ \A v \in DOMAIN assigned[k] :
             LET in == v \in DOMAIN holds /\ holds[v].batch = b
             IN  IF assigned[k][v].done THEN ~ in ELSE in /\ holds[v].pos = assigned[k][v].pos
    BY SameUnitCount, <2>2, <2>3 DEF Coverage!IncomingExact
  <2>6. batches'[b].state \in {"admitted", "complete"} /\ batches'[b].count = batches[b].count
    BY <1>12, <2>1, <2>5
  <2>7. DOMAIN holds' = DOMAIN holds
    BY <1>6
  <2> QED
    BY <2>4, <2>5, <2>6, <2>7
<1> QED
  BY <1>15, <1>17, <1>18, <1>19, <1>20, <1>21, <1>22, <1>23, <1>24, <1>25 DEF UnitInv

(***************************************************************************)
(* The theorems                                                             *)
(***************************************************************************)
LEMMA UnitsStep == Coverage!ConstantsOK /\ UnitInv /\ [Coverage!Next]_(Coverage!vars) => UnitInv'
<1> SUFFICES ASSUME Coverage!ConstantsOK, UnitInv, [Coverage!Next]_(Coverage!vars)
             PROVE  UnitInv'
  OBVIOUS
<1>1. ASSUME NEW j \in SurveyJobs, Coverage!ClaimOrdinary(j)
      PROVE  UnitInv'
  BY <1>1, OrdinaryKeeps
<1>2. ASSUME NEW j \in SurveyJobs, NEW b \in DOMAIN batches, Coverage!ClaimBatch(j, b)
      PROVE  UnitInv'
  BY <1>2, BatchKeeps
<1>3. ASSUME NEW j \in SurveyJobs, Coverage!ClaimQueued(j)
      PROVE  UnitInv'
  BY <1>3, MoveKeeps DEF Coverage!ClaimQueued, Coverage!Live
<1>4. ASSUME NEW j \in SurveyJobs, Coverage!Finalize(j)
      PROVE  UnitInv'
  BY <1>4, FinalizeKeeps
<1>5. ASSUME NEW j \in SurveyJobs, Coverage!Retry(j)
      PROVE  UnitInv'
  BY <1>5, MoveKeeps DEF Coverage!Retry, Coverage!Live
<1>6. ASSUME NEW j \in SurveyJobs, Coverage!End(j)
      PROVE  UnitInv'
  BY <1>6, EndKeeps
<1>11. ASSUME NEW j \in SurveyJobs, Coverage!HoldQueued(j)
       PROVE  UnitInv'
  BY <1>11, HoldQueuedKeeps
<1>12. ASSUME NEW b \in DOMAIN batches, Coverage!HoldBatch(b)
       PROVE  UnitInv'
  BY <1>12, HoldBatchKeeps
<1>13. CASE Coverage!HoldUnits
  BY <1>13, HoldUnitsKeeps
<1>7. ASSUME NEW j \in SurveyJobs, NEW u \in Coverage!UnitIds, Coverage!SubmitReviewUnit(j, u)
      PROVE  UnitInv'
  BY <1>7, NewUnitKeeps
<1>8. ASSUME NEW j \in SurveyJobs, NEW u \in Coverage!UnitIds, Coverage!SubmitConclusive(j, u)
      PROVE  UnitInv'
  <2>1. PICK f \in BOOLEAN, class \in Coverage!Classes : f = FALSE
    BY DEF Coverage!Classes
  <2> QED
    BY <1>8, <2>1, ReportKeeps DEF Coverage!SubmitConclusive
<1>9. ASSUME NEW j \in SurveyJobs, NEW u \in Coverage!UnitIds, NEW class \in Coverage!Classes, Coverage!SubmitFollowUp(j, u, class)
      PROVE  UnitInv'
  <2>1. PICK f \in BOOLEAN : f = TRUE
    OBVIOUS
  <2> QED
    BY <1>9, <2>1, ReportKeeps DEF Coverage!SubmitFollowUp
<1>10. CASE UNCHANGED Coverage!vars
  <2>1. /\ Coverage!TypeOK' /\ UnitFresh' /\ BootFirst' /\ Epochs' /\ LiveOwns' /\ ResultsOwned' /\ LiveReports'
    BY <1>10 DEF Coverage!vars, UnitInv, Coverage!TypeOK, UnitFresh, BootFirst, Epochs, LiveOwns,
         ResultsOwned, LiveReports
  <2>2. HoldsStand'
    BY <1>10 DEF Coverage!vars, UnitInv, HoldsStand, FollowUpOf, Unbatched, Batched
  <2>3. \A b \in DOMAIN batches : Coverage!Admissible(b)' <=> Coverage!Admissible(b)
    BY <1>10 DEF Coverage!vars, Coverage!Admissible, Coverage!Members, Coverage!HandedOver,
         Coverage!HandoffEpoch, Coverage!SourceValid, Coverage!OwnedAt, Coverage!IsAssigned
  <2>4. BatchesStand'
    BY <1>10, <2>3 DEF Coverage!vars, UnitInv, BatchesStand
  <2>5. Incoming'
    BY <1>10 DEF Coverage!vars, UnitInv, Incoming, Coverage!IncomingExact, Coverage!BatchOf
  <2> QED
    BY <2>1, <2>2, <2>4, <2>5 DEF UnitInv
<1> QED
  BY <1>1, <1>2, <1>3, <1>4, <1>5, <1>6, <1>7, <1>8, <1>9, <1>10, <1>11, <1>12, <1>13 DEF
       Coverage!Next

\* Somebody answers for every review unit, whatever the survey jobs, units and batch size:
\* its owner may report it, a running survey may deliver its receipt, and a batch that waits
\* can be admitted as it was frozen.
THEOREM UnitsAreAnswered == Coverage!ConstantsOK => (Coverage!Spec => []Coverage!UnitsAnswered)
<1> SUFFICES ASSUME Coverage!ConstantsOK
             PROVE  Coverage!Spec => []Coverage!UnitsAnswered
  OBVIOUS
<1>1. Coverage!Init => UnitInv
  BY UnitsBegin
<1>2. UnitInv /\ [Coverage!Next]_(Coverage!vars) => UnitInv'
  BY UnitsStep
<1>3. UnitInv => Coverage!UnitsAnswered
  BY UnitsImplied
<1> QED
  BY <1>1, <1>2, <1>3, PTL DEF Coverage!Spec

\* Coverage stands while its result, its epoch and its owner do and nobody new is to report.
LEMMA CoverageStays ==
  ASSUME Coverage!TypeOK, NEW u \in Coverage!UnitIds, Coverage!Covered(u), results \subseteq results',
         units'[u].epoch = units[u].epoch, units'[u].by = units[u].by,
         \A k \in SurveyJobs : u \in DOMAIN assigned[k] =>
           u \in DOMAIN assigned'[k] /\ assigned'[k][u].epoch = assigned[k][u].epoch,
         \A k \in SurveyJobs : unit_jobs'[k] \in Coverage!Live /\ u \in DOMAIN assigned'[k] => unit_jobs[k] \in Coverage!Live /\ u \in DOMAIN assigned[k]
  PROVE  Coverage!Covered(u)'
<1>1. PICK r \in results : /\ r.unit = u /\ ~ r.followUp /\ r.epoch = units[u].epoch
                           /\ Coverage!OwnedAt(r.job, u, units[u].epoch) /\ ~ Coverage!LiveOwner(u, r.job)
  BY DEF Coverage!Covered
<1>2. PICK k, e : k \in SurveyJobs /\ k = r.job /\ e = units[u].epoch
  BY UnitTypes DEF ResultRow
<1>3. Coverage!OwnedAt(k, u, e)'
  BY <1>1, <1>2 DEF Coverage!OwnedAt, Coverage!IsAssigned
<1>4. ~ Coverage!LiveOwner(u, k)'
  BY <1>1, <1>2 DEF Coverage!LiveOwner, Coverage!IsAssigned
<1> QED
  BY <1>1, <1>2, <1>3, <1>4 DEF Coverage!Covered

\* A covered unit is in no batch that waits: its epoch has one owner, who reports once.
LEMMA CoveredIsOut ==
  ASSUME Coverage!ConstantsOK, UnitInv, NEW u \in Coverage!UnitIds, Coverage!Covered(u), NEW b \in DOMAIN batches, Coverage!Admissible(b)
  PROVE  u \notin Coverage!Members(b)
<1> SUFFICES ASSUME u \in Coverage!Members(b)
             PROVE  FALSE
  OBVIOUS
<1>1. PICK r \in results : r.unit = u /\ ~ r.followUp /\ r.epoch = units[u].epoch
  BY DEF Coverage!Covered
<1>2. PICK p \in SurveyJobs : p = batches[b].producer
  BY UnitTypes DEF UnitInv, BatchRow
<1>3. /\ u \in DOMAIN holds /\ holds[u] \in HoldRow /\ units[u] \in UnitRow /\ r \in ResultRow
      /\ Coverage!HandedOver(p, u) /\ units[u].epoch = Coverage!HandoffEpoch(p, u) /\ FollowUpOf(u) \in results
  BY <1>2, UnitTypes DEF UnitInv, Coverage!Members, Coverage!Admissible, Coverage!SourceValid,
       FollowUpOf
<1>4. CASE holds[u].job = p
  <2>1. /\ FollowUpOf(u).epoch = r.epoch /\ FollowUpOf(u).unit = r.unit /\ FollowUpOf(u).job = p
        /\ FollowUpOf(u).followUp
    BY <1>1, <1>3, <1>4 DEF Coverage!HandoffEpoch, FollowUpOf
  <2>2. r.job # p
    BY <1>1, <1>3, <2>1 DEF UnitInv, ResultsOwned
  <2>3. PICK s \in results : s = FollowUpOf(u)
    BY <1>3
  <2>4. s.job # r.job /\ s.unit = u /\ r.unit = u /\ s.epoch = r.epoch /\ s.job \in SurveyJobs /\ r.job \in SurveyJobs
    BY <1>1, <1>3, <2>1, <2>2, <2>3 DEF ResultRow
  <2>5. \A t \in results : t.unit = u /\ t.job # boot =>
          u \in DOMAIN assigned[t.job] /\ assigned[t.job][u].epoch = t.epoch
    BY DEF UnitInv, ResultsOwned
  <2>6. \A t \in results : t.job = boot => t.epoch = 0
    BY DEF UnitInv, ResultsOwned
  <2>7. \A k \in SurveyJobs : u \in DOMAIN assigned[k] => assigned[k][u].epoch # 0
    BY <1>3 DEF UnitInv, Epochs, UnitRow
  <2>8. \A k, l \in SurveyJobs : u \in DOMAIN assigned[k] /\ u \in DOMAIN assigned[l] /\ k # l =>
          assigned[k][u].epoch # assigned[l][u].epoch
    BY DEF UnitInv, Epochs
  <2> QED
    BY <2>4, <2>5, <2>6, <2>7, <2>8
<1>5. CASE holds[u].job # p
  <2>1. u \in DOMAIN assigned[p] /\ ~ assigned[p][u].done /\ assigned[p][u].epoch = units[u].epoch
    BY <1>3, <1>5 DEF Coverage!HandedOver, Coverage!HandoffEpoch, Coverage!IsAssigned
  <2>2. r.job # p
    <3>1. p # boot
      BY <2>1 DEF UnitInv, BootFirst
    <3> QED
      BY <1>1, <2>1, <3>1 DEF UnitInv, ResultsOwned
  <2>3. assigned[p][u].epoch # 0
    BY <1>3, <2>1 DEF UnitInv, Epochs, UnitRow
  <2>4. r.job \in SurveyJobs /\ r.job # boot
    BY <1>1, <1>3, <2>1, <2>3 DEF UnitInv, ResultsOwned, ResultRow
  <2>5. u \in DOMAIN assigned[r.job] /\ assigned[r.job][u].epoch = units[u].epoch
    BY <1>1, <2>4 DEF UnitInv, ResultsOwned
  <2> QED
    BY <2>1, <2>2, <2>4, <2>5 DEF UnitInv, Epochs
<1> QED
  BY <1>4, <1>5

\* A claim that takes no covered unit leaves coverage alone.
LEMMA ClaimCovers ==
  ASSUME Coverage!ConstantsOK, UnitInv, NEW j \in SurveyJobs, NEW S \in SUBSET Coverage!UnitIds, NEW pos, unit_jobs[j] = "absent",
         Coverage!Assign(j, S, pos), unit_jobs' = [unit_jobs EXCEPT ![j] = "leased"], results' = results,
         NEW u \in Coverage!UnitIds, Coverage!Covered(u), u \notin S
  PROVE  Coverage!Covered(u)'
<1>1. units'[u] = units[u] /\ DOMAIN assigned[j] = {} /\ DOMAIN assigned'[j] = S
      /\ \A k \in SurveyJobs : k # j => assigned'[k] = assigned[k] /\ unit_jobs'[k] = unit_jobs[k]
  BY DEF Coverage!Assign, UnitInv, UnitFresh, Coverage!TypeOK
<1> QED
  BY <1>1, CoverageStays DEF UnitInv

\* Every step keeps the coverage there is.
LEMMA CoverageStep == Coverage!ConstantsOK /\ UnitInv /\ [Coverage!Next]_(Coverage!vars) => Coverage!CoverageKeptStep
<1> SUFFICES ASSUME Coverage!ConstantsOK, UnitInv, [Coverage!Next]_(Coverage!vars), NEW u \in Coverage!UnitIds, Coverage!Covered(u)
             PROVE  Coverage!Covered(u)'
  BY DEF Coverage!CoverageKeptStep
<1> USE DEF UnitInv
<1>1. ASSUME NEW j \in SurveyJobs, Coverage!ClaimOrdinary(j)
      PROVE  Coverage!Covered(u)'
  <2>1. Coverage!Selection \in SUBSET Coverage!UnitIds /\ u \notin Coverage!Selection
    BY DEF Coverage!Selection, Coverage!NeedsWork
  <2> QED
    BY <1>1, <2>1, ClaimCovers DEF Coverage!ClaimOrdinary
<1>2. ASSUME NEW j \in SurveyJobs, NEW b \in DOMAIN batches, Coverage!ClaimBatch(j, b)
      PROVE  Coverage!Covered(u)'
  <2>1. Coverage!Members(b) \in SUBSET Coverage!UnitIds /\ u \notin Coverage!Members(b)
    BY <1>2, CoveredIsOut, UnitTypes DEF Coverage!Members, Coverage!ClaimBatch
  <2> QED
    BY <1>2, <2>1, ClaimCovers DEF Coverage!ClaimBatch
<1>3. ASSUME NEW j \in SurveyJobs, unit_jobs[j] \in Coverage!Live, NEW s, unit_jobs' = [unit_jobs EXCEPT ![j] = s],
             assigned' = assigned, results' = results, units'[u].epoch = units[u].epoch, units'[u].by = units[u].by
      PROVE  Coverage!Covered(u)'
  <2>1. \A k \in SurveyJobs : unit_jobs'[k] \in Coverage!Live => unit_jobs[k] \in Coverage!Live
    BY <1>3 DEF Coverage!TypeOK
  <2> QED
    BY <1>3, <2>1, CoverageStays
<1>4. ASSUME NEW j \in SurveyJobs, Coverage!ClaimQueued(j) \/ Coverage!Retry(j) \/ Coverage!Finalize(j)
      PROVE  Coverage!Covered(u)'
  <2>1. PICK s : unit_jobs' = [unit_jobs EXCEPT ![j] = s]
    BY <1>4 DEF Coverage!ClaimQueued, Coverage!Retry, Coverage!Finalize
  <2> QED
    BY <1>3, <1>4, <2>1 DEF Coverage!ClaimQueued, Coverage!Retry, Coverage!Finalize, Coverage!Live
<1>5. ASSUME NEW j \in SurveyJobs, Coverage!End(j) \/ Coverage!HoldQueued(j)
      PROVE  Coverage!Covered(u)'
  <2>1. units[u] \in UnitRow
    BY UnitTypes
  <2>2. units'[u] = units[u] \/ units'[u] = [units[u] EXCEPT !.status = "deferred"]
    BY <1>5 DEF Coverage!End, Coverage!HoldQueued
  <2>3. units'[u].epoch = units[u].epoch /\ units'[u].by = units[u].by
    BY <2>1, <2>2 DEF UnitRow
  <2>4. PICK s : unit_jobs' = [unit_jobs EXCEPT ![j] = s]
    BY <1>5 DEF Coverage!End, Coverage!HoldQueued
  <2>5. unit_jobs[j] \in Coverage!Live /\ assigned' = assigned /\ results' = results
    BY <1>5 DEF Coverage!End, Coverage!HoldQueued, Coverage!Live
  <2> QED
    BY <1>3, <2>3, <2>4, <2>5
<1>10. CASE Coverage!HoldUnits \/ \E b \in DOMAIN batches : Coverage!HoldBatch(b)
  <2>1. units[u] \in UnitRow
    BY UnitTypes
  <2>2. units'[u] = units[u] \/ units'[u] = [units[u] EXCEPT !.status = "deferred"]
    BY <1>10 DEF Coverage!HoldUnits, Coverage!Defer, Coverage!HoldBatch
  <2>3. units'[u].epoch = units[u].epoch /\ units'[u].by = units[u].by
    BY <2>1, <2>2 DEF UnitRow
  <2>4. unit_jobs' = unit_jobs /\ assigned' = assigned /\ results' = results
    BY <1>10 DEF Coverage!HoldUnits, Coverage!Defer, Coverage!HoldBatch
  <2> QED
    BY <2>3, <2>4, CoverageStays
<1>6. ASSUME NEW j \in SurveyJobs, NEW v \in Coverage!UnitIds, Coverage!SubmitReviewUnit(j, v)
      PROVE  Coverage!Covered(u)'
  <2>1. v # u
    BY <1>6 DEF Coverage!SubmitReviewUnit, Coverage!Covered, Epochs
  <2>2. units'[u] = units[u]
    BY <1>6, <2>1 DEF Coverage!SubmitReviewUnit, Coverage!TypeOK
  <2> QED
    BY <1>6, <2>2, CoverageStays DEF Coverage!SubmitReviewUnit
<1>7. ASSUME NEW j \in SurveyJobs, NEW v \in Coverage!UnitIds, assigned' = Coverage!Reported(j, v), results \subseteq results',
             UNCHANGED <<unit_jobs, units>>
      PROVE  Coverage!Covered(u)'
  <2>1. ASSUME NEW k \in SurveyJobs
        PROVE  /\ DOMAIN assigned'[k] = DOMAIN assigned[k]
               /\ u \in DOMAIN assigned[k] => assigned'[k][u].epoch = assigned[k][u].epoch
    <3>1. CASE Coverage!IsAssigned(j, v)
      <4>1. assigned' = [assigned EXCEPT ![j][v].done = TRUE] /\ DOMAIN assigned = SurveyJobs
        BY <1>7, <3>1, UnitTypes DEF Coverage!Reported
      <4>2. u \in DOMAIN assigned[k] => assigned[k][u] \in AssignedRow
        BY UnitTypes
      <4> QED
        BY <4>1, <4>2 DEF AssignedRow
    <3> QED
      BY <1>7, <3>1 DEF Coverage!Reported
  <2> QED
    BY <1>7, <2>1, CoverageStays
<1>8. ASSUME NEW j \in SurveyJobs, NEW v \in Coverage!UnitIds,
             Coverage!SubmitConclusive(j, v) \/ \E class \in Coverage!Classes : Coverage!SubmitFollowUp(j, v, class)
      PROVE  Coverage!Covered(u)'
  BY <1>7, <1>8 DEF Coverage!SubmitConclusive, Coverage!SubmitFollowUp
<1>9. CASE UNCHANGED Coverage!vars
  BY <1>9, CoverageStays DEF Coverage!vars
<1> QED
  BY <1>1, <1>2, <1>4, <1>5, <1>6, <1>8, <1>9, <1>10 DEF Coverage!Next

\* Coverage is never lost: no claim, failure, follow-up or receipt turns a covered unit into
\* one without current evidence.
THEOREM CoverageStands == Coverage!ConstantsOK => (Coverage!Spec => Coverage!CoverageKept)
<1> SUFFICES ASSUME Coverage!ConstantsOK
             PROVE  Coverage!Spec => Coverage!CoverageKept
  OBVIOUS
<1>1. Coverage!Init => UnitInv
  BY UnitsBegin
<1>2. UnitInv /\ [Coverage!Next]_(Coverage!vars) => UnitInv'
  BY UnitsStep
<1>3. UnitInv /\ [Coverage!Next]_(Coverage!vars) => [Coverage!CoverageKeptStep]_(Coverage!vars)
  BY CoverageStep
<1> QED
  BY <1>1, <1>2, <1>3, PTL DEF Coverage!Spec, Coverage!CoverageKept

(***************************************************************************)
(* The components together                                                  *)
(***************************************************************************)
\* A step of the campaigns' modules is a step of each of them or leaves it alone.
LEMMA CampaignsStep ==
  ASSUME [RunNext \/ Rest]_runVars
  PROVE  /\ [Lineage!Next]_(Lineage!vars)
         /\ [Coverage!Next]_(Coverage!vars)
         /\ [Verification!Next]_(Verification!vars)
<1>1. CASE UNCHANGED runVars
  BY <1>1 DEF runVars, generationVars, unitVars, verdictVars, Lineage!vars, Coverage!vars,
          Verification!vars
<1>2. ASSUME NEW p \in {"work", "lineage", "units", "verdicts", "leads", "inventory", "ranking",
                        "delivery"},
             Others(p)
      PROVE  /\ p # "lineage" => UNCHANGED Lineage!vars
             /\ p # "units" => UNCHANGED Coverage!vars
             /\ p # "verdicts" => UNCHANGED Verification!vars
  BY <1>2 DEF Others, generationVars, unitVars, verdictVars, Lineage!vars, Coverage!vars,
          Verification!vars
<1> QED
  BY <1>1, <1>2 DEF RunNext, Rest

\* Whichever component runs beside the others, each one's state goes through a behaviour of
\* its own specification.
THEOREM CampaignsCompose == RunSpec => Lineage!Spec /\ Coverage!Spec /\ Verification!Spec
<1>1. RunInit => Lineage!Init /\ Coverage!Init /\ Verification!Init
  BY DEF RunInit
<1>2. [RunNext \/ Rest]_runVars => /\ [Lineage!Next]_(Lineage!vars)
                                   /\ [Coverage!Next]_(Coverage!vars)
                                   /\ [Verification!Next]_(Verification!vars)
  BY CampaignsStep
<1> QED
  BY <1>1, <1>2, PTL DEF RunSpec, Lineage!Spec, Coverage!Spec, Verification!Spec

\* A repository has one lineage of generations, whoever opens, pins and finishes them
\* (campaigns.rs), for any number of campaigns, generations, commits and contracts.
THEOREM CampaignsLineage == Lineage!ConstantsOK => (RunSpec => []LineageSound)
BY CampaignsCompose, LineageIsSound, PTL DEF LineageSound

\* A verdict settles its finding once and is answered the same again, for any number of
\* findings, verify jobs and handlers.
THEOREM CampaignsVerdicts == Verification!ConstantsOK => (RunSpec => []VerdictsSettle)
BY CampaignsCompose, VerdictsAreSettled, PTL DEF VerdictsSettle

\* Somebody answers for every review unit and can report it (unit_holds.rs), for any number of
\* surveys and units and any size of a batch.
THEOREM CampaignsUnits == Coverage!ConstantsOK => (RunSpec => []UnitsAnswered)
BY CampaignsCompose, UnitsAreAnswered, PTL DEF UnitsAnswered

=============================================================================
