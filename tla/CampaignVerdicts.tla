-------------------------- MODULE CampaignVerdicts --------------------------
(***************************************************************************)
(* How a campaign finding gets its verdict: the intent that waits for a      *)
(* verification, the verify job admitted for it and that job's attempts, the *)
(* terminal receipt with its verdict, evidence and continuation, the         *)
(* operator's approval, and the delivery prepared with the verdict.  The     *)
(* worker repeats a request whose answer was lost; the campaign may be       *)
(* cancelled and the server may die between the verdict and the delivery.    *)
(*                                                                           *)
(* Every request is one transaction.  The commit, profile and inventory      *)
(* references a request must match are data of the intent and are taken to   *)
(* match.  Posting the report and recording it are one step here and are     *)
(* taken apart in ReportDispatch; the budget of a claim is in Campaign.      *)
(***************************************************************************)
EXTENDS Naturals, FiniteSets

CONSTANTS
  Promoted,       \* findings a drilldown of the campaign promotes
  Legacy,         \* findings of an ordinary scan in the same repository
  Jobs,           \* verify jobs of the campaign
  Dispatchers,    \* request handlers that may be delivering at once
  None,
  MAX_ATTEMPTS,
  MaxSequence,    \* bound: logical continuations of a verification
  ApprovalModes   \* effective require_approval settings

ConstantsOK ==
  /\ Promoted \cap Legacy = {}
  /\ None \notin Jobs \cup Promoted \cup Legacy
  /\ MAX_ATTEMPTS \in Nat \ {0} /\ MaxSequence \in Nat
  /\ ApprovalModes \subseteq BOOLEAN

AllFindings == Promoted \cup Legacy
Verdicts == {"confirmed", "dismissed", "inconclusive"}
Classes == {"source_analysis_remaining", "external_dependency"}

\* What a worker may send: only an inconclusive verdict names what remains.
Payloads ==
  {p \in [verdict : Verdicts, class : Classes \cup {None}] :
     (p.verdict = "inconclusive") <=> (p.class # None)}

VARIABLES
  findings,   \* state of each finding
  intents,    \* per promoted finding: state, logical sequence and admitted job
  jobs,       \* state, attempts (an attempt has its own capability) and target
  verdicts,   \* the accepted verdicts, each with its job
  receipts,   \* the sealed terminal receipts
  active,     \* whether the campaign is active
  approval,   \* the repository's effective require_approval
  sending,    \* the finding each handler has a prepared report of
  prepared,   \* history: automatic preparations per finding
  told        \* history: the receipts shown to workers

vars == <<findings, intents, jobs, verdicts, receipts, active, approval, sending, prepared, told>>

NoIntent == [state |-> "none", sequence |-> 0, job |-> None]

Init ==
  /\ findings = [f \in AllFindings |-> "none"]
  /\ intents = [f \in Promoted |-> NoIntent]
  /\ jobs = [j \in Jobs |-> [state |-> "none", attempts |-> 0, target |-> None]]
  /\ verdicts = {} /\ receipts = {} /\ told = {}
  /\ active = TRUE
  /\ approval \in ApprovalModes
  /\ sending = [d \in Dispatchers |-> None]
  /\ prepared = [f \in AllFindings |-> 0]

(***************************************************************************)
(* The work                                                                  *)
(***************************************************************************)
\* The finding and its intent are inserted with the drilldown's receipt.
Promote(f) ==
  /\ active
  /\ findings[f] = "none"
  /\ findings' = [findings EXCEPT ![f] = "validating"]
  /\ intents' = [intents EXCEPT ![f] = [state |-> "pending", sequence |-> 0, job |-> None]]
  /\ UNCHANGED <<jobs, verdicts, receipts, active, approval, sending, prepared, told>>

\* A finding of an ordinary scan waits for its verifier with a deadline.
SubmitLegacy(f) ==
  /\ findings[f] = "none"
  /\ findings' = [findings EXCEPT ![f] = "validating"]
  /\ UNCHANGED <<intents, jobs, verdicts, receipts, active, approval, sending, prepared, told>>

\* A claim inserts the verify job, leases it and admits the intent to it.
Admit(j, f) ==
  /\ active
  /\ intents[f].state = "pending" /\ findings[f] = "validating"
  /\ jobs[j].state = "none"
  /\ jobs' = [jobs EXCEPT ![j] = [state |-> "leased", attempts |-> 1, target |-> f]]
  /\ intents' = [intents EXCEPT ![f].state = "admitted", ![f].job = j]
  /\ UNCHANGED <<findings, verdicts, receipts, active, approval, sending, prepared, told>>

Reclaim(j) ==
  /\ active
  /\ jobs[j].state = "queued"
  /\ jobs' = [jobs EXCEPT ![j].state = "leased", ![j].attempts = @ + 1]
  /\ UNCHANGED <<findings, intents, verdicts, receipts, active, approval, sending, prepared, told>>

\* The work of a job that ended without a receipt waits for somebody to unblock it.
BlockJobWork(j) ==
  [f \in Promoted |->
     IF intents[f].state = "admitted" /\ intents[f].job = j
     THEN [intents[f] EXCEPT !.state = "blocked"] ELSE intents[f]]

\* The worker reports a failure or the lease runs out.
RetryOrFail(j) ==
  /\ jobs[j].state = "leased"
  /\ IF active /\ jobs[j].attempts < MAX_ATTEMPTS
     THEN /\ jobs' = [jobs EXCEPT ![j].state = "queued"]
          /\ UNCHANGED intents
     ELSE /\ jobs' = [jobs EXCEPT ![j].state = "failed"]
          /\ intents' = BlockJobWork(j)
  /\ UNCHANGED <<findings, verdicts, receipts, active, approval, sending, prepared, told>>

CancelJob(j) ==
  /\ jobs[j].state \in {"queued", "leased"}
  /\ jobs' = [jobs EXCEPT ![j].state = "cancelled"]
  /\ intents' = BlockJobWork(j)
  /\ UNCHANGED <<findings, verdicts, receipts, active, approval, sending, prepared, told>>

\* Cancelling the campaign, or its deadline: what is leased ends by itself.
CloseCampaign ==
  /\ active
  /\ active' = FALSE
  /\ jobs' = [j \in Jobs |-> IF jobs[j].state = "queued"
                             THEN [jobs[j] EXCEPT !.state = "cancelled"] ELSE jobs[j]]
  /\ intents' = [f \in Promoted |-> IF intents[f].state \in {"pending", "admitted"}
                                    THEN [intents[f] EXCEPT !.state = "blocked"] ELSE intents[f]]
  /\ UNCHANGED <<findings, verdicts, receipts, approval, sending, prepared, told>>

(***************************************************************************)
(* The verdict                                                               *)
(***************************************************************************)
\* Only independently accepted verdicts settle a finding.
RollUp(f, new) ==
  LET has(v) == \E w \in new : w.finding = f /\ w.verdict = v
  IN  CASE findings[f] # "validating" -> findings[f]
        [] has("dismissed") -> "dismissed"
        [] has("confirmed") -> IF approval THEN "awaiting_approval" ELSE "confirmed"
        [] OTHER -> "validating"

\* Fault: what is left of an inconclusive verification is dropped.
FinishAnyway(f, payload) == [intents EXCEPT ![f].state = "complete"]

\* The intent after its job's receipt: settled, continued by a later job, or blocked.
AfterVerdict(f, payload) ==
  [intents EXCEPT ![f] =
     IF payload.verdict # "inconclusive" THEN [intents[f] EXCEPT !.state = "complete"]
     ELSE [state |-> IF payload.class = "source_analysis_remaining" THEN "pending" ELSE "blocked",
           sequence |-> intents[f].sequence + 1, job |-> None]]

\* A confirmed finding's report is selected in the transaction of the verdict.  The
\* selection may come out empty: nothing configured, or a credential that is missing.
Prepare(d, f, confirmed) ==
  \/ /\ confirmed
     /\ sending[d] = None
     /\ sending' = [sending EXCEPT ![d] = f]
     /\ prepared' = [prepared EXCEPT ![f] = @ + 1]
  \/ UNCHANGED <<sending, prepared>>

\* Domain access: the attempt holding the current capability, in an active campaign, whose
\* target is still validating and whose intent is admitted to this very job.
Deciding(j) ==
  LET f == jobs[j].target
  IN  /\ active
      /\ jobs[j].state = "leased"
      /\ findings[f] = "validating"
      /\ intents[f].state = "admitted" /\ intents[f].job = j

Finalize(d, j, payload) ==
  LET f == jobs[j].target
      new == verdicts \cup {[finding |-> f, job |-> j, verdict |-> payload.verdict]}
      receipt == [job |-> j, attempt |-> jobs[j].attempts, payload |-> payload,
                  state |-> RollUp(f, new)]
  IN  /\ Deciding(j)
      /\ payload.class # "source_analysis_remaining" \/ intents[f].sequence < MaxSequence
      /\ verdicts' = new
      /\ findings' = [findings EXCEPT ![f] = RollUp(f, new)]
      /\ jobs' = [jobs EXCEPT ![j].state = "succeeded"]
      /\ intents' = AfterVerdict(f, payload)
      /\ receipts' = receipts \cup {receipt}
      /\ told' = told \cup {receipt}
      /\ Prepare(d, f, RollUp(f, new) = "confirmed")
      /\ UNCHANGED <<active, approval>>

\* The finishing attempt repeats its request: it reads what was sealed and prepares
\* nothing.  Another payload is a conflict and another attempt is denied: no change.
Replay(d, receipt) ==
  /\ told' = told \cup {receipt}
  /\ UNCHANGED <<findings, intents, jobs, verdicts, receipts, active, approval, sending, prepared>>

\* The reaper of stale verifications leaves the campaign's findings alone.
ReapStaleValidating(f) ==
  /\ findings[f] = "validating"
  /\ f \notin Promoted
  /\ findings' = [findings EXCEPT ![f] = "dismissed"]
  /\ UNCHANGED <<intents, jobs, verdicts, receipts, active, approval, sending, prepared, told>>

(***************************************************************************)
(* The operator and the delivery                                             *)
(***************************************************************************)
Approve(d, f) ==
  /\ findings[f] = "awaiting_approval"
  /\ findings' = [findings EXCEPT ![f] = "confirmed"]
  /\ Prepare(d, f, TRUE)
  /\ UNCHANGED <<intents, jobs, verdicts, receipts, active, approval, told>>

Reject(f) ==
  /\ findings[f] = "awaiting_approval"
  /\ findings' = [findings EXCEPT ![f] = "dismissed"]
  /\ UNCHANGED <<intents, jobs, verdicts, receipts, active, approval, sending, prepared, told>>

SetApproval ==
  /\ approval' \in ApprovalModes
  /\ UNCHANGED <<findings, intents, jobs, verdicts, receipts, active, sending, prepared, told>>

\* The operator's recovery of a delivery that failed or was lost.
RetryReport(d, f) ==
  /\ findings[f] = "confirmed"
  /\ sending[d] = None
  /\ sending' = [sending EXCEPT ![d] = f]
  /\ UNCHANGED <<findings, intents, jobs, verdicts, receipts, active, approval, prepared, told>>

\* The report goes out and its receipt marks the finding, unless somebody else has.
Deliver(d) ==
  /\ sending[d] # None
  /\ sending' = [sending EXCEPT ![d] = None]
  /\ findings' = IF findings[sending[d]] = "confirmed"
                 THEN [findings EXCEPT ![sending[d]] = "reported"] ELSE findings
  /\ UNCHANGED <<intents, jobs, verdicts, receipts, active, approval, prepared, told>>

\* The delivery fails; the accepted verdict is retained.
DeliveryFails(d) ==
  /\ sending[d] # None
  /\ sending' = [sending EXCEPT ![d] = None]
  /\ UNCHANGED <<findings, intents, jobs, verdicts, receipts, active, approval, prepared, told>>

\* The server dies after the commits: a prepared report lives in memory only.
Restart ==
  /\ sending' = [d \in Dispatchers |-> None]
  /\ UNCHANGED <<findings, intents, jobs, verdicts, receipts, active, approval, prepared, told>>

Next ==
  \/ \E f \in Promoted : Promote(f)
  \/ \E f \in Legacy : SubmitLegacy(f)
  \/ \E j \in Jobs, f \in Promoted : Admit(j, f)
  \/ \E j \in Jobs : Reclaim(j) \/ RetryOrFail(j) \/ CancelJob(j)
  \/ CloseCampaign
  \/ \E d \in Dispatchers, j \in Jobs, payload \in Payloads : Finalize(d, j, payload)
  \/ \E d \in Dispatchers, receipt \in receipts : Replay(d, receipt)
  \/ \E f \in AllFindings : ReapStaleValidating(f) \/ Reject(f)
  \/ \E d \in Dispatchers, f \in AllFindings : Approve(d, f) \/ RetryReport(d, f)
  \/ \E d \in Dispatchers : Deliver(d) \/ DeliveryFails(d)
  \/ SetApproval
  \/ Restart

Spec == Init /\ [][Next]_vars

(***************************************************************************)
(* Properties                                                                *)
(***************************************************************************)
Receipt == [job : Jobs, attempt : 1 .. MAX_ATTEMPTS, payload : Payloads,
            state : {"validating", "awaiting_approval", "confirmed", "dismissed", "reported"}]

TypeOK ==
  /\ findings \in [AllFindings -> {"none", "validating", "awaiting_approval", "confirmed",
                                "dismissed", "reported"}]
  /\ intents \in [Promoted -> [state : {"none", "pending", "admitted", "blocked", "complete"},
                               sequence : 0 .. MaxSequence + 1, job : Jobs \cup {None}]]
  /\ jobs \in [Jobs -> [state : {"none", "queued", "leased", "succeeded", "failed", "cancelled"},
                        attempts : 0 .. MAX_ATTEMPTS, target : Promoted \cup {None}]]
  /\ verdicts \subseteq [finding : Promoted, job : Jobs, verdict : Verdicts]
  /\ receipts \subseteq Receipt /\ told \subseteq Receipt
  /\ active \in BOOLEAN /\ approval \in BOOLEAN
  /\ sending \in [Dispatchers -> AllFindings \cup {None}]
  /\ prepared \in [AllFindings -> Nat]

Conclusive(f) == {v \in verdicts : v.finding = f /\ v.verdict # "inconclusive"}

\* A promoted finding leaves validating by one conclusive verdict of an independent job
\* and by nothing else: not by attempts running out, not by an inconclusive verdict or a
\* blocked continuation, not by the reaper of stale verifications; and what it becomes
\* agrees with that verdict, an operator's rejection aside (verification.rs, finalize;
\* findings.rs, reap_stale_validating).
SettledByVerdict ==
  \A f \in Promoted :
    /\ findings[f] \in {"none", "validating"} <=> Conclusive(f) = {}
    /\ Cardinality(Conclusive(f)) <= 1
    /\ findings[f] \in {"awaiting_approval", "confirmed", "reported"} =>
         \E v \in Conclusive(f) : v.verdict = "confirmed"

\* A finding without a verdict never drops out of sight: its intent waits for a claim, is
\* admitted to a job that can still finish it, or is blocked where an operator sees it
\* (review_intents.rs, continue_subject_raw and block_job_work_raw).
NoVerificationLost ==
  \A f \in Promoted : findings[f] = "validating" =>
    \/ intents[f].state \in {"pending", "blocked"}
    \/ /\ intents[f].state = "admitted"
       /\ jobs[intents[f].job].state \in {"queued", "leased"}
       /\ jobs[intents[f].job].target = f

\* However often a finished request is repeated, whoever delivered meanwhile and whatever
\* the operator decided since, a worker is shown the receipt that was sealed with its
\* verdict, and there is one per job (review_authority/terminal.rs, verification_snapshot).
SealedAnswers ==
  /\ told \subseteq receipts
  /\ \A r, s \in receipts : r.job = s.job => r = s
  /\ \A r \in receipts : [finding |-> jobs[r.job].target, job |-> r.job,
                          verdict |-> r.payload.verdict] \in verdicts

\* The server prepares a finding's report by itself at most once, however often the worker
\* repeats the request; further deliveries are the operator's (verification.rs,
\* finalize_verification: "cannot prepare delivery").
PreparedOnce == \A f \in AllFindings : prepared[f] <= 1

\* A verdict settles its finding once, repeated requests get the sealed answer and
\* prepare no second report, and no finding waits for a verdict nobody works on.
VerdictsSettle ==
  /\ TypeOK /\ SettledByVerdict /\ NoVerificationLost /\ SealedAnswers /\ PreparedOnce

\* What one step keeps of SettledStays.
SettledStaysStep ==
  \A f \in AllFindings :
    /\ findings[f] \in {"dismissed", "reported"} => findings'[f] = findings[f]
    /\ findings[f] \in {"awaiting_approval", "confirmed"} =>
         findings'[f] \notin {"none", "validating"}
    /\ findings[f] = "confirmed" => findings'[f] \in {"confirmed", "reported"}

\* A settled finding is never unsettled: a dismissed one stays dismissed and a reported
\* one reported, and no operator takes back a finding that was let out (findings.rs,
\* approve and reject).
SettledStays == [][SettledStaysStep]_vars
=============================================================================
