---------------------------- MODULE LeadEvidence ----------------------------
(***************************************************************************)
(* Leads and the evidence about them: checkpoints that a worker repeats      *)
(* when their answer is lost, attempts of a job that follow one another,     *)
(* observations of a lead somebody found before, the one drilldown a lead    *)
(* has at a time, and the terminal receipt that decides it.                  *)
(*                                                                           *)
(* One generation.  A payload stands for its digest; a refused request       *)
(* (malformed references, a hint that was not issued, a key used for another *)
(* payload) rolls back and leaves no trace.  Every request is one            *)
(* transaction.  The review units behind a survey and the budget behind an   *)
(* admission are in SurveyUnits and Campaign.                                *)
(***************************************************************************)
EXTENDS Naturals, Sequences, FiniteSets

CONSTANTS
  Surveys, Drilldowns,    \* the jobs
  Identities,             \* vulnerability family, anchor and instance
  Bodies,                 \* what else an evidence payload says
  Keys,                   \* client keys of a job's checkpoints
  None,
  MAX_ATTEMPTS,
  MAX_LEADS_PER_SURVEY,
  MAX_SIBLING_LEADS_PER_DRILLDOWN,
  QUERY_LIMIT,            \* candidate queries per job
  MaxSequence             \* bound: logical continuations of a lead

PhaseJobs == Surveys \cup Drilldowns
Continuations == {"source_analysis_remaining", "external_dependency"}
Payloads == [identity : Identities, body : Bodies]

ConstantsOK ==
  /\ Surveys \cap Drilldowns = {}
  /\ None \notin PhaseJobs
  /\ MAX_ATTEMPTS \in Nat \ {0}
  /\ {MAX_LEADS_PER_SURVEY, MAX_SIBLING_LEADS_PER_DRILLDOWN, QUERY_LIMIT, MaxSequence} \subseteq Nat

VARIABLES
  jobs,          \* state, attempts (an attempt has its own capability) and assigned lead
  leads,         \* the leads in the order of their ids
  observations,  \* what was attached to a lead that existed: lead and job
  intents,       \* per lead, the drilldown it waits for or has
  findings,      \* identity and origin lead of each promoted finding
  checkpoints,   \* accepted requests of the jobs with their recorded answers
  receipts,      \* terminal receipts
  told           \* history: every answer given, with the request it answers

vars == <<jobs, leads, observations, intents, findings, checkpoints, receipts, told>>

Limit(j) == IF j \in Surveys THEN MAX_LEADS_PER_SURVEY ELSE MAX_SIBLING_LEADS_PER_DRILLDOWN

Leased(j) == jobs[j].state = "leased"

Init ==
  /\ jobs = [j \in PhaseJobs |-> [state |-> IF j \in Surveys THEN "queued" ELSE "absent",
                             attempts |-> 0, lead |-> 0]]
  /\ leads = <<>> /\ observations = <<>> /\ intents = <<>> /\ findings = <<>>
  /\ checkpoints = {} /\ receipts = {} /\ told = {}

(***************************************************************************)
(* Leases                                                                    *)
(***************************************************************************)
Claim(j) ==
  /\ jobs[j].state = "queued"
  /\ jobs' = [jobs EXCEPT ![j].state = "leased", ![j].attempts = @ + 1]
  /\ UNCHANGED <<leads, observations, intents, findings, checkpoints, receipts, told>>

PendingEligible(i) == i.state = "pending"

\* A drilldown is created with its first lease; a deferred lead is open again.
Admit(j, l) ==
  /\ jobs[j].state = "absent"
  /\ PendingEligible(intents[l])
  /\ jobs' = [jobs EXCEPT ![j] = [state |-> "leased", attempts |-> 1, lead |-> l]]
  /\ intents' = [intents EXCEPT ![l].state = "admitted", ![l].job = j]
  /\ leads' = [leads EXCEPT ![l].status = "open"]
  /\ UNCHANGED <<observations, findings, checkpoints, receipts, told>>

BlockJobWork(j) ==
  [l \in DOMAIN intents |->
     IF intents[l].state = "admitted" /\ intents[l].job = j
     THEN [intents[l] EXCEPT !.state = "blocked"] ELSE intents[l]]

\* The attempt ends without a receipt: expiry, release or failure.
EndAttempt(j) ==
  /\ Leased(j)
  /\ IF jobs[j].attempts < MAX_ATTEMPTS
     THEN /\ jobs' = [jobs EXCEPT ![j].state = "queued"]
          /\ UNCHANGED intents
     ELSE /\ jobs' = [jobs EXCEPT ![j].state = "failed"]
          /\ intents' = BlockJobWork(j)
  /\ UNCHANGED <<leads, observations, findings, checkpoints, receipts, told>>

(***************************************************************************)
(* Checkpoints                                                               *)
(***************************************************************************)
\* Fault: only a repetition within the attempt counts as one.
StoredThisAttempt(j, op, key) ==
  {c \in checkpoints : c.job = j /\ c.op = op /\ c.key = key /\ c.attempt = jobs[j].attempts}

Stored(j, op, key) == {c \in checkpoints : c.job = j /\ c.op = op /\ c.key = key}

Hit(j, op, key, payload) == {c \in Stored(j, op, key) : c.payload = payload}

Miss(j, op, key) == Stored(j, op, key) = {}

AcceptedCount(j, op) == Cardinality({c \in checkpoints : c.job = j /\ c.op = op})

Tell(j, op, key, payload, answer) ==
  told' = told \cup {[job |-> j, op |-> op, key |-> key, payload |-> payload, answer |-> answer]}

Record(j, op, key, payload, answer) ==
  checkpoints' = checkpoints \cup
    {[job |-> j, op |-> op, key |-> key, payload |-> payload, answer |-> answer,
      attempt |-> jobs[j].attempts]}

\* A repetition gets the stored answer; the request itself does not run.
Replay(j, op, key, payload) ==
  /\ \E c \in Hit(j, op, key, payload) : Tell(j, op, key, payload, c.answer)
  /\ UNCHANGED <<jobs, leads, observations, intents, findings, checkpoints, receipts>>

(***************************************************************************)
(* Lead evidence                                                             *)
(***************************************************************************)
\* The leads of one identity (unique in the generation).
Known(identity) == {l \in DOMAIN leads : leads[l].identity = identity}

NewLead(j, identity) == [identity |-> identity, by |-> j, status |-> "open", disposition |-> None, of |-> 0]

\* A lead is born with the intent to drill it down.
InitialIntent == [state |-> "pending", job |-> None, sequence |-> 0]

CreateLead(j, key, payload, op) ==
  LET id == Len(leads) + 1
      answer == [lead |-> id, outcome |-> "created", observation |-> 0]
  IN  /\ Known(payload.identity) = {}
      /\ leads' = Append(leads, NewLead(j, payload.identity))
      /\ intents' = Append(intents, InitialIntent)
      /\ Record(j, op, key, payload, answer) /\ Tell(j, op, key, payload, answer)
      /\ UNCHANGED observations

\* Evidence for a lead that exists is kept beside it and changes neither its status nor
\* its intent.
AttachEvidence(j, key, payload, op) ==
  \E l \in Known(payload.identity) :
    LET answer == [lead |-> l,
                   outcome |-> IF leads[l].status = "closed" THEN "closed_exists" ELSE "attached",
                   observation |-> Len(observations) + 1]
    IN  /\ observations' = Append(observations, [lead |-> l, job |-> j])
        /\ Record(j, op, key, payload, answer) /\ Tell(j, op, key, payload, answer)
        /\ UNCHANGED <<leads, intents>>

SubmitLead(j, key, payload) ==
  /\ Leased(j)
  /\ \/ Replay(j, "lead", key, payload)
     \/ /\ Miss(j, "lead", key)
        /\ AcceptedCount(j, "lead") < Limit(j)
        /\ CreateLead(j, key, payload, "lead") \/ AttachEvidence(j, key, payload, "lead")
        /\ UNCHANGED <<jobs, findings, receipts>>

(***************************************************************************)
(* Duplicate candidates                                                      *)
(***************************************************************************)
\* The query is its own key; the answer is the leads and findings that match now.  What
\* the answer shows of a row never changes, so an issued id stays valid.
IssueCandidates(j, query) ==
  /\ Leased(j)
  /\ \/ Replay(j, "candidates", query, query)
     \/ LET answer == [leads |-> Known(query),
                       findings |-> {f \in DOMAIN findings : findings[f].identity = query}]
        IN  /\ Miss(j, "candidates", query)
            /\ AcceptedCount(j, "candidates") < QUERY_LIMIT
            /\ Record(j, "candidates", query, query, answer)
            /\ Tell(j, "candidates", query, query, answer)
            /\ UNCHANGED <<jobs, leads, observations, intents, findings, receipts>>

IssuedLeads(j) == UNION {c.answer.leads : c \in {d \in checkpoints : d.job = j /\ d.op = "candidates"}}

IssuedFindings(j) ==
  UNION {c.answer.findings : c \in {d \in checkpoints : d.job = j /\ d.op = "candidates"}}

(***************************************************************************)
(* Terminal receipts                                                         *)
(***************************************************************************)
Receipt(j, payload, answer) ==
  [job |-> j, attempt |-> jobs[j].attempts, payload |-> payload, answer |-> answer]

ReplayTerminal(j, attempt, payload) ==
  {r \in receipts : r.job = j /\ r.attempt = attempt /\ r.payload = payload}

\* The finishing capability reads its receipt again after the job has ended.
ReplayReceipt(j, attempt, payload) ==
  /\ \E r \in ReplayTerminal(j, attempt, payload) : Tell(j, "finish", attempt, payload, r.answer)
  /\ UNCHANGED <<jobs, leads, observations, intents, findings, checkpoints, receipts>>

Seal(j, payload, answer) ==
  /\ jobs' = [jobs EXCEPT ![j].state = "succeeded"]
  /\ receipts' = receipts \cup {Receipt(j, payload, answer)}
  /\ Tell(j, "finish", jobs[j].attempts, payload, answer)
  /\ UNCHANGED <<observations, checkpoints>>

FinalizeSurvey(j) ==
  /\ Leased(j)
  /\ Seal(j, [decision |-> "completed", target |-> None], [finding |-> 0])
  /\ UNCHANGED <<leads, intents, findings>>

FinishSubjectIntent(j) == [intents EXCEPT ![jobs[j].lead].state = "complete"]

Close(j, decision, of) ==
  /\ leads' = [leads EXCEPT ![jobs[j].lead].status = "closed",
                            ![jobs[j].lead].disposition = decision,
                            ![jobs[j].lead].of = of]
  /\ intents' = FinishSubjectIntent(j)

\* What every decision of a drilldown needs.
Deciding(j) ==
  /\ Leased(j)
  /\ leads[jobs[j].lead].status = "open"
  /\ intents[jobs[j].lead].state = "admitted"
  /\ intents[jobs[j].lead].job = j

\* The finding is identified by what the promotion says, not by the lead; its verification
\* (an intent of the same transaction) is in Campaign.
Promote(j, identity) ==
  LET id == Len(findings) + 1
  IN  /\ Deciding(j)
      /\ \A f \in DOMAIN findings : findings[f].identity # identity
      /\ findings' = Append(findings, [identity |-> identity, origin |-> jobs[j].lead])
      /\ Close(j, "promoted", id)
      /\ Seal(j, [decision |-> "promoted", target |-> identity], [finding |-> id])

RejectLead(j, decision) ==
  /\ Deciding(j)
  /\ Close(j, decision, 0)
  /\ Seal(j, [decision |-> decision, target |-> None], [finding |-> 0])
  /\ UNCHANGED findings

DuplicateOfLead(j, l) ==
  /\ Deciding(j)
  /\ l \in IssuedLeads(j) \ {jobs[j].lead}
  /\ Close(j, "duplicate_lead", l)
  /\ Seal(j, [decision |-> "duplicate_lead", target |-> l], [finding |-> 0])
  /\ UNCHANGED findings

DuplicateOfFinding(j, f) ==
  /\ Deciding(j)
  /\ f \in IssuedFindings(j)
  /\ Close(j, "duplicate_finding", f)
  /\ Seal(j, [decision |-> "duplicate_finding", target |-> f], [finding |-> 0])
  /\ UNCHANGED findings

ContinuationState(class) == IF class = "source_analysis_remaining" THEN "pending" ELSE "blocked"

\* More source analysis waits for another drilldown, anything else is blocked.
Defer(j, class) ==
  /\ Deciding(j)
  /\ intents[jobs[j].lead].sequence < MaxSequence
  /\ leads' = [leads EXCEPT ![jobs[j].lead].status = "deferred"]
  /\ intents' = [intents EXCEPT ![jobs[j].lead] =
                   [state |-> ContinuationState(class),
                    job |-> None, sequence |-> @.sequence + 1]]
  /\ Seal(j, [decision |-> class, target |-> None], [finding |-> 0])
  /\ UNCHANGED findings

(***************************************************************************)
(* Specification                                                             *)
(***************************************************************************)
Terminals ==
  {[decision |-> d, target |-> None] : d \in {"completed", "rejected", "hardening"} \cup Continuations}
    \cup [decision : {"promoted"}, target : Identities]
    \cup [decision : {"duplicate_lead"}, target : DOMAIN leads]
    \cup [decision : {"duplicate_finding"}, target : DOMAIN findings]

Next ==
  \/ \E j \in PhaseJobs : Claim(j) \/ EndAttempt(j)
  \/ \E j \in Drilldowns : \E l \in DOMAIN intents : Admit(j, l)
  \/ \E j \in PhaseJobs, key \in Keys, payload \in Payloads : SubmitLead(j, key, payload)
  \/ \E j \in PhaseJobs, query \in Identities : IssueCandidates(j, query)
  \/ \E j \in Surveys : FinalizeSurvey(j)
  \/ \E j \in Drilldowns :
       \/ \E identity \in Identities : Promote(j, identity)
       \/ \E decision \in {"rejected", "hardening"} : RejectLead(j, decision)
       \/ \E l \in DOMAIN leads : DuplicateOfLead(j, l)
       \/ \E f \in DOMAIN findings : DuplicateOfFinding(j, f)
       \/ \E class \in Continuations : Defer(j, class)
  \/ \E j \in PhaseJobs, attempt \in 1 .. MAX_ATTEMPTS : \E payload \in Terminals :
       ReplayReceipt(j, attempt, payload)

Spec == Init /\ [][Next]_vars

(***************************************************************************)
(* Properties                                                                *)
(***************************************************************************)
TypeOK ==
  /\ jobs \in [PhaseJobs -> [state : {"absent", "queued", "leased", "succeeded", "failed"},
                        attempts : 0 .. MAX_ATTEMPTS, lead : 0 .. Len(leads)]]
  /\ \A l \in DOMAIN leads :
       /\ leads[l].identity \in Identities /\ leads[l].by \in PhaseJobs
       /\ leads[l].status \in {"open", "deferred", "closed"}
  /\ \A o \in DOMAIN observations : observations[o].lead \in DOMAIN leads /\ observations[o].job \in PhaseJobs
  /\ Len(intents) = Len(leads)
  /\ \A l \in DOMAIN intents :
       /\ intents[l].state \in {"pending", "admitted", "blocked", "complete"}
       /\ intents[l].job \in Drilldowns \cup {None}
  /\ \A f \in DOMAIN findings : findings[f].origin \in DOMAIN leads

\* A checkpoint repeated with the same key and payload gets the answer it got first, from
\* whichever attempt of the job it comes and whatever happened to the lead since; the
\* answer names a lead of the payload's identity; and a job tells one terminal decision
\* (evidence.rs, submit_lead_for and evidence_replay; terminal_receipt.rs,
\* replay_terminal).
AnswersAgree ==
  \A a \in told :
    /\ a.op = "lead" => leads[a.answer.lead].identity = a.payload.identity
    /\ \A b \in told :
         (a.job = b.job /\ a.op = b.op /\ (a.op = "finish" \/ (a.key = b.key /\ a.payload = b.payload)))
           => a = b

\* The rows a job leaves, leads and observations, are exactly its distinct accepted
\* requests and stay within its limit over all of its attempts (evidence.rs,
\* submit_lead_for; checkpoints.rs, accepted_count_raw).
EvidenceBounded ==
  \A j \in PhaseJobs :
    LET rows == Cardinality({l \in DOMAIN leads : leads[l].by = j})
                  + Cardinality({o \in DOMAIN observations : observations[o].job = j})
    IN  /\ rows = Cardinality({c.key : c \in {d \in checkpoints : d.job = j /\ d.op = "lead"}})
        /\ rows <= Limit(j)

\* One identity is drilled down by one live job at most, and never again once a lead of it
\* was decided, however often surveys and siblings report it (leads.rs, submit_inner;
\* review_intents.rs, ensure_drilldown_intent_raw and admit_subject_raw).
OneDrilldown ==
  LET live == {j \in Drilldowns : jobs[j].state \in {"queued", "leased"}}
      identity(j) == leads[jobs[j].lead].identity
  IN  \A j \in live :
        /\ \A k \in live : identity(j) = identity(k) => j = k
        /\ \A l \in DOMAIN leads : leads[l].identity = identity(j) => leads[l].status = "open"

\* No lead is forgotten: an undecided one waits for a drilldown, has a live one, or is
\* blocked; a decided one is complete (review_intents.rs; drilldown.rs, finalize).
LeadsAccounted ==
  \A l \in DOMAIN leads :
    /\ leads[l].status = "closed" <=> intents[l].state = "complete"
    /\ intents[l].state = "admitted" =>
         /\ leads[l].status = "open"
         /\ jobs[intents[l].job].lead = l
         /\ jobs[intents[l].job].state \in {"queued", "leased"}

\* A decision a worker was told stays the lead's disposition for good, and a promotion's
\* finding comes from that lead (drilldown.rs, finalize; leads.rs, close_raw).
DecisionStands ==
  \A a \in told :
    (a.op = "finish" /\ a.job \in Drilldowns /\ a.payload.decision \notin Continuations)
      => LET l == jobs[a.job].lead
         IN  /\ leads[l].status = "closed"
             /\ leads[l].disposition = a.payload.decision
             /\ a.payload.decision = "promoted" => findings[a.answer.finding].origin = l
=============================================================================
