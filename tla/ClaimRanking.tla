---------------------------- MODULE ClaimRanking ----------------------------
(***************************************************************************)
(* Which work a worker's claim takes.  Every claim ranks, over all          *)
(* repositories, the queued jobs and the campaign work that has no job yet, *)
(* leaves out the kinds its worker does not take and takes the first of the *)
(* rest: a survey that was passed over for long enough, then by band, by    *)
(* the repository's load and by age.                                        *)
(*                                                                          *)
(* Each repository has one running campaign here; what makes work due is in *)
(* Campaign.                                                                *)
(***************************************************************************)
EXTENDS Integers, FiniteSets, SequencesExt

CONSTANTS
  NWork,             \* sources of work, in the order of their ids
  Info,              \* Info[i]: repository, kind, band, drilldown it came from, legacy or not
  Repos, Workers,
  Reviews,           \* the campaign kinds each worker takes (review_capabilities)
  Verifiers,         \* the workers that take legacy verify jobs; all take scans
  None,
  REPO_CAP, TOTAL_CAP, SURVEY_CAP, DRILLDOWN_CAP, VERIFY_CAP,   \* active jobs
  VERIFY_RESERVED,   \* policy.verify_reserved_slots
  BURST,             \* policy.urgency_burst_length
  AGING_CAP,         \* policy.priority_aging_cap; the aging interval is one tick
  MAX_JOBS, URGENT_RESERVE, VERIFICATION_RESERVE,               \* the campaigns' budgets
  MAX_ATTEMPTS,
  MAX_NOW            \* bound on the clock

Work == 1..NWork
Kinds == {"scan", "survey", "drilldown", "verify"}
Bands == 0..3        \* urgent, high, normal, background
Pools == {"general", "urgent", "verification"}

ConstantsOK ==
  /\ NWork \in Nat
  /\ Info \in [Work -> [repo : Repos, kind : Kinds, band : Bands, origin : Work \cup {None}, legacy : BOOLEAN]]
  /\ \A i \in Work : IF Info[i].legacy THEN Info[i].kind \in {"scan", "verify"} ELSE Info[i].kind # "scan"
  /\ {REPO_CAP, TOTAL_CAP, SURVEY_CAP, DRILLDOWN_CAP, VERIFY_CAP, BURST, MAX_JOBS, MAX_ATTEMPTS} \subseteq Nat \ {0}
  /\ {VERIFY_RESERVED, AGING_CAP, URGENT_RESERVE, VERIFICATION_RESERVE, MAX_NOW} \subseteq Nat
  /\ VERIFY_RESERVED < REPO_CAP /\ VERIFY_RESERVED <= VERIFY_CAP
  /\ URGENT_RESERVE + VERIFICATION_RESERVE < MAX_JOBS
  /\ IsFiniteSet(Repos) /\ IsFiniteSet(Workers)
  /\ Reviews \in [Workers -> SUBSET {"survey", "drilldown", "verify"}] /\ Verifiers \subseteq Workers
  /\ None \notin Pools

VARIABLES
  now,
  work,      \* state, age, attempts and, of a drilldown, worker of each source
  spent,     \* admission charges per repository and pool
  burst,     \* scheduler_repo_state.burst
  recent,    \* repositories by their last claim (last_claim_seq), the latest at the end
  passed,    \* history: claims of the repository that passed over a survey,
  borrowed   \* and those of them by which a worker without surveys ended a burst

vars == <<now, work, spent, burst, recent, passed, borrowed>>

Campaigned == {i \in Work : ~ Info[i].legacy}
OfRepo(r) == {i \in Campaigned : Info[i].repo = r}
Leased == {i \in Campaigned : work[i].state = "leased"}
ActiveIn(r) == Cardinality({i \in Leased : Info[i].repo = r})
ActiveOf(r, kind) == Cardinality({i \in Leased : Info[i].repo = r /\ Info[i].kind = kind})
KindCap == [survey |-> SURVEY_CAP, drilldown |-> DRILLDOWN_CAP, verify |-> VERIFY_CAP]

(***************************************************************************)
(* The budget, as the ranking query sees it and as the charge sees it       *)
(***************************************************************************)
GeneralCap == MAX_JOBS - URGENT_RESERVE - VERIFICATION_RESERVE

\* The query's condition.
Fundable(i) ==
  LET s == spent[Info[i].repo]
  IN  /\ s["general"] + s["urgent"] + s["verification"] < MAX_JOBS
      /\ \/ s["general"] < GeneralCap
         \/ Info[i].kind = "verify" /\ s["verification"] < VERIFICATION_RESERVE
         \/ Info[i].band = 0 /\ Info[i].kind \in {"verify", "drilldown"} /\ s["urgent"] < URGENT_RESERVE

\* The pools a job's class may draw on.
MayDraw(i, pool) ==
  \/ pool = "general"
  \/ pool = "verification" /\ Info[i].kind = "verify"
  \/ pool = "urgent" /\ Info[i].band = 0 /\ Info[i].kind # "survey"

\* The pool a new job is charged to: general, then the reserves, the verifications' first.
ChoosePool(i) ==
  LET s == spent[Info[i].repo]
      cap == [general |-> GeneralCap, urgent |-> URGENT_RESERVE, verification |-> VERIFICATION_RESERVE]
      open == {p \in Pools : /\ s["general"] + s["urgent"] + s["verification"] # MAX_JOBS
                             /\ MayDraw(i, p) /\ s[p] < cap[p]}
  IN  IF "general" \in open THEN "general"
      ELSE IF "verification" \in open THEN "verification"
      ELSE IF "urgent" \in open THEN "urgent" ELSE None

(***************************************************************************)
(* The candidates of a claim                                                *)
(***************************************************************************)
\* A retry is a queued job and charged already; other campaign work has no job yet.
Eligible(i) ==
  LET r == Info[i].repo
  IN  \/ Info[i].legacy /\ work[i].state = "queued"
      \/ /\ ~ Info[i].legacy
         /\ \/ work[i].state = "queued" /\ work[i].attempts < MAX_ATTEMPTS
            \/ work[i].state = "fresh" /\ Fundable(i)
         /\ ActiveIn(r) < REPO_CAP
         /\ Cardinality(Leased) < TOTAL_CAP
         /\ ActiveOf(r, Info[i].kind) < KindCap[Info[i].kind]

Larger(a, b) == IF a > b THEN a ELSE b
Smaller(a, b) == IF a < b THEN a ELSE b

\* Other work leaves free the slots that verifications may still claim.
WithinReserve(i) ==
  LET r == Info[i].repo
  IN  ActiveIn(r) < REPO_CAP - Larger(0, VERIFY_RESERVED - ActiveOf(r, "verify"))

VerifyWaits(r) == \E v \in OfRepo(r) : Info[v].kind = "verify" /\ Eligible(v)

\* What the next claim may take, whoever makes it ...
Offered(i) ==
  /\ Eligible(i)
  /\ \/ Info[i].legacy \/ Info[i].kind = "verify"
     \/ ~ VerifyWaits(Info[i].repo)
     \/ WithinReserve(i)

Takes(w, i) ==
  IF Info[i].legacy THEN Info[i].kind = "scan" \/ w \in Verifiers ELSE Info[i].kind \in Reviews[w]

\* ... and what it may take when w makes it.
Candidates(w) == {i \in Work : Takes(w, i) /\ Offered(i)}

(***************************************************************************)
(* The ranking                                                              *)
(***************************************************************************)
BurstPromoted(i) == Info[i].kind = "survey" /\ burst[Info[i].repo] >= BURST

\* The worker that drilled down should not verify what came of it.
AntiAffinity(i, w) ==
  IF Info[i].kind = "verify" /\ Info[i].origin # None /\ work[Info[i].origin].worker = w THEN 1 ELSE 0

LastClaim(r) == IF \E n \in DOMAIN recent : recent[n] = r
                THEN CHOOSE n \in DOMAIN recent : recent[n] = r ELSE 0

Age(i) == now - work[i].since

\* Smaller is better, component by component.
RankKey(i, w) ==
  LET r == Info[i].repo
  IN  << IF BurstPromoted(i) THEN 0 ELSE 1,
         IF BurstPromoted(i) THEN work[i].since ELSE 0,
         IF Info[i].legacy THEN 2 ELSE Info[i].band,
         AntiAffinity(i, w),
         IF Info[i].legacy THEN 0 ELSE ActiveIn(r),
         IF Info[i].legacy THEN 0 ELSE LastClaim(r),
         IF Info[i].legacy THEN (IF Info[i].kind = "verify" THEN -1 ELSE 0) ELSE - Smaller(Age(i), AGING_CAP),
         work[i].since,
         IF work[i].state = "queued" THEN 0 ELSE 1,
         i >>

Better(k, l) == \E n \in DOMAIN k : k[n] < l[n] /\ \A m \in 1..(n - 1) : k[m] = l[m]

First(w) ==
  LET ranked == {<<i, RankKey(i, w)>> : i \in Candidates(w)}
  IN  (CHOOSE c \in ranked : \A d \in ranked \ {c} : Better(c[2], d[2]))[1]

(***************************************************************************)
(* Claims                                                                   *)
(***************************************************************************)
Init ==
  /\ now = 0
  /\ work = [i \in Work |-> [state |-> "none", since |-> 0, attempts |-> 0, worker |-> None]]
  /\ spent = [r \in Repos |-> [p \in Pools |-> 0]]
  /\ burst = [r \in Repos |-> 0]
  /\ recent = <<>>
  /\ passed = [r \in Repos |-> 0]
  /\ borrowed = [r \in Repos |-> 0]

Arrive(i) ==
  /\ work[i].state = "none"
  /\ work' = [work EXCEPT ![i].state = IF Info[i].legacy THEN "queued" ELSE "fresh", ![i].since = now]
  /\ UNCHANGED <<now, spent, burst, recent, passed, borrowed>>

\* Surveys start the count again, and so does the first other claim after the burst.
NextBurst(i) ==
  LET b == burst[Info[i].repo]
  IN  IF Info[i].kind = "survey" \/ b >= BURST THEN 0 ELSE b + 1

\* The claim takes other work of the repository though a survey could run.
PassesOver(i) ==
  /\ Info[i].kind # "survey"
  /\ \E s \in OfRepo(Info[i].repo) : Info[s].kind = "survey" /\ Offered(s)

\* Such claims in a row.
NextPassed(i) == IF PassesOver(i) THEN passed[Info[i].repo] + 1 ELSE 0

\* The burst is over and a survey due, but the worker does not take surveys.
Borrows(w, i) == burst[Info[i].repo] >= BURST /\ "survey" \notin Reviews[w]

NextBorrowed(w, i) ==
  IF ~ PassesOver(i) THEN 0
  ELSE borrowed[Info[i].repo] + (IF Borrows(w, i) THEN 1 ELSE 0)

\* A legacy job has no part in the repositories' turns.
ClaimLegacy(w) ==
  /\ Candidates(w) # {}
  /\ LET i == First(w)
     IN  Info[i].legacy /\ work' = [work EXCEPT ![i].state = "leased"]
  /\ UNCHANGED <<now, spent, burst, recent, passed, borrowed>>

\* A candidate whose budget is refused ends the claim without any work.
Claim(w) ==
  /\ Candidates(w) # {}
  /\ LET i == First(w)
         r == Info[i].repo
         fresh == work[i].state = "fresh"
     IN
      /\ ~ Info[i].legacy
      /\ fresh => ChoosePool(i) # None
      /\ work' = [work EXCEPT ![i].state = "leased", ![i].attempts = @ + 1,
                              ![i].since = IF fresh THEN now ELSE @,
                              ![i].worker = IF Info[i].kind = "drilldown" THEN w ELSE @]
      /\ spent' = IF fresh THEN [spent EXCEPT ![r][ChoosePool(i)] = @ + 1] ELSE spent
      /\ burst' = [burst EXCEPT ![r] = NextBurst(i)]
      /\ recent' = Append(RemoveFirst(recent, r), r)
      /\ passed' = [passed EXCEPT ![r] = NextPassed(i)]
      /\ borrowed' = [borrowed EXCEPT ![r] = NextBorrowed(w, i)]
      /\ UNCHANGED now

\* The job ends; its repository may have new work of the kind later.
Finish(i) ==
  /\ work[i].state = "leased"
  /\ work' = [work EXCEPT ![i].state = "none", ![i].attempts = 0]
  /\ UNCHANGED <<now, spent, burst, recent, passed, borrowed>>

Requeue(i) ==
  /\ work[i].state = "leased" /\ ~ Info[i].legacy
  /\ work[i].attempts < MAX_ATTEMPTS
  /\ work' = [work EXCEPT ![i].state = "queued"]
  /\ UNCHANGED <<now, spent, burst, recent, passed, borrowed>>

\* The turns are kept in temporary tables: a restart of the server forgets them.
Restart ==
  /\ burst' = [r \in Repos |-> 0]
  /\ recent' = <<>>
  /\ passed' = [r \in Repos |-> 0]
  /\ borrowed' = [r \in Repos |-> 0]
  /\ UNCHANGED <<now, work, spent>>

Tick ==
  /\ now < MAX_NOW
  /\ now' = now + 1
  /\ UNCHANGED <<work, spent, burst, recent, passed, borrowed>>

Next ==
  \/ \E i \in Work : Arrive(i) \/ Finish(i) \/ Requeue(i)
  \/ \E w \in Workers : ClaimLegacy(w) \/ Claim(w)
  \/ Restart
  \/ Tick

Spec == Init /\ [][Next]_vars

(***************************************************************************)
(* Properties                                                               *)
(***************************************************************************)
\* Every variable holds what its table may hold.
TypeOK ==
  /\ now \in 0..MAX_NOW
  /\ work \in [Work -> [state : {"none", "fresh", "queued", "leased"}, since : 0..MAX_NOW,
                        attempts : 0..MAX_ATTEMPTS, worker : Workers \cup {None}]]
  /\ spent \in [Repos -> [Pools -> 0..MAX_JOBS]]
  /\ burst \in [Repos -> 0..BURST]
  /\ recent \in Seq(Repos) /\ IsInjective(recent)
  /\ passed \in [Repos -> Nat] /\ borrowed \in [Repos -> Nat]

\* The ranking query never puts first a candidate that the charge then refuses: such a
\* candidate would end every claim empty-handed while other work waits behind it
\* (claim_in_transaction returns no work on CapacityRefused).
NoBarrenClaim ==
  \A w \in Workers :
    Candidates(w) # {} => LET i == First(w) IN work[i].state = "fresh" => ChoosePool(i) # None

\* A survey that could run waits for BURST claims of its repository at most, whatever the
\* bands of the other work and of other repositories, and then for as many again only when
\* a worker that takes no surveys ended the burst with other work
\* (scheduler/tests/fairness.rs, "a borrowed opportunity").
SurveyWaitBounded == \A r \in Repos : passed[r] <= BURST + (BURST + 1) * borrowed[r]

NonVerify(r) == ActiveIn(r) - ActiveOf(r, "verify")

\* What one step keeps of ReserveKept.
ReserveKeptStep ==
  \A r \in Repos :
    VerifyWaits(r) /\ NonVerify(r) <= REPO_CAP - VERIFY_RESERVED
      => NonVerify(r)' <= REPO_CAP - VERIFY_RESERVED

\* A slot that is free for a waiting verification stays free for it: as long as one waits,
\* no sequence of claims, ends and retries fills the repository with other work.
ReserveKept == [][ReserveKeptStep]_vars
=============================================================================
