------------------------------ MODULE MCQueue -------------------------------
(***************************************************************************)
(* The job queue and the server's request paths to it for TLC: the jobs and  *)
(* findings, the long poll, the workers' enrolment and the App tokens of a   *)
(* dispatch.  Each module keeps the part of the state it is about, and they  *)
(* have none in common: a behaviour runs one of them, `part`, while the      *)
(* others stay as they begin, and the states of a run are the sum of the     *)
(* components' states.                                                      *)
(***************************************************************************)
EXTENDS JobLifecycle, TLC

CONSTANTS
  Parts,                  \* the components a configuration runs
  PollJobs, PollWorkers, PollVerifiers, PollReviewers, MAX_LEASE_WAIT_SECS, MAX_REPAIRS,
  Names, Certs, Requests, WorkerJobs, PhasedJobs, LeaseTime,
  Dispatches, AppKeys, CacheSecs, MaxTime, MaxTokens

VARIABLES
  part,
  poll_jobs, unsent, poll, permit,
  workers, held, request, job, late,
  clock, cache, lock, session, github, rejected

pollVars == <<poll_jobs, unsent, poll, permit>>
enrolmentVars == <<workers, held, request, job, late>>
tokensVars == <<clock, cache, lock, session, github, rejected>>

\* The repository's settings a configuration may start from and change to.
VerifyOnly == {[verify |-> TRUE, approve |-> FALSE]}
AllSettings == [verify : BOOLEAN, approve : BOOLEAN]

\* The job queue runs in three scopes, which bound what a behaviour uses at once:
\* "leases" has two rows, and any workers and attempts; "recovery" every row, with one
\* attempt under way and one verdict of each verify job; and "settings" two rows and one
\* attempt, while the operator changes the repository's settings.
QueueParts == {"leases", "recovery", "settings"}

FewRows == Cardinality({j \in Jobs : jobs[j].state # "absent"}) <= 2

OneAttempt ==
  /\ Cardinality({a \in Attempts : attempt[a] # Idle \/ \E j \in Jobs : jobs[j].cap = a}) <= 1
  /\ \A a \in Attempts : attempt[a].worker \in VerifyWorkers \cup {None}

OneVerdictEach ==
  \A f \in Findings : \A v1, v2 \in verdicts[f] : v1.job = v2.job => v1 = v2

\* Of the workers that poll, some accept verify jobs and others review work: one can be
\* woken for a job that another takes or that it does not accept.
Poll == INSTANCE LongPoll WITH
  Jobs <- PollJobs, Workers <- PollWorkers, VerifyWorkers <- PollVerifiers,
  ReviewWorkers <- PollReviewers, jobs <- poll_jobs

\* Older jobs and those of campaigns, and requests in flight.
Enrol == INSTANCE Enrolment WITH Jobs <- WorkerJobs, Phased <- PhasedJobs

\* The keys stand for the App before and after the operator replaced it.
Tokens == INSTANCE AppTokens WITH Keys <- AppKeys

ASSUME Poll!ConstantsOK /\ Enrol!ConstantsOK /\ Tokens!ConstantsOK

-----------------------------------------------------------------------------
RunInit ==
  /\ part \in Parts
  /\ Init /\ Poll!Init /\ Enrol!Init /\ Tokens!Init
  /\ part # "settings" => repo \in VerifyOnly

\* All components but p stay as they are.
Others(p) ==
  /\ UNCHANGED part
  /\ p \notin QueueParts => UNCHANGED vars
  /\ p # "poll" => UNCHANGED pollVars
  /\ p # "enrolment" => UNCHANGED enrolmentVars
  /\ p # "tokens" => UNCHANGED tokensVars

RunNext ==
  \/ part = "leases" /\ Next /\ FewRows' /\ UNCHANGED repo /\ Others("leases")
  \/ part = "recovery" /\ Next /\ OneAttempt' /\ OneVerdictEach' /\ UNCHANGED repo
     /\ Others("recovery")
  \/ part = "settings" /\ Next /\ FewRows' /\ OneAttempt' /\ Others("settings")
  \/ part = "poll" /\ Poll!Next /\ Others("poll")
  \/ part = "enrolment" /\ Enrol!Next /\ Others("enrolment")
  \/ part = "tokens" /\ Tokens!Next /\ Others("tokens")

runVars == <<part, vars, pollVars, enrolmentVars, tokensVars>>

\* Certificates that are all revoked and jobs that are done leave nothing to do.
Rest == part = "enrolment" /\ UNCHANGED runVars

RunSpec == RunInit /\ [][RunNext \/ Rest]_runVars

\* The fairness of each component, for as long as it is the one that runs.
Fairness ==
  /\ WF_vars(part = "leases" /\ Tick)
  /\ WF_vars(part = "leases" /\ ReapLeases)
  /\ WF_vars(part = "leases" /\ ReapValidating)
  /\ WF_pollVars(part = "poll" /\ Poll!Tick)
  /\ \A w \in PollWorkers : WF_pollVars(part = "poll" /\ Poll!Handle(w))
  /\ WF_enrolmentVars(part = "enrolment" /\ Enrol!Tick)
  /\ \A j \in WorkerJobs : WF_enrolmentVars(part = "enrolment" /\ Enrol!Reap(j))
  /\ \A d \in Dispatches : /\ WF_tokensVars(part = "tokens" /\ Tokens!Answered(d))
                           /\ SF_tokensVars(part = "tokens" /\ Tokens!Locking(d))

RunFairSpec == RunSpec /\ Fairness

-----------------------------------------------------------------------------
(***************************************************************************)
(* What the runs check, beside the properties of JobLifecycle.  Each is      *)
(* stated, with the code it is about, in the component's module.            *)
(***************************************************************************)
\* LongPoll: no wake-up of a lease request gets lost.
WakeupsReachClaims == part = "poll" => Poll!WakeupsReachClaims

\* Enrolment: a revoked worker is refused, and nothing it sent before strays.
RevocationHolds == part = "enrolment" => Enrol!RevocationHolds

\* AppTokens: dispatches that share the cache post with fresh tokens of their own App.
TokensSound == part = "tokens" => Tokens!TokensSound

\* AppTokens: one re-mint per dispatch, as the comments of github.rs have it.
OneRemint == part = "tokens" => Tokens!OneRemint

\* Nobody has to ask: an abandoned lease is taken back, a validating finding is settled,
\* a lease request is answered, a revoked worker loses its jobs, and a dispatch ends
\* though GitHub may never answer.
QueueEnds ==
  /\ AbandonedLeaseEnds
  /\ ValidatingEnds
  /\ Poll!PollEnds
  /\ Enrol!RevokedLeasesEnd
  /\ Tokens!DispatchEnds

\* Rows, capabilities and requests are interchangeable.
Symmetry == Permutations(Jobs) \cup Permutations(Attempts)
=============================================================================
