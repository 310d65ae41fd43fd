------------------------------ MODULE LongPoll ------------------------------
(***************************************************************************)
(* The long poll of POST /v1/jobs/lease and the Notify it sleeps on.  A     *)
(* handler that queues work commits first and notifies afterwards; a poll   *)
(* subscribes first and looks at the queue afterwards.  Each of these is a  *)
(* step of its own here.  The checkpoints of a campaign review wake one     *)
(* poll only (notify_one); the reaper and the campaign tick wake nobody.    *)
(* The Notify itself is tokio's: a single wake-up goes to a poll that       *)
(* sleeps, or is stored as a permit for the next one, and is passed on when *)
(* the poll is dropped before it ran again.                                 *)
(***************************************************************************)
EXTENDS Naturals, FiniteSets

CONSTANTS
  Jobs,                \* rows of the jobs table, used again when they end
  Workers,
  VerifyWorkers,       \* workers that advertise a verify:* capability
  ReviewWorkers,       \* workers that advertise the review capability
  MAX_LEASE_WAIT_SECS,
  MAX_REPAIRS          \* incompatible jobs one poll may quarantine

ConstantsOK ==
  /\ IsFiniteSet(Jobs)
  /\ VerifyWorkers \subseteq Workers
  /\ ReviewWorkers \subseteq Workers
  /\ MAX_LEASE_WAIT_SECS \in Nat
  /\ MAX_REPAIRS \in Nat \ {0}

VARIABLES
  jobs,     \* state, kind, whom its arrival is told and whether a claim has looked since
  unsent,   \* jobs that are committed and whose handler has not notified yet
  poll,     \* each worker's lease request
  permit    \* the Notify's stored single wake-up

vars == <<jobs, unsent, poll, permit>>

Kinds == {"scan", "verify", "review"}

NoJob == [state |-> "absent", kind |-> "scan", told |-> "nobody", seen |-> TRUE]

\* From its subscription on a poll hears of notifications, asleep or not.
Subscribed == {"subscribed", "checked", "asleep"}

NoPoll == [pc |-> "idle", woken |-> "no", left |-> 0, repairs |-> 0]

Accepted(w) ==
  {j \in Jobs : /\ jobs[j].state = "queued"
                /\ jobs[j].kind = "verify" => w \in VerifyWorkers
                /\ jobs[j].kind = "review" => w \in ReviewWorkers}

Init ==
  /\ jobs = [j \in Jobs |-> NoJob]
  /\ unsent = {}
  /\ poll = [w \in Workers |-> NoPoll]
  /\ permit = FALSE

(***************************************************************************)
(* The queue.  Arrive stands for every handler that queues work and tells   *)
(* all: the operator's scan and retries, a completion, a phase's receipt    *)
(* and the scheduler; Checkpoint for the two that tell one: a lead and a    *)
(* unit result; Replenish for the campaign tick, which tells nobody.        *)
(***************************************************************************)
Queued(j, kind, told) ==
  /\ jobs[j].state = "absent"
  /\ j \notin unsent
  /\ jobs' = [jobs EXCEPT ![j] =
       [state |-> "queued", kind |-> kind, told |-> told, seen |-> told # "one"]]

Arrive(j, kind) ==
  /\ Queued(j, kind, "all")
  /\ unsent' = unsent \cup {j}
  /\ UNCHANGED <<poll, permit>>

Checkpoint(j) ==
  /\ Queued(j, "review", "one")
  /\ unsent' = unsent \cup {j}
  /\ UNCHANGED <<poll, permit>>

Replenish(j) ==
  /\ Queued(j, "review", "nobody")
  /\ UNCHANGED <<unsent, poll, permit>>

\* Fault: a poll that has looked at the queue but does not sleep yet is not woken.
NotifySleepers(j) ==
  /\ j \in unsent
  /\ jobs[j].told # "one"
  /\ unsent' = unsent \ {j}
  /\ poll' = [w \in Workers |-> IF poll[w].pc = "asleep"
                                THEN [poll[w] EXCEPT !.woken = "all"] ELSE poll[w]]
  /\ UNCHANGED <<jobs, permit>>

\* notify_waiters wakes every future that exists, polled or not.
NotifyWaiters(j) ==
  /\ j \in unsent
  /\ jobs[j].told # "one"
  /\ unsent' = unsent \ {j}
  /\ poll' = [w \in Workers |-> IF poll[w].pc \in Subscribed /\ poll[w].woken = "no"
                                THEN [poll[w] EXCEPT !.woken = "all"] ELSE poll[w]]
  /\ UNCHANGED <<jobs, permit>>

Sleeping(polls) == {w \in Workers : polls[w].pc = "asleep" /\ polls[w].woken = "no"}

\* One of the sleeping polls gets the wake-up; with none it is stored, once.
WakeOne(polls) ==
  \/ \E w \in Sleeping(polls) : /\ poll' = [polls EXCEPT ![w].woken = "one"]
                                /\ UNCHANGED permit
  \/ /\ Sleeping(polls) = {}
     /\ poll' = polls
     /\ permit' = TRUE

NotifyOne(j) ==
  /\ j \in unsent
  /\ jobs[j].told = "one"
  /\ unsent' = unsent \ {j}
  /\ WakeOne(poll)
  /\ UNCHANGED jobs

\* The reaper puts a job back, or a phase's failure does with a time before which no
\* claim takes it: nobody is told when that time comes.
Requeue(j) ==
  /\ jobs[j].state = "leased"
  /\ jobs' = [jobs EXCEPT ![j].state = "queued", ![j].told = "nobody"]
  /\ UNCHANGED <<unsent, poll, permit>>

\* Completed, or cancelled in either state.
Leave(j) ==
  /\ jobs[j].state # "absent"
  /\ jobs' = [jobs EXCEPT ![j] = [NoJob EXCEPT !.told = IF j \in unsent THEN jobs[j].told
                                                      ELSE "nobody"]]
  /\ UNCHANGED <<unsent, poll, permit>>

(***************************************************************************)
(* The poll                                                                 *)
(***************************************************************************)
Request(w, wait) ==
  /\ poll[w].pc = "idle"
  /\ poll' = [poll EXCEPT ![w] =
       [pc |-> "polling", woken |-> "no", left |-> wait, repairs |-> MAX_REPAIRS]]
  /\ UNCHANGED <<jobs, unsent, permit>>

Subscribe(w) ==
  /\ poll[w].pc = "polling"
  /\ poll' = [poll EXCEPT ![w].pc = "subscribed", ![w].woken = "no"]
  /\ UNCHANGED <<jobs, unsent, permit>>

\* Every queued job has been looked at; the undeliverable ones are quarantined.
Looked == [j \in Jobs |-> IF jobs[j].state = "queued" THEN [jobs[j] EXCEPT !.seen = TRUE]
                          ELSE jobs[j]]

Held(bad) == [j \in Jobs |-> IF j \notin bad THEN Looked[j]
                             ELSE [NoJob EXCEPT !.told = IF j \in unsent THEN jobs[j].told
                                                         ELSE "nobody"]]

\* One claim transaction: it quarantines the jobs it cannot deliver, as far as the
\* poll's repairs go, and leases the next one.
ClaimLease(w, bad, j) ==
  /\ poll[w].pc = "subscribed"
  /\ bad \subseteq Accepted(w)
  /\ Cardinality(bad) < poll[w].repairs
  /\ j \in Accepted(w) \ bad
  /\ jobs' = [Held(bad) EXCEPT ![j].state = "leased"]
  /\ poll' = [poll EXCEPT ![w] = NoPoll]
  /\ UNCHANGED <<unsent, permit>>

\* The claim found nothing it could lease.  With no repairs or no time left the
\* request is answered Empty.
ClaimNothing(w, bad) ==
  LET repairs == poll[w].repairs - Cardinality(bad)
  IN  /\ poll[w].pc = "subscribed"
      /\ bad \subseteq Accepted(w)
      /\ Cardinality(bad) <= poll[w].repairs
      /\ repairs = 0 \/ Accepted(w) = bad
      /\ jobs' = Held(bad)
      /\ poll' = [poll EXCEPT ![w] = IF repairs = 0 \/ poll[w].left = 0 THEN NoPoll
                                     ELSE [@ EXCEPT !.pc = "checked", !.repairs = repairs]]
      /\ UNCHANGED <<unsent, permit>>

\* The handler starts to wait.  The first look at the future takes a stored permit, and
\* a permit or a notification since the claim sends the poll around at once.
Sleep(w) ==
  /\ poll[w].pc = "checked"
  /\ poll' = [poll EXCEPT ![w].pc = IF permit \/ poll[w].woken # "no" THEN "polling" ELSE "asleep"]
  /\ permit' = FALSE
  /\ UNCHANGED <<jobs, unsent>>

\* The claim fails (the worker was revoked, the database or the delivery erred): its
\* quarantines are rolled back and the request is answered with the error.
ClaimFails(w) ==
  /\ poll[w].pc = "subscribed"
  /\ jobs' = Looked
  /\ poll' = [poll EXCEPT ![w] = NoPoll]
  /\ UNCHANGED <<unsent, permit>>

Wake(w) ==
  /\ poll[w].pc = "asleep"
  /\ poll[w].woken # "no"
  /\ poll' = [poll EXCEPT ![w].pc = "polling"]
  /\ UNCHANGED <<jobs, unsent, permit>>

\* A poll that is dropped with a single wake-up in hand passes it on.
Dropped(w) ==
  LET rest == [poll EXCEPT ![w] = NoPoll]
  IN  /\ IF poll[w].woken = "one" THEN WakeOne(rest) ELSE poll' = rest /\ UNCHANGED permit
      /\ UNCHANGED <<jobs, unsent>>

Timeout(w) ==
  /\ poll[w].pc = "asleep"
  /\ poll[w].left = 0
  /\ Dropped(w)

\* The worker closes the connection; the handler is dropped where it waits.
Disconnect(w) ==
  /\ poll[w].pc = "asleep"
  /\ Dropped(w)

Tick ==
  /\ poll' = [w \in Workers |-> IF poll[w].left > 0 THEN [poll[w] EXCEPT !.left = @ - 1]
                                ELSE poll[w]]
  /\ UNCHANGED <<jobs, unsent, permit>>

\* What the handler does of itself, without a new request.
Handle(w) ==
  \/ Subscribe(w)
  \/ \E bad \in SUBSET Jobs : ClaimNothing(w, bad) \/ \E j \in Jobs : ClaimLease(w, bad, j)
  \/ ClaimFails(w)
  \/ Sleep(w)
  \/ Wake(w)
  \/ Timeout(w)

Next ==
  \/ \E j \in Jobs : \/ \E kind \in Kinds : Arrive(j, kind)
                     \/ Checkpoint(j)
                     \/ Replenish(j)
                     \/ NotifyWaiters(j)
                     \/ NotifyOne(j)
                     \/ Requeue(j)
                     \/ Leave(j)
  \/ \E w \in Workers : \/ \E wait \in 0 .. MAX_LEASE_WAIT_SECS : Request(w, wait)
                        \/ Handle(w)
                        \/ Disconnect(w)
  \/ Tick

Spec == Init /\ [][Next]_vars

\* The runtime keeps polling the handlers and the clock runs.
FairSpec == Spec /\ WF_vars(Tick) /\ \A w \in Workers : WF_vars(Handle(w))

(***************************************************************************)
(* Properties                                                               *)
(***************************************************************************)
\* The requests and the queue keep their types; a poll never has more time or more
\* repairs than it started with.
TypeOK ==
  /\ jobs \in [Jobs -> [state : {"absent", "queued", "leased"}, kind : Kinds,
                        told : {"all", "one", "nobody"}, seen : BOOLEAN]]
  /\ unsent \subseteq Jobs
  /\ poll \in [Workers -> [pc : {"idle", "polling"} \cup Subscribed, woken : {"no", "one", "all"},
                           left : 0 .. MAX_LEASE_WAIT_SECS, repairs : 0 .. MAX_REPAIRS]]
  /\ permit \in BOOLEAN

\* No wake-up is lost: a poll that has looked at the queue and has not been woken leaves
\* a job whose arrival is told to all only while that notification is still to come.  A
\* job the reaper put back or the campaign tick created waits for the poll's timeout.
NoLostWakeup ==
  \A w \in Workers : poll[w].pc \in {"checked", "asleep"} /\ poll[w].woken = "no" =>
    \A j \in Accepted(w) : jobs[j].told = "all" => j \in unsent

\* The single wake-up of a checkpoint reaches a claim: while no claim has looked at the
\* queue since the checkpoint was notified, a poll sleeps unwoken only if another one is
\* on its way to look, and a poll that is about to sleep finds the permit.  (The poll
\* that looks may not accept the work; then it waits like work nobody is told of.)
CheckpointReachesClaim ==
  (\E j \in Jobs \ unsent : jobs[j].state = "queued" /\ jobs[j].told = "one" /\ ~ jobs[j].seen) =>
    \/ permit /\ Sleeping(poll) = {}
    \/ \E w \in Workers : poll[w].pc = "polling" \/ poll[w].pc = "subscribed"
                          \/ (poll[w].pc = "asleep" /\ poll[w].woken # "no")

\* No wake-up of the lease route gets lost, whether it is told to all or to one.
WakeupsReachClaims == TypeOK /\ NoLostWakeup /\ CheckpointReachesClaim

\* A lease request is always answered, however many notifications wake it in vain:
\* its deadline and its repairs are those of the whole request.
PollEnds ==
  \A w \in Workers : poll[w].pc # "idle" ~> poll[w].pc = "idle"
=============================================================================
