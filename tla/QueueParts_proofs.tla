------------------------- MODULE QueueParts_proofs --------------------------
(***************************************************************************)
(* What stands around the queue of jobs, for every value of the constants:  *)
(* the wake-ups of the long polls (LongPoll, which MCQueue instantiates as  *)
(* Poll), the workers table as authority (Enrolment, as Enrol) and the      *)
(* tokens of the GitHub App's installations (AppTokens, as Tokens).         *)
(***************************************************************************)
EXTENDS MCQueue, SequenceTheorems, FiniteSetTheorems, TLAPS

(***************************************************************************)
(* The wake-ups of the polls                                                *)
(***************************************************************************)
\* The instance counts as this module does.
LEMMA SamePollCount ==
  ASSUME NEW S
  PROVE  /\ Poll!IsFiniteSet(S) <=> IsFiniteSet(S)
         /\ Poll!Cardinality(S) = Cardinality(S)
BY DEF Poll!IsFiniteSet, IsFiniteSet, Poll!Cardinality, Cardinality

PolledRow == [state : {"absent", "queued", "leased"}, kind : Poll!Kinds,
           told : {"all", "one", "nobody"}, seen : BOOLEAN]
PollRow == [pc : {"idle", "polling"} \cup Poll!Subscribed, woken : {"no", "one", "all"},
            left : 0 .. MAX_LEASE_WAIT_SECS, repairs : 0 .. MAX_REPAIRS]

\* A poll that will look at the queue, or hands its wake-up on if it is dropped before.
Coming(row) == row.pc \in {"polling", "subscribed"} \/ (row.pc = "asleep" /\ row.woken = "one")

\* A poll that has looked and was not woken since.
Unwoken(row) == row.pc \in {"checked", "asleep"} /\ row.woken = "no"

\* A checkpoint was notified and no claim has looked since.
Unseen(j) == poll_jobs[j].state = "queued" /\ poll_jobs[j].told = "one" /\ ~ poll_jobs[j].seen

\* The single wake-up is stored while nobody sleeps, or it is with a poll.  A poll that was
\* woken with all others does not count: it drops its wake-up when it is dropped.
OnItsWay ==
  \/ \A j \in PollJobs \ unsent : ~ Unseen(j)
  \/ permit /\ \A w \in PollWorkers : ~ (poll[w].pc = "asleep" /\ poll[w].woken = "no")
  \/ \E w \in PollWorkers : Coming(poll[w])

WakeupInv == Poll!TypeOK /\ Poll!NoLostWakeup /\ OnItsWay

\* The inductive invariant implies what the run checks.
LEMMA WakeupImplied == WakeupInv => Poll!WakeupsReachClaims
<1> SUFFICES ASSUME WakeupInv
             PROVE  Poll!WakeupsReachClaims
  OBVIOUS
<1>1. Poll!CheckpointReachesClaim
  <2>1. CASE \A j \in PollJobs \ unsent : ~ Unseen(j)
    BY <2>1 DEF Poll!CheckpointReachesClaim, Unseen
  <2>2. CASE permit /\ \A w \in PollWorkers : ~ (poll[w].pc = "asleep" /\ poll[w].woken = "no")
    BY <2>2 DEF Poll!CheckpointReachesClaim, Poll!Sleeping
  <2>3. CASE \E w \in PollWorkers : Coming(poll[w])
    BY <2>3 DEF Poll!CheckpointReachesClaim, Coming
  <2> QED
    BY <2>1, <2>2, <2>3 DEF WakeupInv, OnItsWay
<1> QED
  BY <1>1 DEF WakeupInv, Poll!WakeupsReachClaims

\* It holds while there are neither jobs nor polls.
LEMMA WakeupInitial == Poll!ConstantsOK /\ Poll!Init => WakeupInv
<1> SUFFICES ASSUME Poll!ConstantsOK, Poll!Init
             PROVE  WakeupInv
  OBVIOUS
<1>1. Poll!NoJob \in PolledRow /\ Poll!NoJob.state = "absent"
  BY DEF Poll!NoJob, PolledRow, Poll!Kinds
<1>2. 0 \in 0 .. MAX_LEASE_WAIT_SECS /\ 0 \in 0 .. MAX_REPAIRS
  BY DEF Poll!ConstantsOK
<1>3. Poll!NoPoll \in PollRow /\ Poll!NoPoll.pc = "idle"
  BY <1>2 DEF Poll!NoPoll, PollRow
<1>4. Poll!TypeOK
  BY <1>1, <1>3 DEF Poll!Init, Poll!TypeOK, PolledRow, PollRow
<1>5. Poll!NoLostWakeup
  BY <1>3 DEF Poll!Init, Poll!NoLostWakeup
<1>6. OnItsWay
  BY <1>1 DEF Poll!Init, OnItsWay, Unseen
<1> QED
  BY <1>4, <1>5, <1>6 DEF WakeupInv

\* A step that writes one job: it is queued for all, or for one, only with its notification
\* still to come.
LEMMA RowWritten ==
  ASSUME WakeupInv, NEW j \in PollJobs, NEW row \in PolledRow, poll_jobs' = [poll_jobs EXCEPT ![j] = row],
         unsent \subseteq unsent', unsent' \subseteq PollJobs, poll' = poll, permit' = permit,
         row.state = "queued" /\ row.told \in {"all", "one"} => j \in unsent'
  PROVE  WakeupInv'
<1>1. /\ poll_jobs' \in [PollJobs -> PolledRow] /\ poll_jobs'[j] = row
      /\ \A i \in PollJobs : i # j => poll_jobs'[i] = poll_jobs[i]
  BY DEF WakeupInv, Poll!TypeOK, PolledRow
<1>2. Poll!TypeOK'
  BY <1>1 DEF WakeupInv, Poll!TypeOK, PolledRow
<1>3. Poll!NoLostWakeup'
  BY <1>1 DEF WakeupInv, Poll!NoLostWakeup, Poll!Accepted
<1>4. OnItsWay'
  <2>1. CASE \A i \in PollJobs \ unsent : ~ Unseen(i)
    BY <1>1, <2>1 DEF OnItsWay, Unseen
  <2>2. CASE permit /\ \A w \in PollWorkers : ~ (poll[w].pc = "asleep" /\ poll[w].woken = "no")
    BY <2>2 DEF OnItsWay
  <2>3. CASE \E w \in PollWorkers : Coming(poll[w])
    BY <2>3 DEF OnItsWay, Coming
  <2> QED
    BY <2>1, <2>2, <2>3 DEF WakeupInv, OnItsWay
<1> QED
  BY <1>2, <1>3, <1>4 DEF WakeupInv

\* The steps of the queue.
LEMMA QueueKeeps ==
  ASSUME Poll!ConstantsOK, WakeupInv, NEW j \in PollJobs,
         \/ \E kind \in Poll!Kinds : Poll!Arrive(j, kind)
         \/ Poll!Checkpoint(j) \/ Poll!Replenish(j) \/ Poll!Requeue(j) \/ Poll!Leave(j)
  PROVE  WakeupInv'
<1>1. poll_jobs \in [PollJobs -> PolledRow] /\ unsent \subseteq PollJobs
  BY DEF WakeupInv, Poll!TypeOK, PolledRow
<1>2. ASSUME NEW kind \in Poll!Kinds, NEW told \in {"all", "one", "nobody"}, Poll!Queued(j, kind, told),
             unsent' = IF told = "nobody" THEN unsent ELSE unsent \cup {j}, UNCHANGED <<poll, permit>>
      PROVE  WakeupInv'
  <2>1. PICK row : row = [state |-> "queued", kind |-> kind, told |-> told, seen |-> told # "one"]
    OBVIOUS
  <2>2. row \in PolledRow /\ row.state = "queued" /\ row.told = told
    BY <2>1 DEF PolledRow
  <2>3. poll_jobs' = [poll_jobs EXCEPT ![j] = row]
    BY <1>2, <2>1 DEF Poll!Queued
  <2> QED
    BY <1>1, <1>2, <2>2, <2>3, RowWritten
<1>3. CASE \E kind \in Poll!Kinds : Poll!Arrive(j, kind)
  BY <1>2, <1>3 DEF Poll!Arrive
<1>4. CASE Poll!Checkpoint(j)
  BY <1>2, <1>4 DEF Poll!Checkpoint, Poll!Kinds
<1>5. CASE Poll!Replenish(j)
  BY <1>2, <1>5 DEF Poll!Replenish, Poll!Kinds
<1>6. CASE Poll!Requeue(j)
  <2>1. PICK row : row = [poll_jobs[j] EXCEPT !.state = "queued", !.told = "nobody"]
    OBVIOUS
  <2>2. row \in PolledRow /\ row.told = "nobody"
    BY <1>1, <2>1 DEF PolledRow
  <2>3. poll_jobs' = [poll_jobs EXCEPT ![j] = row] /\ UNCHANGED <<unsent, poll, permit>>
    BY <1>1, <1>6, <2>1 DEF Poll!Requeue, PolledRow
  <2> QED
    BY <1>1, <2>2, <2>3, RowWritten
<1>7. CASE Poll!Leave(j)
  <2>1. PICK told : told = IF j \in unsent THEN poll_jobs[j].told ELSE "nobody"
    OBVIOUS
  <2>2. PICK row : row = [Poll!NoJob EXCEPT !.told = told]
    OBVIOUS
  <2>3. told \in {"all", "one", "nobody"}
    BY <1>1, <2>1 DEF PolledRow
  <2>4. row \in PolledRow /\ row.state = "absent"
    BY <2>2, <2>3 DEF Poll!NoJob, PolledRow, Poll!Kinds
  <2>5. poll_jobs' = [poll_jobs EXCEPT ![j] = row] /\ UNCHANGED <<unsent, poll, permit>>
    BY <1>7, <2>1, <2>2 DEF Poll!Leave
  <2> QED
    BY <1>1, <2>4, <2>5, RowWritten
<1> QED
  BY <1>3, <1>4, <1>5, <1>6, <1>7

\* One poll moves and takes the permit with it or leaves it: it neither falls asleep unwoken
\* past a notification nor gives up a wake-up of its own.
LEMMA PollMoves ==
  ASSUME WakeupInv, NEW w \in PollWorkers, NEW row \in PollRow, poll' = [poll EXCEPT ![w] = row],
         poll_jobs' = poll_jobs, unsent' = unsent, permit' \in BOOLEAN,
         Unwoken(row) => Unwoken(poll[w]),
         permit' = permit \/ Coming(row),
         row.pc = "asleep" /\ row.woken = "no" => poll[w].pc = "asleep" \/ ~ permit,
         Coming(poll[w]) => Coming(row)
  PROVE  WakeupInv'
<1>1. /\ poll' \in [PollWorkers -> PollRow] /\ poll'[w] = row
      /\ \A v \in PollWorkers : v # w => poll'[v] = poll[v]
  BY DEF WakeupInv, Poll!TypeOK, PollRow
<1>2. Poll!TypeOK'
  BY <1>1 DEF WakeupInv, Poll!TypeOK, PollRow
<1>3. Poll!NoLostWakeup'
  BY <1>1 DEF WakeupInv, Poll!NoLostWakeup, Unwoken, Poll!Accepted
<1>4. OnItsWay'
  <2>1. CASE \A i \in PollJobs \ unsent : ~ Unseen(i)
    BY <2>1 DEF OnItsWay, Unseen
  <2>2. CASE Coming(row)
    BY <1>1, <2>2 DEF OnItsWay, Coming
  <2>3. CASE /\ permit /\ permit' = permit
             /\ \A v \in PollWorkers : ~ (poll[v].pc = "asleep" /\ poll[v].woken = "no")
    BY <1>1, <2>3 DEF OnItsWay, Unwoken
  <2>4. CASE \E v \in PollWorkers : Coming(poll[v])
    BY <1>1, <2>4 DEF OnItsWay, Coming
  <2> QED
    BY <2>1, <2>2, <2>3, <2>4 DEF WakeupInv, OnItsWay
<1> QED
  BY <1>2, <1>3, <1>4 DEF WakeupInv

\* A claim looks at the whole queue; its poll sleeps only if it left nothing it accepts.
LEMMA ClaimLooks ==
  ASSUME WakeupInv, NEW w \in PollWorkers, NEW row \in PollRow, poll' = [poll EXCEPT ![w] = row],
         poll_jobs' \in [PollJobs -> PolledRow], unsent' = unsent, permit' = permit,
         \A j \in PollJobs : poll_jobs'[j].state = "queued" =>
           /\ poll_jobs[j].state = "queued" /\ poll_jobs'[j].kind = poll_jobs[j].kind
           /\ poll_jobs'[j].told = poll_jobs[j].told /\ poll_jobs'[j].seen,
         row.pc \notin {"checked", "asleep"} \/ \A j \in Poll!Accepted(w) : poll_jobs'[j].state # "queued"
  PROVE  WakeupInv'
<1>1. /\ poll' \in [PollWorkers -> PollRow] /\ poll'[w] = row
      /\ \A v \in PollWorkers : v # w => poll'[v] = poll[v]
  BY DEF WakeupInv, Poll!TypeOK, PollRow
<1>2. Poll!TypeOK'
  BY <1>1 DEF WakeupInv, Poll!TypeOK, PollRow, PolledRow
<1>3. \A v \in PollWorkers : Poll!Accepted(v)' \subseteq Poll!Accepted(v)
  BY DEF Poll!Accepted
<1>4. Poll!NoLostWakeup'
  <2>1. ASSUME NEW v \in PollWorkers, poll'[v].pc \in {"checked", "asleep"}, poll'[v].woken = "no",
               NEW j \in Poll!Accepted(v)', poll_jobs'[j].told = "all"
        PROVE  j \in unsent'
    <3>1. j \in PollJobs /\ j \in Poll!Accepted(v) /\ poll_jobs'[j].state = "queued" /\ poll_jobs[j].told = "all"
      BY <1>3, <2>1 DEF Poll!Accepted
    <3>2. v # w
      BY <1>1, <2>1, <3>1
    <3> QED
      BY <1>1, <2>1, <3>1, <3>2 DEF WakeupInv, Poll!NoLostWakeup
  <2> QED
    BY <2>1 DEF Poll!NoLostWakeup
<1>5. OnItsWay'
  BY DEF OnItsWay, Unseen
<1> QED
  BY <1>2, <1>4, <1>5 DEF WakeupInv

\* What a claim makes of the queue.
LEMMA HeldRows ==
  ASSUME WakeupInv, NEW bad
  PROVE  /\ Poll!Held(bad) \in [PollJobs -> PolledRow]
         /\ \A j \in bad \cap PollJobs : Poll!Held(bad)[j].state = "absent"
         /\ \A j \in PollJobs : Poll!Held(bad)[j].state = "queued" =>
              /\ poll_jobs[j].state = "queued" /\ Poll!Held(bad)[j].kind = poll_jobs[j].kind
              /\ Poll!Held(bad)[j].told = poll_jobs[j].told /\ Poll!Held(bad)[j].seen
<1>1. ASSUME NEW j \in PollJobs
      PROVE  /\ Poll!Held(bad)[j] \in PolledRow
             /\ j \in bad => Poll!Held(bad)[j].state = "absent"
             /\ Poll!Held(bad)[j].state = "queued" =>
                  /\ poll_jobs[j].state = "queued" /\ Poll!Held(bad)[j].kind = poll_jobs[j].kind
                  /\ Poll!Held(bad)[j].told = poll_jobs[j].told /\ Poll!Held(bad)[j].seen
  <2>1. poll_jobs[j] \in PolledRow
    BY DEF WakeupInv, Poll!TypeOK, PolledRow
  <2>2. CASE j \in bad
    <3>1. PICK told : told = IF j \in unsent THEN poll_jobs[j].told ELSE "nobody"
      OBVIOUS
    <3>2. Poll!Held(bad)[j] = [Poll!NoJob EXCEPT !.told = told] /\ told \in {"all", "one", "nobody"}
      BY <2>1, <2>2, <3>1 DEF Poll!Held, PolledRow
    <3>3. [Poll!NoJob EXCEPT !.told = told] \in PolledRow /\ [Poll!NoJob EXCEPT !.told = told].state = "absent"
      BY <3>2 DEF Poll!NoJob, PolledRow, Poll!Kinds
    <3> QED
      BY <2>2, <3>2, <3>3
  <2>3. CASE j \notin bad /\ poll_jobs[j].state = "queued"
    <3>1. PICK row : row = [poll_jobs[j] EXCEPT !.seen = TRUE]
      OBVIOUS
    <3>2. Poll!Held(bad)[j] = row
      BY <2>3, <3>1 DEF Poll!Held, Poll!Looked
    <3>3. row \in PolledRow /\ row.kind = poll_jobs[j].kind /\ row.told = poll_jobs[j].told /\ row.seen
      BY <2>1, <3>1 DEF PolledRow
    <3> QED
      BY <2>3, <3>2, <3>3
  <2>4. CASE j \notin bad /\ poll_jobs[j].state # "queued"
    BY <2>1, <2>4 DEF Poll!Held, Poll!Looked
  <2> QED
    BY <2>2, <2>3, <2>4
<1>2. Poll!Held(bad) = [j \in PollJobs |-> Poll!Held(bad)[j]]
  BY DEF Poll!Held
<1> QED
  BY <1>1, <1>2

\* A request arrives, subscribes, goes to sleep and wakes.
LEMMA PollKeeps ==
  ASSUME Poll!ConstantsOK, WakeupInv, NEW w \in PollWorkers,
         \/ \E wait \in 0 .. MAX_LEASE_WAIT_SECS : Poll!Request(w, wait)
         \/ Poll!Subscribe(w) \/ Poll!Sleep(w) \/ Poll!Wake(w)
  PROVE  WakeupInv'
<1>1. /\ poll \in [PollWorkers -> PollRow] /\ poll[w] \in PollRow /\ permit \in BOOLEAN
      /\ MAX_REPAIRS \in 0 .. MAX_REPAIRS
  BY DEF WakeupInv, Poll!TypeOK, PollRow, Poll!ConstantsOK
<1>2. ASSUME NEW wait \in 0 .. MAX_LEASE_WAIT_SECS, Poll!Request(w, wait)
      PROVE  WakeupInv'
  <2>1. PICK row : row = [pc |-> "polling", woken |-> "no", left |-> wait, repairs |-> MAX_REPAIRS]
    OBVIOUS
  <2>2. row \in PollRow /\ row.pc = "polling"
    BY <1>1, <2>1 DEF PollRow
  <2>3. poll' = [poll EXCEPT ![w] = row] /\ UNCHANGED <<poll_jobs, unsent, permit>>
    BY <1>2, <2>1 DEF Poll!Request
  <2> QED
    BY <1>1, <2>2, <2>3, PollMoves DEF Unwoken, Coming
<1>3. CASE Poll!Subscribe(w)
  <2>1. PICK row : row = [poll[w] EXCEPT !.pc = "subscribed", !.woken = "no"]
    OBVIOUS
  <2>2. row \in PollRow /\ row.pc = "subscribed"
    BY <1>1, <2>1 DEF PollRow, Poll!Subscribed
  <2>3. poll' = [poll EXCEPT ![w] = row] /\ UNCHANGED <<poll_jobs, unsent, permit>>
    BY <1>1, <1>3, <2>1 DEF Poll!Subscribe, PollRow
  <2> QED
    BY <1>1, <2>2, <2>3, PollMoves DEF Unwoken, Coming
<1>4. CASE Poll!Wake(w)
  <2>1. PICK row : row = [poll[w] EXCEPT !.pc = "polling"]
    OBVIOUS
  <2>2. row \in PollRow /\ row.pc = "polling"
    BY <1>1, <2>1 DEF PollRow
  <2>3. poll' = [poll EXCEPT ![w] = row] /\ UNCHANGED <<poll_jobs, unsent, permit>>
    BY <1>4, <2>1 DEF Poll!Wake
  <2> QED
    BY <1>1, <2>2, <2>3, PollMoves DEF Unwoken, Coming
<1>5. CASE Poll!Sleep(w)
  <2>1. PICK pc : pc = IF permit \/ poll[w].woken # "no" THEN "polling" ELSE "asleep"
    OBVIOUS
  <2>2. PICK row : row = [poll[w] EXCEPT !.pc = pc]
    OBVIOUS
  <2>3. row \in PollRow /\ row.pc = pc /\ row.woken = poll[w].woken
    BY <1>1, <2>1, <2>2 DEF PollRow, Poll!Subscribed
  <2>4. /\ poll' = [poll EXCEPT ![w] = row] /\ permit' = FALSE /\ UNCHANGED <<poll_jobs, unsent>>
        /\ poll[w].pc = "checked"
    BY <1>5, <2>1, <2>2 DEF Poll!Sleep
  <2> QED
    BY <1>1, <2>1, <2>3, <2>4, PollMoves DEF Unwoken, Coming
<1> QED
  BY <1>2, <1>3, <1>4, <1>5

\* A claim leases a job, finds none or fails.
LEMMA ClaimKeeps ==
  ASSUME Poll!ConstantsOK, WakeupInv, NEW w \in PollWorkers,
         \/ \E bad \in SUBSET PollJobs : Poll!ClaimNothing(w, bad) \/ \E j \in PollJobs : Poll!ClaimLease(w, bad, j)
         \/ Poll!ClaimFails(w)
  PROVE  WakeupInv'
<1>1. /\ poll \in [PollWorkers -> PollRow] /\ poll[w] \in PollRow
      /\ 0 \in 0 .. MAX_LEASE_WAIT_SECS /\ 0 \in 0 .. MAX_REPAIRS
  BY DEF WakeupInv, Poll!TypeOK, PollRow, Poll!ConstantsOK
<1>2. Poll!NoPoll \in PollRow /\ Poll!NoPoll.pc = "idle"
  BY <1>1 DEF Poll!NoPoll, PollRow
<1>3. ASSUME NEW bad \in SUBSET PollJobs, NEW j \in PollJobs, Poll!ClaimLease(w, bad, j)
      PROVE  WakeupInv'
  <2>1. PICK mine : mine = Poll!Held(bad)
    OBVIOUS
  <2>2. PICK row : row = [mine[j] EXCEPT !.state = "leased"]
    OBVIOUS
  <2>3. /\ mine \in [PollJobs -> PolledRow]
        /\ \A i \in PollJobs : mine[i].state = "queued" =>
             /\ poll_jobs[i].state = "queued" /\ mine[i].kind = poll_jobs[i].kind
             /\ mine[i].told = poll_jobs[i].told /\ mine[i].seen
    BY <2>1, HeldRows
  <2>4. row \in PolledRow /\ row.state = "leased"
    BY <2>2, <2>3 DEF PolledRow
  <2>5. /\ poll_jobs' = [mine EXCEPT ![j] = row] /\ poll' = [poll EXCEPT ![w] = Poll!NoPoll]
        /\ UNCHANGED <<unsent, permit>>
    BY <1>3, <2>1, <2>2 DEF Poll!ClaimLease
  <2>6. poll_jobs' \in [PollJobs -> PolledRow] /\ poll_jobs'[j] = row /\ \A i \in PollJobs : i # j => poll_jobs'[i] = mine[i]
    BY <2>3, <2>4, <2>5
  <2> QED
    BY <1>2, <2>3, <2>4, <2>5, <2>6, ClaimLooks
<1>4. ASSUME NEW bad \in SUBSET PollJobs, Poll!ClaimNothing(w, bad)
      PROVE  WakeupInv'
  <2>1. PICK repairs : repairs = poll[w].repairs - Cardinality(bad)
    OBVIOUS
  <2>2. Cardinality(bad) \in Nat
    BY SamePollCount, FS_Subset, FS_CardinalityType DEF Poll!ConstantsOK
  <2>3. repairs \in 0 .. MAX_REPAIRS /\ (repairs = 0 \/ Poll!Accepted(w) = bad)
    <3>1. Cardinality(bad) <= poll[w].repairs /\ (repairs = 0 \/ Poll!Accepted(w) = bad)
      BY SamePollCount, <1>4, <2>1 DEF Poll!ClaimNothing
    <3>2. poll[w].repairs \in 0 .. MAX_REPAIRS /\ MAX_REPAIRS \in Nat
      BY <1>1 DEF PollRow, Poll!ConstantsOK
    <3> QED
      BY <2>1, <2>2, <3>1, <3>2
  <2>4. PICK row : row = IF repairs = 0 \/ poll[w].left = 0 THEN Poll!NoPoll
                         ELSE [poll[w] EXCEPT !.pc = "checked", !.repairs = repairs]
    OBVIOUS
  <2>5. row \in PollRow /\ (row.pc = "idle" \/ repairs # 0)
    <3>1. CASE repairs = 0 \/ poll[w].left = 0
      BY <1>2, <2>4, <3>1
    <3>2. CASE ~ (repairs = 0 \/ poll[w].left = 0)
      BY <1>1, <2>3, <2>4, <3>2 DEF PollRow, Poll!Subscribed
    <3> QED
      BY <3>1, <3>2
  <2>6. /\ poll_jobs' = Poll!Held(bad) /\ poll' = [poll EXCEPT ![w] = row] /\ UNCHANGED <<unsent, permit>>
    <3>1. poll[w].repairs - Poll!Cardinality(bad) = repairs
      BY <2>1, SamePollCount
    <3> QED
      BY <1>4, <2>4, <3>1 DEF Poll!ClaimNothing
  <2>7. row.pc \notin {"checked", "asleep"} \/ \A j \in Poll!Accepted(w) : poll_jobs'[j].state # "queued"
    BY <2>3, <2>5, <2>6, HeldRows
  <2> QED
    BY <2>5, <2>6, <2>7, HeldRows, ClaimLooks
<1>5. CASE Poll!ClaimFails(w)
  <2>1. Poll!Held({}) = Poll!Looked
    BY DEF Poll!Held, Poll!Looked
  <2>2. poll_jobs' = Poll!Held({}) /\ poll' = [poll EXCEPT ![w] = Poll!NoPoll] /\ UNCHANGED <<unsent, permit>>
    BY <1>5, <2>1 DEF Poll!ClaimFails
  <2> QED
    BY <1>2, <2>2, HeldRows, ClaimLooks
<1> QED
  BY <1>3, <1>4, <1>5

\* The wake-up is taken or stored, and wakes nobody else.
Given(polls) ==
  /\ poll' \in [PollWorkers -> PollRow] /\ permit' \in BOOLEAN
  /\ \A w \in PollWorkers : Unwoken(poll'[w]) => Unwoken(polls[w])
  /\ \/ permit' /\ \A w \in PollWorkers : ~ (poll'[w].pc = "asleep" /\ poll'[w].woken = "no")
     \/ \E w \in PollWorkers : Coming(poll'[w])

\* The Notify's single wake-up, whoever polls when it is sent: it is taken or stored.
LEMMA OneWoken ==
  ASSUME WakeupInv, NEW polls \in [PollWorkers -> PollRow], Poll!WakeOne(polls),
         poll_jobs' = poll_jobs, unsent' \subseteq unsent,
         \A j \in unsent \ unsent' : poll_jobs[j].told = "one",
         \A w \in PollWorkers : Unwoken(polls[w]) => Unwoken(poll[w])
  PROVE  WakeupInv'
<1>1. permit \in BOOLEAN /\ poll_jobs \in [PollJobs -> PolledRow] /\ unsent \subseteq PollJobs
  BY DEF WakeupInv, Poll!TypeOK, PolledRow
<1>2. Given(polls)
  <2>1. ASSUME NEW w \in Poll!Sleeping(polls), poll' = [polls EXCEPT ![w].woken = "one"], permit' = permit
        PROVE  Given(polls)
    <3>1. w \in PollWorkers /\ polls[w].pc = "asleep" /\ polls[w] \in PollRow
      BY <2>1 DEF Poll!Sleeping
    <3>2. PICK row : row = [polls[w] EXCEPT !.woken = "one"]
      OBVIOUS
    <3>3. row \in PollRow /\ row.pc = "asleep" /\ row.woken = "one"
      BY <3>1, <3>2 DEF PollRow
    <3>4. poll' = [polls EXCEPT ![w] = row]
      BY <2>1, <3>2
    <3>5. poll' \in [PollWorkers -> PollRow] /\ poll'[w] = row
          /\ \A v \in PollWorkers : v # w => poll'[v] = polls[v]
      BY <3>1, <3>3, <3>4
    <3> QED
      BY <1>1, <2>1, <3>1, <3>3, <3>5 DEF Given, Unwoken, Coming
  <2>2. ASSUME Poll!Sleeping(polls) = {}, poll' = polls, permit' = TRUE
        PROVE  Given(polls)
    BY <2>2 DEF Given, Poll!Sleeping
  <2> QED
    BY <2>1, <2>2 DEF Poll!WakeOne
<1>3. Poll!TypeOK'
  BY <1>1, <1>2 DEF Given, WakeupInv, Poll!TypeOK, PolledRow, PollRow
<1>4. Poll!NoLostWakeup'
  BY <1>1, <1>2 DEF Given, WakeupInv, Poll!NoLostWakeup, Unwoken, Poll!Accepted
<1>5. OnItsWay'
  BY <1>2 DEF Given, OnItsWay, Coming
<1> QED
  BY <1>3, <1>4, <1>5 DEF WakeupInv

\* The notifications.
LEMMA NotifyKeeps ==
  ASSUME Poll!ConstantsOK, WakeupInv, NEW j \in PollJobs, Poll!NotifyWaiters(j) \/ Poll!NotifyOne(j)
  PROVE  WakeupInv'
<1>1. /\ poll \in [PollWorkers -> PollRow] /\ poll_jobs \in [PollJobs -> PolledRow] /\ unsent \subseteq PollJobs
      /\ permit \in BOOLEAN
  BY DEF WakeupInv, Poll!TypeOK, PollRow, PolledRow
<1>2. CASE Poll!NotifyOne(j)
  BY <1>1, <1>2, OneWoken DEF Poll!NotifyOne
<1>3. CASE Poll!NotifyWaiters(j)
  <2>1. /\ poll_jobs[j].told # "one" /\ unsent' = unsent \ {j} /\ UNCHANGED <<poll_jobs, permit>>
        /\ poll' = [w \in PollWorkers |-> IF poll[w].pc \in Poll!Subscribed /\ poll[w].woken = "no"
                                      THEN [poll[w] EXCEPT !.woken = "all"] ELSE poll[w]]
    BY <1>3 DEF Poll!NotifyWaiters
  <2>2. ASSUME NEW w \in PollWorkers
        PROVE  /\ poll'[w] \in PollRow /\ ~ Unwoken(poll'[w])
               /\ Coming(poll[w]) => Coming(poll'[w])
    <3>1. poll[w] \in PollRow
      BY <1>1
    <3>2. CASE poll[w].pc \in Poll!Subscribed /\ poll[w].woken = "no"
      <4>1. PICK row : row = [poll[w] EXCEPT !.woken = "all"]
        OBVIOUS
      <4>2. row \in PollRow /\ row.woken = "all" /\ row.pc = poll[w].pc
        BY <3>1, <4>1 DEF PollRow
      <4> QED
        BY <2>1, <3>2, <4>1, <4>2 DEF Unwoken, Coming
    <3>3. CASE ~ (poll[w].pc \in Poll!Subscribed /\ poll[w].woken = "no")
      BY <2>1, <3>1, <3>3 DEF Unwoken, Coming, Poll!Subscribed
    <3> QED
      BY <3>2, <3>3
  <2>3. poll' \in [PollWorkers -> PollRow]
    BY <2>1, <2>2
  <2>4. Poll!TypeOK'
    BY <1>1, <2>1, <2>3 DEF Poll!TypeOK, PollRow, PolledRow
  <2>5. Poll!NoLostWakeup'
    BY <2>2 DEF Poll!NoLostWakeup, Unwoken
  <2>6. OnItsWay'
    <3>1. CASE \A i \in PollJobs \ unsent : ~ Unseen(i)
      BY <2>1, <3>1 DEF OnItsWay, Unseen
    <3>2. CASE permit /\ \A w \in PollWorkers : ~ (poll[w].pc = "asleep" /\ poll[w].woken = "no")
      BY <2>1, <2>2, <3>2 DEF OnItsWay, Unwoken
    <3>3. CASE \E w \in PollWorkers : Coming(poll[w])
      <4>1. PICK w \in PollWorkers : Coming(poll[w])
        BY <3>3
      <4>2. Coming(poll'[w])
        BY <2>2, <4>1
      <4> QED
        BY <4>2 DEF OnItsWay, Coming
    <3> QED
      BY <3>1, <3>2, <3>3 DEF WakeupInv, OnItsWay
  <2> QED
    BY <2>4, <2>5, <2>6 DEF WakeupInv
<1> QED
  BY <1>2, <1>3

\* A poll that is dropped hands its single wake-up on.
LEMMA DroppedKeeps ==
  ASSUME Poll!ConstantsOK, WakeupInv, NEW w \in PollWorkers, poll[w].pc = "asleep", Poll!Dropped(w)
  PROVE  WakeupInv'
<1>1. PICK rest : rest = [poll EXCEPT ![w] = Poll!NoPoll]
  OBVIOUS
<1>2. 0 \in 0 .. MAX_LEASE_WAIT_SECS /\ 0 \in 0 .. MAX_REPAIRS
  BY DEF Poll!ConstantsOK
<1>3. Poll!NoPoll \in PollRow /\ Poll!NoPoll.pc = "idle"
  BY <1>2 DEF Poll!NoPoll, PollRow
<1>4. /\ rest \in [PollWorkers -> PollRow] /\ rest[w] = Poll!NoPoll
      /\ \A v \in PollWorkers : v # w => rest[v] = poll[v]
  BY <1>1, <1>3 DEF WakeupInv, Poll!TypeOK, PollRow
<1>5. poll_jobs' = poll_jobs /\ unsent' = unsent
  BY DEF Poll!Dropped
<1>6. CASE poll[w].woken = "one"
  <2>1. Poll!WakeOne(rest)
    BY <1>1, <1>6 DEF Poll!Dropped
  <2>2. \A v \in PollWorkers : Unwoken(rest[v]) => Unwoken(poll[v])
    BY <1>3, <1>4 DEF Unwoken
  <2> QED
    BY <1>4, <1>5, <2>1, <2>2, OneWoken
<1>7. CASE poll[w].woken # "one"
  <2>1. poll' = [poll EXCEPT ![w] = Poll!NoPoll] /\ permit' = permit
    BY <1>7 DEF Poll!Dropped
  <2>2. ~ Coming(poll[w]) /\ permit' \in BOOLEAN
    BY <1>7, <2>1 DEF Coming, WakeupInv, Poll!TypeOK
  <2> QED
    BY <1>3, <1>5, <2>1, <2>2, PollMoves DEF Unwoken
<1> QED
  BY <1>6, <1>7

\* Time passes.
LEMMA WaitKeeps ==
  ASSUME Poll!ConstantsOK, WakeupInv, Poll!Tick
  PROVE  WakeupInv'
<1>1. ASSUME NEW w \in PollWorkers
      PROVE  poll'[w] \in PollRow /\ poll'[w].pc = poll[w].pc /\ poll'[w].woken = poll[w].woken
  <2>1. poll[w] \in PollRow /\ MAX_LEASE_WAIT_SECS \in Nat
    BY DEF WakeupInv, Poll!TypeOK, PollRow, Poll!ConstantsOK
  <2>2. poll'[w] = IF poll[w].left > 0 THEN [poll[w] EXCEPT !.left = poll[w].left - 1] ELSE poll[w]
    BY DEF Poll!Tick
  <2>3. CASE poll[w].left > 0
    <3>1. PICK left : left = poll[w].left - 1
      OBVIOUS
    <3>2. left \in 0 .. MAX_LEASE_WAIT_SECS
      BY <2>1, <2>3, <3>1 DEF PollRow
    <3> QED
      BY <2>1, <2>2, <2>3, <3>1, <3>2 DEF PollRow
  <2>4. CASE ~ (poll[w].left > 0)
    BY <2>1, <2>2, <2>4
  <2> QED
    BY <2>3, <2>4
<1>2. /\ poll' \in [PollWorkers -> PollRow] /\ poll_jobs' = poll_jobs /\ unsent' = unsent /\ permit' = permit
  BY <1>1 DEF Poll!Tick
<1>3. Poll!TypeOK'
  BY <1>2 DEF WakeupInv, Poll!TypeOK, PollRow
<1>4. Poll!NoLostWakeup'
  BY <1>1, <1>2 DEF WakeupInv, Poll!NoLostWakeup, Poll!Accepted
<1>5. OnItsWay'
  <2>1. CASE \A i \in PollJobs \ unsent : ~ Unseen(i)
    BY <1>2, <2>1 DEF OnItsWay, Unseen
  <2>2. CASE permit /\ \A w \in PollWorkers : ~ (poll[w].pc = "asleep" /\ poll[w].woken = "no")
    BY <1>1, <1>2, <2>2 DEF OnItsWay
  <2>3. CASE \E w \in PollWorkers : Coming(poll[w])
    BY <1>1, <2>3 DEF OnItsWay, Coming
  <2> QED
    BY <2>1, <2>2, <2>3 DEF WakeupInv, OnItsWay
<1> QED
  BY <1>3, <1>4, <1>5 DEF WakeupInv

\* No wake-up of the lease route is lost, for any number of jobs and of polls that sleep,
\* time out or are dropped with the wake-up in hand, and in whatever order the queue is
\* written, looked at and notified (routes/jobs.rs).
THEOREM WakeupsAreKept == Poll!ConstantsOK => (Poll!Spec => []Poll!WakeupsReachClaims)
<1> SUFFICES ASSUME Poll!ConstantsOK
             PROVE  Poll!Spec => []Poll!WakeupsReachClaims
  OBVIOUS
<1>1. WakeupInv /\ [Poll!Next]_(Poll!vars) => WakeupInv'
  <2> SUFFICES ASSUME WakeupInv, [Poll!Next]_(Poll!vars)
               PROVE  WakeupInv'
    OBVIOUS
  <2>1. ASSUME NEW j \in PollJobs,
               \/ \E kind \in Poll!Kinds : Poll!Arrive(j, kind)
               \/ Poll!Checkpoint(j) \/ Poll!Replenish(j) \/ Poll!Requeue(j) \/ Poll!Leave(j)
        PROVE  WakeupInv'
    BY <2>1, QueueKeeps
  <2>2. ASSUME NEW j \in PollJobs, Poll!NotifyWaiters(j) \/ Poll!NotifyOne(j)
        PROVE  WakeupInv'
    BY <2>2, NotifyKeeps
  <2>3. ASSUME NEW w \in PollWorkers,
               \/ \E wait \in 0 .. MAX_LEASE_WAIT_SECS : Poll!Request(w, wait)
               \/ Poll!Subscribe(w) \/ Poll!Sleep(w) \/ Poll!Wake(w)
        PROVE  WakeupInv'
    BY <2>3, PollKeeps
  <2>4. ASSUME NEW w \in PollWorkers,
               \/ \E bad \in SUBSET PollJobs :
                    Poll!ClaimNothing(w, bad) \/ \E j \in PollJobs : Poll!ClaimLease(w, bad, j)
               \/ Poll!ClaimFails(w)
        PROVE  WakeupInv'
    BY <2>4, ClaimKeeps
  <2>5. ASSUME NEW w \in PollWorkers, Poll!Timeout(w) \/ Poll!Disconnect(w)
        PROVE  WakeupInv'
    BY <2>5, DroppedKeeps DEF Poll!Timeout, Poll!Disconnect
  <2>6. CASE UNCHANGED Poll!vars
    BY <2>6 DEF Poll!vars, WakeupInv, Poll!TypeOK, Poll!NoLostWakeup, Poll!Accepted, OnItsWay,
         Unseen, Coming
  <2> QED
    BY <2>1, <2>2, <2>3, <2>4, <2>5, <2>6, WaitKeeps DEF Poll!Next, Poll!Handle
<1> QED
  BY <1>1, WakeupInitial, WakeupImplied, PTL DEF Poll!Spec

(***************************************************************************)
(* The workers table as authority                                           *)
(***************************************************************************)
\* What TypeOK leaves open: the shape of a request and of a job.
Shapes ==
  /\ request \in [Requests -> [pc : {"none", "sent", "authed"}, cert : Certs \cup {Enrol!Nobody},
                               op : {Enrol!Nobody, "claim", "heartbeat", "complete"},
                               job : WorkerJobs \cup {Enrol!Nobody}, late : BOOLEAN]]
  /\ job \in [WorkerJobs -> [state : {"queued", "leased", "done"}, cert : Certs \cup {Enrol!Nobody},
                       left : 0..LeaseTime, stray : BOOLEAN]]
  /\ \A r \in Requests :
       request[r].pc # "none" => request[r].cert \in held /\ request[r].job \in WorkerJobs
  /\ \A j \in WorkerJobs : job[j].state = "leased" => job[j].cert \in held

\* The rows: held certificates are registered, and a name is registered once.
Rows ==
  /\ workers \in [Certs -> [name : Names \cup {Enrol!Nobody}, revoked : BOOLEAN]]
  /\ \A c, d \in Certs : Enrol!Registered(c) /\ Enrol!Registered(d) /\ workers[c].name = workers[d].name => c = d
  /\ held \subseteq {c \in Certs : Enrol!Registered(c)}

\* A request that was sent after the revocation is one of a revoked certificate, and has
\* not passed the door: what the door lets in was sent before.
DoorHolds ==
  \A r \in Requests : request[r].late =>
    request[r].pc = "sent" /\ workers[request[r].cert].revoked

RevocationInv == Shapes /\ Rows /\ DoorHolds /\ Enrol!RevokedIsRefused /\ Enrol!NothingStray

\* The inductive invariant implies what the run checks.
LEMMA RevocationImplied == RevocationInv => Enrol!RevocationHolds
BY DEF RevocationInv, Shapes, Rows, Enrol!RevocationHolds, Enrol!TypeOK

\* It holds before the first registration.
LEMMA RevocationInit ==
  ASSUME Enrol!ConstantsOK, Enrol!Init
  PROVE  RevocationInv
<1>1. 0 \in 0..LeaseTime
  BY DEF Enrol!ConstantsOK
<1> QED
  BY <1>1, Zenon DEF Enrol!Init, RevocationInv, Shapes, Rows, DoorHolds, Enrol!RevokedIsRefused,
       Enrol!NothingStray,
        Enrol!NoRow, Enrol!NoRequest, Enrol!Nobody, Enrol!Registered

\* Registering a worker keeps it: the name and the certificate are new.
LEMMA RegisterKeeps ==
  ASSUME RevocationInv, NEW c \in Certs, NEW name \in Names, NEW arrives \in BOOLEAN,
         Enrol!Register(c, name, arrives)
  PROVE  RevocationInv'
<1> USE DEF RevocationInv
<1>1. workers[c] = Enrol!NoRow /\ name # Enrol!Nobody
  BY DEF Rows, Enrol!Register, Enrol!Registered, Enrol!NoRow
<1>2. /\ workers' \in [Certs -> [name : Names \cup {Enrol!Nobody}, revoked : BOOLEAN]]
      /\ workers'[c] = [name |-> name, revoked |-> FALSE]
      /\ \A d \in Certs : d # c => workers'[d] = workers[d]
  BY DEF Rows, Enrol!Register
<1>3. workers'[c] # Enrol!NoRow
  BY <1>1, <1>2 DEF Enrol!NoRow
<1>4. Rows'
  <2>1. ASSUME NEW a \in Certs, NEW b \in Certs, Enrol!Registered(a)', Enrol!Registered(b)',
               workers'[a].name = workers'[b].name
        PROVE  a = b
    BY <1>2, <2>1 DEF Rows, Enrol!Register, Enrol!Registered
  <2>2. held' \subseteq {d \in Certs : Enrol!Registered(d)'}
    BY <1>2, <1>3 DEF Rows, Enrol!Register, Enrol!Registered
  <2> QED
    BY <1>2, <2>1, <2>2 DEF Rows, Enrol!Registered
<1>5. Shapes'
  BY DEF Shapes, Enrol!Register
<1>6. DoorHolds'
  BY <1>1, <1>2 DEF DoorHolds, Shapes, Rows, Enrol!Register, Enrol!NoRow
<1>7. Enrol!RevokedIsRefused' /\ Enrol!NothingStray'
  BY DEF Enrol!Register, Enrol!RevokedIsRefused, Enrol!NothingStray
<1> QED
  BY <1>4, <1>5, <1>6, <1>7

\* Revoking a worker keeps it: the row stays, and what is late stays late.
LEMMA RevokeKeeps ==
  ASSUME RevocationInv, NEW c \in Certs, Enrol!Revoke(c)
  PROVE  RevocationInv'
<1> USE DEF RevocationInv
<1>1. Rows'
  BY DEF Rows, Enrol!Revoke, Enrol!Active, Enrol!Registered, Enrol!NoRow, Enrol!Nobody
<1>2. Shapes'
  BY DEF Shapes, Enrol!Revoke
<1>3. DoorHolds'
  BY DEF DoorHolds, Shapes, Rows, Enrol!Revoke, Enrol!Active
<1>4. Enrol!RevokedIsRefused' /\ Enrol!NothingStray'
  BY DEF Enrol!Revoke, Enrol!RevokedIsRefused, Enrol!NothingStray
<1> QED
  BY <1>1, <1>2, <1>3, <1>4

\* Sending keeps it: a request knows whether its certificate was revoked by then.
LEMMA SendKeeps ==
  ASSUME RevocationInv, NEW r \in Requests, NEW c \in Certs,
         NEW op \in {"claim", "heartbeat", "complete"}, NEW j \in WorkerJobs, Enrol!Send(r, c, op, j)
  PROVE  RevocationInv'
<1> USE DEF RevocationInv
<1>1. Rows'
  BY DEF Rows, Enrol!Send, Enrol!Registered
<1>2. Shapes'
  BY DEF Shapes, Rows, Enrol!Send
<1>3. DoorHolds'
  BY DEF DoorHolds, Shapes, Enrol!Send
<1>4. Enrol!RevokedIsRefused' /\ Enrol!NothingStray'
  BY DEF Enrol!Send, Enrol!RevokedIsRefused, Enrol!NothingStray
<1> QED
  BY <1>1, <1>2, <1>3, <1>4

\* The door keeps it: a request sent after the revocation is refused there.
LEMMA DoorKeeps ==
  ASSUME RevocationInv, NEW r \in Requests, Enrol!Authenticate(r) \/ Enrol!Abandon(r)
  PROVE  RevocationInv'
<1> USE DEF RevocationInv
<1>1. Rows'
  BY DEF Rows, Enrol!Authenticate, Enrol!Abandon, Enrol!Registered
<1>2. request[r].pc # "none" /\ request[r].cert \in Certs
  BY DEF Enrol!Authenticate, Enrol!Abandon, Shapes, Rows
<1>3. \/ request' = [request EXCEPT ![r] = Enrol!NoRequest]
      \/ /\ request[r].pc = "sent" /\ Enrol!Active(request[r].cert)
         /\ request' = [request EXCEPT ![r] = [request[r] EXCEPT !.pc = "authed"]]
  BY DEF Enrol!Authenticate, Enrol!Abandon, Shapes
<1>4. Shapes'
  <2>1. CASE request' = [request EXCEPT ![r] = Enrol!NoRequest]
    BY <2>1 DEF Shapes, Enrol!Authenticate, Enrol!Abandon, Enrol!NoRequest, Enrol!Nobody
  <2>2. CASE request' = [request EXCEPT ![r] = [request[r] EXCEPT !.pc = "authed"]]
    <3> DEFINE q == [request[r] EXCEPT !.pc = "authed"]
    <3>1. q \in [pc : {"none", "sent", "authed"}, cert : Certs \cup {Enrol!Nobody},
                 op : {Enrol!Nobody, "claim", "heartbeat", "complete"},
                 job : WorkerJobs \cup {Enrol!Nobody}, late : BOOLEAN]
      BY DEF Shapes
    <3>2. q.cert = request[r].cert /\ q.job = request[r].job
      BY DEF Shapes
    <3>3. request' = [request EXCEPT ![r] = q]
      BY <2>2
    <3> HIDE DEF q
    <3> QED
      BY <1>2, <3>1, <3>2, <3>3 DEF Shapes, Enrol!Authenticate, Enrol!Abandon
  <2> QED
    BY <1>3, <2>1, <2>2
<1>5. DoorHolds'
  BY <1>2, <1>3 DEF DoorHolds, Shapes, Enrol!Authenticate, Enrol!Abandon, Enrol!NoRequest,
       Enrol!Active, Enrol!Nobody
<1>6. Enrol!RevokedIsRefused' /\ Enrol!NothingStray'
  BY DEF Enrol!Authenticate, Enrol!Abandon, Enrol!RevokedIsRefused, Enrol!NothingStray
<1> QED
  BY <1>1, <1>4, <1>5, <1>6

\* What a request that passed the door is served as: it was sent before the revocation.
LEMMA ServedKeeps ==
  ASSUME RevocationInv, NEW r \in Requests, request[r].pc = "authed", Enrol!Served(r),
         UNCHANGED <<workers, held>>, NEW j \in WorkerJobs,
         NEW row \in [state : {"queued", "leased", "done"}, cert : Certs \cup {Enrol!Nobody},
                      left : 0..LeaseTime, stray : BOOLEAN],
         job' = [job EXCEPT ![j] = row], row.state = "leased" => row.cert \in held, ~ row.stray
  PROVE  RevocationInv'
<1> USE DEF RevocationInv
<1>1. Rows'
  BY DEF Rows, Enrol!Registered
<1>2. ~ request[r].late
  BY DEF DoorHolds
<1>3. Enrol!RevokedIsRefused'
  BY <1>2 DEF Enrol!RevokedIsRefused, Enrol!Served
<1>4. Shapes'
  BY DEF Shapes, Enrol!Served, Enrol!NoRequest, Enrol!Nobody
<1>5. DoorHolds'
  BY DEF DoorHolds, Shapes, Enrol!Served, Enrol!NoRequest
<1>6. Enrol!NothingStray'
  BY DEF Enrol!NothingStray, Shapes
<1> QED
  BY <1>1, <1>3, <1>4, <1>5, <1>6

\* A claim looks at the worker's row again, and so does what decides a campaign's job.
LEMMA WorkKeeps ==
  ASSUME Enrol!ConstantsOK, RevocationInv, NEW r \in Requests, Enrol!Claim(r) \/ Enrol!Heartbeat(r) \/ Enrol!Complete(r)
  PROVE  RevocationInv'
<1> DEFINE Row == [state : {"queued", "leased", "done"}, cert : Certs \cup {Enrol!Nobody},
                   left : 0..LeaseTime, stray : BOOLEAN]
<1>1. PICK j \in WorkerJobs : j = request[r].job
  BY DEF RevocationInv, Shapes, Enrol!Claim, Enrol!Heartbeat, Enrol!Complete
<1>2. PICK c \in held : c = request[r].cert
  BY DEF RevocationInv, Shapes, Enrol!Claim, Enrol!Heartbeat, Enrol!Complete
<1>3. c \in Certs /\ workers[c].revoked \in BOOLEAN
  BY <1>2 DEF RevocationInv, Rows
<1>4. job[j] \in Row /\ job \in [WorkerJobs -> Row] /\ LeaseTime \in 0..LeaseTime /\ ~ job[j].stray
  BY <1>1 DEF RevocationInv, Shapes, Enrol!NothingStray, Enrol!ConstantsOK
<1>5. CASE Enrol!Claim(r)
  <2> DEFINE row == [state |-> "leased", cert |-> c, left |-> LeaseTime, stray |-> workers[c].revoked]
  <2>1. row \in Row /\ row.cert \in held /\ ~ row.stray
    BY <1>2, <1>3, <1>4, <1>5 DEF Enrol!Claim, Enrol!Active
  <2>2. job' = [job EXCEPT ![j] = row]
    BY <1>1, <1>2, <1>5 DEF Enrol!Claim
  <2> HIDE DEF row
  <2> QED
    BY <1>5, <2>1, <2>2, ServedKeeps DEF Enrol!Claim
<1>6. CASE Enrol!Heartbeat(r)
  <2> DEFINE row == [job[j] EXCEPT !.left = LeaseTime]
  <2>1. row \in Row /\ row.cert = job[j].cert /\ row.stray = job[j].stray
    BY <1>4
  <2>2. job' = [job EXCEPT ![j] = row]
    BY <1>1, <1>6 DEF Enrol!Heartbeat
  <2>3. row.cert \in held
    BY <1>1, <1>2, <1>6, <2>1 DEF Enrol!Heartbeat, Enrol!MayUse, Enrol!Holds
  <2> HIDE DEF row
  <2> QED
    BY <1>4, <1>6, <2>1, <2>2, <2>3, ServedKeeps DEF Enrol!Heartbeat
<1>7. CASE Enrol!Complete(r)
  <2> DEFINE row == [job[j] EXCEPT !.state = "done", !.stray = j \in PhasedJobs /\ workers[c].revoked]
  <2>1. ~ (j \in PhasedJobs /\ workers[c].revoked)
    BY <1>1, <1>2, <1>7 DEF Enrol!Complete, Enrol!MayUse, Enrol!Active
  <2>2. row \in Row /\ row.state = "done" /\ row.stray = FALSE
    BY <1>4, <2>1
  <2>3. job' = [job EXCEPT ![j] = row]
    BY <1>1, <1>2, <1>4, <1>7 DEF Enrol!Complete
  <2> HIDE DEF row
  <2> QED
    BY <1>7, <2>2, <2>3, ServedKeeps DEF Enrol!Complete
<1> QED
  BY <1>5, <1>6, <1>7

\* The clock and the reaper keep it.
LEMMA TimeKeeps ==
  ASSUME Enrol!ConstantsOK, RevocationInv, Enrol!Tick \/ \E j \in WorkerJobs : Enrol!Reap(j)
  PROVE  RevocationInv'
<1> USE DEF RevocationInv
<1>1. UNCHANGED <<workers, held, request, late>>
  BY DEF Enrol!Tick, Enrol!Reap
<1>2. Rows' /\ DoorHolds' /\ Enrol!RevokedIsRefused'
  BY <1>1 DEF Rows, Enrol!Registered, DoorHolds, Enrol!RevokedIsRefused
<1>3. CASE Enrol!Tick
  <2>1. ASSUME NEW j \in WorkerJobs
        PROVE  /\ job'[j] \in [state : {"queued", "leased", "done"}, cert : Certs \cup {Enrol!Nobody},
                                left : 0..LeaseTime, stray : BOOLEAN]
               /\ job'[j].state = job[j].state /\ job'[j].cert = job[j].cert
    <3>1. CASE job[j].state = "leased" /\ job[j].left > 0
      <4>1. job'[j] = [job[j] EXCEPT !.left = job[j].left - 1]
        BY <1>3, <3>1 DEF Enrol!Tick
      <4> QED
        BY <3>1, <4>1 DEF Shapes, Enrol!ConstantsOK
    <3>2. CASE ~ (job[j].state = "leased" /\ job[j].left > 0)
      BY <1>3, <3>2 DEF Shapes, Enrol!Tick
    <3> QED
      BY <3>1, <3>2
  <2>2. job' \in [WorkerJobs -> [state : {"queued", "leased", "done"}, cert : Certs \cup {Enrol!Nobody},
                          left : 0..LeaseTime, stray : BOOLEAN]]
    BY <1>3, <2>1 DEF Enrol!Tick
  <2>3. Shapes'
    BY <1>1, <2>1, <2>2 DEF Shapes
  <2>4. Enrol!NothingStray'
    BY <1>3 DEF Enrol!NothingStray, Shapes, Enrol!Tick
  <2> QED
    BY <1>2, <2>3, <2>4
<1>4. ASSUME NEW j \in WorkerJobs, Enrol!Reap(j)
      PROVE  RevocationInv'
  <2>1. Shapes'
    BY <1>1, <1>4 DEF Shapes, Enrol!Reap, Enrol!Nobody
  <2>2. Enrol!NothingStray'
    BY <1>4 DEF Enrol!NothingStray, Shapes, Enrol!Reap
  <2> QED
    BY <1>2, <2>1, <2>2
<1> QED
  BY <1>3, <1>4

\* From its revocation on a worker is refused at the door, and what was let in before it
\* starts no lease and decides no campaign's job, however requests and revocation
\* interleave (mtls_auth, claim_in_transaction, ReviewTransaction::authorize).
THEOREM RevocationIsFinal == Enrol!ConstantsOK => (Enrol!Spec => []Enrol!RevocationHolds)
<1> SUFFICES ASSUME Enrol!ConstantsOK
             PROVE  Enrol!Spec => []Enrol!RevocationHolds
  OBVIOUS
<1>1. Enrol!Init => RevocationInv
  BY RevocationInit
<1>2. RevocationInv /\ [Enrol!Next]_(Enrol!vars) => RevocationInv'
  <2> SUFFICES ASSUME RevocationInv, [Enrol!Next]_(Enrol!vars)
               PROVE  RevocationInv'
    OBVIOUS
  <2>1. ASSUME UNCHANGED Enrol!vars
        PROVE  RevocationInv'
    BY <2>1 DEF Enrol!vars, RevocationInv, Shapes, Rows, Enrol!Registered, DoorHolds,
         Enrol!RevokedIsRefused,
                Enrol!NothingStray
  <2>2. ASSUME NEW r \in Requests, Enrol!Serve(r)
        PROVE  RevocationInv'
    BY <2>2, DoorKeeps, WorkKeeps DEF Enrol!Serve
  <2> QED
    BY <2>1, <2>2, RegisterKeeps, RevokeKeeps, SendKeeps, TimeKeeps DEF Enrol!Next
<1> QED
  BY <1>1, <1>2, RevocationImplied, PTL DEF Enrol!Spec

(***************************************************************************)
(* The tokens of the installations                                          *)
(***************************************************************************)
Minting == {"mint", "minted"}
MintRow == [key : AppKeys, now : 0..MaxTime, shared : BOOLEAN]
SessionRow ==
  [pc : {"idle", "want", "mint", "minted", "post", "drop"}, key : AppKeys \cup {None},
   now : 0..MaxTime, token : 0..MaxTokens, post : {"label", "issue"}, again : BOOLEAN,
   mints : 0..3, since : 0..MaxTokens]

\* What a dispatch may have minted by the end of the request it is at.
Allowance(row) ==
  IF row.post = "label" THEN (IF row.again THEN 2 ELSE 1) ELSE (IF row.again THEN 3 ELSE 2)

\* One dispatch: its mints, its token, and what it may still be given.
RowOK(row) ==
  /\ row.pc # "idle" => row.key \in AppKeys
  /\ row.pc \in {"want", "mint", "drop"} => row.mints < Allowance(row)
  /\ row.pc \in {"minted", "post"} =>
       /\ row.mints <= Allowance(row)
       /\ row.token \in 1..Len(github) /\ github[row.token].key = row.key
  /\ row.pc = "minted" => row.token = Len(github) /\ github[row.token].now = row.now
  /\ row.pc = "mint" => cache[row.key].expires <= row.now
  /\ row.again =>
       /\ row.since <= Len(github)
       /\ row.pc \in {"want", "mint", "minted"} =>
            cache[row.key].token = 0 \/ cache[row.key].token > row.since
       /\ row.pc = "post" => row.token > row.since

Sessions == \A d \in Dispatches : RowOK(session[d])

\* The lock is held across the mint.
LockHeld == \A d \in Dispatches : session[d].pc \in Minting => lock = d

\* What arrives at the cache while a dispatch waits to retry was minted after its 401.
MintedLater ==
  \A d, e \in Dispatches :
    session[d].again /\ session[d].pc \in {"want"} \cup Minting /\ session[e].pc = "minted"
      => session[e].token > session[d].since

\* A cached token was minted for the key it is cached under.
Entries ==
  \A k \in AppKeys :
    /\ cache[k].token = 0 => cache[k].expires = 0
    /\ cache[k].token # 0 =>
         cache[k].token \in 1..Len(github) /\ github[cache[k].token].key = k

\* A key's last token, if it reached the cache and was not dropped, is there.
CachedLast ==
  \A t \in 1..Len(github) :
    /\ github[t].shared
    /\ \A u \in (t + 1)..Len(github) : github[u].key # github[t].key
    => /\ cache[github[t].key].token = t
       /\ cache[github[t].key].expires = github[t].now + CacheSecs

\* The tables' types.
Tables ==
  /\ clock \in 0..MaxTime
  /\ cache \in [AppKeys -> [token : 0..MaxTokens, expires : 0..(MaxTime + CacheSecs)]]
  /\ session \in [Dispatches -> SessionRow]
  /\ github \in Seq(MintRow) /\ Len(github) <= MaxTokens
  /\ rejected \subseteq Tokens!Tokens
  /\ lock \in {None} \cup {d \in Dispatches : session[d].pc \in Minting}

TokensInv ==
  Tables /\ Sessions /\ LockHeld /\ MintedLater /\ Entries /\ CachedLast /\ Tokens!MintsShared

\* The inductive invariant implies what the run checks.
LEMMA TokensImplied == Tokens!ConstantsOK /\ TokensInv => Tokens!TokensSound
<1> SUFFICES ASSUME Tokens!ConstantsOK, TokensInv
             PROVE  Tokens!TokensSound
  OBVIOUS
<1>1. Tokens!TypeOK
  <2>1. 0..3 \subseteq Nat
    OBVIOUS
  <2>2. session \in [Dispatches ->
          [pc : {"idle", "want", "mint", "minted", "post", "drop"}, key : AppKeys \cup {None},
           now : 0..MaxTime, token : 0..MaxTokens, post : {"label", "issue"}, again : BOOLEAN,
           mints : Nat, since : 0..MaxTokens]]
    BY <2>1 DEF TokensInv, Tables, SessionRow
  <2> QED
    BY <2>2 DEF TokensInv, Tables, Tokens!TypeOK, MintRow, Minting
<1>2. Tokens!RetryIsFresh
  BY DEF TokensInv, Sessions, RowOK, Tokens!RetryIsFresh, Tokens!At
<1>3. Tokens!TokenIsOwn
  BY DEF TokensInv, Sessions, RowOK, Tokens!TokenIsOwn, Tokens!At
<1> QED
  BY <1>1, <1>2, <1>3 DEF TokensInv, Tokens!TokensSound

\* A dispatch that does nothing owes nothing.
LEMMA IdleRow == Tokens!ConstantsOK => Tokens!Idle \in SessionRow /\ RowOK(Tokens!Idle) /\ Tokens!Idle.pc = "idle" /\ ~ Tokens!Idle.again
<1> SUFFICES ASSUME Tokens!ConstantsOK
             PROVE  Tokens!Idle \in SessionRow /\ RowOK(Tokens!Idle) /\ Tokens!Idle.pc = "idle" /\ ~ Tokens!Idle.again
  OBVIOUS
<1>1. 0 \in 0..MaxTime /\ 0 \in 0..MaxTokens /\ 0 \in 0..3
  BY DEF Tokens!ConstantsOK
<1>2. Tokens!Idle \in SessionRow /\ Tokens!Idle.pc = "idle" /\ ~ Tokens!Idle.again
  BY <1>1 DEF Tokens!Idle, SessionRow
<1> QED
  BY <1>2 DEF RowOK

\* It holds before the first dispatch.
LEMMA TokensInitial == Tokens!ConstantsOK /\ Tokens!Init => TokensInv
<1> SUFFICES ASSUME Tokens!ConstantsOK, Tokens!Init
             PROVE  TokensInv
  OBVIOUS
<1>1. Len(github) = 0 /\ github \in Seq(MintRow) /\ DOMAIN github = {}
  BY DEF Tokens!Init
<1>2. \A d \in Dispatches : session[d] = Tokens!Idle
  BY DEF Tokens!Init
<1>3. /\ 0 \in 0..MaxTime /\ 0 \in 0..MaxTokens /\ 0 \in 0..(MaxTime + CacheSecs)
      /\ MaxTokens \in Nat
  BY DEF Tokens!ConstantsOK
<1>4. Tokens!NoEntry \in [token : 0..MaxTokens, expires : 0..(MaxTime + CacheSecs)]
      /\ Tokens!NoEntry.token = 0 /\ Tokens!NoEntry.expires = 0
  BY <1>3 DEF Tokens!NoEntry
<1>5. Tables
  BY <1>1, <1>3, <1>4, IdleRow DEF Tokens!Init, Tables
<1>6. Sessions /\ LockHeld /\ MintedLater
  BY <1>2, IdleRow DEF Sessions, LockHeld, MintedLater, Minting
<1>7. Entries
  BY <1>4 DEF Tokens!Init, Entries
<1>8. CachedLast /\ Tokens!MintsShared
  BY <1>1 DEF CachedLast, Tokens!MintsShared
<1> QED
  BY <1>5, <1>6, <1>7, <1>8 DEF TokensInv

\* A step of one dispatch that leaves the cache alone and mints nothing: it takes the free
\* lock, or leaves it, or has nothing to do with it.
LEMMA SessionKeeps ==
  ASSUME Tokens!ConstantsOK, TokensInv, NEW d \in Dispatches, NEW row \in SessionRow,
         session' = [session EXCEPT ![d] = row], cache' = cache, github' = github,
         clock' = clock, rejected' = rejected, RowOK(row),
         \/ row.pc \notin Minting /\ lock' = (IF lock = d THEN None ELSE lock)
         \/ row.pc = "mint" /\ lock = None /\ lock' = d,
         row.again /\ row.pc \in {"want", "mint"} =>
           session[d].again /\ session[d].pc \in {"want", "mint"} /\ session[d].since = row.since
  PROVE  TokensInv'
<1>1. /\ session' \in [Dispatches -> SessionRow] /\ session'[d] = row
      /\ \A e \in Dispatches : e # d => session'[e] = session[e]
  BY DEF TokensInv, Tables
<1>2. LockHeld' /\ lock' \in {None} \cup {e \in Dispatches : session'[e].pc \in Minting}
  <2>1. None \notin Dispatches /\ lock \in {None} \cup {e \in Dispatches : session[e].pc \in Minting}
    BY DEF Tokens!ConstantsOK, TokensInv, Tables
  <2>2. \A e \in Dispatches : session[e].pc \in Minting => lock = e
    BY DEF TokensInv, LockHeld
  <2>3. CASE row.pc \notin Minting /\ lock' = (IF lock = d THEN None ELSE lock)
    BY <1>1, <2>1, <2>2, <2>3 DEF LockHeld
  <2>4. CASE row.pc = "mint" /\ lock = None /\ lock' = d
    BY <1>1, <2>1, <2>2, <2>4 DEF LockHeld, Minting
  <2> QED
    BY <2>3, <2>4
<1>3. Tables'
  BY <1>1, <1>2 DEF TokensInv, Tables
<1>4. Sessions'
  BY <1>1 DEF TokensInv, Sessions, RowOK
<1>5. MintedLater'
  BY <1>1 DEF TokensInv, MintedLater, Minting
<1>6. Entries' /\ CachedLast' /\ Tokens!MintsShared'
  BY DEF TokensInv, Entries, CachedLast, Tokens!MintsShared
<1> QED
  BY <1>2, <1>3, <1>4, <1>5, <1>6 DEF TokensInv

\* Everything a dispatch does but minting, storing and dropping a token.
LEMMA DispatchKeeps ==
  ASSUME Tokens!ConstantsOK, TokensInv, NEW d \in Dispatches,
         \/ \E k \in AppKeys : Tokens!Begin(d, k)
         \/ Tokens!TakeCached(d) \/ Tokens!Lookup(d) \/ Tokens!MintFails(d) \/ Tokens!Accepted(d) \/ Tokens!Unauthorized(d)
         \/ Tokens!PostFails(d) \/ Tokens!HandlerDropped(d)
  PROVE  TokensInv'
<1>1. /\ session[d] \in SessionRow /\ RowOK(session[d]) /\ clock \in 0..MaxTime
      /\ session[d].pc \notin Minting => lock # d
      /\ Len(github) \in Nat /\ Len(github) <= MaxTokens
      /\ 0 \in 0..MaxTime /\ 0 \in 0..MaxTokens /\ MaxTokens \in Nat
      /\ None \notin Dispatches
  BY DEF TokensInv, Tables, Sessions, Tokens!ConstantsOK
<1>2. CASE \E k \in AppKeys : Tokens!Begin(d, k)
  <2>1. PICK k \in AppKeys : Tokens!Begin(d, k)
    BY <1>2
  <2>2. PICK row : row = [Tokens!Idle EXCEPT !.pc = "want", !.key = k, !.now = clock]
    OBVIOUS
  <2>3. row \in SessionRow /\ row.pc = "want" /\ row.key = k /\ ~ row.again /\ row.mints = 0
        /\ row.post = "label"
    BY <1>1, <2>2, IdleRow DEF Tokens!Idle, SessionRow
  <2>4. RowOK(row) /\ row.pc \notin Minting
    BY <2>3 DEF RowOK, Allowance, Minting
  <2>5. /\ session' = [session EXCEPT ![d] = row] /\ lock' = lock /\ session[d].pc \notin Minting
        /\ cache' = cache /\ github' = github /\ clock' = clock /\ rejected' = rejected
    BY <2>1, <2>2 DEF Tokens!Begin, Tokens!At, Minting
  <2> QED
    BY <1>1, <2>3, <2>4, <2>5, SessionKeeps
<1>3. CASE Tokens!TakeCached(d)
  <2>1. PICK row, k : row = [session[d] EXCEPT !.pc = "post", !.token = cache[k].token, !.now = 0]
                      /\ k = session[d].key
    OBVIOUS
  <2>2. /\ session[d].pc = "want" /\ cache[k].expires > session[d].now
        /\ session' = [session EXCEPT ![d] = row] /\ lock' = lock
        /\ cache' = cache /\ github' = github /\ clock' = clock /\ rejected' = rejected
    BY <1>3, <2>1 DEF Tokens!TakeCached, Tokens!At, Tokens!Cached, Tokens!CacheKey
  <2>3. k \in AppKeys
    BY <1>1, <2>1, <2>2 DEF RowOK
  <2>4. cache[k].token \in 1..Len(github) /\ github[cache[k].token].key = k
    <3>1. cache[k].expires # 0 /\ cache[k].token \in 0..MaxTokens
      BY <1>1, <2>2, <2>3 DEF TokensInv, Tables, SessionRow
    <3> QED
      BY <2>3, <3>1 DEF TokensInv, Entries
  <2>5. cache[k].token \in 0..MaxTokens
    BY <2>3 DEF TokensInv, Tables
  <2>6. /\ row \in SessionRow /\ row.pc = "post" /\ row.key = k /\ row.token = cache[k].token
        /\ row.again = session[d].again /\ row.since = session[d].since
        /\ row.mints = session[d].mints /\ row.post = session[d].post
    BY <1>1, <2>1, <2>5 DEF SessionRow
  <2>7. session[d].mints < Allowance(session[d])
        /\ (session[d].again => session[d].since <= Len(github)
             /\ (cache[k].token = 0 \/ cache[k].token > session[d].since))
    BY <1>1, <2>1, <2>2 DEF RowOK
  <2>8. row.mints <= Allowance(row)
    BY <1>1, <2>6, <2>7 DEF Allowance, SessionRow
  <2>9. RowOK(row)
    BY <1>1, <2>3, <2>4, <2>6, <2>7, <2>8 DEF RowOK
  <2>10. row.pc \notin Minting /\ session[d].pc \notin Minting
    BY <2>2, <2>6 DEF Minting
  <2> QED
    BY <1>1, <2>2, <2>6, <2>9, <2>10, SessionKeeps
<1>4. CASE Tokens!Lookup(d)
  <2>1. PICK row : row = [session[d] EXCEPT !.pc = "mint"]
    OBVIOUS
  <2>2. /\ session[d].pc = "want" /\ cache[session[d].key].expires <= session[d].now
        /\ session' = [session EXCEPT ![d] = row] /\ lock = None /\ lock' = d
        /\ cache' = cache /\ github' = github /\ clock' = clock /\ rejected' = rejected
    BY <1>4, <2>1 DEF Tokens!Lookup, Tokens!At, Tokens!Cached, Tokens!CacheKey, Tokens!Free
  <2>3. /\ row \in SessionRow /\ row.pc = "mint" /\ row.key = session[d].key
        /\ row.now = session[d].now /\ row.again = session[d].again
        /\ row.since = session[d].since /\ row.mints = session[d].mints
        /\ row.post = session[d].post
    BY <1>1, <2>1 DEF SessionRow
  <2>4. RowOK(row)
    BY <1>1, <2>2, <2>3 DEF RowOK, Allowance
  <2> QED
    BY <2>2, <2>3, <2>4, SessionKeeps
<1>5. CASE Tokens!MintFails(d) \/ Tokens!HandlerDropped(d)
  <2>1. /\ session' = [session EXCEPT ![d] = Tokens!Idle] /\ lock' = IF lock = d THEN None ELSE lock
        /\ cache' = cache /\ github' = github /\ clock' = clock /\ rejected' = rejected
    BY <1>5 DEF Tokens!MintFails, Tokens!HandlerDropped, Tokens!Finish
  <2> QED
    BY <2>1, IdleRow, SessionKeeps DEF Minting
<1>6. CASE Tokens!PostFails(d) \/ (Tokens!Accepted(d) /\ session[d].post # "label")
  <2>1. /\ session' = [session EXCEPT ![d] = Tokens!Idle] /\ lock' = lock /\ session[d].pc = "post"
        /\ cache' = cache /\ github' = github /\ clock' = clock /\ rejected' = rejected
    BY <1>6 DEF Tokens!PostFails, Tokens!Accepted, Tokens!Finish, Tokens!At
  <2>2. lock' = IF lock = d THEN None ELSE lock
    BY <1>1, <2>1 DEF Minting
  <2> QED
    BY <2>1, <2>2, IdleRow, SessionKeeps DEF Minting
<1>7. CASE Tokens!Accepted(d) /\ session[d].post = "label"
  <2>1. PICK row : row = [session[d] EXCEPT !.post = "issue", !.again = FALSE, !.since = 0]
    OBVIOUS
  <2>2. /\ session' = [session EXCEPT ![d] = row] /\ lock' = lock /\ session[d].pc = "post"
        /\ cache' = cache /\ github' = github /\ clock' = clock /\ rejected' = rejected
    BY <1>7, <2>1 DEF Tokens!Accepted, Tokens!At
  <2>3. /\ row \in SessionRow /\ row.pc = "post" /\ row.key = session[d].key /\ ~ row.again
        /\ row.post = "issue" /\ row.mints = session[d].mints /\ row.token = session[d].token
    BY <1>1, <2>1, <2>2 DEF SessionRow
  <2>4. session[d].mints <= 2 /\ session[d].mints \in 0..3
    BY <1>1, <1>7, <2>2 DEF RowOK, Allowance, SessionRow
  <2>5. RowOK(row)
    BY <1>1, <2>2, <2>3, <2>4 DEF RowOK, Allowance
  <2>6. row.pc \notin Minting /\ lock' = IF lock = d THEN None ELSE lock
    BY <1>1, <2>2, <2>3 DEF Minting
  <2> QED
    BY <2>2, <2>3, <2>5, <2>6, SessionKeeps
<1>8. CASE Tokens!Unauthorized(d)
  <2>1. PICK row : row = [session[d] EXCEPT !.pc = "drop", !.again = TRUE, !.since = Len(github)]
    OBVIOUS
  <2>2. /\ session' = [session EXCEPT ![d] = row] /\ lock' = lock /\ session[d].pc = "post"
        /\ ~ session[d].again
        /\ cache' = cache /\ github' = github /\ clock' = clock /\ rejected' = rejected
    BY <1>8, <2>1 DEF Tokens!Unauthorized, Tokens!At
  <2>3. /\ row \in SessionRow /\ row.pc = "drop" /\ row.key = session[d].key /\ row.again
        /\ row.post = session[d].post /\ row.mints = session[d].mints /\ row.since = Len(github)
    <3>1. Len(github) \in 0..MaxTokens
      BY <1>1
    <3> QED
      BY <1>1, <2>1, <3>1 DEF SessionRow
  <2>4. RowOK(row)
    BY <1>1, <2>2, <2>3 DEF RowOK, Allowance, SessionRow
  <2>5. row.pc \notin Minting /\ lock' = IF lock = d THEN None ELSE lock
    BY <1>1, <2>2, <2>3 DEF Minting
  <2> QED
    BY <2>2, <2>3, <2>4, <2>5, SessionKeeps
<1> QED
  BY <1>2, <1>3, <1>4, <1>5, <1>6, <1>7, <1>8

\* Whoever is at the mint holds the lock, so nobody else is.
LEMMA MintingAlone ==
  ASSUME Tokens!ConstantsOK, TokensInv
  PROVE  /\ \A d, e \in Dispatches :
              session[d].pc \in Minting /\ session[e].pc \in Minting => d = e
         /\ lock = None => \A d \in Dispatches : session[d].pc \notin Minting
BY DEF TokensInv, LockHeld, Tokens!ConstantsOK

\* GitHub mints a token for the dispatch that holds the lock.
LEMMA MintKeeps ==
  ASSUME Tokens!ConstantsOK, TokensInv, NEW d \in Dispatches, Tokens!GithubMints(d)
  PROVE  TokensInv'
<1>1. PICK n, m, k : n = Len(github) + 1 /\ k = session[d].key
                     /\ m = [key |-> k, now |-> session[d].now, shared |-> FALSE]
  OBVIOUS
<1>2. PICK row : row = [session[d] EXCEPT !.pc = "minted", !.token = n,
                                          !.mints = session[d].mints + 1]
  OBVIOUS
<1>3. /\ session[d].pc = "mint" /\ Len(github) < MaxTokens /\ github' = Append(github, m)
      /\ session' = [session EXCEPT ![d] = row] /\ lock' = lock
      /\ cache' = cache /\ clock' = clock /\ rejected' = rejected
  BY <1>1, <1>2 DEF Tokens!GithubMints, Tokens!At
<1>4. /\ session[d] \in SessionRow /\ RowOK(session[d]) /\ lock = d /\ k \in AppKeys
      /\ github \in Seq(MintRow) /\ Len(github) \in Nat /\ n \in 1..MaxTokens /\ n \in Nat
      /\ MaxTokens \in Nat
  BY <1>1, <1>3 DEF TokensInv, Tables, Sessions, RowOK, LockHeld, Minting, Tokens!ConstantsOK
<1>5. m \in MintRow /\ m.key = k /\ m.now = session[d].now /\ ~ m.shared
  BY <1>1, <1>4 DEF MintRow, SessionRow
<1>6. /\ github' \in Seq(MintRow) /\ Len(github') = n /\ github'[n] = m /\ DOMAIN github' = 1..n
      /\ \A t \in 1..Len(github) : github'[t] = github[t]
  BY <1>1, <1>3, <1>4, <1>5
<1>7. /\ session[d].mints < Allowance(session[d]) /\ session[d].mints \in 0..3
      /\ cache[k].expires <= session[d].now
      /\ session[d].again => session[d].since <= Len(github)
                             /\ (cache[k].token = 0 \/ cache[k].token > session[d].since)
  BY <1>1, <1>3, <1>4 DEF RowOK, SessionRow
<1>8. session[d].mints + 1 \in 0..3 /\ session[d].mints + 1 <= Allowance(session[d])
  BY <1>7 DEF Allowance
<1>9. /\ row \in SessionRow /\ row.pc = "minted" /\ row.key = k /\ row.token = n
      /\ row.now = session[d].now /\ row.mints = session[d].mints + 1
      /\ row.again = session[d].again /\ row.since = session[d].since
      /\ row.post = session[d].post
  <2>1. n \in 0..MaxTokens
    BY <1>4
  <2> QED
    BY <1>1, <1>2, <1>4, <1>8, <2>1 DEF SessionRow
<1>10. /\ session' \in [Dispatches -> SessionRow] /\ session'[d] = row
       /\ \A e \in Dispatches : e # d => session'[e] = session[e] /\ session[e].pc \notin Minting
  BY <1>3, <1>9, MintingAlone DEF TokensInv, Tables, Minting
<1>11. Tables' /\ LockHeld'
  BY <1>1, <1>3, <1>4, <1>6, <1>9, <1>10 DEF TokensInv, Tables, LockHeld, Minting
<1>12. Sessions'
  <2>1. RowOK(row)'
    <3>1. row.mints <= Allowance(row)
      BY <1>8, <1>9 DEF Allowance
    <3>2. n \in 1..Len(github') /\ github'[n].key = k /\ github'[n].now = session[d].now
      BY <1>4, <1>5, <1>6
    <3>3. row.again => row.since <= n /\ (cache'[k].token = 0 \/ cache'[k].token > row.since)
      <4>1. row.since \in Nat
        BY <1>9 DEF SessionRow
      <4> QED
        BY <1>1, <1>3, <1>4, <1>7, <1>9, <4>1
    <3> QED
      BY <1>4, <1>6, <1>9, <3>1, <3>2, <3>3 DEF RowOK
  <2>2. ASSUME NEW e \in Dispatches, e # d
        PROVE  RowOK(session[e])'
    <3>1. RowOK(session[e]) /\ session[e].pc \notin Minting /\ session[e] \in SessionRow
      BY <1>10, <2>2 DEF TokensInv, Sessions, Tables
    <3> QED
      BY <1>1, <1>3, <1>4, <1>6, <1>10, <2>2, <3>1 DEF RowOK, Allowance, Minting, SessionRow
  <2> QED
    BY <1>10, <2>1, <2>2 DEF Sessions
<1>13. MintedLater'
  <2>1. ASSUME NEW e \in Dispatches, session'[e].again
        PROVE  session'[e].since < n
    <3>1. CASE e = d
      BY <1>1, <1>4, <1>7, <1>9, <1>10, <2>1, <3>1 DEF SessionRow
    <3>2. CASE e # d
      <4>1. session[e] \in SessionRow /\ RowOK(session[e]) /\ session[e].again
            /\ session'[e] = session[e]
        BY <1>10, <2>1, <3>2 DEF TokensInv, Sessions, Tables
      <4>2. session[e].since <= Len(github) /\ session[e].since \in 0..MaxTokens
        BY <4>1 DEF RowOK, SessionRow
      <4> QED
        BY <1>1, <1>4, <4>1, <4>2
    <3> QED
      BY <3>1, <3>2
  <2> QED
    BY <1>9, <1>10, <2>1 DEF MintedLater, Minting
<1>14. Entries'
  BY <1>1, <1>3, <1>4, <1>6 DEF TokensInv, Entries, Tables
<1>15. CachedLast'
  <2>1. ASSUME NEW t \in 1..n, github'[t].shared,
               \A u \in (t + 1)..n : github'[u].key # github'[t].key
        PROVE  /\ cache[github'[t].key].token = t
               /\ cache[github'[t].key].expires = github'[t].now + CacheSecs
    <3>1. t \in 1..Len(github)
      BY <1>1, <1>4, <1>5, <1>6, <2>1
    <3>2. \A u \in (t + 1)..Len(github) : github[u].key # github[t].key
      BY <1>1, <1>4, <1>6, <2>1, <3>1
    <3> QED
      BY <1>6, <2>1, <3>1, <3>2 DEF TokensInv, CachedLast
  <2> QED
    BY <1>3, <1>6, <2>1 DEF CachedLast
<1>16. Tokens!MintsShared'
  <2>1. ASSUME NEW t \in 1..n, NEW u \in 1..n, t < u, github'[u].key = github'[t].key,
               \A v \in (t + 1)..(u - 1) : github'[v].key # github'[t].key, github'[t].shared
        PROVE  github'[u].now >= github'[t].now + CacheSecs
    <3>1. t \in 1..Len(github) /\ github'[t] = github[t]
      BY <1>1, <1>4, <1>6, <2>1
    <3>2. CASE u = n
      <4>1. \A v \in (t + 1)..Len(github) : github[v].key # github[t].key
        BY <1>1, <1>4, <1>6, <2>1, <3>1, <3>2
      <4>2. cache[github[t].key].expires = github[t].now + CacheSecs
        BY <2>1, <3>1, <4>1 DEF TokensInv, CachedLast
      <4>3. github[t] \in MintRow /\ CacheSecs \in Nat /\ session[d].now \in 0..MaxTime /\ MaxTime \in Nat
        BY <1>4, <3>1 DEF Tokens!ConstantsOK, SessionRow
      <4> QED
        BY <1>5, <1>6, <1>7, <2>1, <3>1, <3>2, <4>2, <4>3 DEF MintRow
    <3>3. CASE u # n
      <4>1. u \in 1..Len(github) /\ github'[u] = github[u]
        BY <1>1, <1>4, <1>6, <3>3
      <4>2. \A v \in (t + 1)..(u - 1) : github[v].key # github[t].key
        BY <1>4, <1>6, <2>1, <3>1, <4>1
      <4>3. t \in DOMAIN github /\ u \in DOMAIN github
        BY <1>4, <3>1, <4>1
      <4>4. github[u].now >= github[t].now + CacheSecs
        BY <2>1, <3>1, <4>1, <4>2, <4>3 DEF TokensInv, Tokens!MintsShared
      <4> QED
        BY <3>1, <4>1, <4>4
    <3> QED
      BY <3>2, <3>3
  <2> QED
    BY <1>6, <2>1 DEF Tokens!MintsShared
<1> QED
  BY <1>11, <1>12, <1>13, <1>14, <1>15, <1>16 DEF TokensInv

\* The table of tokens when only the marks of some change.
LEMMA Remarked ==
  ASSUME NEW n \in Nat, NEW S, NEW f \in [1..n -> S]
  PROVE  f \in Seq(S) /\ Len(f) = n /\ DOMAIN f = 1..n
OBVIOUS

\* A dispatch that is not at the mint, when marks and cached tokens change.
LEMMA RowStays ==
  ASSUME NEW row \in SessionRow, RowOK(row), row.pc \notin Minting, Len(github') = Len(github),
         \A t \in 1..Len(github) : github'[t].key = github[t].key,
         row.again /\ row.pc = "want" => cache'[row.key].token = 0 \/ cache'[row.key].token > row.since
  PROVE  RowOK(row)'
<1>1. /\ row.pc # "idle" => row.key \in AppKeys
      /\ row.pc \in {"want", "mint", "drop"} => row.mints < Allowance(row)
      /\ row.pc = "post" => row.mints <= Allowance(row)
      /\ row.pc # "mint" /\ row.pc # "minted"
  BY DEF RowOK, Minting
<1>2. row.pc = "post" => row.token \in 1..Len(github') /\ github'[row.token].key = row.key
  BY DEF RowOK
<1>3. row.again => row.since <= Len(github') /\ (row.pc = "post" => row.token > row.since)
  BY DEF RowOK
<1>4. Allowance(row)' = Allowance(row)
  BY DEF Allowance
<1> QED
  BY <1>1, <1>2, <1>3, <1>4 DEF RowOK

\* The token is put into the cache, and the lock released.
LEMMA StoreKeeps ==
  ASSUME Tokens!ConstantsOK, TokensInv, NEW d \in Dispatches, Tokens!StoreToken(d)
  PROVE  TokensInv'
<1>1. PICK n, k, at : n = Len(github) /\ k = session[d].key /\ at = session[d].now
  OBVIOUS
<1>2. PICK row : row = [session[d] EXCEPT !.pc = "post", !.now = 0]
  OBVIOUS
<1>3. /\ session[d].pc = "minted" /\ session[d] \in SessionRow /\ RowOK(session[d]) /\ lock = d
      /\ github \in Seq(MintRow)
  BY DEF Tokens!StoreToken, Tokens!At, TokensInv, Tables, Sessions, LockHeld, Minting
<1>4. /\ k \in AppKeys /\ session[d].token = n /\ n \in 1..Len(github) /\ n \in Nat /\ n \in 0..MaxTokens
      /\ github[n].key = k /\ github[n].now = at /\ at \in 0..MaxTime /\ github[n] \in MintRow
      /\ session[d].mints <= Allowance(session[d])
      /\ session[d].again => session[d].since <= n
  BY <1>1, <1>3 DEF RowOK, SessionRow
<1>5. PICK m : m = [github[n] EXCEPT !.shared = TRUE]
  OBVIOUS
<1>6. m \in MintRow /\ m.key = k /\ m.now = at /\ m.shared
  BY <1>4, <1>5 DEF MintRow
<1>7. PICK entry : entry = [token |-> n, expires |-> at + CacheSecs]
  OBVIOUS
<1>8. /\ entry \in [token : 0..MaxTokens, expires : 0..(MaxTime + CacheSecs)]
      /\ entry.token = n /\ entry.expires = at + CacheSecs
  BY <1>4, <1>7 DEF Tokens!ConstantsOK
<1>9. /\ cache' = [cache EXCEPT ![k] = entry] /\ github' = [github EXCEPT ![n] = m]
      /\ lock' = None /\ session' = [session EXCEPT ![d] = row]
      /\ clock' = clock /\ rejected' = rejected
  BY <1>1, <1>2, <1>3, <1>4, <1>5, <1>7 DEF Tokens!StoreToken, Tokens!CacheKey
<1>10. /\ row \in SessionRow /\ row.pc = "post" /\ row.key = k /\ row.token = n
       /\ row.again = session[d].again /\ row.since = session[d].since
       /\ row.mints = session[d].mints /\ row.post = session[d].post
  <2>1. 0 \in 0..MaxTime
    BY DEF Tokens!ConstantsOK
  <2> QED
    BY <1>1, <1>2, <1>3, <1>4, <2>1 DEF SessionRow
<1>11. /\ github' \in Seq(MintRow) /\ Len(github') = n /\ github'[n] = m
       /\ \A t \in 1..n : t # n => github'[t] = github[t]
       /\ \A t \in 1..n : github'[t].key = github[t].key /\ github'[t].now = github[t].now
  <2>1. github' \in [1..n -> MintRow] /\ \A t \in 1..n : github'[t] = IF t = n THEN m ELSE github[t]
    BY <1>1, <1>3, <1>4, <1>6, <1>9
  <2>2. github' \in Seq(MintRow) /\ Len(github') = n
    BY <1>4, <2>1, Remarked
  <2> QED
    BY <1>4, <1>6, <2>1, <2>2
<1>12. /\ cache' \in [AppKeys -> [token : 0..MaxTokens, expires : 0..(MaxTime + CacheSecs)]]
       /\ cache'[k] = entry /\ \A j \in AppKeys : j # k => cache'[j] = cache[j]
  BY <1>4, <1>8, <1>9 DEF TokensInv, Tables
<1>13. /\ session' \in [Dispatches -> SessionRow] /\ session'[d] = row
       /\ \A e \in Dispatches : e # d => session'[e] = session[e] /\ session[e].pc \notin Minting
  BY <1>3, <1>9, <1>10, MintingAlone DEF TokensInv, Tables, Minting
<1>14. Tables' /\ LockHeld' /\ MintedLater'
  <2>1. \A e \in Dispatches : session'[e].pc \notin Minting
    BY <1>10, <1>13 DEF Minting
  <2>2. n <= MaxTokens
    BY <1>1 DEF TokensInv, Tables
  <2> QED
    BY <1>9, <1>11, <1>12, <1>13, <2>1, <2>2 DEF TokensInv, Tables, LockHeld, MintedLater, Minting
<1>15. Sessions'
  <2>1. row.again => n > row.since
    BY <1>3, <1>4, <1>10 DEF TokensInv, MintedLater, Minting
  <2>2. RowOK(row)'
    BY <1>4, <1>10, <1>11, <2>1 DEF RowOK, Allowance
  <2>3. ASSUME NEW e \in Dispatches, e # d
        PROVE  RowOK(session[e])'
    <3>1. RowOK(session[e]) /\ session[e].pc \notin Minting /\ session[e] \in SessionRow
      BY <1>13, <2>3 DEF TokensInv, Sessions, Tables
    <3>2. session[e].again /\ session[e].pc = "want" => n > session[e].since
      BY <1>3, <1>4 DEF TokensInv, MintedLater, Minting
    <3> QED
      <4>1. PICK q : q = session[e]
        OBVIOUS
      <4>2. q.again /\ q.pc = "want" => cache'[q.key].token = 0 \/ cache'[q.key].token > q.since
        BY <1>8, <1>12, <3>1, <3>2, <4>1 DEF RowOK
      <4>3. RowOK(q)'
        BY <1>1, <1>11, <3>1, <4>1, <4>2, RowStays
      <4> QED
        BY <1>13, <2>3, <4>1, <4>3
  <2> QED
    BY <1>13, <2>2, <2>3 DEF Sessions
<1>16. Entries'
  <2>1. ASSUME NEW j \in AppKeys
        PROVE  /\ cache'[j].token = 0 => cache'[j].expires = 0
               /\ cache'[j].token # 0 => cache'[j].token \in 1..n /\ github'[cache'[j].token].key = j
    <3>1. CASE j = k
      BY <1>1, <1>4, <1>6, <1>8, <1>11, <1>12, <3>1
    <3>2. CASE j # k
      <4>1. PICK t : t = cache[j].token
        OBVIOUS
      <4>2. /\ cache'[j] = cache[j]
            /\ t = 0 => cache[j].expires = 0
            /\ t # 0 => t \in 1..n /\ github[t].key = j
        BY <1>1, <1>12, <3>2, <4>1 DEF TokensInv, Entries
      <4> QED
        BY <1>11, <4>1, <4>2
    <3> QED
      BY <3>1, <3>2
  <2> QED
    BY <1>11, <2>1 DEF Entries
<1>17. CachedLast'
  <2>1. ASSUME NEW t \in 1..n, github'[t].shared,
               \A u \in (t + 1)..n : github'[u].key # github'[t].key
        PROVE  /\ cache'[github'[t].key].token = t
               /\ cache'[github'[t].key].expires = github'[t].now + CacheSecs
    <3>1. CASE t = n
      BY <1>6, <1>8, <1>11, <1>12, <3>1
    <3>2. CASE t # n
      <4>1. github[t].shared /\ github'[t] = github[t] /\ n \in (t + 1)..n
        BY <1>4, <1>11, <2>1, <3>2
      <4>2. github[t].key # k
        BY <1>4, <1>11, <2>1, <4>1
      <4>3. github[t] \in MintRow
        BY <1>1, <1>3
      <4>4. \A u \in (t + 1)..Len(github) : github[u].key # github[t].key
        BY <1>1, <1>4, <1>11, <2>1
      <4>5. /\ cache[github[t].key].token = t
            /\ cache[github[t].key].expires = github[t].now + CacheSecs
        BY <1>1, <4>1, <4>4 DEF TokensInv, CachedLast
      <4> QED
        BY <1>12, <4>1, <4>2, <4>3, <4>5 DEF MintRow
    <3> QED
      BY <3>1, <3>2
  <2> QED
    BY <1>11, <2>1 DEF CachedLast
<1>18. Tokens!MintsShared'
  <2>1. ASSUME NEW t \in 1..n, NEW u \in 1..n, t < u, github'[u].key = github'[t].key,
               \A v \in (t + 1)..(u - 1) : github'[v].key # github'[t].key, github'[t].shared
        PROVE  github'[u].now >= github'[t].now + CacheSecs
    <3>1. t # n /\ github'[t] = github[t]
      BY <1>4, <1>11, <2>1
    <3>2. \A v \in (t + 1)..(u - 1) : github[v].key # github[t].key
      BY <1>4, <1>11, <2>1
    <3>3. github[u].now >= github[t].now + CacheSecs
      <4>1. DOMAIN github = 1..n
        BY <1>1, <1>3
      <4>2. github[u].key = github[t].key /\ github[t].shared
        BY <1>11, <2>1, <3>1
      <4> QED
        BY <2>1, <3>2, <4>1, <4>2 DEF TokensInv, Tokens!MintsShared
    <3>4. github'[u].now = github[u].now /\ github'[t].now = github[t].now
      BY <1>11, <2>1
    <3> QED
      BY <3>3, <3>4
  <2> QED
    BY <1>11, <2>1 DEF Tokens!MintsShared
<1> QED
  BY <1>14, <1>15, <1>16, <1>17, <1>18 DEF TokensInv

\* A rejected token leaves the cache; nobody mints meanwhile.
LEMMA DropKeeps ==
  ASSUME Tokens!ConstantsOK, TokensInv, NEW d \in Dispatches, Tokens!Invalidate(d)
  PROVE  TokensInv'
<1>1. PICK n, k, c : n = Len(github) /\ k = session[d].key /\ c = cache[k].token
  OBVIOUS
<1>2. PICK row : row = [session[d] EXCEPT !.pc = "want", !.now = clock, !.token = 0]
  OBVIOUS
<1>3. /\ session[d].pc = "drop" /\ lock = None /\ session[d] \in SessionRow /\ RowOK(session[d])
      /\ github \in Seq(MintRow) /\ n \in Nat /\ n <= MaxTokens /\ clock \in 0..MaxTime
      /\ k \in AppKeys
  BY <1>1 DEF Tokens!Invalidate, Tokens!At, Tokens!Free, TokensInv, Tables, Sessions, RowOK
<1>4. /\ cache' = [cache EXCEPT ![k] = Tokens!NoEntry] /\ lock' = lock
      /\ github' = [t \in 1..n |-> IF t = c THEN [github[t] EXCEPT !.shared = FALSE] ELSE github[t]]
      /\ session' = [session EXCEPT ![d] = row] /\ clock' = clock /\ rejected' = rejected
  BY <1>1, <1>2, <1>3 DEF Tokens!Invalidate, Tokens!Cached, Tokens!CacheKey
<1>5. 0 \in 0..MaxTokens /\ 0 \in 0..(MaxTime + CacheSecs) /\ MaxTokens \in Nat
  BY DEF Tokens!ConstantsOK
<1>6. /\ Tokens!NoEntry \in [token : 0..MaxTokens, expires : 0..(MaxTime + CacheSecs)]
      /\ Tokens!NoEntry.token = 0 /\ Tokens!NoEntry.expires = 0
  BY <1>5 DEF Tokens!NoEntry
<1>7. /\ row \in SessionRow /\ row.pc = "want" /\ row.key = k
      /\ row.again = session[d].again /\ row.since = session[d].since
      /\ row.mints = session[d].mints /\ row.post = session[d].post
  BY <1>1, <1>2, <1>3, <1>5 DEF SessionRow
<1>8. /\ github' \in Seq(MintRow) /\ Len(github') = n
      /\ \A t \in 1..n : /\ github'[t].key = github[t].key /\ github'[t].now = github[t].now
                         /\ github'[t].shared <=> t # c /\ github[t].shared
  <2>1. \A t \in 1..n : github[t] \in MintRow
    BY <1>1, <1>3
  <2>2. ASSUME NEW t \in 1..n
        PROVE  /\ github'[t] \in MintRow
               /\ github'[t].key = github[t].key /\ github'[t].now = github[t].now
               /\ github'[t].shared <=> t # c /\ github[t].shared
    <3>1. CASE t = c
      <4>1. PICK m : m = [github[t] EXCEPT !.shared = FALSE]
        OBVIOUS
      <4>2. m \in MintRow /\ m.key = github[t].key /\ m.now = github[t].now /\ ~ m.shared
        BY <2>1, <4>1 DEF MintRow
      <4> QED
        BY <1>4, <3>1, <4>1, <4>2
    <3>2. CASE t # c
      BY <1>4, <2>1, <3>2
    <3> QED
      BY <3>1, <3>2
  <2>3. github' \in [1..n -> MintRow]
    BY <1>4, <2>2
  <2>4. github' \in Seq(MintRow) /\ Len(github') = n
    BY <1>3, <2>3, Remarked
  <2> QED
    BY <2>2, <2>4
<1>9. /\ cache' \in [AppKeys -> [token : 0..MaxTokens, expires : 0..(MaxTime + CacheSecs)]]
      /\ cache'[k] = Tokens!NoEntry /\ \A j \in AppKeys : j # k => cache'[j] = cache[j]
  BY <1>3, <1>4, <1>6 DEF TokensInv, Tables
<1>10. /\ session' \in [Dispatches -> SessionRow] /\ session'[d] = row
       /\ \A e \in Dispatches : e # d => session'[e] = session[e] /\ session[e].pc \notin Minting
  BY <1>3, <1>4, <1>7, MintingAlone DEF TokensInv, Tables
<1>11. Tables' /\ LockHeld' /\ MintedLater'
  <2>1. \A e \in Dispatches : session'[e].pc \notin Minting
    BY <1>7, <1>10 DEF Minting
  <2> QED
    BY <1>3, <1>4, <1>8, <1>9, <1>10, <2>1 DEF TokensInv, Tables, LockHeld, MintedLater, Minting
<1>12. Sessions'
  <2>1. RowOK(row)'
    BY <1>1, <1>3, <1>6, <1>7, <1>8, <1>9 DEF RowOK, Allowance
  <2>2. ASSUME NEW e \in Dispatches, e # d
        PROVE  RowOK(session[e])'
    <3>1. RowOK(session[e]) /\ session[e].pc \notin Minting /\ session[e] \in SessionRow
      BY <1>10, <2>2 DEF TokensInv, Sessions, Tables
    <3> QED
      <4>1. PICK q : q = session[e]
        OBVIOUS
      <4>2. q.again /\ q.pc = "want" => cache'[q.key].token = 0 \/ cache'[q.key].token > q.since
        BY <1>6, <1>9, <3>1, <4>1 DEF RowOK
      <4>3. RowOK(q)'
        BY <1>1, <1>8, <3>1, <4>1, <4>2, RowStays
      <4> QED
        BY <1>10, <2>2, <4>1, <4>3
  <2> QED
    BY <1>10, <2>1, <2>2 DEF Sessions
<1>13. Entries'
  BY <1>1, <1>6, <1>8, <1>9 DEF TokensInv, Entries
<1>14. CachedLast'
  <2>1. ASSUME NEW t \in 1..n, github'[t].shared,
               \A u \in (t + 1)..n : github'[u].key # github'[t].key
        PROVE  /\ cache'[github'[t].key].token = t
               /\ cache'[github'[t].key].expires = github'[t].now + CacheSecs
    <3>1. t # c /\ github[t].shared
      BY <1>8, <2>1
    <3>2. \A u \in (t + 1)..Len(github) : github[u].key # github[t].key
      BY <1>1, <1>3, <1>8, <2>1
    <3>3. /\ cache[github[t].key].token = t
          /\ cache[github[t].key].expires = github[t].now + CacheSecs
      BY <1>1, <3>1, <3>2 DEF TokensInv, CachedLast
    <3>4. github[t].key # k /\ github[t].key \in AppKeys
      <4>1. github[t] \in MintRow
        BY <1>1, <1>3
      <4> QED
        BY <1>1, <3>1, <3>3, <4>1 DEF MintRow
    <3> QED
      BY <1>8, <1>9, <3>3, <3>4
  <2> QED
    BY <1>8, <2>1 DEF CachedLast
<1>15. Tokens!MintsShared'
  <2>1. ASSUME NEW t \in 1..n, NEW u \in 1..n, t < u, github'[u].key = github'[t].key,
               \A v \in (t + 1)..(u - 1) : github'[v].key # github'[t].key, github'[t].shared
        PROVE  github'[u].now >= github'[t].now + CacheSecs
    <3>1. github[t].shared
      BY <1>8, <2>1
    <3>2. \A v \in (t + 1)..(u - 1) : github[v].key # github[t].key
      BY <1>3, <1>8, <2>1
    <3>3. github[u].now >= github[t].now + CacheSecs
      <4>1. github[u].key = github[t].key /\ DOMAIN github = 1..n
        BY <1>1, <1>3, <1>8, <2>1
      <4> QED
        BY <2>1, <3>1, <3>2, <4>1 DEF TokensInv, Tokens!MintsShared
    <3> QED
      BY <1>8, <3>3
  <2> QED
    BY <1>8, <2>1 DEF Tokens!MintsShared
<1> QED
  BY <1>11, <1>12, <1>13, <1>14, <1>15 DEF TokensInv

\* The inductive invariant holds in every state.
LEMMA TokensAlways ==
  ASSUME Tokens!ConstantsOK
  PROVE  Tokens!Spec => []TokensInv
<1>1. TokensInv /\ [Tokens!Next]_(Tokens!vars) => TokensInv'
  <2> SUFFICES ASSUME TokensInv, [Tokens!Next]_(Tokens!vars)
               PROVE  TokensInv'
    OBVIOUS
  <2>1. CASE \E d \in Dispatches : \/ \E k \in AppKeys : Tokens!Begin(d, k)
                                   \/ Tokens!Locking(d) \/ Tokens!GithubMints(d) \/ Tokens!Answered(d) \/ Tokens!HandlerDropped(d)
    BY <2>1, DispatchKeeps, MintKeeps, StoreKeeps, DropKeeps DEF Tokens!Locking, Tokens!Answered
  <2>2. CASE (\E t \in Tokens!Tokens : Tokens!Reject(t)) \/ Tokens!Tick \/ UNCHANGED Tokens!vars
    <3>1. /\ session' = session /\ cache' = cache /\ github' = github /\ lock' = lock
          /\ rejected' \subseteq Tokens!Tokens /\ clock' \in 0..MaxTime
      BY <2>2 DEF Tokens!Reject, Tokens!Tick, Tokens!vars, TokensInv, Tables, Tokens!ConstantsOK
    <3>2. Tables' /\ Sessions' /\ LockHeld' /\ MintedLater'
      BY <3>1 DEF TokensInv, Tables, Sessions, RowOK, LockHeld, MintedLater
    <3>3. Entries' /\ CachedLast' /\ Tokens!MintsShared'
      BY <3>1 DEF TokensInv, Entries, CachedLast, Tokens!MintsShared
    <3> QED
      BY <3>2, <3>3 DEF TokensInv
  <2> QED
    BY <2>1, <2>2 DEF Tokens!Next
<1> QED
  BY <1>1, TokensInitial, PTL DEF Tokens!Spec

\* For any number of dispatches, keys and tokens: the post after a 401 carries a token that
\* was minted after it, a dispatch posts with tokens of its own App and target, and a second
\* token is minted for a key only when the first was dropped, lost with its dispatch or past
\* its cached expiry, however handlers are dropped and tokens rejected in between
\* (InstallationTokens::token_for, post_with_refresh).
THEOREM TokensAreSound == Tokens!ConstantsOK => (Tokens!Spec => []Tokens!TokensSound)
<1> SUFFICES ASSUME Tokens!ConstantsOK
             PROVE  Tokens!Spec => []Tokens!TokensSound
  OBVIOUS
<1> QED
  BY TokensAlways, TokensImplied, PTL

\* However GitHub rejects tokens, a dispatch asks for three at most: one up front and one
\* for each of its two posts (post_with_refresh).
THEOREM MintsAreBounded ==
  Tokens!ConstantsOK => (Tokens!Spec => [](\A d \in Dispatches : session[d].mints <= 3))
<1> SUFFICES ASSUME Tokens!ConstantsOK
             PROVE  Tokens!Spec => [](\A d \in Dispatches : session[d].mints <= 3)
  OBVIOUS
<1>1. TokensInv => \A d \in Dispatches : session[d].mints <= 3
  <2> SUFFICES ASSUME TokensInv, NEW d \in Dispatches
               PROVE  session[d].mints <= 3
    OBVIOUS
  <2>1. session[d] \in SessionRow
    BY DEF TokensInv, Tables
  <2>2. session[d].mints \in 0..3
    BY <2>1 DEF SessionRow
  <2> QED
    BY <2>2
<1> QED
  BY <1>1, TokensAlways, PTL

(***************************************************************************)
(* The components together                                                  *)
(***************************************************************************)
\* A step of the queue's modules is a step of each of them or leaves it alone.
LEMMA QueueStep ==
  ASSUME [RunNext \/ Rest]_runVars
  PROVE  /\ [Poll!Next]_(Poll!vars) /\ [Enrol!Next]_(Enrol!vars) /\ [Tokens!Next]_(Tokens!vars)
         /\ part' = part
<1>1. CASE UNCHANGED runVars
  BY <1>1 DEF runVars, pollVars, enrolmentVars, tokensVars, Poll!vars, Enrol!vars, Tokens!vars
<1>2. ASSUME NEW p \in {"leases", "recovery", "settings", "poll", "enrolment", "tokens"}, Others(p)
      PROVE  /\ p # "poll" => UNCHANGED Poll!vars
             /\ p # "enrolment" => UNCHANGED Enrol!vars
             /\ p # "tokens" => UNCHANGED Tokens!vars
             /\ part' = part
  BY <1>2 DEF Others, pollVars, enrolmentVars, tokensVars, Poll!vars, Enrol!vars, Tokens!vars
<1> QED
  BY <1>1, <1>2 DEF RunNext, Rest

\* Whichever component runs beside the others, each one's tables go through a behaviour of
\* its own specification: no route writes to another one's state.
THEOREM QueueComposes ==
  RunSpec => Poll!Spec /\ Enrol!Spec /\ Tokens!Spec
<1>1. RunInit => Poll!Init /\ Enrol!Init /\ Tokens!Init
  BY DEF RunInit
<1>2. [RunNext \/ Rest]_runVars =>
        [Poll!Next]_(Poll!vars) /\ [Enrol!Next]_(Enrol!vars) /\ [Tokens!Next]_(Tokens!vars)
  BY QueueStep
<1> QED
  BY <1>1, <1>2, PTL DEF RunSpec, Poll!Spec, Enrol!Spec, Tokens!Spec

\* No wake-up of a lease request gets lost (routes/jobs.rs, lease), for any number of jobs
\* and workers and any limits.
THEOREM QueueWakeups == Poll!ConstantsOK => (RunSpec => []WakeupsReachClaims)
BY QueueComposes, WakeupsAreKept, PTL DEF WakeupsReachClaims

\* A revoked worker is refused, and nothing it sent before strays (auth.rs), for any number
\* of names, certificates, requests and jobs.
THEOREM QueueRevocations == Enrol!ConstantsOK => (RunSpec => []RevocationHolds)
BY QueueComposes, RevocationIsFinal, PTL DEF RevocationHolds

\* Dispatches that share the token cache post with fresh tokens of their own App
\* (reporters/github_app.rs), for any number of dispatches, keys and tokens.
THEOREM QueueTokens == Tokens!ConstantsOK => (RunSpec => []TokensSound)
BY QueueComposes, TokensAreSound, PTL DEF TokensSound

=============================================================================
