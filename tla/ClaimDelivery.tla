--------------------------- MODULE ClaimDelivery ---------------------------
(***************************************************************************)
(* Claiming work among sources some of which cannot be delivered.  A poll's  *)
(* claim is one transaction: it takes the first source, validates it, leases *)
(* it tentatively and encodes the answer; what fails is rolled back to a     *)
(* savepoint, held for good, and the next source is tried, as long as the    *)
(* poll's repairs last.  Independently the campaign tick walks the waiting   *)
(* sources in pages and holds what does not validate, so that a campaign can *)
(* finish without a worker.  Errors of the database roll a whole claim or    *)
(* tick back, and the server may restart.                                    *)
(*                                                                           *)
(* Sources are numbered in the order of the walk: single ones (queued jobs,  *)
(* intents, batches) before review units.  An ordinary survey takes several  *)
(* units at once and exists while a unit needs work.  Which source is first  *)
(* is left open; ClaimRanking models the order and Campaign the budget.      *)
(***************************************************************************)
EXTENDS Naturals, FiniteSets

CONSTANTS
  Singles, Units,       \* the sources, as numbers in walk order
  Polls,                \* long polls that may be open
  None,
  MAX_REPAIRS,          \* holds per poll
  UNITS_PER_JOB,        \* survey_units_per_job
  PAGE, TICK_REPAIRS,   \* rows inspected and holds per tick
  MaxFaults             \* bound: database errors and restarts

Sources == Singles \cup Units

ConstantsOK ==
  /\ Sources \subseteq Nat \ {0}
  /\ \A s \in Singles, u \in Units : s < u
  /\ {MAX_REPAIRS, UNITS_PER_JOB, PAGE, TICK_REPAIRS} \subseteq Nat \ {0}
  /\ MaxFaults \in Nat
  /\ None \notin Polls

\* What is wrong with a source: its stored rows do not validate, or it is so large that
\* its delivery (for units: two of them in one delivery) exceeds the answer's limit.
Conditions == {"sound", "stored", "large"}

VARIABLES
  condition,   \* of each source, fixed when it is stored
  present,     \* the sources stored so far
  rows,        \* the database: what is held and what is leased
  lock,        \* who has the immediate transaction
  draft,       \* rows as that transaction sees them, the repairs it has left,
               \* and those it made
  polls,       \* each poll's remaining repairs, 0 where no poll is open
  cursor,      \* the walk's position, process-local
  walk,        \* history: the sources that waited when the walk began
  charged,     \* history: holds committed by the open poll
  faults       \* counts errors and restarts

vars == <<condition, present, rows, lock, draft, polls, cursor, walk, charged, faults>>

Empty == [held |-> {}, taken |-> {}, left |-> 0, holds |-> 0]

Init ==
  /\ condition \in [Sources -> Conditions]
  /\ present = {}
  /\ rows = [held |-> {}, taken |-> {}]
  /\ lock = None /\ draft = Empty
  /\ polls = [p \in Polls |-> 0]
  /\ cursor = 0 /\ walk = {}
  /\ charged = [p \in Polls |-> 0]
  /\ faults = 0

Waiting(r) == present \ (r.held \cup r.taken)

Store(s) ==
  /\ lock = None
  /\ s \notin present
  /\ present' = present \cup {s}
  /\ UNCHANGED <<condition, rows, lock, draft, polls, cursor, walk, charged, faults>>

\* A leased source comes back: the attempt failed and may be retried.
Requeue(s) ==
  /\ lock = None
  /\ s \in rows.taken
  /\ rows' = [rows EXCEPT !.taken = @ \ {s}]
  /\ UNCHANGED <<condition, present, lock, draft, polls, cursor, walk, charged, faults>>

(***************************************************************************)
(* The poll and its claims                                                   *)
(***************************************************************************)
OpenPoll(p) ==
  /\ polls[p] = 0 /\ lock # p
  /\ polls' = [polls EXCEPT ![p] = MAX_REPAIRS]
  /\ charged' = [charged EXCEPT ![p] = 0]
  /\ UNCHANGED <<condition, present, rows, lock, draft, cursor, walk, faults>>

\* The poll's time is up.
ClosePoll(p) ==
  /\ polls[p] > 0 /\ lock # p
  /\ polls' = [polls EXCEPT ![p] = 0]
  /\ UNCHANGED <<condition, present, rows, lock, draft, cursor, walk, charged, faults>>

\* A look of the poll: the repairs are shared by all its looks.
Begin(p) ==
  /\ polls[p] > 0 /\ lock = None
  /\ lock' = p
  /\ draft' = [held |-> rows.held, taken |-> rows.taken, left |-> polls[p], holds |-> 0]
  /\ UNCHANGED <<condition, present, rows, polls, cursor, walk, charged, faults>>

WaitingUnits(r) == Waiting(r) \cap Units

\* The first units of the walk order that need work.
Assigned(r) ==
  {u \in WaitingUnits(r) : Cardinality({v \in WaitingUnits(r) : v < u}) < UNITS_PER_JOB}

\* What a claim may try: each single source, or the ordinary survey.
Candidates(r) ==
  {{s} : s \in Waiting(r) \cap Singles}
    \cup (IF WaitingUnits(r) = {} THEN {} ELSE {Assigned(r)})

\* Validation and the bounded encoding of the answer together.
Undeliverable(batch) ==
  \/ \E s \in batch : condition[s] = "stored"
  \/ \E s \in batch \cap Singles : condition[s] = "large"
  \/ Cardinality({u \in batch \cap Units : condition[u] = "large"}) > 1

\* Who is held for a failure: the source itself; of a survey the unit that does not
\* validate, or, when only the whole is too large, every unit that needs work.
Blame(batch) ==
  IF batch \subseteq Singles THEN {batch}
  ELSE IF \E u \in batch : condition[u] = "stored"
       THEN {{u} : u \in {v \in batch : condition[v] = "stored"}}
       ELSE {WaitingUnits(draft)}

\* The answer is encoded: the claim commits and the poll is answered.
Deliver(p, batch) ==
  /\ lock = p /\ draft.left > 0
  /\ ~ Undeliverable(batch)
  /\ rows' = [held |-> draft.held, taken |-> draft.taken \cup batch]
  /\ charged' = [charged EXCEPT ![p] = @ + draft.holds]
  /\ polls' = [polls EXCEPT ![p] = 0]
  /\ lock' = None /\ draft' = Empty
  /\ UNCHANGED <<condition, present, cursor, walk, faults>>

\* Fault: the lease of the failed source is not rolled back.
HoldLeased(p, batch) ==
  /\ lock = p /\ draft.left > 0
  /\ Undeliverable(batch)
  /\ \E blamed \in Blame(batch) :
       draft' = [held |-> draft.held \cup blamed, taken |-> draft.taken \cup batch,
                 left |-> draft.left - 1, holds |-> draft.holds + 1]
  /\ UNCHANGED <<condition, present, rows, lock, polls, cursor, walk, charged, faults>>

\* The tentative lease is rolled back, the culprit held, and the loop goes on.
Hold(p, batch) ==
  /\ lock = p /\ draft.left > 0
  /\ Undeliverable(batch)
  /\ \E blamed \in Blame(batch) :
       draft' = [draft EXCEPT !.held = @ \cup blamed, !.left = @ - 1, !.holds = @ + 1]
  /\ UNCHANGED <<condition, present, rows, lock, polls, cursor, walk, charged, faults>>

\* Nothing is left to try, or no repairs are: what was held stays held.
ClaimEmpty(p) ==
  /\ lock = p
  /\ draft.left = 0 \/ Candidates(draft) = {}
  /\ rows' = [held |-> draft.held, taken |-> draft.taken]
  /\ charged' = [charged EXCEPT ![p] = @ + draft.holds]
  /\ polls' = [polls EXCEPT ![p] = draft.left]
  /\ lock' = None /\ draft' = Empty
  /\ UNCHANGED <<condition, present, cursor, walk, faults>>

\* An error of the database: the transaction is undone and the poll answered with it.
ClaimFails(p) ==
  /\ lock = p
  /\ faults < MaxFaults
  /\ faults' = faults + 1
  /\ polls' = [polls EXCEPT ![p] = 0]
  /\ lock' = None /\ draft' = Empty
  /\ UNCHANGED <<condition, present, rows, cursor, walk, charged>>

(***************************************************************************)
(* The walk                                                                  *)
(***************************************************************************)
Rows(from) == {s \in Waiting(rows) : s > from}
Page(from) == {s \in Rows(from) : Cardinality({t \in Rows(from) : t < s}) < PAGE}
Sick(set) == {s \in set : condition[s] = "stored"}

\* The rows of a page up to the one that uses up the repairs.
Inspected(page) ==
  {s \in page : Cardinality({t \in Sick(page) : t < s}) < TICK_REPAIRS}

Complete(page) == Cardinality(page) < PAGE /\ Cardinality(Sick(page)) < TICK_REPAIRS

Last(set) == CHOOSE s \in set : \A t \in set : t <= s

\* Fault: the walk goes on behind the page it did not finish.
NextAfterPage(page) == IF Complete(page) THEN 0 ELSE Last(page)

\* Where the next tick goes on: at the start again once a walk is complete.
NextCursor(page) == IF Complete(page) THEN 0 ELSE Last(Inspected(page))

\* One tick: a page is inspected, what does not validate is held, and only the commit
\* publishes the new position.
Tick ==
  LET page == Page(cursor)
  IN  /\ lock = None
      /\ rows' = [rows EXCEPT !.held = @ \cup Sick(Inspected(page))]
      /\ cursor' = NextCursor(page)
      /\ walk' = IF cursor = 0 THEN Waiting(rows) ELSE walk
      /\ UNCHANGED <<condition, present, lock, draft, polls, charged, faults>>

\* The process dies: transactions, polls and the walk's position are gone.
Restart ==
  /\ faults < MaxFaults
  /\ faults' = faults + 1
  /\ lock' = None /\ draft' = Empty
  /\ polls' = [p \in Polls |-> 0]
  /\ cursor' = 0
  /\ UNCHANGED <<condition, present, rows, walk, charged>>

Claim(p) ==
  \/ \E batch \in Candidates(draft) : Deliver(p, batch) \/ Hold(p, batch)
  \/ ClaimEmpty(p)

Next ==
  \/ \E s \in Sources : Store(s) \/ Requeue(s)
  \/ \E p \in Polls : OpenPoll(p) \/ ClosePoll(p) \/ Begin(p) \/ Claim(p) \/ ClaimFails(p)
  \/ Tick
  \/ Restart

Spec == Init /\ [][Next]_vars

\* The background task ticks, however often claims have the database first, and a claim
\* that has begun goes on.
TickSpec == Spec /\ SF_vars(Tick) /\ \A p \in Polls : WF_vars(Claim(p))

\* Besides, some worker keeps polling and gets the database in the end.
FairSpec == TickSpec /\ \A p \in Polls : WF_vars(OpenPoll(p)) /\ SF_vars(Begin(p))

(***************************************************************************)
(* Properties                                                                *)
(***************************************************************************)
TypeOK ==
  /\ condition \in [Sources -> Conditions]
  /\ present \subseteq Sources
  /\ rows.held \subseteq present /\ rows.taken \subseteq present
  /\ lock \in Polls \cup {None}
  /\ draft.held \subseteq present /\ draft.taken \subseteq present
  /\ draft.left \in 0 .. MAX_REPAIRS
  /\ polls \in [Polls -> 0 .. MAX_REPAIRS]
  /\ cursor \in Sources \cup {0}
  /\ walk \subseteq Sources

\* However many sources of a claim fail and are rolled back, what ends up leased is what a
\* worker got in full: nothing that does not validate and nothing that was held
\* (admission_claim.rs, claim_in_transaction: the savepoint of each candidate).
LeasedIsDelivered ==
  /\ rows.taken \cap rows.held = {}
  /\ \A s \in rows.taken : condition[s] # "stored"
  /\ \A s \in rows.taken \cap Singles : condition[s] = "sound"

\* A failure is charged to its cause: no sound single source is ever held, and a unit
\* that validates is held only with a survey that was too large as a whole
\* (admission_claim.rs, claim_in_transaction: Failure::Unit).
BlameIsExact ==
  /\ \A s \in rows.held \cap Singles : condition[s] # "sound"
  /\ (\E u \in rows.held \cap Units : condition[u] # "stored") =>
       Cardinality({u \in rows.held \cap Units : condition[u] = "large"}) > 1

\* One long poll never holds more than its repairs, however often it looks
\* (routes/jobs.rs, lease: "repairs are shared by the entire long poll").
RepairsBounded == \A p \in Polls : charged[p] <= MAX_REPAIRS

\* What one step keeps of WalkIsThorough.
WalkIsThoroughStep ==
  (Tick /\ cursor' = 0) => Sick(walk' \cap Waiting(rows')) = {}

\* When a walk is complete, everything that waited when it began and still waits
\* validates: only then may the tick call the campaign complete (validation.rs,
\* maintain_campaign; campaign_workflow.rs, advance).
WalkIsThorough == [][WalkIsThoroughStep]_vars

\* A stored source that does not validate is found and held although no worker ever
\* polls, and although restarts forget the walk's position.
SickAreHeld == \A s \in Sources : (s \in present /\ condition[s] = "stored") ~> (s \in rows.held)

\* What a worker could be given as it is: Undeliverable says no of nothing in it.
Deliverable == {s \in present \ rows.held : ~ Undeliverable({s})}

\* Sources that cannot be delivered do not keep the others from the workers: while
\* something deliverable is stored and workers poll, something is delivered, or it was
\* held with a survey that was too large as a whole (admission_claim.rs,
\* claim_with_delivery).
SoundWorkGetsOut == (Deliverable # {}) ~> (rows.taken # {} \/ Deliverable = {})
=============================================================================
