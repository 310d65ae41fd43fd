----------------------------- MODULE WorkerJob -----------------------------
(***************************************************************************)
(* Worker processes run a leased job against the server (loupe-worker,     *)
(* runner.rs and client.rs) over a network that loses, delays and delivers *)
(* late: a request whose client gave up may still reach the server.        *)
(*                                                                         *)
(* The server's side is one job with its lease; every lease is an attempt  *)
(* with a capability of its own.  Time is the number of clock ticks a lease *)
(* has left.  "Deliver" is the job's output, whether a batch of findings,  *)
(* a verdict or the host verdict of an unavailable revision.               *)
(***************************************************************************)
EXTENDS Integers, FiniteSets

CONSTANTS
    Workers,      \* worker processes, each runs one lease at a time
    MaxAttempts,  \* leases of the job before the reaper gives it up
    LeaseTime     \* ticks a lease lasts without a heartbeat

ASSUME BoundsAssumption == MaxAttempts \in Nat \ {0} /\ LeaseTime \in Nat

VARIABLES
    job,          \* [state, attempt, left]: the server's row
    by,           \* history: the attempt whose completion decided the job
    owner,        \* attempt -> the worker it was leased to
    net,          \* requests on their way: [kind, attempt]
    pc, att,      \* where each runner stands and the attempt it holds
    ok,           \* the outcome execute() returned
    reply,        \* what the server answered to the request waited for
    stopping,     \* the worker's own cancellation token
    quarantined,  \* attempts whose JobSecurity flag is set
    accepted,     \* attempts whose output the server stored
    owed,         \* history: attempts that produced an output
    cut,          \* history: attempts whose scanner ran into a cancellation
    early         \* history: attempts quarantined before success was claimed

server  == <<job, by, owner, accepted>>
worker  == <<pc, att, ok, reply, stopping, quarantined>>
history == <<owed, cut, early>>
vars == <<server, net, worker, history>>

Attempts == 1..MaxAttempts
Kinds == {"beat", "output", "succeeded", "failed"}
Waiting == {"output", "succeeded", "failed"}
Decided == {"succeeded", "failed"}

\* The type invariant; an attempt exists once it was leased to somebody.
TypeOK ==
    /\ job \in [state : {"queued", "leased"} \cup Decided,
                attempt : 0..MaxAttempts, left : -1..LeaseTime]
    /\ by \in 0..job.attempt
    /\ owner \in [1..job.attempt -> Workers]
    /\ net \subseteq [kind : Kinds, attempt : 1..job.attempt]
    /\ pc \in [Workers -> {"idle", "poll", "prepare", "run", "join", "claim"} \cup Waiting]
    /\ att \in [Workers -> 0..job.attempt]
    /\ ok \in [Workers -> BOOLEAN] /\ stopping \in [Workers -> BOOLEAN]
    /\ reply \in [Workers -> {"none", "ok", "refused"}]
    /\ {quarantined, accepted, owed, cut, early} \subseteq SUBSET (1..job.attempt)

Init ==
    /\ job = [state |-> "queued", attempt |-> 0, left |-> -1]
    /\ by = 0 /\ owner = <<>> /\ net = {} /\ accepted = {}
    /\ pc = [w \in Workers |-> "idle"] /\ att = [w \in Workers |-> 0]
    /\ ok = [w \in Workers |-> FALSE] /\ reply = [w \in Workers |-> "none"]
    /\ stopping = [w \in Workers |-> FALSE]
    /\ quarantined = {} /\ owed = {} /\ cut = {} /\ early = {}

Quarantined(w) == att[w] \in quarantined

FaultCancelled(w) == Quarantined(w)

\* execution_cancel: a child of the worker's token, which a task of the lease
\* also cancels when the job is quarantined.
Cancelled(w) == stopping[w] \/ Quarantined(w)

Go(w, place) == pc' = [pc EXCEPT ![w] = place]

\* A request leaves; its answer is awaited where pc says so.
Send(w, kind) ==
    /\ net' = net \cup {[kind |-> kind, attempt |-> att[w]]}
    /\ Go(w, kind)
    /\ reply' = [reply EXCEPT ![w] = "none"]

-----------------------------------------------------------------------------
(* step() and execute().                                                   *)

\* run_forever asks for work while its token is not cancelled; the poll
\* itself does not look at the token again.
Poll(w) ==
    /\ pc[w] = "idle" /\ ~stopping[w]
    /\ Go(w, "poll")
    /\ UNCHANGED <<server, net, att, ok, reply, stopping, quarantined, history>>

\* The poll ends empty or in an error.
PollEmpty(w) ==
    /\ pc[w] = "poll"
    /\ Go(w, "idle")
    /\ UNCHANGED <<server, net, att, ok, reply, stopping, quarantined, history>>

\* The server leases the job; the answer may be lost on its way back.
Lease(w) ==
    LET a == job.attempt + 1
    IN /\ pc[w] = "poll" /\ job.state = "queued"
       /\ job' = [state |-> "leased", attempt |-> a, left |-> LeaseTime]
       /\ owner' = [i \in 1..a |-> IF i = a THEN w ELSE owner[i]]
       /\ \/ Go(w, "prepare") /\ att' = [att EXCEPT ![w] = a]
          \/ Go(w, "idle") /\ UNCHANGED att
       /\ UNCHANGED <<by, accepted, net, ok, reply, stopping, quarantined, history>>

\* execute() up to the scanner: a worker that is stopping, a failed fetch or
\* checkout ends it, an unavailable revision is the verdict of the host.
Prepare(w) ==
    /\ pc[w] = "prepare"
    /\ \/ Go(w, "join") /\ ok' = [ok EXCEPT ![w] = FALSE] /\ UNCHANGED <<net, reply, owed>>
       \/ ~Cancelled(w) /\ Go(w, "run") /\ UNCHANGED <<net, ok, reply, owed>>
       \/ /\ ~Cancelled(w) /\ Send(w, "output")
          /\ owed' = owed \cup {att[w]} /\ UNCHANGED ok
    /\ UNCHANGED <<server, att, stopping, quarantined, cut, early>>

\* The scanner returns; a cancelled one may return what it has so far.  Then
\* the token and the flag are read, and the output is submitted.
Scanned(w) ==
    /\ pc[w] = "run"
    /\ cut' = IF stopping[w] \/ Quarantined(w) THEN cut \cup {att[w]} ELSE cut
    /\ \/ Go(w, "join") /\ ok' = [ok EXCEPT ![w] = FALSE] /\ UNCHANGED <<net, reply, owed>>
       \/ /\ ~Cancelled(w) /\ Go(w, "join")
          /\ ok' = [ok EXCEPT ![w] = TRUE] /\ UNCHANGED <<net, reply, owed>>
       \/ /\ ~Cancelled(w) /\ Send(w, "output")
          /\ owed' = owed \cup {att[w]} /\ UNCHANGED ok
    /\ UNCHANGED <<server, att, stopping, quarantined, early>>

\* The submission was stored, or was refused, timed out or quarantined.
OutputDone(w) ==
    /\ pc[w] = "output" /\ Go(w, "join")
    /\ \/ ok' = [ok EXCEPT ![w] = FALSE]
       \/ reply[w] = "ok" /\ ~Quarantined(w) /\ ok' = [ok EXCEPT ![w] = TRUE]
    /\ UNCHANGED <<server, net, att, reply, stopping, quarantined, history>>

\* run_lease stops and joins the heartbeat, then decides what to report.
Join(w) ==
    /\ pc[w] = "join"
    /\ IF ok[w] /\ ~Cancelled(w)
       THEN Go(w, "claim") /\ UNCHANGED <<net, reply>>
       ELSE Send(w, "failed")
    /\ ok' = [ok EXCEPT ![w] = FALSE]
    /\ UNCHANGED <<server, att, stopping, quarantined, history>>

\* security.run admits the success once more before it is sent.
Claim(w) ==
    /\ pc[w] = "claim"
    /\ Send(w, IF Quarantined(w) THEN "failed" ELSE "succeeded")
    /\ UNCHANGED <<server, att, ok, stopping, quarantined, history>>

\* The answer to the success, a timeout or a refusal.  A job quarantined in
\* between is failed after all, any other error leaves the lease to expire.
Claimed(w) ==
    /\ pc[w] = "succeeded"
    /\ IF Quarantined(w)
       THEN Send(w, "failed")
       ELSE Go(w, "idle") /\ UNCHANGED net /\ reply' = [reply EXCEPT ![w] = "none"]
    /\ UNCHANGED <<server, att, ok, stopping, quarantined, history>>

\* complete_failed: whatever the answer, the runner goes on.
GaveUp(w) ==
    /\ pc[w] = "failed" /\ Go(w, "idle")
    /\ reply' = [reply EXCEPT ![w] = "none"]
    /\ UNCHANGED <<server, net, att, ok, stopping, quarantined, history>>

\* The heartbeat task lives from the lease to the join.
Beating(w) == pc[w] \in {"prepare", "run", "output"}

\* One heartbeat; a refusal or an error is only logged.
Heartbeat(w) ==
    /\ Beating(w)
    /\ net' = net \cup {[kind |-> "beat", attempt |-> att[w]]}
    /\ UNCHANGED <<server, worker, history>>

\* A broker of the job observes a watched value.
Hit(w) ==
    /\ pc[w] \in {"prepare", "run", "join", "claim"} \cup Waiting
    /\ quarantined' = quarantined \cup {att[w]}
    /\ early' = IF pc[w] \in {"prepare", "run", "output", "join", "claim"}
                THEN early \cup {att[w]} ELSE early
    /\ UNCHANGED <<server, net, pc, att, ok, reply, stopping, owed, cut>>

\* The process is told to stop.
Stop(w) ==
    /\ ~stopping[w]
    /\ stopping' = [stopping EXCEPT ![w] = TRUE]
    /\ UNCHANGED <<server, net, pc, att, ok, reply, quarantined, history>>

\* The process dies, or has stopped, and is started again.
Restart(w) ==
    /\ pc' = [pc EXCEPT ![w] = "idle"] /\ att' = [att EXCEPT ![w] = 0]
    /\ stopping' = [stopping EXCEPT ![w] = FALSE]
    /\ reply' = [reply EXCEPT ![w] = "none"] /\ ok' = [ok EXCEPT ![w] = FALSE]
    /\ UNCHANGED <<server, net, quarantined, history>>

-----------------------------------------------------------------------------
(* The server's handlers and the reaper.                                   *)

\* The capability names the attempt that holds a live lease.
Authorised(a) ==
    /\ job.state = "leased" /\ job.attempt = a
    /\ job.left >= 0

\* A request arrives.  Its sender gets the answer if it still waits for it
\* and the network brings it back.
Arrive(m) ==
    LET w == owner[m.attempt]
        answer == IF Authorised(m.attempt) THEN "ok" ELSE "refused"
    IN /\ m \in net /\ net' = net \ {m}
       /\ \/ UNCHANGED reply
          \/ /\ att[w] = m.attempt /\ pc[w] = m.kind
             /\ reply' = [reply EXCEPT ![w] = answer]
       /\ IF ~Authorised(m.attempt)
          THEN UNCHANGED <<job, by, accepted>>
          ELSE /\ job' = CASE m.kind = "beat" -> [job EXCEPT !.left = LeaseTime]
                           [] m.kind = "output" -> job
                           [] OTHER -> [job EXCEPT !.state = m.kind, !.left = -1]
               /\ by' = IF m.kind \in Decided THEN m.attempt ELSE by
               /\ accepted' = IF m.kind = "output" THEN accepted \cup {m.attempt}
                                                   ELSE accepted
       /\ UNCHANGED <<owner, pc, att, ok, stopping, quarantined, history>>

\* A tick of the server's clock.
Tick ==
    /\ job.state = "leased" /\ job.left >= 0
    /\ job' = [job EXCEPT !.left = @ - 1]
    /\ UNCHANGED <<by, owner, accepted, net, worker, history>>

\* The reaper requeues an expired job, or fails it after its last attempt.
Reap ==
    /\ job.state = "leased" /\ job.left < 0
    /\ job' = [job EXCEPT !.state = IF job.attempt < MaxAttempts
                                    THEN "queued" ELSE "failed"]
    /\ UNCHANGED <<by, owner, accepted, net, worker, history>>

-----------------------------------------------------------------------------
Progress(w) ==
    \/ PollEmpty(w) \/ Prepare(w) \/ Scanned(w) \/ OutputDone(w) \/ Join(w)
    \/ Claim(w) \/ Claimed(w) \/ GaveUp(w)

Next ==
    \/ \E w \in Workers : \/ Progress(w) \/ Poll(w) \/ Lease(w) \/ Heartbeat(w)
                          \/ Hit(w) \/ Stop(w) \/ Restart(w)
    \/ \E m \in net : Arrive(m)
    \/ Tick \/ Reap

Spec == Init /\ [][Next]_vars

\* Requests and scanners have deadlines, so a runner keeps moving; the clock
\* and the reaper run.  No request is ever owed a delivery.
FairSpec ==
    /\ Spec /\ WF_vars(Tick) /\ WF_vars(Reap)
    /\ \A w \in Workers : WF_vars(Progress(w))

-----------------------------------------------------------------------------
\* A job is decided by the attempt that holds it: late requests of an attempt
\* whose lease was reaped decide nothing (job capability of each request).
DecidedByHolder == by # 0 => by = job.attempt /\ job.state \in Decided

\* A job recorded as succeeded had its output stored under the same attempt,
\* through lost answers, late requests and retries by other workers.
SucceededIsStored ==
    job.state = "succeeded" => (by \in owed => by \in accepted)

\* An attempt whose scanner was cut short is never recorded as succeeded.
CutNeverSucceeds == job.state = "succeeded" => by \notin cut

\* An attempt quarantined before its success was claimed never succeeds.
QuarantinedNeverSucceeds == job.state = "succeeded" => by \notin early

\* Over a network that loses and delays messages, a job is decided by its holder, and a
\* success means stored output of a run that nobody cut short or quarantined (runner.rs).
ResultsSound ==
  /\ TypeOK /\ DecidedByHolder /\ SucceededIsStored /\ CutNeverSucceeds
  /\ QuarantinedNeverSucceeds

\* A lease ends: by a result, or by expiring once its heartbeat has stopped,
\* also when the completion is lost and the worker goes on with other work.
LeaseEnds == job.state = "leased" ~> job.state # "leased"
=============================================================================
